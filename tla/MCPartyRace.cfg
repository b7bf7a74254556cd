CONSTANTS
    a1 = a1
    a2 = a2
    b = b
    u1 = u1
    u2 = u2
    Sessions = {a1, a2, b}
    Users = {u1, u2}
    Gens <- MCGens
    MaySelect <- MCMaySelect
    MaxBinds = 4
    MaxCommands = 5
    MaxBusy = 2
    MaxMembers = 2
    MaxPartyID = 2
    Limits = {2}
    Modes = {m1}
    NoParty = NoParty
    NoMember = NoMember
    NoInvite = NoInvite
    NoSession = NoSession
    NoUser = NoUser
    NoView = NoView
SPECIFICATION MCSpec
INVARIANTS OneParty
CHECK_DEADLOCK FALSE
