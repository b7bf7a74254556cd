\* Arbitrary callers: every character with every generation, two ids that
\* wrap, lobbies whose limit can be lowered below their size.
CONSTANTS
    Users = {u1, u2, u3}
    Gens = {g1, g2}
    MaxMembers = 3
    MaxPartyID = 2
    Limits = {1, 2, 3}
    Modes = {}
    NoParty = NoParty
    NoMember = NoMember
    NoInvite = NoInvite
SPECIFICATION Spec
SYMMETRY Symmetry
INVARIANTS TypeOK LeaderAtSlotZero IndexSound SeatsConsistent
PROPERTIES SurvivorsKept
CHECK_DEADLOCK FALSE
