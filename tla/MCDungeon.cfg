SPECIFICATION MCSpec
CONSTANTS
    ann = ann
    bob = bob
    cid = cid
    Members = {ann, bob, cid}
    Roster <- RosterVal
    NoParty = NoParty
    NoRun = NoRun
    Idle = Idle
    Unchosen = Unchosen
    Seats = {0, 1}
    MaxRuns = 2
    NilRuntime = NilRuntime
    RunBound = 2
    MaxDeaths = 2
    MaxCommands = 3
INVARIANTS NoOrphanedRuntime OnlyStrayedAreLeft RewardsOnce
PROPERTIES RunsKept HandlersEnd PaidBeforeExit ReturnFollowsDeath FreeCardTurns
CHECK_DEADLOCK FALSE
