SPECIFICATION MCSpec
CONSTANTS
    c1 = c1
    f1 = f1
    None = None
    Cleanup = Cleanup
    NoCharacter = NoCharacter
    Events <- MCEvents
    Prio <- MCPrio
    Blocking <- MCEvents
    OwnContext <- MCEvents
    Answered <- MCAnswered
    MayExpire <- MCMayExpire
    LateReader = {}
    Recurring = {}
    Traffics <- MCTraffics
    MayStop = TRUE
    MayDrain = FALSE
    MayGiveUp = TRUE
    Packets = {p1}
    Timers = {t1}
    Fanouts = {f1}
    Characters = {c1}
    MaxGeneration = 3
    QueueSize = 1
    CallbackQueueSize = 2
    HighBurst = 1
    MediumBurst = 1
    Orphaning <- MCTraffics
INVARIANTS TimerOnItsCharacter CleanupExclusive
PROPERTIES ShutdownEnds
CHECK_DEADLOCK FALSE
