SPECIFICATION MCSpec
CONSTANTS
    None = None
    Prio <- MCPrio
    h1 = h1
    h2 = h2
    m1 = m1
    m2 = m2
    l1 = l1
    l2 = l2
    Events = {h1, m1, l1}
    Blocking = {m1}
    Answered = {}
    LateReader = {}
    OwnContext = {}
    MayExpire = {}
    Recurring = {h1, m1}
    Traffics = {{h1, m1, l1}}
    QueueSize = 2
    CallbackQueueSize = 1
    HighBurst = 1
    MediumBurst = 1
    MayStop = TRUE
    MayDrain = TRUE
    MayGiveUp = FALSE
    Orphaning = {{h1, m1, l1}}
    TaskNames = {a, b}
    Periodic = {b}
    Period = 2
    StaleThreshold = 2
    IdleWait = 9
    Delays = {0, 2}
    MaxID = 3
    MaxTime = 3
    MaxShift = 1
    MaxSettings = 1
INVARIANT QueueSound
PROPERTIES LowServed LoopEnds TaskFires
CHECK_DEADLOCK FALSE
