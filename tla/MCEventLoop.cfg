SPECIFICATION EventLoopSpec
CONSTANTS
    None = None
    Prio <- MCPrio
    h1 = h1
    h2 = h2
    m1 = m1
    m2 = m2
    l1 = l1
    l2 = l2
    Events = {h1, h2, m1, m2, l1}
    Blocking = {m2, h2}
    Answered = {m1, m2, h2}
    LateReader = {m1}
    OwnContext = {m2, h2}
    MayExpire = {m2, h2}
    Recurring = {}
    Traffics = {{m1, m2, l1}, {h1, h2}}
    QueueSize = 1
    CallbackQueueSize = 1
    HighBurst = 1
    MediumBurst = 1
    MayStop = TRUE
    MayDrain = TRUE
    MayGiveUp = TRUE
    Orphaning = {{h1, h2}}
INVARIANTS Fifo OutcomeOnce Settles
CHECK_DEADLOCK FALSE
