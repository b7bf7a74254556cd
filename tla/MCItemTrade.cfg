\* Two characters, one session each; stacks that are split, swapped or sold
\* while they are offered.
CONSTANTS
    ca = ca
    cb = cb
    cc = cc
    x = x
    y = y
    sa = sa
    sa2 = sa2
    sb = sb
    sc = sc
    Chars = {ca, cb}
    Sessions = {sa, sb}
    CharOf <- CharOfSessions
    Offline = Offline
    Items = {x, y}
    Untradeable = {}
    Slots = {1, 2}
    PageOf <- OnePage
    NoPage = NoPage
    FirstRow = 1
    LastRow = 1
    InitBag <- BagsXY
    InitGold <- OneCoin
    Amounts = {1, 2}
    MaxTrades = 1
    MaxGold = 1
    SellGold = 1
    MaxShopGold = 1
    Empty = Empty
    Full = Full
SPECIFICATION FairSpec
INVARIANTS ConsentHolds
PROPERTIES LedgerSpec CommitResolves
CHECK_DEADLOCK FALSE
