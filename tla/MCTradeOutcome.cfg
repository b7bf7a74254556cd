\* A disconnect during the commit.
CONSTANTS
    ca = ca
    cb = cb
    cc = cc
    x = x
    y = y
    sa = sa
    sa2 = sa2
    sb = sb
    sc = sc
    Chars = {ca, cb}
    Sessions = {sa, sb}
    CharOf <- CharOfSessions
    Offline = Offline
    Items = {x}
    Untradeable = {}
    Slots = {1}
    PageOf <- OnePage
    NoPage = NoPage
    FirstRow = 1
    LastRow = 1
    InitBag <- BagsEmpty
    InitGold <- NoCoin
    Amounts = {1}
    MaxTrades = 1
    MaxGold = 1
    SellGold = 1
    MaxShopGold = 0
    Empty = Empty
    Full = Full
SPECIFICATION Spec
INVARIANTS OneOutcome
CHECK_DEADLOCK FALSE
