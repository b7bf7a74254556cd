\* Three characters that displace each other; two connections of one.
CONSTANTS
    ca = ca
    cb = cb
    cc = cc
    x = x
    y = y
    sa = sa
    sa2 = sa2
    sb = sb
    sc = sc
    Chars = {ca, cb, cc}
    Sessions = {sa, sa2, sb, sc}
    CharOf <- CharOfSessions
    Offline = Offline
    Items = {x}
    Untradeable = {}
    Slots = {1}
    PageOf <- OnePage
    NoPage = NoPage
    FirstRow = 1
    LastRow = 1
    InitBag <- BagsEmpty
    InitGold <- OneCoin
    Amounts = {1}
    MaxTrades = 2
    MaxGold = 1
    SellGold = 1
    MaxShopGold = 0
    Empty = Empty
    Full = Full
SPECIFICATION MCSpec
ACTION_CONSTRAINT InScene
INVARIANTS RegistrySymmetric ExchangedOnce
CHECK_DEADLOCK FALSE
