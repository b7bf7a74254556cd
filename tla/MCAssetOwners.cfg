SPECIFICATION MCSpec
CONSTANTS
    ann = ann
    bob = bob
    potion = potion
    sword = sword
    stone = stone
    goods = goods
    MaxCommands = 3
    Slots <- SlotsVal
    PageOf <- PageOfVal
    NoPage = NoPage
    Items = {potion, sword, stone}
    Untradeable = {stone}
    FirstRow = 1
    LastRow = 1
    MaxGold = 6
    Empty = Empty
    Full = Full
    Characters = {ann, bob}
    Account = Account
    Main = Main
    Cargo = Cargo
    Vault = Vault
    CargoSlots = {0}
    VaultSlots = {0, 1}
    QuickSlots = {3}
    SharedSlots = {354}
    HomePage <- HomePageVal
    Stackable = {potion, stone}
    PrefersQuick = {potion}
    Locked = {sword}
    Worthless = {potion}
    Limit <- LimitVal
    MaxCount = 5
    SortRank <- SortRankVal
    Gold = Gold
    Price <- PriceVal
    PostageBase = 1
    PostagePerItem = 1
    Surcharge = 2
    Lifetime = 1
    SavedPageSize = 1
    Missing = Missing
    Idle = Idle
    NoExpiry = NoExpiry
    MaxTime = 2
    MaxLetters = 3
    Tiers <- TiersVal
    CreateCost = 2
    UpgradeCost <- UpgradeCostVal
    Stone = stone
    MaxStars = 2
    NotAwarding = NotAwarding
    Counts = {1, 2}
    Parts = {0, 1}
    Purses = {0, 4}
    Starts <- StartsVal
INVARIANTS TypeOK Conserves
PROPERTIES OnlyStaleSavesLose 
CHECK_DEADLOCK FALSE
