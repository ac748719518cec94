CONSTANTS
    s1 = s1
    s2 = s2
    btc = btc
    eth = eth
    cdc = cdc
    NoFamily = NoFamily
    NoStrategy = NoStrategy
    Strategies = {s1, s2}
    Coins = {btc}
    CoinOf <- OneCoin
    FamilyOf <- NoFamilies
    AllowMultiCoin = TRUE
    OrderLots = 1
    ExposureCap = 0
    MaxPos = 2
    MaxLies = 1
    MaxRequests = 0
    Faults = {"hand", "outcome", "risk"}
SPECIFICATION LiveSpec
PROPERTIES FlipEndsOnRow BackedRowsStayOpen CountedPassLeavesNoOrphan OrphanRowsClosed
