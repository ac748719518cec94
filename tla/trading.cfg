CONSTANTS
    s1 = s1
    s2 = s2
    btc = btc
    eth = eth
    cdc = cdc
    NoFamily = NoFamily
    NoStrategy = NoStrategy
    Strategies = {s1, s2}
    Coins = {btc}
    CoinOf <- OneCoin
    FamilyOf <- NoFamilies
    AllowMultiCoin = TRUE
    OrderLots = 2
    ExposureCap = 3
    MaxPos = 4
    MaxLies = 0
    MaxRequests = 0
    Faults = {"short", "exchange", "crash", "db", "redis"}
SPECIFICATION Spec
INVARIANTS TypeOK NoOppositeRows ExposureWithinCap BooksMatch
PROPERTIES RestoredBeforeTrading
