CONSTANTS
    s1 = s1
    s2 = s2
    btc = btc
    eth = eth
    cdc = cdc
    NoFamily = NoFamily
    NoStrategy = NoStrategy
    Strategies = {s1, s2}
    Coins = {btc, eth}
    CoinOf <- OwnCoins
    FamilyOf <- NoFamilies
    AllowMultiCoin = TRUE
    OrderLots = 1
    ExposureCap = 0
    MaxPos = 1
    MaxLies = 1
    MaxRequests = 0
    Faults = {"hand"}
SPECIFICATION Spec
PROPERTIES BackedRowsStayOpen
