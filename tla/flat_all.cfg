CONSTANTS
    s1 = s1
    s2 = s2
    btc = btc
    eth = eth
    cdc = cdc
    NoFamily = NoFamily
    NoStrategy = NoStrategy
    Strategies = {s1, s2}
    Coins = {btc, eth}
    CoinOf <- OwnCoins
    FamilyOf <- OneFamily
    AllowMultiCoin = FALSE
    OrderLots = 2
    ExposureCap = 0
    MaxPos = 2
    MaxLies = 0
    MaxRequests = 2
    Faults = {"exchange", "crash", "outcome"}
SPECIFICATION Spec
INVARIANTS OneHolder NothingOpensAfterFlatAll
PROPERTIES FlatAllMeansFlat
SYMMETRY Mirrored
