CONSTANTS
    Limit = 1
    MaxTrades = 3
    MaxDays = 1
    Users = {s1, s2}
    Levels = {1, 2}
    Default = 1
    MaxChanges = 2
    Feeds = {s1, s2}
    Threshold = 2
    MaxClock = 4
    Names = {s1, s2}
    WideBand = 2
    MaxDrops = 2
    AtOnce = 2
    PageCap = 3
    PollPages = 2
    Lookback = 1
    Overlap = 1
    MaxTime = 2
SPECIFICATION LiveSpec
INVARIANTS TypeOK CapGatesOpens OpensAtTarget OneAlertPerWindow OneAlertPerLevel NoHole
PROPERTIES IsLossCounter WindowSpansOutage OperatorHasLastWord CriticalWithTheWideBand SpamIsStopped UnsentArrives AllStored
CHECK_DEADLOCK FALSE
