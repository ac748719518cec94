CONSTANTS
    None = None
    Orders = {o1, o2}
    Rows = {1, 2}
    SizeOf <- Lots
    MaxFills = 3
    Prices = {1, 2, 3}
    Shapes <- FiveBars
    CooldownBars = 2
    MaxBar = 3
    Bots = {b1, b2}
    Cap = 1
    Slots = {r1, r2}
    MaxSpawns = 2
    MaxSent = 3
    MaxCrashes = 1
SPECIFICATION Spec
INVARIANTS TypeOK SpentOnceUnderItsId MemoryMatchesRow CapHolds NoStrayContainer LastWordStands
PROPERTIES RatchetHolds DueExitFiresAgain CooldownKept
SYMMETRY Interchangeable
CHECK_DEADLOCK FALSE
