CONSTANTS
    MaxLosses = 1
    MaxRestarts = 1
SPECIFICATION Spec
INVARIANTS TypeOK OpensFollowAPass
PROPERTIES HeldWhileLost ClearedStaysCleared OneAlertPerLoss
