CONSTANTS
    MaxLosses = 0
    MaxRestarts = 0
SPECIFICATION LiveSpec
PROPERTIES ClearTakesEffect
