CONSTANTS
    MaxLosses = 1
    MaxRestarts = 0
SPECIFICATION Spec
PROPERTIES LossNotMasked
