CONSTANTS
    i1 = i1
    i2 = i2
    Ahead = 0
    Instances = {i1, i2}
    Records = {1, 2, 3}
    At <- MCAt
    Skew <- MCSkew
    MaxAttempts = 2
    BufferSize = 2
    Verifies = TRUE
    MaxFaults = 0
SPECIFICATION Spec
INVARIANTS
    NoFalseAlarm
CHECK_DEADLOCK FALSE
