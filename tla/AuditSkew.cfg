CONSTANTS
    i1 = i1
    i2 = i2
    Ahead = 2
    Instances = {i1, i2}
    Records = {1, 2, 3}
    At <- MCAt
    Skew <- MCSkew
    MaxAttempts = 2
    BufferSize = 2
    Verifies = FALSE
    MaxFaults = 0
SPECIFICATION Spec
INVARIANTS
    LoadedInOrder
CHECK_DEADLOCK FALSE
