CONSTANTS
    i1 = i1
    i2 = i2
    Ahead = 0
    Instances = {i1, i2}
    Records = {1, 2, 3}
    At <- MCAt
    Skew <- MCSkew
    MaxAttempts = 2
    BufferSize = 2
    Verifies = TRUE
    MaxFaults = 1
SPECIFICATION FairSpec
INVARIANTS
    OneChain
    InOrder
    BufferInOrder
    ConflictsCaused
    VerdictRight
PROPERTIES
    LogSpec
    EventuallyAnswered
CHECK_DEADLOCK FALSE
