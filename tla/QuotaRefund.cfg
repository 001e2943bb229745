CONSTANTS
    i1 = i1
    i2 = i2
    r1 = r1
    r2 = r2
    b1 = b1
    s1 = s1
    s2 = s2
    x1 = x1
    x2 = x2
    Instances = {i1, i2}
    Requests = {r1, r2}
    Bills = {}
    Probes = {s1}
    Resets = {}
    At <- MCAt
    Estimate <- MCEstimate
    Costs <- MCCosts
    BillCost = 1
    Limit = 4
    Thresholds = {3}
    MaxOpen = 2
    MaxFaults = 0
SPECIFICATION FairSpec
PROPERTIES
    EventuallyAligned
CHECK_DEADLOCK FALSE
