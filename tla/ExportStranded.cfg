SPECIFICATION FairSpec
CONSTANTS
    j1 = j1
    j2 = j2
    t1 = t1
    Jobs = {j1}
    Tenants = {t1}
    TenantOf <- OneTenant
    MaxAttempts = 3
    Lease = 3
    RunTimeout = 1
    Visibility = 7
    MaxReceives = 5
    MaxConcurrency = 2
    Skew = 1
    MaxRuns = 3
    MaxFaults = 1
    MaxStrays = 1
PROPERTIES
    EveryJobEnds
CHECK_DEADLOCK FALSE
