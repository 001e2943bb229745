SPECIFICATION FairSpec
CONSTANTS
    j1 = j1
    j2 = j2
    t1 = t1
    Jobs = {j1, j2}
    Tenants = {t1}
    TenantOf <- OneTenant
    MaxAttempts = 2
    Lease = 1
    RunTimeout = 1
    Visibility = 3
    MaxReceives = 3
    MaxConcurrency = 2
    Skew = 0
    MaxRuns = 5
    MaxFaults = 3
    MaxStrays = 1
INVARIANTS
    TypeOK
    DownloadMatches
PROPERTIES
    FinalForGood
    EventuallyFinal
CHECK_DEADLOCK FALSE
