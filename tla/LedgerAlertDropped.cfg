CONSTANTS
    r1 = r1
    r2 = r2
    quota = quota
    project = project
    user = user
    Requests = {r2}
    Cleaners = {k1}
    Counters = {quota, project, user}
    QuotaCounters = {quota}
    Rank <- MCRank
    CountersOf <- MCCountersOf
    Amount <- MCAmount
    Limit <- SoloLimit
    IntLimits = {}
    Costs = {0, 2}
    Thresholds = {80, 100}
    ResetGroups <- MCResetGroups
    MaxReserveTries = 2
    MaxFinalizeTries = 2
    MaxEpoch = 0
    MaxDirect = 0
    Faults = {}
    Crashable = {}
SPECIFICATION Spec
INVARIANTS
    AlertDelivered
CHECK_DEADLOCK FALSE
