CONSTANTS
    r1 = r1
    r2 = r2
    quota = quota
    project = project
    user = user
    Requests = {r1, r2}
    Cleaners = {}
    Counters = {quota, project, user}
    QuotaCounters = {quota}
    Rank <- MCRank
    CountersOf <- MCCountersOf
    Amount <- MCAmount
    Limit <- TightLimit
    IntLimits = {}
    Costs = {0, 2, 3}
    Thresholds = {80, 100}
    ResetGroups <- MCResetGroups
    MaxReserveTries = 2
    MaxFinalizeTries = 2
    MaxEpoch = 2
    MaxDirect = 0
    Faults = {}
    Crashable = {}
SPECIFICATION Spec
INVARIANTS
    BudgetBound
    Conservation
CHECK_DEADLOCK FALSE
