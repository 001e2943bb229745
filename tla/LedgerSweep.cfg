CONSTANTS
    r1 = r1
    r2 = r2
    quota = quota
    project = project
    user = user
    Requests = {r1, r2}
    Cleaners = {k1}
    Counters = {quota, project}
    QuotaCounters = {quota}
    Rank <- MCRank
    CountersOf <- MCCountersOf
    Amount <- MCAmount
    Limit <- MCLimit
    IntLimits = {}
    Costs = {0, 2, 3}
    Thresholds = {80, 100}
    ResetGroups <- MCResetGroups
    MaxReserveTries = 2
    MaxFinalizeTries = 2
    MaxEpoch = 0
    MaxDirect = 0
    Faults = {}
    Crashable = {r1, r2}
SPECIFICATION FairSpec
INVARIANTS
    AlertOnce
    NoMissedAlert
PROPERTIES
    EventuallySettled
CHECK_DEADLOCK FALSE
