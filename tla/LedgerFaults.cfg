CONSTANTS
    r1 = r1
    r2 = r2
    quota = quota
    project = project
    user = user
    Requests = {r2}
    Cleaners = {k1}
    Counters = {quota, project, user}
    QuotaCounters = {quota}
    Rank <- MCRank
    CountersOf <- MCCountersOf
    Amount <- MCAmount
    Limit <- MCLimit
    IntLimits = {}
    Costs = {0, 2, 3}
    Thresholds = {80, 100}
    ResetGroups <- MCResetGroups
    MaxReserveTries = 2
    MaxFinalizeTries = 2
    MaxEpoch = 2
    MaxDirect = 2
    Faults = {"raise", "lost_reply"}
    Crashable = {r2, k1}
SPECIFICATION Spec
INVARIANTS
    AnswerHonest
    Conservation
PROPERTIES
    SettledOnce
    ContractSpec
CHECK_DEADLOCK FALSE
