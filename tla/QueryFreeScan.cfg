CONSTANTS
    q1 = q1
    q2 = q2
    c1 = c1
    c2 = c2
    c3 = c3
    project = project
    alice = alice
    bob = bob
    Requests = {q1}
    Calls = {c1}
    RequestOf <- MCRequestOf
    Interrupted = {}
    Reconcilers = {}
    Project = project
    Principals = {alice}
    PrincipalOf <- OnePrincipal
    Concurrency <- OneSlot
    ScanLimit <- MCScanLimit
    Reserved = 2
    Scans = {1, 3}
    Ends = {"SUCCEEDED"}
    MaxWindow = 0
    MaxFaults = 0
SPECIFICATION Spec
INVARIANTS
    EveryScanCharged
CHECK_DEADLOCK FALSE
