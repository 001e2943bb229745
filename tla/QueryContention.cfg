CONSTANTS
    q1 = q1
    q2 = q2
    c1 = c1
    c2 = c2
    c3 = c3
    project = project
    alice = alice
    bob = bob
    Requests = {q1, q2}
    Calls = {c1, c2}
    RequestOf <- MCRequestOf
    Interrupted = {c2}
    Reconcilers = {"r1"}
    Project = project
    Principals = {alice}
    PrincipalOf <- OnePrincipal
    Concurrency <- MCConcurrency
    ScanLimit <- TightScanLimit
    Reserved = 2
    Scans = {1}
    Ends = {"SUCCEEDED"}
    MaxWindow = 1
    MaxFaults = 0
SPECIFICATION Spec
INVARIANTS
    LeaseOwnsSlots
    ScanBudget
    Conservation
CHECK_DEADLOCK FALSE
