CONSTANTS
    q1 = q1
    q2 = q2
    c1 = c1
    c2 = c2
    c3 = c3
    project = project
    alice = alice
    bob = bob
    Requests = {q1}
    Calls = {c1, c3}
    RequestOf <- MCRequestOf
    Interrupted = {c3}
    Reconcilers = {"r1"}
    Project = project
    Principals = {alice}
    PrincipalOf <- OnePrincipal
    Concurrency <- OneSlot
    ScanLimit <- MCScanLimit
    Reserved = 2
    Scans = {1, 3}
    Ends = {"SUCCEEDED","CANCELLED"}
    MaxWindow = 0
    MaxFaults = 2
SPECIFICATION FairSpec
INVARIANTS
    Conservation
    ScanCharged
PROPERTIES
    ContractSpec
    EventuallyClosed
CHECK_DEADLOCK FALSE
