SPECIFICATION FairSpec
CONSTANTS
    a = a
    b = b
    h1 = h1
    p = p
    u = u
    Instances = {a, b}
    Handlers = {h1}
    HostOf <- OnlyA
    RowsOf <- ProjectOnly
    Projects = {p}
    Users = {}
    Limits = {1}
    Late = {}
    Faults = {"outage", "lost_reply"}
    MaxVersion = 2
INVARIANT KnownIsAdopted
PROPERTY EventuallyConverged
