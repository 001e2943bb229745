SPECIFICATION Spec
CONSTANTS
    a = a
    b = b
    h1 = h1
    p = p
    u = u
    Instances = {a, b}
    Handlers = {h1}
    HostOf <- OnlyA
    RowsOf <- AllRows
    Projects = {p}
    Users = {u}
    Limits = {}
    Late = {a}
    Faults = {"outage", "lost_reply"}
    MaxVersion = 2
INVARIANT ConfigReal
PROPERTY OwnWritesKept
