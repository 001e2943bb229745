SPECIFICATION Spec
CONSTANTS
    a = a
    b = b
    h1 = h1
    p = p
    u = u
    Instances = {a, b}
    Handlers = {h1}
    HostOf <- OnlyA
    RowsOf <- ProjectOnly
    Projects = {p}
    Users = {u}
    Limits = {1, 2}
    Late = {}
    Faults = {}
    MaxVersion = 2
INVARIANT LimitHotReloaded
