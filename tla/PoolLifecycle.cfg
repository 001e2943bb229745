CONSTANTS
    ra = ra
    rb = rb
    k1 = k1
    k2 = k2
    g = g
    openai = openai
    m1 = m1
    m2 = m2
    NoGroup = NoGroup
    NoLease = NoLease
    Routes = {ra, rb}
    Attempts = {a1, a2, a3}
    Providers = {openai}
    Models = {m1, m2}
    Credentials = {k1, k2}
    Groups = {g}
    Catalogs <- MCCatalogs
    AuthCooldown = 2
    ThrottleCooldown = 1
    FailureCooldown = 1
    MaxGeneration = 2
    MaxTime = 2
SPECIFICATION Spec
INVARIANTS
    TypeOK
    LeaseAccounting
    GenerationIdentity
PROPERTIES
    CapacityHeld
    LastRouteStays
SYMMETRY AttemptSymmetry
