------------------------------ MODULE RoutePool ------------------------------
(***************************************************************************)
(* The provider route pool: which credential and endpoint serves a call.   *)
(*                                                                         *)
(*   src/src/gateway/provider_routes.py         ProviderRoutePool          *)
(*   src/src/gateway/multi_provider_factory.py  the provider attempts that *)
(*     acquire a route and settle it                                       *)
(*                                                                         *)
(* Every method runs under the pool's lock and is one step.  Between two   *)
(* steps an attempt waits for its provider while other attempts finish and *)
(* the control plane replaces the catalog.                                 *)
(*                                                                         *)
(* The weighted random choice is any candidate (no weight is zero), so the *)
(* latency and error averages that only feed the weights are left out, as  *)
(* are the statistics.  A call that finds no route changes nothing and is  *)
(* left out too.                                                           *)
(***************************************************************************)
EXTENDS Integers, FiniteSets, Amounts

CONSTANTS
    Routes,             \* route ids
    Attempts,           \* provider attempts that may be under way at once
    Providers,
    Models,
    Credentials,        \* whatever else the fingerprint of a route covers
    Groups,             \* capacity groups
    NoGroup,
    NoLease,
    Catalogs,           \* the catalogs the control plane may install
    AuthCooldown,       \* 300 s in the code
    ThrottleCooldown,   \* 30 s
    FailureCooldown,    \* 20 s
    MaxGeneration,      \* bound: generations of a route
    MaxTime             \* bound: clock

\* ProviderRoute, with the fields the pool looks at.
Configs == [provider   : Providers,
            models     : SUBSET Models,          \* empty: every model
            credential : Credentials,
            group      : Groups \cup {NoGroup},
            limit      : Nat,                    \* capacity_limit, 0: none
            max        : Nat \ {0},              \* max_concurrency
            priority   : Nat,
            enabled    : BOOLEAN]

RouteLease == [route : Routes, generation : Nat \ {0}, config : Configs,
               model : Models]

ASSUME CatalogAssumption ==
    /\ Catalogs # {}
    /\ \A c \in Catalogs : /\ DOMAIN c \subseteq Routes
                           /\ c \in [DOMAIN c -> Configs]
    /\ IsFiniteSet(Attempts)
    /\ NoGroup \notin Groups
    /\ NoLease \notin RouteLease

ASSUME CooldownAssumption ==
    /\ AuthCooldown \in Nat
    /\ ThrottleCooldown \in Nat \ {0}
    /\ FailureCooldown \in Nat \ {0}
    /\ FailureCooldown <= ThrottleCooldown
    /\ ThrottleCooldown < AuthCooldown
    /\ MaxGeneration \in Nat
    /\ MaxTime \in Nat

VARIABLES
    catalog,         \* _routes
    generation,      \* _active_generations
    lastGeneration,  \* _last_generations, never forgotten
    runtime,         \* _runtime: health and load per (route, generation)
    pinned,          \* _generation_routes: configuration per (route, generation)
    held,            \* held[a]: the RouteLease attempt a holds
    now              \* the monotonic clock

vars == <<catalog, generation, lastGeneration, runtime, pinned, held, now>>

Keys == Routes \X (Nat \ {0})

RouteRuntime == [status      : {"healthy", "degraded", "failed", "recovering"},
                 inflight    : Nat,
                 consecutive : 0..2,     \* only "two or more" is looked at
                 recovery    : 0..2,     \* recovery_successes
                 cooldown    : Nat]       \* cooldown_until, 0: none

WithHealth(state, status, consecutive, recovery, cooldown) ==
    [state EXCEPT !.status = status, !.consecutive = consecutive,
                  !.recovery = recovery, !.cooldown = cooldown]

NewRuntime == [status |-> "healthy", inflight |-> 0, consecutive |-> 0,
               recovery |-> 0, cooldown |-> 0]

LeaseKey(lease) == <<lease.route, lease.generation>>

ActiveKey(r) == <<r, generation[r]>>

Retired(k) == ~(k[1] \in DOMAIN generation /\ generation[k[1]] = k[2])

\* Mutant of Fingerprint: rotating a credential goes unnoticed.
FingerprintNoCredential(config) == <<config.provider, config.models, config.group,
                                     config.limit>>

\* Everything but the load limits and the preferences of a route.
Fingerprint(config) == <<config.provider, config.models, config.credential,
                         config.group, config.limit>>

Init ==
    /\ catalog \in Catalogs
    /\ generation = [r \in DOMAIN catalog |-> 1]
    /\ lastGeneration = [r \in Routes |-> IF r \in DOMAIN catalog THEN 1 ELSE 0]
    /\ runtime = [k \in (DOMAIN catalog) \X {1} |-> NewRuntime]
    /\ pinned = [k \in (DOMAIN catalog) \X {1} |-> catalog[k[1]]]
    /\ held = [a \in Attempts |-> NoLease]
    /\ now = 0

-----------------------------------------------------------------------------
(* Eligibility.  rt is the runtime table as the method has it in hand.     *)

Configured(provider, model) ==
    {r \in DOMAIN catalog : /\ catalog[r].provider = provider
                            /\ catalog[r].enabled
                            /\ catalog[r].models = {} \/ model \in catalog[r].models}

InflightOf(rt, keys) == Total([k \in keys |-> rt[k].inflight], keys)

\* Mutant of GroupInflight: retired generations do not count.
GroupInflightActive(rt, group) ==
    InflightOf(rt, {k \in DOMAIN pinned : ~Retired(k) /\ pinned[k].group = group})

\* Every generation counts, retired ones with calls under way included.
GroupInflight(rt, group) ==
    InflightOf(rt, {k \in DOMAIN pinned : pinned[k].group = group})

IsEligible(rt, r) ==
    LET config == catalog[r]
        state == rt[ActiveKey(r)] IN
    /\ state.cooldown <= now
    /\ state.inflight < config.max
    /\ (config.group # NoGroup /\ config.limit # 0)
          => GroupInflight(rt, config.group) < config.limit

Candidates(provider, model) ==
    LET eligible == {r \in Configured(provider, model) : IsEligible(runtime, r)} IN
    {r \in eligible : \A s \in eligible : catalog[r].priority <= catalog[s].priority}

\* Mutant of HasSibling: the failing route is its own sibling.
HasSiblingOrSelf(rt, provider, model, route) ==
    \E r \in Configured(provider, model) : IsEligible(rt, r)

\* _has_available_locked, without one route.
HasSibling(rt, provider, model, route) ==
    \E r \in Configured(provider, model) \ {route} : IsEligible(rt, r)

\* A route whose cooldown has run out is probed: it is recovering from now on.
Probed(state) ==
    IF state.cooldown # 0 /\ now >= state.cooldown
    THEN WithHealth(state, "recovering", state.consecutive, 0, 0)
    ELSE state

Acquire(a, provider, model) ==
    /\ held[a] = NoLease
    /\ \E r \in Candidates(provider, model) :
         LET probed == {ActiveKey(s) : s \in Candidates(provider, model)} IN
         /\ runtime' = [k \in DOMAIN runtime |->
                          LET state == IF k \in probed THEN Probed(runtime[k])
                                       ELSE runtime[k] IN
                          IF k = ActiveKey(r)
                          THEN [state EXCEPT !.inflight = @ + 1] ELSE state]
         /\ held' = [held EXCEPT ![a] = [route |-> r, generation |-> generation[r],
                                         config |-> catalog[r], model |-> model]]
    /\ UNCHANGED <<catalog, generation, lastGeneration, pinned, now>>

-----------------------------------------------------------------------------
(* Settling a lease: exactly one of release, record_success and            *)
(* record_failure, by the finally blocks of multi_provider_factory.        *)

Released(state) ==
    [state EXCEPT !.inflight = IF @ = 0 THEN 0 ELSE @ - 1]

\* Mutant of KeptKeys: a retired generation goes with the first lease that ends.
KeptKeysEager(rt) == {k \in DOMAIN rt : ~Retired(k)}

\* _prune_runtime_key_locked and _prune_retired_locked: a retired generation is
\* forgotten when its last lease is settled.
KeptKeys(rt) == {k \in DOMAIN rt : Retired(k) => rt[k].inflight # 0}

Settle(a, state) ==
    LET key == LeaseKey(held[a])
        rt == [runtime EXCEPT ![key] = state] IN
    /\ runtime' = [k \in KeptKeys(rt) |-> rt[k]]
    /\ pinned' = [k \in KeptKeys(rt) |-> pinned[k]]
    /\ held' = [held EXCEPT ![a] = NoLease]
    /\ UNCHANGED <<catalog, generation, lastGeneration, now>>

\* The caller was cancelled.
Release(a) ==
    /\ held[a] # NoLease
    /\ Settle(a, Released(runtime[LeaseKey(held[a])]))

\* Mutants of AfterSuccess: the cooldown stays; a healthy route counts too.
AfterSuccessKeepsCooldown(state) ==
    LET recovery == IF state.status = "healthy" THEN state.recovery
                    ELSE state.recovery + 1 IN
    WithHealth(state, IF state.status # "healthy" /\ recovery < 2 THEN "recovering"
                      ELSE "healthy", 0, recovery, state.cooldown)

AfterSuccessCountsAll(state) ==
    LET recovery == state.recovery + 1 IN
    WithHealth(state, IF state.status # "healthy" /\ recovery < 2 THEN "recovering"
                      ELSE "healthy", 0, recovery, 0)

AfterSuccess(state) ==
    LET recovery == IF state.status = "healthy" THEN state.recovery
                    ELSE state.recovery + 1 IN
    WithHealth(state, IF state.status # "healthy" /\ recovery < 2 THEN "recovering"
                      ELSE "healthy", 0, recovery, 0)

RecordSuccess(a) ==
    /\ held[a] # NoLease
    /\ Settle(a, AfterSuccess(Released(runtime[LeaseKey(held[a])])))

\* What a status code says of the route.
Failures == {"request",     \* 400, 405, 409, 422: nothing
             "auth",        \* 401, 402, 403
             "missing",     \* 404
             "throttled",   \* 429
             "server",      \* 0 (transport) and 5xx
             "other"}

AfterFailure(state, failure, sibling) ==
    LET failures == IF state.consecutive = 2 THEN 2 ELSE state.consecutive + 1
        repeated == sibling /\ failures = 2 IN
    CASE failure = "request" -> state
      [] failure = "other" ->
            WithHealth(state, state.status, failures, 0, state.cooldown)
      [] failure = "auth" ->
            WithHealth(state, "failed", failures, 0, now + AuthCooldown)
      [] failure = "missing" ->
            WithHealth(state, "degraded", failures, 0,
                       IF sibling THEN now + FailureCooldown ELSE 0)
      [] failure = "throttled" ->
            WithHealth(state, "degraded", failures, 0,
                       IF sibling THEN now + ThrottleCooldown ELSE 0)
      [] failure = "server" ->
            WithHealth(state, IF repeated THEN "failed" ELSE "degraded", failures, 0,
                       IF repeated THEN now + FailureCooldown ELSE 0)

RecordFailure(a, failure) ==
    /\ held[a] # NoLease
    /\ LET lease == held[a]
           key == LeaseKey(lease)
           rt == [runtime EXCEPT ![key] = Released(@)]
           sibling == HasSibling(rt, lease.config.provider, lease.model, lease.route) IN
       Settle(a, AfterFailure(rt[key], failure, sibling))

-----------------------------------------------------------------------------
(* replace                                                                 *)

NextGeneration(r) == lastGeneration[r] + 1

Replace(routes) ==
    LET same == {r \in DOMAIN routes \cap DOMAIN catalog :
                    Fingerprint(routes[r]) = Fingerprint(catalog[r])}
        active == [r \in DOMAIN routes |->
                    IF r \in same THEN generation[r] ELSE NextGeneration(r)]
        activeKeys == {<<r, active[r]>> : r \in DOMAIN routes}
        fresh == {<<r, active[r]>> : r \in DOMAIN routes \ same}
        keys == activeKeys \cup {k \in DOMAIN runtime : runtime[k].inflight # 0} IN
    /\ \A r \in DOMAIN routes : active[r] <= MaxGeneration
    /\ catalog' = routes
    /\ generation' = active
    /\ lastGeneration' = [r \in Routes |->
                            IF r \in DOMAIN routes \ same THEN active[r]
                            ELSE lastGeneration[r]]
    /\ runtime' = [k \in keys |-> IF k \in fresh THEN NewRuntime ELSE runtime[k]]
    /\ pinned' = [k \in keys |-> IF k \in activeKeys THEN routes[k[1]] ELSE pinned[k]]
    /\ UNCHANGED <<held, now>>

Tick ==
    /\ now < MaxTime
    /\ now' = now + 1
    /\ UNCHANGED <<catalog, generation, lastGeneration, runtime, pinned, held>>

Next ==
    \/ \E a \in Attempts, p \in Providers, m \in Models : Acquire(a, p, m)
    \/ \E a \in Attempts : Release(a)
    \/ \E a \in Attempts : RecordSuccess(a)
    \/ \E a \in Attempts, f \in Failures : RecordFailure(a, f)
    \/ \E routes \in Catalogs : Replace(routes)
    \/ Tick

Spec == Init /\ [][Next]_vars

-----------------------------------------------------------------------------
(* Properties                                                              *)

\* Every table of the pool has its type.
TypeOK ==
    /\ DOMAIN catalog \subseteq Routes
    /\ catalog \in [DOMAIN catalog -> Configs]
    /\ generation \in [DOMAIN catalog -> Nat \ {0}]
    /\ lastGeneration \in [Routes -> Nat]
    /\ DOMAIN runtime \subseteq Keys
    /\ runtime \in [DOMAIN runtime -> RouteRuntime]
    /\ pinned \in [DOMAIN runtime -> Configs]
    /\ held \in [Attempts -> RouteLease \cup {NoLease}]
    /\ now \in Nat

Leasing == {a \in Attempts : held[a] # NoLease}

Leases(k) == {a \in Leasing : LeaseKey(held[a]) = k}

\* The in-flight counts are the leases: whatever is replaced, rotated, removed
\* and installed again while calls are under way, no lease loses its counter and
\* no count outlives its leases.  The tables hold the installed generations and
\* the retired ones that still have leases, and nothing else.
LeaseAccounting ==
    /\ \A k \in DOMAIN runtime : runtime[k].inflight = Cardinality(Leases(k))
    /\ DOMAIN runtime = {ActiveKey(r) : r \in DOMAIN catalog}
                           \cup {LeaseKey(held[a]) : a \in Leasing}

\* A generation names one configuration for ever: the outcome of a call is booked
\* on the credential and endpoint it was made with, also when the route id was
\* removed and installed again with another credential meanwhile.
GenerationIdentity ==
    \A a \in Leasing :
        LET booked == pinned[LeaseKey(held[a])] IN
        /\ booked.provider = held[a].config.provider
        /\ booked.credential = held[a].config.credential
        /\ booked.group = held[a].config.group

\* A status and the cooldown that goes with it: a failed route always has a time
\* to come back, a healthy or recovering one is never held back, and no route
\* with two successes since its last failure is still on probation.
HealthCoherent ==
    \A k \in DOMAIN runtime :
        /\ runtime[k].status = "failed" => runtime[k].cooldown # 0
        /\ runtime[k].status \in {"healthy", "recovering"} => runtime[k].cooldown = 0
        /\ runtime[k].status # "healthy" => runtime[k].recovery < 2

InGroup(g) == {a \in Leasing : held[a].config.group = g}

WithinLimits(a) ==
    LET config == held[a].config IN
    /\ Cardinality(Leases(LeaseKey(held[a]))) <= config.max
    /\ (config.group # NoGroup /\ config.limit # 0)
          => Cardinality(InGroup(config.group)) <= config.limit

\* A lease is granted only within the limits, counted over the leases that are
\* really out: those of its route, and those of its capacity group made under any
\* generation of any route.
CapacityHeld ==
    [][\A a \in Attempts :
        (held[a] = NoLease /\ held'[a] # NoLease) => WithinLimits(a)']_vars

Cooling(r) == runtime[ActiveKey(r)].cooldown > now

Quarantined(k) == runtime[k].cooldown > now + ThrottleCooldown

\* A throttled, failing or missing route is cooled down only while another one
\* can take its calls: of the routes for the provider and model of a call, its
\* failure takes the last one out only by quarantining a credential.
LastRouteStays ==
    [][\A a \in Leasing :
        LET mine == Configured(held[a].config.provider, held[a].model) IN
        (/\ held'[a] = NoLease
         /\ \E r \in mine : ~Cooling(r)
         /\ \A r \in mine : Cooling(r)')
            => \E r \in mine : Quarantined(ActiveKey(r))']_vars
=============================================================================
