--------------------------- MODULE RoutePoolProofs ---------------------------
(***************************************************************************)
(* Proofs about RoutePool, for any routes, catalogs, attempts and          *)
(* cooldowns.  The inductive invariant PoolInv joins the tables of the     *)
(* pool: what is installed has a runtime entry pinned to the installed     *)
(* configuration, and no generation above lastGeneration was ever used.    *)
(***************************************************************************)
EXTENDS RoutePool, AmountLemmas, TLAPS

\* A runtime entry that is well typed and whose status fits its cooldown.
Sound(state) ==
    /\ state \in RouteRuntime
    /\ state.status = "failed" => state.cooldown # 0
    /\ state.status \in {"healthy", "recovering"} => state.cooldown = 0
    /\ state.status # "healthy" => state.recovery < 2

Tables ==
    /\ DOMAIN catalog \subseteq Routes
    /\ catalog \in [DOMAIN catalog -> Configs]
    /\ generation \in [DOMAIN catalog -> Nat \ {0}]
    /\ lastGeneration \in [Routes -> Nat]
    /\ DOMAIN runtime \subseteq Keys
    /\ runtime = [k \in DOMAIN runtime |-> runtime[k]]
    /\ pinned \in [DOMAIN runtime -> Configs]
    /\ held \in [Attempts -> RouteLease \cup {NoLease}]
    /\ now \in Nat

Installed ==
    /\ \A r \in DOMAIN catalog : /\ ActiveKey(r) \in DOMAIN runtime
                                 /\ pinned[ActiveKey(r)] = catalog[r]
    /\ \A k \in DOMAIN runtime : k[2] <= lastGeneration[k[1]]
    /\ \A k \in DOMAIN runtime : Sound(runtime[k])

PoolInv == Tables /\ Installed /\ LeaseAccounting /\ GenerationIdentity

LEMMA InvImplies == PoolInv => TypeOK /\ HealthCoherent
  BY DEF PoolInv, Tables, Installed, TypeOK, HealthCoherent, Sound

-----------------------------------------------------------------------------
(* What the health rules preserve                                          *)

LEMMA NewSound == Sound(NewRuntime)
  BY DEF Sound, NewRuntime, RouteRuntime

LEMMA ReleasedSound ==
  ASSUME NEW state, Sound(state), state.inflight # 0
  PROVE  /\ Sound(Released(state))
         /\ Released(state).inflight = state.inflight - 1
  BY DEF Sound, Released, RouteRuntime

LEMMA HealthSound ==
  ASSUME NEW state, state \in RouteRuntime,
         NEW status \in {"healthy", "degraded", "failed", "recovering"},
         NEW consecutive \in 0..2, NEW recovery \in 0..2, NEW cooldown \in Nat,
         status = "failed" => cooldown # 0,
         status \in {"healthy", "recovering"} => cooldown = 0,
         status # "healthy" => recovery < 2
  PROVE  LET after == WithHealth(state, status, consecutive, recovery, cooldown) IN
         /\ Sound(after)
         /\ after.inflight = state.inflight
         /\ after.cooldown = cooldown
  BY DEF Sound, WithHealth, RouteRuntime

LEMMA ProbedSound ==
  ASSUME NEW state, Sound(state)
  PROVE  Sound(Probed(state)) /\ Probed(state).inflight = state.inflight
  <1>1. /\ state \in RouteRuntime /\ state.consecutive \in 0..2
        /\ 0 \in 0..2 /\ 0 \in Nat /\ 0 < 2
    BY DEF Sound, RouteRuntime
  <1>2. /\ Sound(WithHealth(state, "recovering", state.consecutive, 0, 0))
        /\ WithHealth(state, "recovering", state.consecutive, 0, 0).inflight
             = state.inflight
    BY <1>1, HealthSound
  <1> QED
    BY <1>2 DEF Probed

LEMMA SuccessSound ==
  ASSUME NEW state, Sound(state)
  PROVE  Sound(AfterSuccess(state)) /\ AfterSuccess(state).inflight = state.inflight
  <1> DEFINE recovery == IF state.status = "healthy" THEN state.recovery
                         ELSE state.recovery + 1
             status == IF state.status # "healthy" /\ recovery < 2 THEN "recovering"
                       ELSE "healthy"
  <1>1. /\ state \in RouteRuntime /\ 0 \in 0..2 /\ 0 \in Nat
        /\ recovery \in 0..2
        /\ status \in {"healthy", "degraded", "failed", "recovering"}
        /\ status # "failed"
        /\ status # "healthy" => recovery < 2
    BY DEF Sound, RouteRuntime
  <1>2. AfterSuccess(state) = WithHealth(state, status, 0, recovery, 0)
    BY DEF AfterSuccess
  <1> HIDE DEF recovery, status
  <1> QED
    BY <1>1, <1>2, HealthSound

LEMMA FailureSound ==
  ASSUME NEW state, Sound(state), NEW failure \in Failures, NEW sibling \in BOOLEAN,
         now \in Nat
  PROVE  /\ Sound(AfterFailure(state, failure, sibling))
         /\ AfterFailure(state, failure, sibling).inflight = state.inflight
  <1> DEFINE n == IF state.consecutive = 2 THEN 2 ELSE state.consecutive + 1
             repeated == sibling /\ n = 2
  <1>0. /\ state \in RouteRuntime /\ n \in 0..2 /\ 0 \in 0..2 /\ 0 \in Nat /\ 0 < 2
        /\ state.cooldown \in Nat
        /\ state.status \in {"healthy", "degraded", "failed", "recovering"}
    BY DEF Sound, RouteRuntime
  <1>c. /\ now + AuthCooldown \in Nat \ {0}
        /\ now + FailureCooldown \in Nat \ {0}
        /\ now + ThrottleCooldown \in Nat \ {0}
    BY CooldownAssumption
  <1>1. CASE failure = "request"
    BY <1>1 DEF AfterFailure
  <1>2. CASE failure = "auth"
    <2>1. AfterFailure(state, failure, sibling)
            = WithHealth(state, "failed", n, 0, now + AuthCooldown)
      BY <1>2 DEF AfterFailure
    <2> HIDE DEF n
    <2> QED
      BY <2>1, <1>0, <1>c, HealthSound
  <1>3. CASE failure = "missing"
    <2> DEFINE cooldown == IF sibling THEN now + FailureCooldown ELSE 0
    <2>1. AfterFailure(state, failure, sibling)
            = WithHealth(state, "degraded", n, 0, cooldown)
      BY <1>3 DEF AfterFailure
    <2>2. cooldown \in Nat
      BY <1>c
    <2> HIDE DEF n, cooldown
    <2> QED
      BY <2>1, <2>2, <1>0, HealthSound
  <1>4. CASE failure = "throttled"
    <2> DEFINE cooldown == IF sibling THEN now + ThrottleCooldown ELSE 0
    <2>1. AfterFailure(state, failure, sibling)
            = WithHealth(state, "degraded", n, 0, cooldown)
      BY <1>4 DEF AfterFailure
    <2>2. cooldown \in Nat
      BY <1>c
    <2> HIDE DEF n, cooldown
    <2> QED
      BY <2>1, <2>2, <1>0, HealthSound
  <1>5. CASE failure = "server"
    <2> DEFINE cooldown == IF repeated THEN now + FailureCooldown ELSE 0
               status == IF repeated THEN "failed" ELSE "degraded"
    <2>1. AfterFailure(state, failure, sibling)
            = WithHealth(state, status, n, 0, cooldown)
      BY <1>5 DEF AfterFailure
    <2>2. /\ cooldown \in Nat /\ status \in {"degraded", "failed"}
          /\ status = "failed" => cooldown # 0
      BY <1>c
    <2> HIDE DEF n, cooldown, status
    <2> QED
      BY <2>1, <2>2, <1>0, HealthSound
  <1>6. CASE failure = "other"
    <2>1. AfterFailure(state, failure, sibling)
            = WithHealth(state, state.status, n, 0, state.cooldown)
      BY <1>6 DEF AfterFailure
    <2> HIDE DEF n
    <2>2. /\ state.status = "failed" => state.cooldown # 0
          /\ state.status \in {"healthy", "recovering"} => state.cooldown = 0
      BY DEF Sound
    <2> QED
      BY <2>1, <2>2, <1>0, HealthSound
  <1> QED
    BY <1>1, <1>2, <1>3, <1>4, <1>5, <1>6 DEF Failures

-----------------------------------------------------------------------------
(* Counting leases                                                         *)

LEMMA CountLeases ==
  ASSUME NEW S, S \subseteq Attempts
  PROVE  /\ IsFiniteSet(S)
         /\ Cardinality(S) \in Nat
         /\ Cardinality(S) = 0 <=> S = {}
  <1>1. IsFiniteSet(S)
    BY FS_Subset, CatalogAssumption
  <1> QED
    BY <1>1, FS_CardinalityType, FS_EmptySet

\* What an installed lease finds in the tables.
LEMMA LeaseBooked ==
  ASSUME PoolInv, NEW a \in Attempts, held[a] # NoLease
  PROVE  /\ held[a] \in RouteLease
         /\ LeaseKey(held[a]) \in DOMAIN runtime
         /\ Sound(runtime[LeaseKey(held[a])])
         /\ runtime[LeaseKey(held[a])].inflight \in Nat \ {0}
  <1>1. held[a] \in RouteLease
    BY DEF PoolInv, Tables
  <1>2. a \in Leasing /\ LeaseKey(held[a]) \in DOMAIN runtime
    BY DEF PoolInv, LeaseAccounting, Leasing
  <1>3. /\ a \in Leases(LeaseKey(held[a]))
        /\ Leases(LeaseKey(held[a])) \subseteq Attempts
    BY <1>2 DEF Leases, Leasing
  <1>4. runtime[LeaseKey(held[a])].inflight = Cardinality(Leases(LeaseKey(held[a])))
    BY <1>2 DEF PoolInv, LeaseAccounting
  <1> QED
    BY <1>1, <1>2, <1>3, <1>4, CountLeases DEF PoolInv, Installed

-----------------------------------------------------------------------------
(* The initial states                                                      *)

LEMMA PoolInvInit == Init => PoolInv
  <1> SUFFICES ASSUME Init PROVE PoolInv
    OBVIOUS
  <1> USE DEF Init
  <1>1. DOMAIN catalog \subseteq Routes /\ catalog \in [DOMAIN catalog -> Configs]
    BY CatalogAssumption
  <1>2. Tables
    BY <1>1 DEF Tables, Keys
  <1>3. Installed
    <2>1. \A k \in DOMAIN runtime : Sound(runtime[k])
      BY NewSound
    <2> QED
      BY <1>1, <2>1 DEF Installed, ActiveKey
  <1>4. Leasing = {} /\ \A k : Leases(k) = {}
    BY DEF Leasing, Leases
  <1>5. LeaseAccounting
    <2>1. \A k \in DOMAIN runtime : runtime[k].inflight = 0
      BY DEF NewRuntime
    <2>2. Cardinality({}) = 0
      BY FS_EmptySet
    <2>3. DOMAIN runtime = {ActiveKey(r) : r \in DOMAIN catalog}
      BY DEF ActiveKey
    <2> QED
      BY <1>4, <2>1, <2>2, <2>3 DEF LeaseAccounting
  <1>6. GenerationIdentity
    BY <1>4 DEF GenerationIdentity
  <1> QED
    BY <1>2, <1>3, <1>5, <1>6 DEF PoolInv

-----------------------------------------------------------------------------
(* A lease is settled                                                      *)

LEMMA SettleStep ==
  ASSUME PoolInv, NEW a \in Attempts, held[a] # NoLease, NEW state, Sound(state),
         state.inflight = runtime[LeaseKey(held[a])].inflight - 1,
         Settle(a, state)
  PROVE  PoolInv'
  <1> DEFINE key == LeaseKey(held[a])
             rt == [runtime EXCEPT ![key] = state]
  <1>0. /\ held[a] \in RouteLease /\ key \in DOMAIN runtime
        /\ Tables /\ Installed /\ LeaseAccounting /\ GenerationIdentity
    BY LeaseBooked DEF PoolInv
  <1>1. /\ DOMAIN rt = DOMAIN runtime /\ rt[key] = state
        /\ \A k \in DOMAIN runtime : k # key => rt[k] = runtime[k]
    BY <1>0 DEF Tables
  <1> HIDE DEF rt
  <1>2. /\ DOMAIN runtime' = KeptKeys(rt) /\ KeptKeys(rt) \subseteq DOMAIN runtime
        /\ runtime' = [k \in DOMAIN runtime' |-> runtime'[k]]
        /\ \A k \in KeptKeys(rt) : runtime'[k] = rt[k] /\ pinned'[k] = pinned[k]
        /\ pinned' = [k \in KeptKeys(rt) |-> pinned[k]]
        /\ UNCHANGED <<catalog, generation, lastGeneration, now>>
        /\ held' = [held EXCEPT ![a] = NoLease]
    BY <1>1 DEF Settle, rt, KeptKeys
  <1>3. /\ held'[a] = NoLease
        /\ \A b \in Attempts : b # a => held'[b] = held[b]
    BY <1>0, <1>2 DEF Tables
  <1>4. Tables'
    <2>1. pinned' \in [DOMAIN runtime' -> Configs]
      BY <1>0, <1>2 DEF Tables
    <2>2. held' \in [Attempts -> RouteLease \cup {NoLease}]
      BY <1>0, <1>2 DEF Tables
    <2> QED
      BY <1>0, <1>2, <2>1, <2>2 DEF Tables
  <1>5. \A r \in DOMAIN catalog : ActiveKey(r) \in KeptKeys(rt)
    BY <1>0, <1>1 DEF Tables, Installed, ActiveKey, KeptKeys, Retired
  <1>6. Installed'
    <2>1. \A k \in DOMAIN runtime : Sound(rt[k])
      BY <1>0, <1>1 DEF Installed
    <2>2. \A r \in DOMAIN catalog : ActiveKey(r)' = ActiveKey(r)
      BY <1>2 DEF ActiveKey
    <2> QED
      BY <1>0, <1>2, <1>5, <2>1, <2>2 DEF Installed, Sound
  <1>7. \A k : Leases(k)' = Leases(k) \ {a}
    BY <1>3 DEF Leases, Leasing
  <1>8. \A k \in DOMAIN runtime : rt[k].inflight = Cardinality(Leases(k)')
    <2> SUFFICES ASSUME NEW k \in DOMAIN runtime
                 PROVE  rt[k].inflight = Cardinality(Leases(k) \ {a})
      BY <1>7
    <2>1. /\ Leases(k) \subseteq Attempts
          /\ runtime[k].inflight = Cardinality(Leases(k))
      BY <1>0 DEF Leases, Leasing, LeaseAccounting
    <2>2. IsFiniteSet(Leases(k))
      BY <2>1, CountLeases
    <2>3. Cardinality(Leases(k) \ {a})
            = IF a \in Leases(k) THEN Cardinality(Leases(k)) - 1 ELSE Cardinality(Leases(k))
      BY <2>2, FS_RemoveElement
    <2>4. a \in Leases(k) <=> k = key
      BY DEF Leases, Leasing
    <2> QED
      BY <1>1, <2>1, <2>3, <2>4
  <1>9. DOMAIN runtime' = {ActiveKey(r) : r \in DOMAIN catalog}'
                            \cup {LeaseKey(held[b]) : b \in Leasing}'
    <2>1. ASSUME NEW k \in KeptKeys(rt), Retired(k)
          PROVE  \E b \in Leasing' : LeaseKey(held'[b]) = k
      <3>1. rt[k].inflight # 0 /\ k \in DOMAIN runtime
        BY <1>2, <2>1 DEF KeptKeys
      <3>2. Leases(k)' \subseteq Attempts
        BY DEF Leases, Leasing
      <3>3. Leases(k)' # {}
        BY <1>8, <3>1, <3>2, CountLeases
      <3> QED
        BY <3>3 DEF Leases
    <2>2. ASSUME NEW k \in KeptKeys(rt), ~Retired(k)
          PROVE  k[1] \in DOMAIN catalog /\ k = ActiveKey(k[1])
      BY <1>0, <1>2, <2>2 DEF Retired, ActiveKey, Tables, Keys
    <2>3. ASSUME NEW b \in Leasing'
          PROVE  LeaseKey(held'[b]) \in KeptKeys(rt)
      <3>0. PICK k : k = LeaseKey(held'[b])
        OBVIOUS
      <3>1. b \in Leasing /\ held'[b] = held[b]
        BY <1>3 DEF Leasing
      <3>2. k \in DOMAIN runtime
        BY <1>0, <3>0, <3>1 DEF LeaseAccounting
      <3>3. b \in Leases(k)' /\ Leases(k)' \subseteq Attempts
        BY <3>0 DEF Leases, Leasing
      <3>4. rt[k].inflight # 0
        BY <1>8, <3>2, <3>3, CountLeases
      <3> QED
        BY <1>1, <3>0, <3>2, <3>4 DEF KeptKeys
    <2>4. \A r \in DOMAIN catalog : ActiveKey(r)' = ActiveKey(r)
      BY <1>2 DEF ActiveKey
    <2> QED
      BY <1>2, <1>5, <2>1, <2>2, <2>3, <2>4
  <1>10. LeaseAccounting'
    BY <1>2, <1>8, <1>9 DEF LeaseAccounting
  <1>11. GenerationIdentity'
    <2> SUFFICES ASSUME NEW b \in Leasing'
                 PROVE  LET booked == pinned'[LeaseKey(held'[b])] IN
                        /\ booked.provider = held'[b].config.provider
                        /\ booked.credential = held'[b].config.credential
                        /\ booked.group = held'[b].config.group
      BY DEF GenerationIdentity
    <2>1. b \in Leasing /\ held'[b] = held[b]
      BY <1>3 DEF Leasing
    <2>2. LeaseKey(held'[b]) \in DOMAIN runtime'
      BY <1>9
    <2>3. pinned'[LeaseKey(held'[b])] = pinned[LeaseKey(held[b])]
      BY <1>2, <2>1, <2>2
    <2> QED
      BY <1>0, <2>1, <2>3 DEF GenerationIdentity
  <1> QED
    BY <1>4, <1>6, <1>10, <1>11 DEF PoolInv

-----------------------------------------------------------------------------
(* A lease is granted                                                      *)

LEMMA AcquireStep ==
  ASSUME PoolInv, NEW a \in Attempts, NEW p \in Providers, NEW m \in Models,
         Acquire(a, p, m)
  PROVE  PoolInv'
  <1> DEFINE probed == {ActiveKey(s) : s \in Candidates(p, m)}
             entry(k) == IF k \in probed THEN Probed(runtime[k]) ELSE runtime[k]
             lease(r) == [route |-> r, generation |-> generation[r],
                          config |-> catalog[r], model |-> m]
  <1>0. Tables /\ Installed /\ LeaseAccounting /\ GenerationIdentity
    BY DEF PoolInv
  <1>1. PICK r \in Candidates(p, m) :
          /\ runtime' = [k \in DOMAIN runtime |->
                           IF k = ActiveKey(r) THEN [entry(k) EXCEPT !.inflight = @ + 1]
                           ELSE entry(k)]
          /\ held' = [held EXCEPT ![a] = lease(r)]
    BY DEF Acquire
  <1>2. /\ held[a] = NoLease
        /\ UNCHANGED <<catalog, generation, lastGeneration, pinned, now>>
    BY DEF Acquire
  <1>3. r \in DOMAIN catalog /\ r \in Routes /\ ActiveKey(r) \in DOMAIN runtime
        /\ pinned[ActiveKey(r)] = catalog[r]
    BY <1>0 DEF Candidates, Configured, Tables, Installed
  <1>4. /\ lease(r) \in RouteLease /\ LeaseKey(lease(r)) = ActiveKey(r)
        /\ lease(r) # NoLease /\ lease(r).config = catalog[r]
    BY <1>0, <1>3, CatalogAssumption DEF RouteLease, LeaseKey, ActiveKey, Tables
  <1> HIDE DEF lease
  <1>5. /\ held'[a] = lease(r)
        /\ \A b \in Attempts : b # a => held'[b] = held[b]
        /\ held' \in [Attempts -> RouteLease \cup {NoLease}]
    BY <1>0, <1>1, <1>4 DEF Tables
  <1>6. /\ DOMAIN runtime' = DOMAIN runtime
        /\ runtime' = [k \in DOMAIN runtime' |-> runtime'[k]]
        /\ \A k \in DOMAIN runtime :
              runtime'[k] = IF k = ActiveKey(r) THEN [entry(k) EXCEPT !.inflight = @ + 1]
                            ELSE entry(k)
    BY <1>1
  <1>7. \A k \in DOMAIN runtime : /\ Sound(entry(k))
                                  /\ entry(k).inflight = runtime[k].inflight
    BY <1>0, ProbedSound DEF Installed
  <1> HIDE DEF entry
  <1>8. \A k \in DOMAIN runtime :
          /\ Sound(runtime'[k])
          /\ runtime'[k].inflight = IF k = ActiveKey(r) THEN runtime[k].inflight + 1
                                    ELSE runtime[k].inflight
    <2>1. ASSUME NEW s, Sound(s)
          PROVE  /\ Sound([s EXCEPT !.inflight = @ + 1])
                 /\ [s EXCEPT !.inflight = @ + 1].inflight = s.inflight + 1
      BY <2>1 DEF Sound, RouteRuntime
    <2> QED
      BY <1>6, <1>7, <2>1
  <1>9. Tables'
    BY <1>0, <1>2, <1>5, <1>6 DEF Tables
  <1>10. \A s \in DOMAIN catalog : ActiveKey(s)' = ActiveKey(s)
    BY <1>2 DEF ActiveKey
  <1>11. Installed'
    BY <1>0, <1>2, <1>6, <1>8, <1>10 DEF Installed, Sound
  <1>12. Leasing' = Leasing \cup {a} /\ a \notin Leasing
    BY <1>2, <1>4, <1>5 DEF Leasing
  <1>13. \A k : Leases(k)' = IF k = ActiveKey(r) THEN Leases(k) \cup {a} ELSE Leases(k)
    BY <1>4, <1>5, <1>12 DEF Leases, Leasing
  <1>14. \A k \in DOMAIN runtime : runtime'[k].inflight = Cardinality(Leases(k)')
    <2> SUFFICES ASSUME NEW k \in DOMAIN runtime
                 PROVE  runtime'[k].inflight = Cardinality(Leases(k)')
      OBVIOUS
    <2>1. /\ Leases(k) \subseteq Attempts /\ a \notin Leases(k)
          /\ runtime[k].inflight = Cardinality(Leases(k))
      BY <1>0, <1>12 DEF Leases, Leasing, LeaseAccounting
    <2>2. Cardinality(Leases(k) \cup {a}) = Cardinality(Leases(k)) + 1
      BY <2>1, CountLeases, FS_AddElement
    <2> QED
      BY <1>8, <1>13, <2>1, <2>2
  <1>15. LeaseAccounting'
    <2>1. {LeaseKey(held[b]) : b \in Leasing}'
            = {LeaseKey(held[b]) : b \in Leasing} \cup {ActiveKey(r)}
      BY <1>4, <1>5, <1>12 DEF Leasing
    <2>2. {ActiveKey(s) : s \in DOMAIN catalog}' = {ActiveKey(s) : s \in DOMAIN catalog}
      BY <1>2, <1>10
    <2> QED
      BY <1>0, <1>3, <1>6, <1>14, <2>1, <2>2 DEF LeaseAccounting
  <1>16. GenerationIdentity'
    <2>1. pinned'[LeaseKey(held'[a])] = held'[a].config
      BY <1>2, <1>3, <1>4, <1>5
    <2>2. \A b \in Leasing : b # a /\ held'[b] = held[b]
      BY <1>5, <1>12 DEF Leasing
    <2> QED
      BY <1>0, <1>2, <1>12, <2>1, <2>2 DEF GenerationIdentity
  <1> QED
    BY <1>9, <1>11, <1>15, <1>16 DEF PoolInv

-----------------------------------------------------------------------------
(* The catalog is replaced                                                 *)

LEMMA ReplaceStep ==
  ASSUME PoolInv, NEW routes \in Catalogs, Replace(routes)
  PROVE  PoolInv'
  <1> DEFINE same == {r \in DOMAIN routes \cap DOMAIN catalog :
                        Fingerprint(routes[r]) = Fingerprint(catalog[r])}
             active == [r \in DOMAIN routes |->
                          IF r \in same THEN generation[r] ELSE NextGeneration(r)]
             activeKeys == {<<r, active[r]>> : r \in DOMAIN routes}
             fresh == {<<r, active[r]>> : r \in DOMAIN routes \ same}
             keys == activeKeys \cup {k \in DOMAIN runtime : runtime[k].inflight # 0}
  <1>0. Tables /\ Installed /\ LeaseAccounting /\ GenerationIdentity
    BY DEF PoolInv
  <1>1. DOMAIN routes \subseteq Routes /\ routes \in [DOMAIN routes -> Configs]
    BY CatalogAssumption
  <1>2. /\ catalog' = routes
        /\ generation' = active
        /\ lastGeneration' = [r \in Routes |->
                                IF r \in DOMAIN routes \ same THEN active[r]
                                ELSE lastGeneration[r]]
        /\ runtime' = [k \in keys |-> IF k \in fresh THEN NewRuntime ELSE runtime[k]]
        /\ pinned' = [k \in keys |-> IF k \in activeKeys THEN routes[k[1]] ELSE pinned[k]]
        /\ held' = held /\ now' = now
    BY DEF Replace
  <1>3. \A r \in same : /\ r \in DOMAIN catalog /\ r \in DOMAIN routes
                        /\ active[r] = generation[r]
                        /\ <<r, active[r]>> = ActiveKey(r)
                        /\ <<r, active[r]>> \in DOMAIN runtime
    BY <1>0 DEF ActiveKey, Installed
  <1>4. \A r \in DOMAIN routes \ same : /\ active[r] = lastGeneration[r] + 1
                                        /\ <<r, active[r]>> \notin DOMAIN runtime
    <2> SUFFICES ASSUME NEW r \in DOMAIN routes \ same
                 PROVE  /\ active[r] = lastGeneration[r] + 1
                        /\ <<r, active[r]>> \notin DOMAIN runtime
      OBVIOUS
    <2>1. active[r] = lastGeneration[r] + 1 /\ lastGeneration[r] \in Nat
      BY <1>0, <1>1 DEF NextGeneration, Tables
    <2>2. ~(active[r] <= lastGeneration[r])
      BY <2>1
    <2> HIDE DEF active
    <2>3. <<r, active[r]>>[1] = r /\ <<r, active[r]>>[2] = active[r]
      OBVIOUS
    <2> QED
      BY <1>0, <2>1, <2>2, <2>3 DEF Installed
  <1>5. \A r \in DOMAIN routes : active[r] \in Nat \ {0}
    <2>1. \A r \in same : active[r] \in Nat \ {0}
      BY <1>0, <1>3 DEF Tables
    <2>2. \A r \in DOMAIN routes \ same : active[r] \in Nat \ {0}
      <3> SUFFICES ASSUME NEW r \in DOMAIN routes \ same PROVE active[r] \in Nat \ {0}
        OBVIOUS
      <3>1. active[r] = lastGeneration[r] + 1 /\ lastGeneration[r] \in Nat
        BY <1>0, <1>1, <1>4 DEF Tables
      <3> HIDE DEF active, same
      <3> QED
        BY <3>1
    <2> QED
      BY <2>1, <2>2
  <1>a. active \in [DOMAIN routes -> Nat \ {0}]
    BY <1>5
  <1> HIDE DEF same, active
  <1>6. \A k \in keys \ fresh : k \in DOMAIN runtime
    BY <1>3
  <1>7. \A k \in fresh : k \notin DOMAIN runtime /\ k \in keys
    BY <1>4
  <1>8. keys \subseteq Keys
    BY <1>0, <1>1, <1>5 DEF Keys, Tables
  <1>9. \A k \in activeKeys : k[1] \in DOMAIN routes
    OBVIOUS
  <1>10. Tables'
    <2>1. \A k \in keys \ activeKeys : k \in DOMAIN runtime
      OBVIOUS
    <2>2. pinned' \in [keys -> Configs]
      BY <1>0, <1>1, <1>2, <1>9, <2>1 DEF Tables
    <2>3. lastGeneration' \in [Routes -> Nat]
      BY <1>0, <1>2, <1>5 DEF Tables
    <2>4. runtime' = [k \in DOMAIN runtime' |-> runtime'[k]] /\ DOMAIN runtime' = keys
      BY <1>2
    <2> HIDE DEF keys
    <2> QED
      BY <1>0, <1>1, <1>2, <1>a, <1>8, <2>2, <2>3, <2>4 DEF Tables
  <1>11. Installed'
    <2>1. \A r \in DOMAIN routes : ActiveKey(r)' = <<r, active[r]>>
      BY <1>2 DEF ActiveKey
    <2>2. \A r \in DOMAIN routes : /\ <<r, active[r]>> \in keys
                                   /\ pinned'[<<r, active[r]>>] = routes[r]
      BY <1>2
    <2>3. \A k \in keys : Sound(runtime'[k])
      BY <1>0, <1>2, <1>6, NewSound DEF Installed
    <2>4. \A r \in Routes : lastGeneration[r] <= lastGeneration'[r]
      <3> SUFFICES ASSUME NEW r \in Routes PROVE lastGeneration[r] <= lastGeneration'[r]
        OBVIOUS
      <3>1. lastGeneration[r] \in Nat
        BY <1>0 DEF Tables
      <3>2. lastGeneration'[r] = lastGeneration[r] + 1 \/ lastGeneration'[r] = lastGeneration[r]
        BY <1>2, <1>4
      <3> QED
        BY <3>1, <3>2
    <2>5. ASSUME NEW k \in keys PROVE k[2] <= lastGeneration'[k[1]]
      <3>1. CASE k \in fresh
        <4>1. PICK r \in DOMAIN routes \ same : k = <<r, active[r]>>
          BY <3>1
        <4> QED
          BY <1>1, <1>2, <1>5, <4>1
      <3>2. CASE k \notin fresh
        <4>1. k \in DOMAIN runtime
          BY <1>6, <3>2
        <4>2. /\ k[1] \in Routes /\ k[2] \in Nat /\ k[2] <= lastGeneration[k[1]]
              /\ lastGeneration[k[1]] \in Nat
          BY <1>0, <4>1 DEF Installed, Tables, Keys
        <4>3. lastGeneration'[k[1]] \in Nat /\ lastGeneration[k[1]] <= lastGeneration'[k[1]]
          BY <1>10, <2>4, <4>2 DEF Tables
        <4> QED
          BY <4>2, <4>3
      <3> QED
        BY <3>1, <3>2
    <2>6. DOMAIN runtime' = keys
      BY <1>2
    <2> HIDE DEF keys
    <2> QED
      BY <1>2, <2>1, <2>2, <2>3, <2>5, <2>6 DEF Installed, Sound
  <1>12. Leasing' = Leasing /\ \A k : Leases(k)' = Leases(k)
    BY <1>2 DEF Leasing, Leases
  <1>13. \A k : Leases(k) \subseteq Attempts
    BY DEF Leases, Leasing
  <1>14. \A b \in Leasing : LeaseKey(held[b]) \in keys \ fresh
    <2> SUFFICES ASSUME NEW b \in Leasing
                 PROVE  LeaseKey(held[b]) \in keys \ fresh
      OBVIOUS
    <2>1. /\ LeaseKey(held[b]) \in DOMAIN runtime
          /\ b \in Leases(LeaseKey(held[b]))
      BY <1>0 DEF LeaseAccounting, Leases
    <2>2. runtime[LeaseKey(held[b])].inflight # 0
      BY <1>0, <1>13, <2>1, CountLeases DEF LeaseAccounting
    <2> QED
      BY <1>7, <2>1, <2>2
  <1>15. LeaseAccounting'
    <2>1. ASSUME NEW k \in keys PROVE runtime'[k].inflight = Cardinality(Leases(k))
      <3>1. CASE k \in fresh
        <4>1. Leases(k) = {}
          BY <1>14, <3>1 DEF Leases
        <4>2. runtime'[k].inflight = 0
          BY <1>2, <3>1 DEF NewRuntime
        <4> QED
          BY <4>1, <4>2, FS_EmptySet
      <3>2. CASE k \notin fresh
        BY <1>0, <1>2, <1>6, <3>2 DEF LeaseAccounting
      <3> QED
        BY <3>1, <3>2
    <2>2. ASSUME NEW k \in DOMAIN runtime, runtime[k].inflight # 0
          PROVE  \E b \in Leasing : LeaseKey(held[b]) = k
      <3>1. Leases(k) # {}
        BY <1>0, <1>13, <2>2, CountLeases DEF LeaseAccounting
      <3> QED
        BY <3>1 DEF Leases
    <2>3. keys = activeKeys \cup {LeaseKey(held[b]) : b \in Leasing}
      BY <1>14, <2>2
    <2>4. {ActiveKey(r) : r \in DOMAIN catalog}' = activeKeys
      BY <1>2 DEF ActiveKey
    <2>5. DOMAIN runtime' = keys
      BY <1>2
    <2> HIDE DEF keys, activeKeys
    <2> QED
      BY <1>2, <1>12, <2>1, <2>3, <2>4, <2>5 DEF LeaseAccounting
  <1>16. GenerationIdentity'
    <2> SUFFICES ASSUME NEW b \in Leasing
                 PROVE  LET booked == pinned'[LeaseKey(held[b])] IN
                        /\ booked.provider = held[b].config.provider
                        /\ booked.credential = held[b].config.credential
                        /\ booked.group = held[b].config.group
      BY <1>2, <1>12 DEF GenerationIdentity
    <2> DEFINE k == LeaseKey(held[b])
    <2>1. k \in keys /\ k \notin fresh /\ k \in DOMAIN runtime
      BY <1>6, <1>14
    <2> HIDE DEF k
    <2>2. CASE k \notin activeKeys
      <3>1. pinned'[k] = pinned[k]
        BY <1>2, <2>1, <2>2
      <3> QED
        BY <1>0, <3>1 DEF GenerationIdentity, k
    <2>3. CASE k \in activeKeys
      <3>1. PICK r \in DOMAIN routes : k = <<r, active[r]>>
        BY <2>3
      <3>2. r \in same
        BY <2>1, <3>1
      <3>3. pinned'[k] = routes[r]
        BY <1>2, <2>1, <2>3, <3>1
      <3>4. pinned[k] = catalog[r]
        BY <1>0, <1>3, <3>1, <3>2 DEF Installed
      <3>5. Fingerprint(routes[r]) = Fingerprint(catalog[r])
        BY <3>2 DEF same
      <3>6. /\ routes[r].provider = catalog[r].provider
            /\ routes[r].credential = catalog[r].credential
            /\ routes[r].group = catalog[r].group
        BY <3>5 DEF Fingerprint
      <3> QED
        BY <1>0, <3>3, <3>4, <3>6 DEF GenerationIdentity, k
    <2> QED
      BY <2>2, <2>3 DEF k
  <1> QED
    BY <1>10, <1>11, <1>15, <1>16 DEF PoolInv

-----------------------------------------------------------------------------
(* The invariant, and the properties it implies                            *)

LEMMA PoolInvNext == PoolInv /\ [Next]_vars => PoolInv'
  <1> SUFFICES ASSUME PoolInv, [Next]_vars PROVE PoolInv'
    OBVIOUS
  <1>0. now \in Nat
    BY DEF PoolInv, Tables
  <1>1. ASSUME NEW a \in Attempts, Release(a) PROVE PoolInv'
    <2>1. held[a] # NoLease /\ Settle(a, Released(runtime[LeaseKey(held[a])]))
      BY <1>1 DEF Release
    <2> QED
      BY <2>1, LeaseBooked, ReleasedSound, SettleStep
  <1>2. ASSUME NEW a \in Attempts, RecordSuccess(a) PROVE PoolInv'
    <2> DEFINE before == Released(runtime[LeaseKey(held[a])])
    <2>1. held[a] # NoLease /\ Settle(a, AfterSuccess(before))
      BY <1>2 DEF RecordSuccess
    <2>2. /\ Sound(before)
          /\ before.inflight = runtime[LeaseKey(held[a])].inflight - 1
      BY <2>1, LeaseBooked, ReleasedSound
    <2> HIDE DEF before
    <2>3. /\ Sound(AfterSuccess(before))
          /\ AfterSuccess(before).inflight = before.inflight
      BY <2>2, SuccessSound
    <2> QED
      BY <2>1, <2>2, <2>3, SettleStep
  <1>3. ASSUME NEW a \in Attempts, NEW f \in Failures, RecordFailure(a, f) PROVE PoolInv'
    <2> DEFINE key == LeaseKey(held[a])
               rt == [runtime EXCEPT ![key] = Released(@)]
               sibling == HasSibling(rt, held[a].config.provider, held[a].model,
                                     held[a].route)
    <2>1. held[a] # NoLease /\ Settle(a, AfterFailure(rt[key], f, sibling))
      BY <1>3 DEF RecordFailure
    <2>2. key \in DOMAIN runtime /\ Sound(runtime[key]) /\ runtime[key].inflight # 0
      BY <2>1, LeaseBooked
    <2>3. rt[key] = Released(runtime[key])
      BY <2>2
    <2>4. Sound(rt[key]) /\ rt[key].inflight = runtime[key].inflight - 1
      BY <2>2, <2>3, ReleasedSound
    <2>5. sibling \in BOOLEAN
      BY DEF HasSibling
    <2> HIDE DEF rt, sibling
    <2>6. /\ Sound(AfterFailure(rt[key], f, sibling))
          /\ AfterFailure(rt[key], f, sibling).inflight = rt[key].inflight
      BY <1>0, <2>4, <2>5, FailureSound
    <2> QED
      BY <2>1, <2>4, <2>6, SettleStep
  <1>4. CASE Tick
    <2>1. now' \in Nat /\ UNCHANGED <<catalog, generation, lastGeneration, runtime, pinned, held>>
      BY <1>0, <1>4 DEF Tick
    <2>2. Tables'
      BY <2>1 DEF PoolInv, Tables
    <2>3. Installed' /\ LeaseAccounting' /\ GenerationIdentity'
      BY <2>1 DEF PoolInv, Installed, Sound, LeaseAccounting, GenerationIdentity,
                  Leasing, Leases, ActiveKey
    <2> QED
      BY <2>2, <2>3 DEF PoolInv
  <1>5. CASE UNCHANGED vars
    BY <1>5 DEF vars, PoolInv, Tables, Installed, Sound, LeaseAccounting,
                GenerationIdentity, Leasing, Leases, ActiveKey
  <1> QED
    BY <1>1, <1>2, <1>3, <1>4, <1>5, AcquireStep, ReplaceStep DEF Next

LEMMA PoolInvariant == Spec => []PoolInv
  BY PoolInvInit, PoolInvNext, PTL DEF Spec

\* Every table of the pool keeps its type under every order of calls, outcomes,
\* replacements and clock ticks.
THEOREM TypeCorrect == Spec => []TypeOK
  BY PoolInvariant, InvImplies, PTL

\* provider_routes.py replace, acquire, release and the pruning of retired
\* generations: the in-flight counts are exactly the leases that are out.
THEOREM LeasesCounted == Spec => []LeaseAccounting
  <1>1. PoolInv => LeaseAccounting
    BY DEF PoolInv
  <1> QED
    BY <1>1, PoolInvariant, PTL

\* A lease is settled on the configuration it was granted for, although its route
\* id may have been rotated, removed and installed again since.
THEOREM LeasesIdentified == Spec => []GenerationIdentity
  <1>1. PoolInv => GenerationIdentity
    BY DEF PoolInv
  <1> QED
    BY <1>1, PoolInvariant, PTL

\* record_success, record_failure and acquire: the status of a route always fits
\* its cooldown and its successes.
THEOREM HealthFits == Spec => []HealthCoherent
  BY PoolInvariant, InvImplies, PTL

-----------------------------------------------------------------------------
(* The last route of a model is only taken out by a refused credential     *)

LEMMA FailureCools ==
  ASSUME NEW state, Sound(state), NEW failure \in Failures, NEW sibling \in BOOLEAN,
         AfterFailure(state, failure, sibling).cooldown # state.cooldown,
         AfterFailure(state, failure, sibling).cooldown # 0
  PROVE  \/ sibling
         \/ AfterFailure(state, failure, sibling).cooldown = now + AuthCooldown
  <1>0. ASSUME NEW status, NEW consecutive, NEW recovery, NEW cooldown
        PROVE  WithHealth(state, status, consecutive, recovery, cooldown).cooldown = cooldown
    BY DEF WithHealth, Sound, RouteRuntime
  <1>1. CASE failure = "request"
    BY <1>1 DEF AfterFailure
  <1>2. CASE failure = "auth"
    BY <1>0, <1>2 DEF AfterFailure
  <1>3. CASE failure = "missing"
    BY <1>0, <1>3 DEF AfterFailure
  <1>4. CASE failure = "throttled"
    BY <1>0, <1>4 DEF AfterFailure
  <1>5. CASE failure = "server"
    BY <1>0, <1>5 DEF AfterFailure
  <1>6. CASE failure = "other"
    BY <1>0, <1>6 DEF AfterFailure
  <1> QED
    BY <1>1, <1>2, <1>3, <1>4, <1>5, <1>6 DEF Failures

\* What settling leaves of the cooldowns of the installed routes.
LEMMA SettledCooldowns ==
  ASSUME PoolInv, NEW a \in Attempts, held[a] # NoLease, NEW state, Settle(a, state),
         NEW r \in DOMAIN catalog
  PROVE  /\ ActiveKey(r)' = ActiveKey(r) /\ now' = now
         /\ ActiveKey(r) = LeaseKey(held[a]) => runtime'[ActiveKey(r)] = state
         /\ ActiveKey(r) # LeaseKey(held[a]) =>
               runtime'[ActiveKey(r)] = runtime[ActiveKey(r)]
  <1> DEFINE rt == [runtime EXCEPT ![LeaseKey(held[a])] = state]
  <1>1. LeaseKey(held[a]) \in DOMAIN runtime /\ ActiveKey(r) \in DOMAIN runtime
    BY LeaseBooked DEF PoolInv, Installed
  <1>2. ~Retired(ActiveKey(r))
    BY DEF Retired, ActiveKey, PoolInv, Tables
  <1>3. DOMAIN rt = DOMAIN runtime
    BY DEF PoolInv, Tables
  <1>4. ActiveKey(r) \in KeptKeys(rt)
    BY <1>1, <1>2, <1>3 DEF KeptKeys
  <1>5. runtime'[ActiveKey(r)] = rt[ActiveKey(r)] /\ generation' = generation /\ now' = now
    BY <1>4 DEF Settle
  <1> QED
    BY <1>1, <1>5 DEF ActiveKey

\* The body of LastRouteStays, for one call that ends.
LastRouteStep(a) ==
    LET mine == Configured(held[a].config.provider, held[a].model) IN
    (/\ held'[a] = NoLease
     /\ \E r \in mine : ~Cooling(r)
     /\ \A r \in mine : Cooling(r)')
        => \E r \in mine : Quarantined(ActiveKey(r))'

LEMMA LastRouteNext ==
  ASSUME PoolInv, [Next]_vars, NEW a \in Leasing
  PROVE  LastRouteStep(a)
  <1> DEFINE mine == Configured(held[a].config.provider, held[a].model)
             key == LeaseKey(held[a])
  <1>0. /\ a \in Attempts /\ held[a] # NoLease /\ now \in Nat
        /\ held \in [Attempts -> RouteLease \cup {NoLease}]
    BY DEF Leasing, PoolInv, Tables
  <1> SUFFICES ASSUME held'[a] = NoLease, NEW free \in mine, ~Cooling(free),
                      \A r \in mine : Cooling(r)'
               PROVE  \E r \in mine : Quarantined(ActiveKey(r))'
    BY DEF LastRouteStep
  <1>1. mine \subseteq DOMAIN catalog /\ free \in DOMAIN catalog
    BY DEF Configured
  <1>2. /\ Sound(runtime[key]) /\ key \in DOMAIN runtime /\ runtime[key].inflight # 0
        /\ runtime[ActiveKey(free)].cooldown \in Nat
    BY <1>0, <1>1, LeaseBooked DEF PoolInv, Installed, Sound, RouteRuntime
  <1>3. Released(runtime[key]).cooldown = runtime[key].cooldown
        /\ Sound(Released(runtime[key]))
    BY <1>2, ReleasedSound DEF Released, Sound, RouteRuntime
  <1>4. ASSUME NEW state, Settle(a, state)
        PROVE  /\ ActiveKey(free) = key
               /\ state.cooldown > now
               /\ now' = now
               /\ runtime'[ActiveKey(free)'] = state
    <2>1. /\ ActiveKey(free)' = ActiveKey(free) /\ now' = now
          /\ ActiveKey(free) = key => runtime'[ActiveKey(free)] = state
          /\ ActiveKey(free) # key =>
                runtime'[ActiveKey(free)] = runtime[ActiveKey(free)]
      BY <1>0, <1>1, <1>4, SettledCooldowns
    <2>2. runtime'[ActiveKey(free)'].cooldown > now'
      BY DEF Cooling
    <2>3. ~(runtime[ActiveKey(free)].cooldown > now)
      BY DEF Cooling
    <2> QED
      BY <2>1, <2>2, <2>3
  <1>s. ASSUME NEW b \in Attempts, NEW state, Settle(b, state) PROVE b = a
    <2>1. held' = [held EXCEPT ![b] = NoLease]
      BY <1>s DEF Settle
    <2> QED
      BY <1>0, <2>1
  <1>5. ASSUME NEW b \in Attempts, Release(b)
        PROVE  FALSE
    <2>0. Settle(b, Released(runtime[LeaseKey(held[b])]))
      BY <1>5 DEF Release
    <2>1. b = a /\ Settle(a, Released(runtime[key]))
      BY <1>s, <2>0
    <2>2. ActiveKey(free) = key /\ Released(runtime[key]).cooldown > now
      BY <1>4, <2>1
    <2> QED
      BY <1>2, <1>3, <2>2 DEF Cooling
  <1>6. ASSUME NEW b \in Attempts, RecordSuccess(b)
        PROVE  FALSE
    <2>0. Settle(b, AfterSuccess(Released(runtime[LeaseKey(held[b])])))
      BY <1>6 DEF RecordSuccess
    <2>1. b = a /\ Settle(a, AfterSuccess(Released(runtime[key])))
      BY <1>s, <2>0
    <2>2. AfterSuccess(Released(runtime[key])).cooldown > now
      BY <1>4, <2>1
    <2>3. AfterSuccess(Released(runtime[key])).cooldown = 0
      BY <1>3 DEF AfterSuccess, WithHealth, Sound, RouteRuntime
    <2> QED
      BY <1>0, <2>2, <2>3
  <1>7. ASSUME NEW b \in Attempts, NEW f \in Failures, RecordFailure(b, f)
        PROVE  \E r \in mine : Quarantined(ActiveKey(r))'
    <2> DEFINE rt == [runtime EXCEPT ![key] = Released(@)]
               sibling == HasSibling(rt, held[a].config.provider, held[a].model,
                                     held[a].route)
               after == AfterFailure(rt[key], f, sibling)
    <2>0. b = a
      <3>1. \E state : Settle(b, state)
        BY <1>7 DEF RecordFailure
      <3> QED
        BY <1>s, <3>1
    <2>1. Settle(a, after)
      BY <1>7, <2>0 DEF RecordFailure
    <2>2. rt[key] = Released(runtime[key]) /\ DOMAIN rt = DOMAIN runtime
          /\ \A k \in DOMAIN runtime : k # key => rt[k] = runtime[k]
      BY <1>2
    <2>3. sibling \in BOOLEAN
      BY DEF HasSibling
    <2>4. ~sibling
      <3> SUFFICES ASSUME NEW s \in mine \ {held[a].route}, IsEligible(rt, s)
                   PROVE  FALSE
        BY DEF HasSibling
      <3>1. s \in DOMAIN catalog /\ ActiveKey(s) # key /\ ActiveKey(s) \in DOMAIN runtime
        BY <1>1 DEF ActiveKey, LeaseKey, PoolInv, Installed
      <3>2. runtime[ActiveKey(s)].cooldown <= now
        BY <2>2, <3>1 DEF IsEligible
      <3>3. /\ ActiveKey(s)' = ActiveKey(s) /\ now' = now
            /\ runtime'[ActiveKey(s)] = runtime[ActiveKey(s)]
        BY <1>0, <2>1, <3>1, SettledCooldowns
      <3>4. runtime'[ActiveKey(s)'].cooldown > now'
        BY DEF Cooling
      <3>5. runtime[ActiveKey(s)].cooldown \in Nat
        BY <3>1 DEF PoolInv, Installed, Sound, RouteRuntime
      <3> QED
        BY <1>0, <3>2, <3>3, <3>4, <3>5
    <2>5. /\ ActiveKey(free) = key /\ after.cooldown > now /\ now' = now
          /\ runtime'[ActiveKey(free)'] = after
      BY <1>4, <2>1
    <2>6. ~(runtime[key].cooldown > now)
      BY <2>5 DEF Cooling
    <2>7. after.cooldown # rt[key].cooldown /\ after.cooldown # 0
      BY <1>0, <1>3, <2>2, <2>5, <2>6
    <2> HIDE DEF rt, sibling
    <2>8. after.cooldown = now + AuthCooldown
      BY <1>3, <2>2, <2>3, <2>4, <2>7, FailureCools
    <2>9. now + AuthCooldown > now + ThrottleCooldown
      BY <1>0, CooldownAssumption
    <2> HIDE DEF after
    <2>10. Quarantined(ActiveKey(free))'
      BY <2>5, <2>8, <2>9 DEF Quarantined
    <2> QED
      BY <2>10
  <1>8. ASSUME NEW b \in Attempts, NEW p \in Providers, NEW m \in Models, Acquire(b, p, m)
        PROVE  FALSE
    BY <1>0, <1>8 DEF Acquire
  <1>9. ASSUME held' = held PROVE FALSE
    BY <1>0, <1>9
  <1> QED
    BY <1>5, <1>6, <1>7, <1>8, <1>9 DEF Next, Replace, Tick, vars

\* record_failure cools a route down only while a sibling is available: of the
\* routes that serve a model the last one is taken out only by a quarantine.
THEOREM LastRouteKept == Spec => LastRouteStays
  <1>1. PoolInv /\ [Next]_vars => [\A a \in Leasing : LastRouteStep(a)]_vars
    BY LastRouteNext
  <1> QED
    BY <1>1, PoolInvariant, PTL DEF Spec, LastRouteStays, LastRouteStep

-----------------------------------------------------------------------------
(* The capacity limits                                                     *)

\* What the pool counts for a group, generation by generation, are the leases
\* made under it.
LEMMA GroupCount ==
  ASSUME PoolInv, NEW g
  PROVE  /\ GroupInflight(runtime, g) = Cardinality(InGroup(g))
         /\ Cardinality(InGroup(g)) \in Nat
         /\ IsFiniteSet(InGroup(g))
  <1>0. Tables /\ LeaseAccounting /\ GenerationIdentity /\ DOMAIN pinned = DOMAIN runtime
    BY DEF PoolInv, Tables
  <1>1. PICK keys : keys = {k \in DOMAIN pinned : pinned[k].group = g}
    OBVIOUS
  <1>2. PICK L : L = [k \in keys |-> Leases(k)]
    OBVIOUS
  <1>3. PICK f : f = [k \in keys |-> runtime[k].inflight]
    OBVIOUS
  <1>4. \A k \in keys : IsFiniteSet(L[k]) /\ f[k] = Cardinality(L[k])
    <2> SUFFICES ASSUME NEW k \in keys
                 PROVE  IsFiniteSet(L[k]) /\ f[k] = Cardinality(L[k])
      OBVIOUS
    <2>1. L[k] = Leases(k) /\ f[k] = runtime[k].inflight /\ k \in DOMAIN runtime
      BY <1>0, <1>1, <1>2, <1>3
    <2>2. Leases(k) \subseteq Attempts
      BY DEF Leases, Leasing
    <2> QED
      BY <1>0, <2>1, <2>2, CountLeases DEF LeaseAccounting
  <1>5. \A k, l \in keys : k # l => L[k] \cap L[l] = {}
    BY <1>2 DEF Leases
  <1>6. PICK whole : whole = InGroup(g)
    OBVIOUS
  <1>7. whole = UNION {L[k] : k \in keys}
    <2>1. ASSUME NEW a \in whole PROVE \E k \in keys : a \in L[k]
      <3>1. a \in Leasing /\ held[a].config.group = g
        BY <1>6, <2>1 DEF InGroup
      <3>2. LeaseKey(held[a]) \in DOMAIN runtime
        BY <3>1, LeaseBooked DEF Leasing
      <3>3. pinned[LeaseKey(held[a])].group = g
        BY <1>0, <3>1 DEF GenerationIdentity
      <3>4. LeaseKey(held[a]) \in keys
        BY <1>0, <1>1, <3>2, <3>3
      <3>5. a \in L[LeaseKey(held[a])]
        BY <1>2, <3>1, <3>4 DEF Leases
      <3> QED
        BY <3>4, <3>5
    <2>2. ASSUME NEW k \in keys, NEW a \in L[k] PROVE a \in whole
      <3>1. a \in Leasing /\ LeaseKey(held[a]) = k
        BY <1>2, <2>2 DEF Leases
      <3>2. held[a].config.group = g
        BY <1>0, <1>1, <3>1 DEF GenerationIdentity
      <3> QED
        BY <1>6, <3>1, <3>2 DEF InGroup
    <2> QED
      BY <2>1, <2>2
  <1>8. IsFiniteSet(whole) /\ Cardinality(whole) \in Nat
    <2>1. whole \subseteq Attempts
      BY <1>6 DEF InGroup, Leasing
    <2> QED
      BY <2>1, CountLeases
  <1>9. Cardinality(whole) = Total(f, keys)
    BY <1>4, <1>5, <1>7, <1>8, TotalOfParts
  <1>10. GroupInflight(runtime, g) = Total(f, keys)
    BY <1>1, <1>3 DEF GroupInflight, InflightOf
  <1> QED
    BY <1>6, <1>8, <1>9, <1>10

LEMMA GrantWithin ==
  ASSUME PoolInv, NEW a \in Attempts, NEW p \in Providers, NEW m \in Models,
         Acquire(a, p, m)
  PROVE  WithinLimits(a)'
  <1>0. Tables /\ Installed /\ LeaseAccounting /\ GenerationIdentity
    BY DEF PoolInv
  <1>1. PICK r \in Candidates(p, m) :
          held' = [held EXCEPT ![a] = [route |-> r, generation |-> generation[r],
                                       config |-> catalog[r], model |-> m]]
    BY DEF Acquire
  <1>2. PICK config : config = catalog[r]
    OBVIOUS
  <1>3. PICK key : key = ActiveKey(r)
    OBVIOUS
  <1>4. r \in DOMAIN catalog /\ IsEligible(runtime, r)
    BY DEF Candidates, Configured
  <1>5. key \in DOMAIN runtime /\ config \in Configs /\ Sound(runtime[key])
    BY <1>0, <1>2, <1>3, <1>4 DEF Tables, Installed
  <1>6. /\ runtime[key].inflight < config.max
        /\ (config.group # NoGroup /\ config.limit # 0)
              => GroupInflight(runtime, config.group) < config.limit
    BY <1>2, <1>3, <1>4 DEF IsEligible
  <1>7. /\ runtime[key].inflight \in Nat /\ config.max \in Nat /\ config.limit \in Nat
    BY <1>5 DEF Sound, RouteRuntime, Configs
  <1>8. /\ held'[a] # NoLease /\ held'[a].config = config /\ LeaseKey(held'[a]) = key
        /\ held[a] = NoLease
        /\ \A b \in Attempts : b # a => held'[b] = held[b]
    <2>1. /\ held'[a] = [route |-> r, generation |-> generation[r],
                         config |-> catalog[r], model |-> m]
          /\ \A b \in Attempts : b # a => held'[b] = held[b]
      BY <1>0, <1>1 DEF Tables
    <2>2. held'[a] \in RouteLease
      BY <1>0, <1>4, <2>1 DEF Tables, RouteLease
    <2> QED
      BY <1>2, <1>3, <2>1, <2>2, CatalogAssumption DEF LeaseKey, ActiveKey, Acquire
  <1>9. Leasing' = Leasing \cup {a} /\ a \notin Leasing
    BY <1>8 DEF Leasing
  <1>10. Cardinality(Leases(key)') <= config.max
    <2>1. Leases(key)' = Leases(key) \cup {a} /\ a \notin Leases(key)
      BY <1>8, <1>9 DEF Leases, Leasing
    <2>2. Leases(key) \subseteq Attempts /\ Cardinality(Leases(key)) = runtime[key].inflight
      BY <1>0, <1>5 DEF Leases, Leasing, LeaseAccounting
    <2>3. Cardinality(Leases(key) \cup {a}) = Cardinality(Leases(key)) + 1
      BY <2>1, <2>2, CountLeases, FS_AddElement
    <2> QED
      BY <1>6, <1>7, <2>1, <2>2, <2>3
  <1>11. (config.group # NoGroup /\ config.limit # 0)
            => Cardinality(InGroup(config.group)') <= config.limit
    <2> SUFFICES ASSUME GroupInflight(runtime, config.group) < config.limit
                 PROVE  Cardinality(InGroup(config.group)') <= config.limit
      BY <1>6
    <2>1. InGroup(config.group)' = InGroup(config.group) \cup {a}
      BY <1>8, <1>9 DEF InGroup, Leasing
    <2>2. a \notin InGroup(config.group)
      BY <1>9 DEF InGroup
    <2>3. /\ GroupInflight(runtime, config.group) = Cardinality(InGroup(config.group))
          /\ Cardinality(InGroup(config.group)) \in Nat
          /\ IsFiniteSet(InGroup(config.group))
      BY GroupCount
    <2>4. Cardinality(InGroup(config.group) \cup {a})
              = Cardinality(InGroup(config.group)) + 1
      BY <2>2, <2>3, FS_AddElement
    <2> QED
      BY <1>7, <2>1, <2>3, <2>4
  <1>12. LeaseKey(held[a])' = key /\ held'[a].config = config
    BY <1>8 DEF LeaseKey
  <1> QED
    BY <1>10, <1>11, <1>12 DEF WithinLimits, Leases, InGroup

\* A lease is granted only within the limits of its route and of its capacity
\* group, counted over the calls that are really out, those made under rotated or
\* removed generations included (provider_routes.py _is_eligible and acquire).
THEOREM CapacityRespected == Spec => CapacityHeld
  <1>1. PoolInv /\ [Next]_vars =>
           [\A a \in Attempts :
              (held[a] = NoLease /\ held'[a] # NoLease) => WithinLimits(a)']_vars
    <2> SUFFICES ASSUME PoolInv, [Next]_vars, NEW a \in Attempts,
                        held[a] = NoLease, held'[a] # NoLease
                 PROVE  WithinLimits(a)'
      OBVIOUS
    <2>0. held \in [Attempts -> RouteLease \cup {NoLease}]
      BY DEF PoolInv, Tables
    <2>1. ASSUME NEW b \in Attempts, NEW p \in Providers, NEW m \in Models,
                 Acquire(b, p, m)
          PROVE  WithinLimits(a)'
      <3>1. b = a
        BY <2>0, <2>1 DEF Acquire
      <3> QED
        BY <2>1, <3>1, GrantWithin
    <2>2. ASSUME NEW b \in Attempts, NEW state, Settle(b, state)
          PROVE  FALSE
      BY <2>0, <2>2 DEF Settle
    <2>3. ASSUME UNCHANGED held PROVE FALSE
      BY <2>3
    <2> QED
      BY <2>1, <2>2, <2>3
         DEF Next, Release, RecordSuccess, RecordFailure, Replace, Tick, vars
  <1> QED
    BY <1>1, PoolInvariant, PTL DEF Spec, CapacityHeld
=============================================================================
