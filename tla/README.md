# TLA+ models of the gateway

AxonLLM is an LLM gateway: several identical instances stand behind a load
balancer, forward chat requests to providers, and share one DynamoDB table for
budgets, configuration and audit. The instances do not talk to each other.
Everything that has to agree across the fleet agrees through conditional writes
and version counters in that table, and everything inside one instance is
interleaved at every `await`. These modules model the parts where that is hard to
get right, check them with TLC on small instances and prove the central
properties with TLAPS for every instance.

    BudgetContract          what the budget ledger promises
      ^ implemented by
    BudgetLedger            reservations in DynamoDB, call by call
      MCBudgetLedger        instances for TLC        Ledger*.cfg
      BudgetLedgerProofs    theorems
    RoutePool               leases and health of provider routes in one instance
      MCRoutePool                                    Pool*.cfg
      RoutePoolProofs
    FleetConfig             how operators' writes reach every instance
      MCFleetConfig                                  Fleet*.cfg
      FleetConfigProofs
    QuotaFleet              what each instance knows of the shared spend
      MCQuotaFleet                                   Quota*.cfg
      QuotaFleetProofs
    QueryContract           what the lifecycle of a data query promises
      ^ implemented by
    QueryLifecycle          admission, execution, settlement, reconciliation
      MCQueryLifecycle                               Query*.cfg
      QueryLifecycleProofs
    AuditLog                what a tenant's audit trail promises
      ^ implemented by
    AuditChain              appends to one hash chain, and its verification
      MCAuditChain                                   Audit*.cfg
      AuditChainProofs
    ExportJobs              export requests, their queue and the Lambda worker
      MCExportJobs                                   Export*.cfg
      ExportJobsProofs
    Amounts                 sums of amounts over a set
      AmountLemmas          what the proofs need to know of them

`PROJECT.json` maps every definition to the lines it models, and lists the runs,
the mutants that show each property can fail, the theorems and the hazards.
Paths below are relative to `src/src/gateway/`.

## Inventory

| Component | State | Operations | Interacts with | What is hard, what makes it correct |
|---|---|---|---|---|
| Durable budget ledger (`persistence.py` 5440-6580) | counter items (total, billing epoch), reservation markers, alert items | reserve, settle, sweep expired leases, add unreserved spend, reset a cycle | requests, sweeps and billing resets on all instances, through DynamoDB | lost answers, crashes, sweep against late request, resets in between. No over-admission, no lost or doubled cent, one settlement, an alert once, no leaked reservation |
| Quota enforcer (`quota_enforcer.py`) | per-instance copy of shared spend, alerted thresholds | preflight, reserve, finalize, fire alerts | ledger, callbacks | cached totals, sets read before an `await` and written after it |
| Request pipeline (`agent.py`, `chat/`) | one coroutine per request | gates in order, reserve, call, settle | everything | cancellation, abandoned streams, settlement in a `finally` |
| Provider route pool (`provider_routes.py`) | routes, generations, runtime health and load per generation | replace, acquire, release, record success or failure | provider attempts, control plane | catalog replaced under outstanding leases. Exact lease counts, capacity groups, generations never confused, health that fits the cooldowns |
| Provider execution (`multi_provider_factory.py`) | attempt and its lease | attempt, retry, stream | route pool | each lease settled once on every path |
| Fleet configuration (`config_sync.py`) | known version, generation, polling window, refresh task | poll, scan, confirm, adopt, arm | table, admin handlers, cost tracker, policy nodes | scans are not snapshots, own writes during a scan. Only configurations that existed, no rollback, convergence |
| Admin writes (`admin/routes.py`) | projects and user configs in memory, rows with revisions | create, update, reload | table, fleet configuration | publishing after an `await`, conflicts, lost answers |
| Startup (`bootstrap.py`) | none of its own | load, arm, note the version | table | writes and outages during the load |
| Cost tracker (`cost_tracker.py`) | limits, usage records | register, track | enforcer, configuration | limits copied from rows |
| Rate limiting (`rate_limiter.py`, `striped_lock.py`) | sliding windows, striped locks, shared windows | check, record | pipeline, table | lock order, time taken before the lock |
| Router, streaming, ensemble (`router.py`, `streaming.py`, `ensemble.py`) | attempt lists, deadlines | fall back, stream, join members | factory, health | commitment of a stream, deadlines against late answers |
| Regions (`multi_region/`) | topology revision, health | probe, fail over | configuration | hysteresis, stale topology |
| Cedar policies, policy hierarchy (`auth/`) | policies, version | poll, write, evaluate | table | the fleet-configuration scheme without its confirming read |
| API keys, SCIM (`auth/`) | keys, revocation epochs, caches | issue, rotate, revoke | table | use of a cached key after its revocation |
| Audit trail (`security/audit_trail.py`) | hash chain per tenant; per instance a lock, the cached head and a buffer | append, verify | table | compare-and-swap appends, lost answers, transactions that land late. One chain, truthful answers, no lock left behind |
| Query service (`query/`) | lifecycle items, slots, scan counters, executions | admit, start, settle, audit, reconcile | Athena, audit trail, table | call and reconciler settle at once, leases run out, counters expire. Slots kept, every scan charged once, audited before it is closed |
| Export jobs, their worker (`export_jobs.py`, `serverless_workers.py`) | job items, objects, queue messages, invocations | create, claim, upload, complete, release | SQS FIFO, S3, Lambda | death between two steps, lost answers, second deliveries. The object is the one the job describes, a final job stays final, every job ends |
| Event dispatcher (`security/event_dispatcher.py`) | outbox, queue messages | deliver, retry | queues, webhooks | death between delivery and acknowledgement |
| Caches (`cache_manager.py`, `semantic_cache.py`) | entries, single flight | get, put | pipeline | capacity, waiters of a failed flight |
| Model selection, content checks, adapters, observability, sign-in, deployment tooling | none that several actors share | | | not modelled: scoring, text matching, formats, cryptography, cloud scripts |

`PROJECT.json` "components" has the whole list with the reason for each part that
is not modelled, and "hazards" the 40 places where this code can go wrong in a
way a test would hardly reach.

## Plan

1. *Done*: BudgetLedger with its contract. Money is what the gateway must not get
   wrong, and its protocol is the most intricate one.
2. *Done*: RoutePool, the state every request of an instance goes through.
3. *Done*: FleetConfig, how limits get to where they are enforced.
4. *Done*: QueryLifecycle with QueryContract, the other durable reservation of the
   gateway: two kinds of processes settle the same item.
5. *Done*: AuditChain with AuditLog.
6. *Done*: QuotaFleet, the enforcer of each instance above the ledger's
   transactions. What the ledger does inside a transaction is BudgetLedger's
   matter; here it is a commit, a read and an answer that arrives late.
7. *Done*: ExportJobs, from the request to the Lambda worker.
8. RateLimiter: striped locks (abstract spec: one lock per key, no deadlock) and
   the sliding window (never more than the limit in any window), then the shared
   windows of `persistence.py` 3638-3795.
9. PolicySync: the polling of Cedar policies, the signed routing document and the
   region topology beside FleetConfig; rollback rejection.
10. EventOutbox (at-least-once delivery, an event is never dropped), API-key
    revocation.
11. Router fallback and streaming above RoutePool; caches with single flight.

Every safety property that a run checks is proved. Proofs to add: for the modules of
8 to 11, as they are written; the theorems that 9 can share with FleetConfig.

## BudgetLedger

*State.* `spend` and `epoch` are a counter item (`PK=SPEND#.. SK=TOTAL`), `marker`
the reservation item, `alerts` the alert items; `proc[p]` holds the locals of the
call a process is making, with a `pc` for the DynamoDB call it makes next. A
process is a request or a cleaner (one sweep); both settle through the same code,
as in the source.

*Actions.* One per DynamoDB call. `BeginReserve` (validation and the
impossible-scope return), `ReserveRead` (one consistent read per counter, in sorted
order), `ReserveCommit` / `ReserveRefused` (the transaction with its conditions),
`ReserveCheck` (reading the marker to learn what a failed call did);
`FinalizeReadMarker`, `RecordIntent` / `IntentRefused` / `IntentCheck` (the
settlement intent), `FinalizeRead`, `FinalizePlan` (epochs compared, thresholds
judged), `FinalizeCommit` / `FinalizeRefused` / `FinalizeCheck`, `FinalizeReply`;
`LeaseExpires`, `BeginSweep`, `SweepNext`; `AddSpend`, `ResetSpend`; `CallRaises`
and `Crash`. A write whose answer is lost takes effect and continues like a call
that raised.

*Abstractions.* Amounts are small naturals (the code uses `Decimal`, exactly).
The estimate is one of the possible prices. A limit is fixed while requests are
under way. A signature is reduced to the one way in which two signatures of the
same reservation differ: a limit that was configured as an int (`IntLimits`). Left
out: the TTL deletion of settled markers, reuse of request ids (uuid4), and the
mode without DynamoDB. The reads of the alert items are taken at once in
`FinalizePlan`; the transaction checks them again.

*Contract.* `BudgetContract` has the counters, a stage, an origin and a price per
request, and four atomic operations: `Admit`, `Settle`, `Charge`, `Reset`. The
refinement mapping reads stage, origin and price off the marker.

## RoutePool

*State.* The pool's tables by their names (`catalog`, `generation`,
`lastGeneration`, `runtime`, `pinned`), the lease each attempt holds, the clock.
Every method runs under the pool's lock and is one action: `Acquire`,
`RecordSuccess`, `RecordFailure` (which settle and release the lease, with the
pruning of retired generations), `Release`, `Replace`; `Tick` is the clock.

*Abstractions.* The weighted random choice is any candidate, since no weight is
zero, so the averages that only feed the weights are left out. Consecutive
failures saturate at 2, the only value the code compares with. `now`, which the
code reads just before it takes the lock, is read in the same step. An `acquire`
that finds no route raises and changes nothing; `peek` and `snapshot` only read.

## FleetConfig

*State.* The rows and the version counter; per instance the rows in memory
(`live`), the tracker's limits (`armed`), the limits of flat policy nodes
(`node`), `known`, `fresh` (the polling window), `generation`, and the task of its
startup or refresh; per admin handler the call it is serving. `past` and `own` are
history.

*Actions.* Startup: `Restart`, `LoadRow`, `LoadFails`, `NoteVersion`, `NoteFails`.
Refresh: `Poll`, `ReadVersion`, `Unmoved` / `Moved`, `ScanRow`, `Confirm`, `Adopt`,
`RefreshFails`, `Expire`. Handlers: `BeginWrite`, `Save`, `SaveConflict`, `Publish`,
`BeginFetch`, `Fetch`, `Install`, `CallFails`. `Request` registers a limit the way
a chat request does.

*Abstractions.* A row is its revision and its budget limit, the one field that is
copied elsewhere; `alert_threshold` is None. DynamoDB reads are strongly
consistent, as the code asks for; a scan reads row by row. Rows of tenants, rows
written before revisions existed, and the seed projects are left out. Limits of
users are read from the rows on every request and need no copy. Policy nodes are
flat.

## QuotaFleet

*State.* `total`, `cycle` and `crossings` are the shared counter, its epoch and its
alert items for one project; `view[i]` is what instance i keeps of them (`known` is
`_spend_epochs`, `spend` is `_spend_tracker`, `alerted` the set object in
`_alerted_thresholds`), `fresh[i]` the stamp of its last refresh, `call[p]` the call
p is making. Sets of alerted thresholds are objects: `_fire_budget_alerts` keeps a
reference across the callbacks and writes it back, so `sets` is a heap and `alerted`
a reference. `peak` and `announced` are history.

*Actions.* `Begin` / `Read` / `AdoptRead` (`enforce_all`: the stamp, the read, the
adoption with the synchronous `check_budget`), `Reserve` / `ReadReserved` /
`AdoptReserved`, `Plan` / `Commit` / `ReadSettled` / `AdoptSettled` / `Alerted`
(one callback), `AddSpend` / `AdoptAdded` (`record_spend` without a budget),
`BeginReset` / `Reset` / `ReadReset` / `Clear`, `Elapse`, `Restart`. Every commit,
every read and every answer is a step of its own, because the instance serves other
calls in between.

*Abstractions.* One project, one threshold; the refresh interval is one bit. A probe
is a simulation (`POST /admin/quotas/simulate`), which refreshes and spends nothing.
The ledger's retries, its sweep and its markers are BudgetLedger's. Local mode, without
a shared store, is left out.

## QueryLifecycle

*State.* `life[q]` is the lifecycle item of a request id, `slot` the admission slots
of the project and its principals, `counter` the scan counters of each window,
`athena[q]` the execution that the client token of q names, `audited[q]` the outcomes
in its final `QUERY_RESULT` records. `proc[p]` holds the locals of a call
(`QueryService.execute`) or of a reconciler; both settle through the same steps.

*Actions.* A call: `Request`, `Reserve` (one pair of slots per transaction), `Start`,
`Mark` / `AbandonMark` / `LateMark` (the update in a thread may outlive its call),
`Wait`, `Stop`. A reconciler: `Claim` (one claiming update of a page), `EndPage`,
`NextClaim`, `Observe`, `Defer`. Both: `Plan` (the reads before the transaction),
`Commit`, `Check` (reading the item after an exception), `Record`, `Ack`. Around them:
`AthenaEnds`, `LeaseExpires`, `ClaimExpires`, `NextWindow`, `CounterExpires`,
`CrashReconciler`.

*Abstractions.* A lease token is the call that drew it, a claim token its process. Rows,
SQL checks and the rate limit are left out; what they refuse is the refusal in
`Request`. Times are "has run out" bits: a lease may run out at any time, a claim
while its reconciler is at work only as a fault, since claims are made for longer than
a page takes. A call that dies takes no further step; no call is owed one.

*Contract.* `QueryContract`: a request id is admitted once, settled once, its final
records state its outcome and no other, and it is closed only when there is one. The
mapping reads the stage off status and `audit_pending`.

## AuditChain

*State.* `chain` is the tenant's rows in the order of their commits, which the code
does not see; `head` the `AUDIT#HEAD` item; per instance `cached` (`_last_hashes`),
`ready`, the lock's `holder` and the `buffer`; `rec[r]` the call of `record` for r;
`reader` a call of `verify_persisted_chain`.

*Actions.* `Enter` (take the lock), `Load` (the head, the first time), `AppendRecord` (the
transaction, its conflict, or a failure that may have taken effect), `Acknowledge`,
`Reload` (after a conflict), `Cancel`, `Land` (a transaction whose call is gone), `Crash`;
`BeginVerify`, `ReadRow`, `EndRows`, `ReadHead`.

*Abstractions.* A record is committed at most once, so its id stands for its hash:
no two hashes are equal. Each attempt takes a time of its own; clocks differ by `Skew`.
One tenant, since tenants share nothing. Left out: the chain of the legacy tenant,
which is written without the head item, `hydrate_recent` and exports.

*Contract.* `AuditLog`: a log that grows by one record at a time, each at most once; a
caller told of success has its record in it, a caller told of a failure may see it
there or see it arrive later.

## ExportJobs

*State.* `jobs[j]` is the item of a job, `objects[j]` the content at its object key,
`queue[t]` the FIFO message group of a tenant with `hidden` and `receives` per message,
`dead` the jobs whose message is in the dead-letter queue,
`client[j]` where the request is in `_create`, `run[r]` the r-th invocation of the
worker. The number of an invocation stands for the claim token it draws and for the
content it renders.

*Actions.* Request: `Create`, `Enqueue`, `FailQueued`, `CreateFails`. Queue: `Deliver`,
`DeliverAgain` (a second invocation for one receipt), `DeadLetter`. Worker: `Claim`,
`NotClaimed`, `Render`, `Upload`, `Complete`, `Release`, `LeaseLost`, `CallFails`, `Die`;
its return deletes the message (`Acknowledge`) or reports it as failed (`Report`).
`Tick` is time.

*Abstractions.* The code's values are a function timeout of 10 minutes, a lease of 14,
a visibility timeout of 60, 5 receives, 3 attempts and 2 invocations at a time;
`LeaseAssumption` is `RunTimeout + 2 * Skew <= Lease`, and the run keeps
`Visibility > RunTimeout + Lease + 2 * Skew`. Time passes only while something waits for
it, and the queue gives out a message as soon as it may. Left out: the branch for
`CancelledError`, which nothing in the Lambda host raises, and the expiry of jobs after
a day.

## Runs

| Run | Instance | Checks |
|---|---|---|
| `ledger_contention` | two requests; project limit 4, estimates 3 and 2, so one fits at a time; prices 0, 2, 3; two resets | `BudgetBound`, `Conservation` |
| `ledger_faults` | one request, one sweep; every call may raise, every write may lose its answer, both may crash; unreserved spend and two resets | `AnswerHonest`, `Conservation`, `SettledOnce`, `ContractSpec` |
| `ledger_sweep` | two requests, which may crash, one sweep; fair | `AlertOnce`, `NoMissedAlert`, `EventuallySettled` |
| `ledger_int_limit` | one request, which may crash, one sweep; one limit given as an int; fair | `EventuallySettled`, violated: see Findings |
| `pool_lifecycle` | three attempts, two routes in a capacity group of two; every outcome, cooldowns that run out; credential rotated, failover tier disabled, route removed and installed again, limit lowered | `TypeOK`, `LeaseAccounting`, `GenerationIdentity`, `CapacityHeld`, `LastRouteStays` |
| `fleet_refresh` | operator on a, which may restart; b follows; two rows, two writes; outage and lost answers | `ConfigReal`, `OwnWritesKept` |
| `fleet_converge` | a limit set and cleared on a; outage and lost answers; fair | `KnownIsAdopted`, `EventuallyConverged` |
| `query_contention` | two requests of one principal with one slot, one call dies after admission; a scan budget that fits both only after a refund; two windows | `LeaseOwnsSlots`, `ScanBudget`, `Conservation` |
| `query_recovery` | one request id used by two calls, one of which dies, one reconciler; executions below and above the reservation; two faults; fair | `Conservation`, `ScanCharged`, `ContractSpec`, `EventuallyClosed` |
| `audit_chain` | two instances, three records, two attempts, a buffer of two, one verification, one fault; clocks agree; fair | `OneChain`, `InOrder`, `BufferInOrder`, `ConflictsCaused`, `VerdictRight`, `LogSpec`, `EventuallyAnswered` |
| `quota_copies` | two instances, two budgeted requests, one bill, one probe, one reset, two calls at a time, one fault; fair | `TypeOK`, `CopyBacked`, `AnnouncedOnce`, `EventuallySeen` |
| `export_lifecycle` | one tenant, two jobs, two attempts, three receives, five invocations, three faults, one second delivery or repeated claim; fair | `TypeOK`, `DownloadMatches`, `FinalForGood`, `EventuallyFinal` |

The type invariants of the ledger, the fleet, the queries and the chain are in no
run: they are proved (`TypeCorrect`).

*What they mean.* `BudgetBound`: reservations never take a counter past its limit,
apart from what prices above an estimate and unreserved spend add. `Conservation`:
a counter is at all times the sum of its open estimates, settled prices and
unreserved spend of its cycle; for queries, of open reservations and charges.
`AnswerHonest`: what a request is told agrees with its marker. `SettledOnce`: a
reported cost and a finalized marker stand. `NoMissedAlert`: once everything is
settled, nothing cost more than its estimate and nothing was spent without a
reservation, every reached threshold is recorded. `CapacityHeld`: a lease is granted within the limits counted over the
leases that are really out, of all generations. `LastRouteStays`: only a refused
credential takes the last route of a model out of service. `ConfigReal`: a following
instance has exactly the rows of the version it acknowledges. `KnownIsAdopted`: an
instance that acknowledges the current version has the current rows, since it will not
look again before the next write. `CopyBacked`: what an instance takes for the spend
was the spend at some time since its cycle began. `EventuallySeen`: an instance that
goes on being asked learns the cycle and at least the whole spend of it.
`LeaseOwnsSlots`: no takeover and no settlement frees the slots of a query whose lease
runs. `ScanCharged`: a settled query is charged for what its execution scans, even if it
was started after a reconciler gave it up. `ConflictsCaused`: an append is given up
as contended only when others got theirs in. `VerdictRight`: "intact" is said of all
rows there are. `DownloadMatches`: the object of a completed job is the one whose
digest the job shows. `FinalForGood`: what a job came to, and its object, stand.
`EventuallyFinal`: an accepted job is completed or failed. It excuses a message that
really went to the dead-letter queue, after a failure in each of its receives, so the
outcome of every retry before that is demanded; a message that comes back while the lease
still runs would be acknowledged, and the job stranded. It also excuses an export that a
second invocation or a repeated claim has disturbed, which the code does strand.

*Bounds and why they are enough.* Two settlements are enough for every race of the
ledger, since each transaction conflicts with one other; resets are bounded at two
so that a reservation can be two cycles behind. The retry bounds are 2 instead of
5 and 3: a retry starts again from the read, so the second one already meets every
state a later one can. Three attempts exceed the capacity group by one; generation
2 allows a route to be rotated or installed again. Cooldowns of 2, 1 and 1 keep a
refused credential longest, as 300, 30 and 20 seconds do. Two writes let a scan
fall before, between and after them. A query is raced by one other process at a time,
so one reconciler beside two calls meets each pair; two faults let a transaction lose
its answer and the check after it fail. Three records by two instances let an append
lose its head twice, which exhausts the two attempts. Two calls at
a time in `quota_copies` interleave every pair of calls of one or two instances. In
`export_lifecycle` five invocations are two jobs and a retry for each of three faults, or
two retries and a second delivery. As in the code (3 and 5) there are more receives than
a job has attempts, so that it can use them up; three faults are just what it takes to
dead-letter one message, so the outcome of the first and of the second retry is demanded.
The group is FIFO: the second job waits behind the first, and a second tenant would share
only the concurrency. The
theorems have none of these bounds in them: their constants are arbitrary.

*Deadlock* is not checked where the system comes to an end: the requests of the
ledger, queries, appends, quota calls and exports are finitely many. It is checked for
the pool and the fleet. *Symmetry* is used for the pool's attempts, in a run without
liveness. Mutants (`PROJECT.json`) are one plausible bug per property, written
beside the definition they replace.

*Fairness.* `BudgetLedger!FairSpec`: leases run out (wall clock) and sweeps keep
being run, which the code does from the traffic of any instance; a request gets no
fairness, so it may stop anywhere. `FleetConfig!FairSpec`: polling windows run out,
every instance has traffic that polls and finishes its refresh, and an outage ends;
operators get none. `QueryLifecycle!FairSpec`: Athena ends what it runs, leases and
claims run out, and the reconciliation worker of a live instance goes on; calls get
none. A reconciliation is deferred only by one of the bounded faults: a query whose data
source stays deleted or unapproved would be deferred for ever, and `EventuallyClosed`
says nothing of it. `AuditChain!FairSpec`: a call that is under way is run by the event loop, and
DynamoDB answers or fails. `QuotaFleet!FairSpec`: calls under way get on, and simulations
keep coming in while time passes; reservations whose request died are not waited for.
`ExportJobs!FairSpec`: requests get on or fail, SQS delivers what is visible, Lambda runs
what it invoked or lets it die, and time passes. Faults are bounded in number, so they
end.

## Findings

- `ledger_int_limit`: a limit given as the int 100 is signed "100" and rebuilt by
  the sweep as "100.0" (`persistence.py` 6336), so the sweep is refused and a
  crashed request's reservation stays until the cycle ends. `ledger_sweep` has float
  limits.

### Further configurations

These are kept beside the runs. Each shows, in a few steps, a behaviour that a
document, a comment or a reader would not expect; TLC reports the property as
violated.

| Configuration, property | What it shows |
|---|---|
| `LedgerAlertDropped`, `AlertDelivered` | a sweep that settles a reservation across a threshold records the alert and drops it (`persistence.py` 6339; `src/README.md` 239); nobody is ever told |
| `FleetBootRace`, `KnownIsAdopted` | startup reads the version after the rows (`bootstrap.py` 1176), so a write in between is acknowledged without having been loaded |
| `FleetRaisedLimit`, `LimitHotReloaded` | a refresh creates a policy node with the limit and nothing updates it (`config_sync.py` 465; `admin/routes.py` 1025); the smaller of the two is enforced until the instance restarts |
| `QueryFreeScan`, `EveryScanCharged` | a call cancelled while the start of its execution fails is settled at zero, although the execution may run (`query/service.py` 641; `docs/PRD.md` 365) |
| `QuotaRefund`, `EventuallyAligned` | within a cycle an instance's copy of the spend only moves up (`quota_enforcer.py` 213), so a refund made elsewhere stays hidden and `check_budget` refuses what the ledger would admit (docstring at 368) |
| `AuditSkew`, `LoadedInOrder` | rows are sorted by time, so clocks that differ by more than the time between two appends give another order than the links (`persistence.py` 1190) |
| `AuditAlarm`, `NoFalseAlarm` | a record committed between the verification's reads of the rows and of the head is reported as TAMPERED (`audit_trail.py` 616-617) |
| `ExportStranded`, `EveryJobEnds` | a worker that finds a live lease returns as if all was well, and the message is deleted (`export_jobs.py` 1064); if the invocation that holds the lease then dies, or the claim was its own with the answer lost, the job stays "processing" |

### Observations

Reading the code for the models showed more behaviours for which no configuration
is kept:

- Two settlements *above* their estimates may each judge a threshold by a total
  read before the other's commit, and their sum reaches it unrecorded
  (`persistence.py` 6134). This is why `NoMissedAlert` has its premise on overruns.
- A call that was under way when its credential was quarantined lifts the
  quarantine when it ends (`provider_routes.py` 508; `docs/PROVIDER_ROUTES.md` 49
  says five minutes).
- A scan that fails at startup counts as an empty table and the version is
  acknowledged all the same (`bootstrap.py` 798 and 1176).
- A handler publishes its row after the `await` of the save, over a newer one a
  refresh adopted meanwhile (`admin/routes.py` 1344). It takes writers on two
  instances; `fleet_converge` has one.
- A project limit that is cleared stays armed on the other instances
  (`config_sync.py` 451, `agent.py` 283-286), so `EventuallyConverged` speaks of
  limits that are set.
- A reset between a settlement's commit and the read that answers it announces the
  old cycle's threshold under the new epoch, and enters it into the new cycle's set
  (`tests/unit/test_atomic_budget_reservations.py` 602 has the order without the
  reset). `_fire_budget_alerts` may also write back a set that a reset has popped
  (`quota_enforcer.py` 243). The new cycle's own crossing of that threshold then finds it in
  the set and is announced to nobody. So `AnnouncedOnce` counts a crossing by its own cycle, and
  says nothing of the cycle it is announced with.
- The answer of a reset is assigned unconditionally, even when a newer one has been
  adopted, and clears the new cycle's spend until the next refresh.
- `verify_chain` (`admin/audit_routes.py` 245) starts its buffer from genesis, so it
  reports TAMPERED after a restart, an eviction or another instance's append.
- A message that has been received five times goes to the dead-letter queue and its
  job stays queued or processing. A creation whose `enqueue` and `fail_queued` both
  fail leaves a queued job that nobody was told of.

## Proofs

All theorems are about `Spec`, for arbitrary constants that satisfy the named
assumptions of each module; TLC evaluates them on every run. These are
`RequestsAssumption`, `AmountAssumption` (estimates are
positive and among the prices) and `BoundAssumption` for the ledger,
`CatalogAssumption` (catalogs are well-formed, attempts are finitely many) and
`CooldownAssumption` (the three cooldowns in the order of the code's 20, 30 and 300 s) for the
pool, `ConfigAssumption` for the fleet; `QueryAssumption` and `LimitAssumption` (a
reservation fits into the scan limit, every owner has a slot) for queries,
`AuditAssumption` for the chain, `QuotaAssumption` (calls of the four kinds are
distinct, resets finitely many), `ExportAssumption` and `LeaseAssumption` (an
invocation ends before the lease it took does, by any worker's clock) for exports.

**BudgetLedgerProofs.** `TypeCorrect`, then `Bounded` (`BudgetBound` is inductive
with the types: the transaction's own conditions carry it, whatever was read
before). `SettlementStands` follows from `Blank` (a marker that does not exist is
empty) and a case analysis of the steps that write markers. `Honest`,
`ImplementsContract` and `AlertsOnce` need to know what a process in the middle of
a call may rely on: `LocalInv` says that the epochs it read are not ahead of the
counters', that past its settlement intent the marker exists, that what it commits
was planned with epochs no older than the reservation's, that it replies only about
a reservation settled as it asked, and that a request works on its own marker.
Each action is shown to keep it for the process that moves (`*Moved` lemmas), and
`Frame` shows that no step disturbs the others. `ImplementsContract` then maps
`ReserveCommit` to `Admit`, `FinalizeCommit` to `Settle`, `AddSpend` to `Charge`,
`ResetSpend` to `Reset`, and everything else to a stutter. `AlertInv` adds that an
alert counted as returned has its item, and that a process about to reply owns the
alerts it has put: they are recorded, no other process is about to return them and
nobody has.

`Conserved` and the other sums rest on `Amounts`. `Total(f, S)` is the number of units
in the sum, the cardinality of the pairs <<x, n>> with n below f[x]: it needs no
recursion, and no finite `Requests`, since only those with an amount count. `AmountLemmas`
derives from the library's facts on cardinalities that changing one amount changes the
total by as much. `Conserved` also needs `Behind`, no reservation is ahead of its
counters' cycle: so a reset leaves no share in the new one.

`AlertsRecorded` is the subtle one. Settlements judge thresholds by a total read some
steps earlier, so none alone can be relied on to record what is reached. The invariant
`Guarded` names one that can: as long as nothing was overrun or spent without a
reservation, a counter is `Warned` (all it has reached is recorded) or has a `Witness`, an
open reservation whose every settlement under way knows at least the total there is now
(`Watches`), so that the alerts it plans cover what it will leave. The reservation made
last is a witness, because nobody has read anything for it yet; totals only fall until
another is made; and the settlement of the witness leaves the counter warned. TLC
checked `Guarded` on the instance of `ledger_sweep`, and with resets and unreserved
spend, before it was proved. The thresholds must be positive, as the code's are.

**RoutePoolProofs.** The inductive invariant is `PoolInv`: the tables and their
domains, installed routes have a runtime and a pinned configuration, counts equal
the leases that are out, and every lease's generation is pinned with its own
configuration. `TypeCorrect`, `LeasesCounted`, `LeasesIdentified` and `HealthFits`
are its consequences. `LastRouteKept` is an action property on top: a failure other
than a refused credential cools a route only when it found a sibling, and that
sibling is not cooling afterwards. `CapacityRespected` compares what `_is_eligible` adds
up, generation by generation, with the leases that are really out under the group
(`GroupCount`): the sum of the parts is the size of their union.

**FleetConfigProofs.** `FleetInv` adds to the types: the store is the last entry of
`past` and revisions grow along it (`StoreOK`); a write makes the next revision and
has done so before it is published (`CallOK`); what an instance has published is in
the store, or a later revision is (`OwnOK`); a refresh holds the store's rows as long
as the version has not moved, the rows of its version once that is confirmed, and
nothing older than its own instance's writes while the generation is the one it
started with (`ScanOK`); a following instance has the rows of the version it knows,
which is no newer than the one it is reading (`FollowOK`). `FollowersReal` and
`OwnWritesSafe` follow. `FleetInv` was also checked by TLC before it was proved.
`KnownAdopted` is stated under two hypotheses, both met by `fleet_converge`: each row has
one operator (`SoleWriters`), and no instance starts during the writes (`Late = {}`).
Without either it is false: `FleetBootRace` shows the start, and the observation on
handlers that publish after an `await` the two operators. Its invariant says that what a
handler is about to publish is the stored row (`WriterOK`) and that an instance at the
current version has all rows (`AdoptedOK`). `SteadyAdopted`, from which it follows,
needs only the first: the instances that stay up keep this property while others restart.

**QuotaFleetProofs.** `Core` is the types, which steps a call of each kind may take, and
that the counter covers what the open reservations hold (`HeldCovered`), without which a
refund could take it below zero. `SpendBacked` follows from `Figures`: not only what an
instance has adopted but every answer on its way is a value the counter had since the
cycle it names began. Those answers are adopted in any order, and the enforcer keeps the
larger. `CrossingAnnouncedOnce` follows from `Alerts`: a crossing has one call that is to
announce it, from the commit of its alert item to the callback, whatever the shared sets
of announced thresholds say meanwhile.

**QueryLifecycleProofs.** `IInv` is the types, what an item says about its own history
(`ItemInv`: its lease is a call of that request, records agree with the stored outcome,
a settled item is pending or audited, and its charge covers the execution) and what a
process knows of the query it works on (`CallInv`, `ReconcilerInv`, `WorkInv`). Outcomes
are only ever settled when they cover what the execution may still scan, which is
`Charged`; that it stays true when an execution starts late is the heart of
`NothingUncharged`. `Forward` lists what no step takes back and carries every process
that does not move (`Bystander`). `Effects` reduces each action to the few ways in which
the store changes; `SlotsKept`, `BudgetKept` and `ImplementsContract` are case analyses
over these. `BytesConserved` adds `Planned`: a settlement refunds owners of its query,
and every one whose counter still exists when it commits, since a counter that was gone
when it was planned does not come back.

**AuditChainProofs.** Every action is first reduced to its effect on a record, the store
and the memory (`Effect`). On it rest `Placed` (a row is what its record was when it was
committed, and there is one of each), with `OneChain` from the transaction's condition
(`ChainUnbroken`); `Contended` (an attempt that will be refused was overtaken by a commit
that no conflict accounts for yet) for `ConflictsExplained`; and `Timely` (a pending
record is later than the row it links to) for `OrderedWhenClocksAgree`. `ImplementsLog`
maps a commit to `Arrive`, an acknowledgement to `Succeed`, a failure or a crash to
`Fail`. `MemoryInOrder` needs the lock (`Locked`) and `Remembered`: a record that is
committed and not yet in the buffer comes after all that are. `VerdictsRight` needs
`ReadOK`: linked rows are the first ones of the chain, for a row has one successor; the
other half, no alarm without a commit between the reads, adds `Undisturbed` and the order
of timestamps that `OrderedWhenClocksAgree` gives.

**ExportJobsProofs.** `IInv` is the types, `Young` (no invocation is older than the
function's timeout), `Leased` (an invocation past its claim holds the job, under a lease
that outlasts it), `Put` (what it completes is what it has put) and `DownloadMatches`.
The argument is `Fenced`: while an invocation writes, every clock another one may read is
below the lease, so nobody can claim the job and put another content at its key. The
lease is needed as an assumption, since the conditional update alone does not guard the
object. `FinalStands` follows: a final job has no claim, and only a claim holder writes.

*Only model-checked.* Liveness (`EventuallySettled`, `EventuallyConverged`,
`EventuallyClosed`, `EventuallyAnswered`, `EventuallySeen`, `EventuallyFinal`) and the
finding, which is about liveness too: fairness is out of the prover's reach. Everything
else the runs check is proved.

## Not modelled

`PROJECT.json` gives the reason for each component. In short: rate limiting, Cedar
policies, the event dispatcher, API keys, the router's fallback and the caches have
shared state worth a module and are next in the plan. Sign-in, SCIM, model selection,
content checks, provider adapters, observability, the AgentCore runtime and the
deployment and release tooling, which is most of the repository by size, are formats,
cryptography, scoring or scripts that one actor runs from top to bottom: there is no
interleaving to check.

## Running

    tlc -config LedgerContention.cfg MCBudgetLedger
    tlc -config PoolLifecycle.cfg MCRoutePool
    tlc -config FleetRefresh.cfg MCFleetConfig
    tlc -config QuotaCopies.cfg MCQuotaFleet
    tlc -config QueryRecovery.cfg MCQueryLifecycle
    tlc -config AuditChain.cfg MCAuditChain
    tlc -config ExportLifecycle.cfg MCExportJobs
    tlapm BudgetLedgerProofs.tla

Every run takes a few minutes at most with two workers; the proofs take about as
long.
