---------------------------- MODULE BudgetLedger ----------------------------
(***************************************************************************)
(* The durable budget ledger: atomic reservations in DynamoDB.             *)
(*                                                                         *)
(*   src/src/gateway/persistence.py     reserve_budget,                    *)
(*     finalize_budget_reservation, release_expired_budget_reservations,   *)
(*     add_spend_state, reset_spend_counters                               *)
(*   src/src/gateway/agent.py           the request that reserves, calls   *)
(*     the provider and settles                                            *)
(*                                                                         *)
(* Every DynamoDB call is one atomic step and everything between two calls *)
(* may be interleaved with other processes.  A process is a request (the   *)
(* gateway coroutine serving it) or a cleaner (one sweep of expired        *)
(* leases, run by some gateway instance).  Both settle through the same    *)
(* code, so the finalization steps take any process.                       *)
(*                                                                         *)
(* A call can raise without taking effect, and a write can take effect and *)
(* then raise (its answer is lost).  Faults says which of these a model    *)
(* contains, Crashable which processes may die.                            *)
(***************************************************************************)
EXTENDS Integers, FiniteSets, Amounts

CONSTANTS
    Requests,          \* request ids (uuid4 per request, never reused)
    Cleaners,          \* concurrent sweeps of expired reservations
    Counters,          \* spend counters, one per (scope, ident)
    QuotaCounters,     \* the counters of scope "quota": the ones that alert
    Rank,              \* order of the counters: sorted by (scope, ident)
    CountersOf,        \* CountersOf[r]: counters request r reserves
    Amount,            \* Amount[r]: the estimate r reserves
    Limit,             \* Limit[c]: the limit enforced on c
    IntLimits,         \* the counters whose limit was configured as an int
    Costs,             \* prices: 0 is a release, Amount[r] an abandoned call
    Thresholds,        \* alert thresholds in percent of the limit
    ResetGroups,       \* sets of counters reset by one transaction
    MaxReserveTries,   \* attempts of _reserve (5 in the code)
    MaxFinalizeTries,  \* attempts of _finalize (3 in the code)
    MaxEpoch,          \* bound: billing-cycle resets of a counter
    MaxDirect,         \* bound: unreserved spend added to a counter per cycle
    Faults,            \* subset of {"raise", "lost_reply"}
    Crashable          \* processes that may die with their gateway instance

ASSUME RequestsAssumption ==
    /\ Requests # {}
    /\ Requests \cap Cleaners = {}
    /\ CountersOf \in [Requests -> SUBSET Counters \ {{}}]
    /\ Rank \in [Counters -> Nat]
    /\ QuotaCounters \subseteq Counters
    /\ IntLimits \subseteq Counters
    /\ ResetGroups \subseteq SUBSET Counters

ASSUME AmountAssumption ==
    /\ Costs \subseteq Nat
    /\ 0 \in Costs
    /\ Limit \in [Counters -> Nat]
    /\ Amount \in [Requests -> Nat \ {0}]
    /\ \A r \in Requests : Amount[r] \in Costs
    /\ Thresholds \subseteq Nat \ {0}

ASSUME BoundAssumption ==
    /\ MaxReserveTries \in Nat
    /\ MaxFinalizeTries \in Nat
    /\ MaxEpoch \in Nat
    /\ MaxDirect \in Nat
    /\ Faults \subseteq {"raise", "lost_reply"}
    /\ Crashable \subseteq Requests \cup Cleaners

VARIABLES
    spend,      \* spend[c], epoch[c]: the counter item  PK=SPEND#.. SK=TOTAL
    epoch,
    marker,     \* marker[r]: the reservation item       SK=RESERVATION#..
    alerts,     \* the alert items                       SK=ALERT#epoch#pct
    proc,       \* proc[p]: local state of the call process p is making
    overrun,    \* history: settled above estimate, per counter, this cycle
    direct,     \* history: unreserved spend, per counter, this cycle
    returned    \* history: how often a crossed threshold was returned to a
                \* QuotaEnforcer, which fires its callbacks

items == <<spend, epoch, marker, alerts>>
history == <<overrun, direct, returned>>
vars == <<items, proc, history>>

Procs == Requests \cup Cleaners

AlertKeys == QuotaCounters \X Nat \X Thresholds

Markers == [state      : {"none", "reserved", "finalized"},
            settlement : Costs,     \* settlement_amount
            reported   : BOOLEAN,            \* settlement_state = "reported"
            epochs     : [Counters -> Nat],  \* reservation_epochs
            actual     : Costs,     \* actual_cost
            expired    : BOOLEAN]            \* reserved, lease has run out

NoMarker == [state |-> "none", settlement |-> 0, reported |-> FALSE,
             epochs |-> [c \in Counters |-> 0], actual |-> 0, expired |-> FALSE]

Reserving == {"reading", "reserve", "checkReserve"}
Finalizing == {"finalize", "intent", "checkIntent", "refresh", "plan",
               "commit", "checkCommit", "reply"}
Ended == {"denied", "unavailable", "settled", "failed", "crashed"}

Locals == [pc        : {"idle", "admitted", "sweeping"} \cup Reserving
                          \cup Finalizing \cup Ended,
           req       : Requests,                \* reservation worked on
           cost      : Costs,          \* actual_cost of the call
           unread    : SUBSET Counters,         \* counters still to be read
           seenEpoch : [Counters -> Nat],       \* what the reads returned
           seenSpend : [Counters -> Int],
           tries     : Nat,
           due       : SUBSET AlertKeys,        \* alert items to put
           refused   : BOOLEAN,                 \* a counter condition failed
           clash     : BOOLEAN,                 \* an alert condition failed
           todo      : SUBSET (Requests \X Costs)]

Idle(r) == [pc |-> "idle", req |-> r, cost |-> 0, unread |-> {},
            seenEpoch |-> [c \in Counters |-> 0],
            seenSpend |-> [c \in Counters |-> 0],
            tries |-> 0, due |-> {}, refused |-> FALSE, clash |-> FALSE,
            todo |-> {}]

AnyRequest == CHOOSE r \in Requests : TRUE

Init ==
    /\ spend = [c \in Counters |-> 0]
    /\ epoch = [c \in Counters |-> 0]
    /\ marker = [r \in Requests |-> NoMarker]
    /\ alerts = {}
    /\ proc = [p \in Procs |-> Idle(IF p \in Requests THEN p ELSE AnyRequest)]
    /\ overrun = [c \in Counters |-> 0]
    /\ direct = [c \in Counters |-> 0]
    /\ returned = [k \in QuotaCounters \X (0..MaxEpoch) \X Thresholds |-> 0]

\* Where a call that is over leaves its process.  A request ends, and its caller
\* knows what it asked for; a sweep goes on with its next expired reservation,
\* whatever became of this one.
Return(p, outcome) ==
    proc' = [proc EXCEPT ![p] =
        IF p \in Cleaners
        THEN [Idle(AnyRequest) EXCEPT !.pc = "sweeping", !.todo = proc[p].todo]
        ELSE [Idle(p) EXCEPT !.pc = outcome, !.cost = proc[p].cost]]

Goto(p, label) == proc' = [proc EXCEPT ![p].pc = label]

\* _normalize_budget_reservations sorts a reservation's counters.  They are
\* read in that order, and the marker lives in the first one's partition.
First(S) == CHOOSE c \in S : \A d \in S : Rank[c] <= Rank[d]

\* _budget_states_from_table: one consistent read per counter, in order.  The
\* caller keeps the epoch and as much of the total as it will look at.
ReadCounter(p, c, total, next) ==
    proc' = [proc EXCEPT
                ![p].unread = @ \ {c},
                ![p].seenEpoch[c] = epoch[c],
                ![p].seenSpend[c] = total,
                ![p].pc = IF proc[p].unread = {c} THEN next ELSE @]

-----------------------------------------------------------------------------
(* reserve_budget                                                          *)

BeginReserve(r) ==
    /\ proc[r].pc = "idle"
    /\ IF \E c \in CountersOf[r] : Amount[r] > Limit[c]
       THEN Return(r, "denied")                       \* impossible_scope
       ELSE proc' = [proc EXCEPT ![r].pc = "reading", ![r].tries = 1,
                                 ![r].unread = CountersOf[r]]
    /\ UNCHANGED <<items, history>>

ReserveRead(r) ==
    /\ proc[r].pc = "reading"
    /\ ReadCounter(r, First(proc[r].unread), 0, "reserve")
    /\ UNCHANGED <<items, history>>

\* Mutants of Fits: the estimate is not subtracted; the cycle is not checked.
FitsWithoutEstimate(r, c) ==
    epoch[c] = proc[r].seenEpoch[c] /\ spend[c] <= Limit[c]

FitsAnyCycle(r, c) == spend[c] <= Limit[c] - Amount[r]

Fits(r, c) ==
    /\ epoch[c] = proc[r].seenEpoch[c]
    /\ spend[c] <= Limit[c] - Amount[r]

Reservable(r) ==
    /\ marker[r].state = "none"
    /\ \A c \in CountersOf[r] : Fits(r, c)

\* transact_write_items: the marker and every counter, or nothing.  The result
\* is read afterwards; if that read raises, or the answer was lost and cannot
\* be checked, the request is refused while its reservation stands.
ReserveCommit(r) ==
    /\ proc[r].pc = "reserve"
    /\ Reservable(r)
    /\ marker' = [marker EXCEPT ![r] =
                    [NoMarker EXCEPT
                        !.state = "reserved", !.settlement = Amount[r],
                        !.epochs = [c \in Counters |->
                            IF c \in CountersOf[r] THEN proc[r].seenEpoch[c] ELSE 0]]]
    /\ spend' = [c \in Counters |->
                    IF c \in CountersOf[r] THEN spend[c] + Amount[r] ELSE spend[c]]
    /\ \/ Return(r, "admitted")
       \/ "raise" \in Faults /\ Return(r, "unavailable")
       \/ "lost_reply" \in Faults /\ Goto(r, "checkReserve")
    /\ UNCHANGED <<epoch, alerts, history>>

ReserveRefused(r) ==
    /\ proc[r].pc = "reserve"
    /\ ~Reservable(r)
    /\ proc' = [proc EXCEPT ![r].pc = "checkReserve",
                            ![r].refused = \E c \in CountersOf[r] : ~Fits(r, c)]
    /\ UNCHANGED <<items, history>>

\* The except branch: our own marker means the transaction did commit; a moved
\* billing cycle means try again; otherwise a limit was reached.
ReserveCheck(r) ==
    /\ proc[r].pc = "checkReserve"
    /\ \/ /\ marker[r].state = "reserved"
          /\ Return(r, "admitted")
       \/ /\ marker[r].state = "finalized"            \* budget_request_replayed
          /\ Return(r, "denied")
       \/ /\ marker[r].state = "none"
          /\ proc[r].refused
          /\ IF \A c \in CountersOf[r] : epoch[c] = proc[r].seenEpoch[c]
             THEN Return(r, "denied")
             ELSE IF proc[r].tries < MaxReserveTries
             THEN proc' = [proc EXCEPT ![r] =
                    [Idle(r) EXCEPT !.pc = "reading", !.unread = CountersOf[r],
                                    !.tries = proc[r].tries + 1]]
             ELSE Return(r, "unavailable")
       \/ /\ marker[r].state = "none"
          /\ ~proc[r].refused
          /\ Return(r, "unavailable")
    /\ UNCHANGED <<items, history>>

-----------------------------------------------------------------------------
(* finalize_budget_reservation, called by the request or by a sweep        *)

\* The provider call is over: released (0), abandoned (the estimate), or
\* answered with a price.
BeginFinalize(r, cost) ==
    /\ proc[r].pc = "admitted"
    /\ proc' = [proc EXCEPT ![r].pc = "finalize", ![r].cost = cost]
    /\ UNCHANGED <<items, history>>

\* Mutant of SettledAt: another cost counts as settled too.
SettledAtAny(m, cost) == m.state = "finalized"

SettledAt(m, cost) == m.state = "finalized" /\ m.actual = cost

\* The marker stores str(Decimal(str(limit))) of every limit.  A request settles
\* with the limits it reserved with; a sweep reads them back through float(),
\* which turns "100" into "100.0": the signature of an int limit differs.
SameSignature(p) ==
    p \in Cleaners => CountersOf[proc[p].req] \cap IntLimits = {}

FinalizeReadMarker(p) ==
    LET m == marker[proc[p].req] IN
    /\ proc[p].pc = "finalize"
    /\ \/ /\ SameSignature(p)
          /\ m.state = "reserved"
          /\ Goto(p, "intent")
       \/ /\ ~(SameSignature(p) /\ m.state = "reserved")
          /\ Return(p, IF SameSignature(p) /\ SettledAt(m, proc[p].cost)
                       THEN "settled" ELSE "failed")
    /\ UNCHANGED <<items, history>>

\* table.update_item: persist the settlement intent.
MayReportAgain(m, cost) == m.state = "reserved"    \* mutant of MayReport

MayReport(m, cost) ==
    /\ m.state = "reserved"
    /\ m.reported => m.settlement = cost

RecordIntent(p) ==
    LET r == proc[p].req IN
    /\ proc[p].pc = "intent"
    /\ MayReport(marker[r], proc[p].cost)
    /\ marker' = [marker EXCEPT ![r].settlement = proc[p].cost,
                                ![r].reported = TRUE]
    /\ \/ proc' = [proc EXCEPT ![p].pc = "refresh", ![p].tries = 1,
                               ![p].unread = CountersOf[r]]
       \/ "lost_reply" \in Faults /\ Goto(p, "checkIntent")
    /\ UNCHANGED <<spend, epoch, alerts, history>>

IntentRefused(p) ==
    /\ proc[p].pc = "intent"
    /\ ~MayReport(marker[proc[p].req], proc[p].cost)
    /\ Goto(p, "checkIntent")
    /\ UNCHANGED <<items, history>>

IntentCheck(p) ==
    /\ proc[p].pc = "checkIntent"
    /\ Return(p, IF SettledAt(marker[proc[p].req], proc[p].cost)
                 THEN "settled" ELSE "failed")
    /\ UNCHANGED <<items, history>>

FinalizeRead(p) ==
    /\ proc[p].pc = "refresh"
    /\ LET c == First(proc[p].unread) IN
       ReadCounter(p, c, IF c \in QuotaCounters THEN spend[c] ELSE 0, "plan")
    /\ UNCHANGED <<items, history>>

Delta(p) == proc[p].cost - Amount[proc[p].req]

\* The counters still in the billing cycle of the reservation, as read.
Current(p) ==
    LET r == proc[p].req IN
    {c \in CountersOf[r] : proc[p].seenEpoch[c] = marker[r].epochs[c]}

\* Mutant of Crossed: a threshold reached exactly is not crossed.
CrossedStrictly(p) ==
    {k \in {<<c, marker[proc[p].req].epochs[c], t>> :
                c \in Current(p) \cap QuotaCounters, t \in Thresholds} :
        /\ Limit[k[1]] > 0
        /\ 100 * (proc[p].seenSpend[k[1]] + Delta(p)) > Limit[k[1]] * k[3]}

Crossed(p) ==
    {k \in {<<c, marker[proc[p].req].epochs[c], t>> :
                c \in Current(p) \cap QuotaCounters, t \in Thresholds} :
        /\ Limit[k[1]] > 0
        /\ 100 * (proc[p].seenSpend[k[1]] + Delta(p)) >= Limit[k[1]] * k[3]}

\* Reads the alert items and decides which thresholds this settlement crosses.
FinalizePlan(p) ==
    LET r == proc[p].req IN
    /\ proc[p].pc = "plan"
    /\ IF \E c \in CountersOf[r] : proc[p].seenEpoch[c] < marker[r].epochs[c]
       THEN Return(p, "failed")            \* "epoch moved backwards"
       ELSE proc' = [proc EXCEPT ![p].pc = "commit",
                                 ![p].seenSpend = [c \in Counters |-> 0],
                                 ![p].due = Crossed(p) \ alerts]
    /\ UNCHANGED <<items, history>>

\* Mutants of Settleable: the counters' cycle is not checked; an alert that is
\* recorded already does not matter; the marker's state is not checked.
SettleableAnyCycle(p) ==
    LET r == proc[p].req IN
    /\ marker[r].state = "reserved"
    /\ marker[r].reported
    /\ marker[r].settlement = proc[p].cost
    /\ Delta(p) # 0 => \A c \in Current(p) : spend[c] >= Amount[r]
    /\ proc[p].due \cap alerts = {}

SettleableAnyAlert(p) ==
    LET r == proc[p].req IN
    /\ marker[r].state = "reserved"
    /\ marker[r].reported
    /\ marker[r].settlement = proc[p].cost
    /\ Delta(p) # 0 =>
          \A c \in Current(p) : /\ spend[c] >= Amount[r]
                                /\ epoch[c] = marker[r].epochs[c]

SettleableTwice(p) ==
    LET r == proc[p].req IN
    /\ marker[r].reported
    /\ marker[r].settlement = proc[p].cost
    /\ Delta(p) # 0 =>
          \A c \in Current(p) : /\ spend[c] >= Amount[r]
                                /\ epoch[c] = marker[r].epochs[c]
    /\ proc[p].due \cap alerts = {}

Settleable(p) ==
    LET r == proc[p].req IN
    /\ marker[r].state = "reserved"
    /\ marker[r].reported
    /\ marker[r].settlement = proc[p].cost
    /\ Delta(p) # 0 =>
          \A c \in Current(p) : /\ spend[c] >= Amount[r]
                                /\ epoch[c] = marker[r].epochs[c]
    /\ proc[p].due \cap alerts = {}

\* transact_write_items: the marker, the counters and the alerts, or nothing.
FinalizeCommit(p) ==
    LET r == proc[p].req IN
    /\ proc[p].pc = "commit"
    /\ Settleable(p)
    /\ marker' = [marker EXCEPT ![r].state = "finalized",
                                ![r].actual = proc[p].cost,
                                ![r].expired = FALSE]
    /\ spend' = [c \in Counters |->
                    IF c \in Current(p) THEN spend[c] + Delta(p) ELSE spend[c]]
    /\ overrun' = [c \in Counters |->
                    IF c \in Current(p) /\ epoch[c] = marker[r].epochs[c] /\ Delta(p) > 0
                    THEN overrun[c] + Delta(p) ELSE overrun[c]]
    /\ alerts' = alerts \cup proc[p].due
    /\ \/ Goto(p, "reply")
       \/ "lost_reply" \in Faults /\ Goto(p, "checkCommit")
    /\ UNCHANGED <<epoch, direct, returned>>

FinalizeRefused(p) ==
    /\ proc[p].pc = "commit"
    /\ ~Settleable(p)
    /\ proc' = [proc EXCEPT ![p].pc = "checkCommit",
                            ![p].clash = proc[p].due \cap alerts # {}]
    /\ UNCHANGED <<items, history>>

\* The except branch of the transaction.
FinalizeCheck(p) ==
    LET r == proc[p].req IN
    /\ proc[p].pc = "checkCommit"
    /\ IF marker[r].state = "finalized"
       THEN Return(p, IF SettledAt(marker[r], proc[p].cost)
                      THEN "settled" ELSE "failed")
       ELSE IF /\ \/ proc[p].clash
                  \/ \E c \in CountersOf[r] : epoch[c] # proc[p].seenEpoch[c]
               /\ proc[p].tries < MaxFinalizeTries
       THEN proc' = [proc EXCEPT ![p].pc = "refresh", ![p].unread = CountersOf[r],
                                 ![p].tries = @ + 1, ![p].due = {},
                                 ![p].clash = FALSE]
       ELSE Return(p, "failed")
    /\ UNCHANGED <<items, history>>

\* The totals are read once more and the result returned.  A QuotaEnforcer gets
\* the crossed thresholds and fires its callbacks; a sweep drops them.
FinalizeReply(p) ==
    /\ proc[p].pc = "reply"
    /\ Return(p, "settled")
    /\ returned' = IF p \in Requests
                   THEN [k \in DOMAIN returned |->
                            IF k \in proc[p].due THEN returned[k] + 1 ELSE returned[k]]
                   ELSE returned
    /\ UNCHANGED <<items, overrun, direct>>

-----------------------------------------------------------------------------
(* release_expired_budget_reservations                                     *)

LeaseExpires(r) ==
    /\ marker[r].state = "reserved"
    /\ ~marker[r].expired
    /\ marker' = [marker EXCEPT ![r].expired = TRUE]
    /\ UNCHANGED <<spend, epoch, alerts, proc, history>>

Stale(c) == {r \in Requests : /\ First(CountersOf[r]) = c
                             /\ marker[r].state = "reserved"
                             /\ marker[r].expired}

SweptAtEstimate(r) == Amount[r]      \* mutant of SweptAt

\* What a sweep settles r at: the last durable settlement amount.
SweptAt(r) == marker[r].settlement

\* The query of partition c returns a snapshot of its expired markers (an empty
\* one changes nothing and is left out); the settlement amounts in it are as old
\* as the query by the time each one is finalized.
BeginSweep(k, c) ==
    /\ proc[k].pc = "idle"
    /\ Stale(c) # {}
    /\ proc' = [proc EXCEPT ![k].pc = "sweeping",
                            ![k].todo = {<<r, SweptAt(r)>> : r \in Stale(c)}]
    /\ UNCHANGED <<items, history>>

SweepNext(k) ==
    /\ proc[k].pc = "sweeping"
    /\ \/ \E job \in proc[k].todo :
            proc' = [proc EXCEPT ![k].pc = "finalize", ![k].req = job[1],
                                 ![k].cost = job[2], ![k].todo = @ \ {job}]
       \/ proc[k].todo = {} /\ proc' = [proc EXCEPT ![k] = Idle(AnyRequest)]
    /\ UNCHANGED <<items, history>>

-----------------------------------------------------------------------------
(* The rest of the ledger's users, and failures                            *)

\* add_spend_state: the atomic ADD of a request without a reservation here.
AddSpend(c, cost) ==
    /\ direct[c] + cost <= MaxDirect
    /\ spend' = [spend EXCEPT ![c] = @ + cost]
    /\ direct' = [direct EXCEPT ![c] = @ + cost]
    /\ UNCHANGED <<epoch, marker, alerts, proc, overrun, returned>>

\* reset_spend_counters: zero the group and advance its billing cycle.
ResetSpend(group) ==
    /\ \A c \in group : epoch[c] < MaxEpoch
    /\ spend' = [c \in Counters |-> IF c \in group THEN 0 ELSE spend[c]]
    /\ epoch' = [c \in Counters |-> IF c \in group THEN epoch[c] + 1 ELSE epoch[c]]
    /\ overrun' = [c \in Counters |-> IF c \in group THEN 0 ELSE overrun[c]]
    /\ direct' = [c \in Counters |-> IF c \in group THEN 0 ELSE direct[c]]
    /\ UNCHANGED <<marker, alerts, proc, returned>>

\* A DynamoDB call raises without effect.  Only around the two transactions is
\* the exception looked into; anywhere else the whole call returns None.
CallRaises(p) ==
    /\ "raise" \in Faults
    /\ \/ proc[p].pc = "reserve" /\ Goto(p, "checkReserve")
       \/ proc[p].pc = "intent" /\ Goto(p, "checkIntent")
       \/ proc[p].pc = "commit" /\ Goto(p, "checkCommit")
       \/ proc[p].pc \in {"reading", "checkReserve"} /\ Return(p, "unavailable")
       \/ /\ proc[p].pc \in Finalizing \ {"intent", "commit"}
          /\ Return(p, "failed")
    /\ UNCHANGED <<items, history>>

\* The gateway instance dies, with whatever the process was doing.
Crash(p) ==
    /\ p \in Crashable
    /\ proc[p].pc \notin Ended \cup {"idle"}
    /\ proc' = [proc EXCEPT ![p] =
                  IF p \in Cleaners THEN Idle(AnyRequest)
                  ELSE [Idle(p) EXCEPT !.pc = "crashed"]]
    /\ UNCHANGED <<items, history>>

Reserve(r) ==
    \/ BeginReserve(r) \/ ReserveRead(r) \/ ReserveCommit(r)
    \/ ReserveRefused(r) \/ ReserveCheck(r)

Finalize(p) ==
    \/ FinalizeReadMarker(p) \/ RecordIntent(p) \/ IntentRefused(p)
    \/ IntentCheck(p) \/ FinalizeRead(p) \/ FinalizePlan(p)
    \/ FinalizeCommit(p) \/ FinalizeRefused(p) \/ FinalizeCheck(p)
    \/ FinalizeReply(p)

Next ==
    \/ \E r \in Requests : Reserve(r)
    \/ \E r \in Requests, cost \in Costs : BeginFinalize(r, cost)
    \/ \E p \in Procs : Finalize(p)
    \/ \E r \in Requests : LeaseExpires(r)
    \/ \E k \in Cleaners, c \in Counters : BeginSweep(k, c)
    \/ \E k \in Cleaners : SweepNext(k)
    \/ \E c \in Counters, cost \in Costs : AddSpend(c, cost)
    \/ \E group \in ResetGroups : ResetSpend(group)
    \/ \E p \in Procs : CallRaises(p) \/ Crash(p)

Spec == Init /\ [][Next]_vars

\* What the scheduler owes the ledger: leases run out, and traffic on a counter
\* keeps sweeping its partition.  Nothing is assumed of the requests.
CleanerStep(k) ==
    \/ \E c \in Counters : BeginSweep(k, c)
    \/ SweepNext(k)
    \/ Finalize(k)

FairSpec ==
    /\ Spec
    /\ \A r \in Requests : WF_vars(LeaseExpires(r))
    /\ \A k \in Cleaners : WF_vars(CleanerStep(k))

-----------------------------------------------------------------------------
(* Properties                                                              *)

\* Every item and every local variable has its type.
TypeOK ==
    /\ spend \in [Counters -> Int]
    /\ epoch \in [Counters -> Nat]
    /\ marker \in [Requests -> Markers]
    /\ alerts \in SUBSET AlertKeys
    /\ proc \in [Procs -> Locals]
    /\ overrun \in [Counters -> Nat]
    /\ direct \in [Counters -> Nat]
    /\ returned \in [QuotaCounters \X (0..MaxEpoch) \X Thresholds -> Nat]

\* Concurrent reservations never take a counter past its limit: what is above
\* the limit was settled above its estimate or never reserved.  A refund never
\* takes a counter below zero.
BudgetBound ==
    \A c \in Counters :
        /\ 0 <= spend[c]
        /\ spend[c] <= Limit[c] + overrun[c] + direct[c]

\* What request r has added to counter c in c's current billing cycle.
Share(r, c) ==
    IF \/ c \notin CountersOf[r] \/ marker[r].state = "none"
       \/ marker[r].epochs[c] # epoch[c]
    THEN 0
    ELSE IF marker[r].state = "reserved" THEN Amount[r] ELSE marker[r].actual

Shares(c) == [r \in Requests |-> Share(r, c)]

\* No cent is lost or counted twice: in every reachable state a counter is the
\* sum of the open estimates and the settled prices of its billing cycle and of
\* the spend that was never reserved.  In particular an open reservation is
\* always backed, so the floor in the finalizing transaction never blocks it.
Conservation ==
    \A c \in Counters : spend[c] = direct[c] + Total(Shares(c), Requests)

\* The answer a request got agrees with the ledger.  "settled": the reservation
\* was finalized, by whoever did it, at exactly the cost this request reported.
\* "denied": it holds no capacity.  "admitted": it was recorded before the
\* provider is called.
AnswerHonest ==
    \A r \in Requests :
        /\ proc[r].pc = "settled" => /\ marker[r].state = "finalized"
                                     /\ marker[r].actual = proc[r].cost
        /\ proc[r].pc = "denied" => marker[r].state # "reserved"
        /\ proc[r].pc = "admitted" => marker[r].state # "none"

\* A threshold crossed in a billing cycle is handed to the alert callbacks at
\* most once, however many settlements cross it concurrently.
AlertOnce == \A k \in DOMAIN returned : returned[k] <= 1

OpenOn(c) == {r \in Requests : /\ c \in CountersOf[r]
                               /\ marker[r].state = "reserved"
                               /\ marker[r].epochs[c] = epoch[c]}

Reached(c) == {t \in Thresholds : Limit[c] > 0 /\ 100 * spend[c] >= Limit[c] * t}

\* Once every reservation of the cycle is settled, and none cost more than its
\* estimate, the thresholds the total has reached are all recorded, although
\* every settlement judged them by a total it had read earlier.
NoMissedAlert ==
    \A c \in QuotaCounters :
        (OpenOn(c) = {} /\ overrun[c] = 0 /\ direct[c] = 0)
            => \A t \in Reached(c) : <<c, epoch[c], t>> \in alerts

\* A reported cost and a finalized reservation are never changed again: neither
\* a late sweep holding an old settlement amount nor a late request can replace
\* the other's.
SettledOnce ==
    [][\A r \in Requests :
        /\ marker[r].state = "finalized" => marker'[r] = marker[r]
        /\ marker[r].reported => /\ marker'[r].reported
                                 /\ marker'[r].settlement = marker[r].settlement]_vars

\* The ledger implements its contract: reservations admit, settlements settle
\* once, and every other step of it is invisible.
Contract == INSTANCE BudgetContract WITH
    stage  <- [r \in Requests |-> marker[r].state],
    origin <- [r \in Requests |-> marker[r].epochs],
    price  <- [r \in Requests |-> marker[r].actual]

ContractSpec == Contract!Spec

\* No capacity leaks: a reservation whose request died, was refused or failed to
\* settle is finalized by some sweep in the end.  The docstring of
\* release_expired_budget_reservations (persistence.py:6266) says it of every
\* expired lease; with a limit in IntLimits it is false.
EventuallySettled ==
    \A r \in Requests :
        marker[r].state = "reserved" ~> marker[r].state = "finalized"

\* README.md:239 "fires events at 80%, 90%, 100% spend via the event dispatcher":
\* a recorded alert has been handed to the callbacks, or is about to be.
AlertDelivered ==
    \A k \in alerts :
        \/ returned[k] = 1
        \/ \E r \in Requests : proc[r].pc = "reply" /\ k \in proc[r].due
=============================================================================
