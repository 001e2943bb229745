------------------------------ MODULE QuotaFleet ------------------------------
(***************************************************************************)
(* The spend of one project as the gateway instances know it: each keeps a *)
(* copy of the shared counter, refuses requests by it, and announces the   *)
(* budget thresholds that the counter crosses.                             *)
(*                                                                         *)
(*   src/src/gateway/quota_enforcer.py   enforce_all, refresh_spend,       *)
(*        check_budget, reserve_budget, finalize_budget, record_spend,     *)
(*        current_spend, reset_spend, adopt_fleet_spend                    *)
(*   src/src/gateway/persistence.py      the transactions those call       *)
(*                                                                         *)
(* BudgetLedger models the transactions in detail.  Here they are what an  *)
(* instance sees of them: a commit, then a read of the counter, then the   *)
(* answer, which arrives while other calls of the instance have run.  What *)
(* becomes of reservations nobody settles is left to BudgetLedger.         *)
(***************************************************************************)
EXTENDS Integers, FiniteSets

CONSTANTS
    Instances,
    Requests,       \* budgeted requests: they reserve and settle
    Bills,          \* requests of the time when the project had no budget
    Probes,         \* one per instance: calls of enforce_all that cost nothing
                    \* (POST /admin/quotas/simulate), again and again
    Resets,         \* resets of the billing cycle by administrators
    At,             \* At[p]: the instance that serves p
    Estimate,       \* Estimate[r]: what request r reserves
    Costs,          \* Costs[r]: what r may turn out to cost, 0 for a release
    BillCost,       \* what a request without a budget costs
    Limit,          \* budget_limit
    Thresholds,     \* BUDGET_ALERT_THRESHOLDS, as amounts
    MaxOpen,        \* bound: calls under way at one time
    MaxFaults       \* bound: failed calls, lost answers, restarts

Calls == Requests \cup Bills \cup Probes \cup Resets

NoSet == "none"     \* _alerted_thresholds has no entry

ASSUME QuotaAssumption ==
    /\ IsFiniteSet(Resets)
    /\ At \in [Calls -> Instances]
    /\ Estimate \in [Requests -> Nat]
    /\ Costs \in [Requests -> SUBSET Nat]
    /\ BillCost \in Nat
    /\ Limit \in Nat
    /\ Thresholds \subseteq Nat
    /\ NoSet \notin Requests
    /\ MaxOpen \in Nat
    /\ MaxFaults \in Nat
    /\ Requests \cap (Bills \cup Probes \cup Resets) = {}
    /\ Bills \cap (Probes \cup Resets) = {}
    /\ Probes \cap Resets = {}

Cycles == 0..Cardinality(Resets)

VARIABLES
    total,      \* the shared counter: spend ...
    cycle,      \* ... and epoch
    crossings,  \* the alert items, <<cycle, threshold>>
    view,       \* view[i]: what instance i knows of the counter
    fresh,      \* fresh[i]: less than SPEND_REFRESH_SECONDS since it was read
    sets,       \* sets[r]: the set object that request r made
    call,       \* call[p]: local state of p
    peak,       \* history: the largest total of each cycle
    announced,  \* history: <<cycle of the crossing, threshold>>, how often
    faults

counter == <<total, cycle, crossings, peak>>
vars == <<counter, view, fresh, sets, call, announced, faults>>

\* known: _spend_epochs; spend: _spend_tracker; alerted: the set object in
\* _alerted_thresholds; unshared (history): spend that is in no counter.
NewView == [known |-> 0, spend |-> 0, alerted |-> NoSet, unshared |-> 0]

\* ok, total, cycle: the answer; mark: the cycle of the reservation; crossed:
\* thresholds to announce; set: the set object they are held against.
NewCall == [pc |-> "idle", ok |-> FALSE, total |-> 0, cycle |-> 0, mark |-> 0,
            cost |-> 0, crossed |-> {}, set |-> NoSet]

Keys == Cycles \X Thresholds

Init ==
    /\ total = 0
    /\ cycle = 0
    /\ crossings = {}
    /\ view = [i \in Instances |-> NewView]
    /\ fresh = [i \in Instances |-> FALSE]
    /\ sets = [r \in Requests |-> {}]
    /\ call = [p \in Calls |-> NewCall]
    /\ peak = [c \in Cycles |-> 0]
    /\ announced = [k \in Keys |-> 0]
    /\ faults = 0

Larger(a, b) == IF a >= b THEN a ELSE b

Fault == faults < MaxFaults /\ faults' = faults + 1

Goto(p, label) == call' = [call EXCEPT ![p].pc = label]

\* Nothing of what p has learnt is used after this.
End(p, label) == call' = [call EXCEPT ![p] = [NewCall EXCEPT !.pc = label]]

Ended == {"done", "denied", "failed"}

\* A call may come in.
Open(p) ==
    /\ call[p].pc = "idle"
    /\ Cardinality({o \in Calls : call[o].pc \notin {"idle"} \cup Ended}) < MaxOpen

-----------------------------------------------------------------------------
(* The shared counter                                                      *)

\* The counter is at amount, in this cycle.
Moved(amount) ==
    /\ total' = amount
    /\ peak' = [peak EXCEPT ![cycle] = Larger(@, amount)]
    /\ UNCHANGED cycle

\* The answer to p: what the counter is now.
Answer(p, label) ==
    call' = [call EXCEPT ![p].pc = label, ![p].ok = TRUE,
                         ![p].total = total, ![p].cycle = cycle]

NoAnswer(p, label) ==
    call' = [call EXCEPT ![p].pc = label, ![p].ok = FALSE]

-----------------------------------------------------------------------------
(* The copy of an instance                                                 *)

\* Mutant of Adopted: the larger figure is kept in a new cycle, too.
AdoptedLarger(v, amount, c) ==
    IF c < v.known THEN v
    ELSE [v EXCEPT !.known = c, !.spend = Larger(amount, @)]

\* _adopt_shared_spend
Adopted(v, amount, c) ==
    CASE c < v.known -> v
      [] c = v.known -> [v EXCEPT !.spend = Larger(amount, @)]
      [] c > v.known -> [NewView EXCEPT !.known = c, !.spend = amount]

\* check_budget: a synchronous check of the local figure.
Checked(p, v) ==
    IF p \in Probes THEN "idle"
    ELSE IF v.spend + Estimate[p] > Limit THEN "denied" ELSE "admitted"

\* enforce_all refreshes what is stale, and stamps it before it has the answer.
Begin(p) ==
    LET i == At[p] IN
    /\ p \in Requests \cup Probes
    /\ Open(p)
    /\ IF fresh[i]
       THEN Goto(p, Checked(p, view[i])) /\ UNCHANGED fresh
       ELSE Goto(p, "reading") /\ fresh' = [fresh EXCEPT ![i] = TRUE]
    /\ UNCHANGED <<counter, view, sets, announced, faults>>

\* get_spend_state: a consistent read, which may fail.
Read(p) ==
    /\ call[p].pc = "reading"
    /\ \/ Answer(p, "read") /\ UNCHANGED faults
       \/ NoAnswer(p, "read") /\ Fault
    /\ UNCHANGED <<counter, view, fresh, sets, announced>>

\* The answer of a read arrives; what the caller does next follows at once.
AdoptRead(p) ==
    LET i == At[p]
        v == IF call[p].ok THEN Adopted(view[i], call[p].total, call[p].cycle)
             ELSE view[i] IN
    /\ call[p].pc = "read"
    /\ view' = [view EXCEPT ![i] = v]
    /\ End(p, IF p \in Resets THEN "resetting" ELSE Checked(p, v))
    /\ UNCHANGED <<counter, fresh, sets, announced, faults>>

\* Mutant of Stale: the stamp of a read is never too old.
StaleNever(i) == fresh[i] /\ Limit = 0 /\ fresh' = [fresh EXCEPT ![i] = FALSE]

\* SPEND_REFRESH_SECONDS pass.
Stale(i) == fresh[i] /\ fresh' = [fresh EXCEPT ![i] = FALSE]

Elapse(i) ==
    /\ Stale(i)
    /\ UNCHANGED <<counter, view, sets, call, announced, faults>>

-----------------------------------------------------------------------------
(* A request with a budget                                                 *)

\* reserve_budget: the counter is raised if the limit allows it.
Reserve(p) ==
    /\ call[p].pc = "admitted"
    /\ \/ /\ total + Estimate[p] <= Limit
          /\ Moved(total + Estimate[p])
          /\ call' = [call EXCEPT ![p].pc = "reserved", ![p].mark = cycle]
          /\ UNCHANGED faults
       \/ /\ total + Estimate[p] > Limit
          /\ Goto(p, "denied")
          /\ UNCHANGED <<total, cycle, peak, faults>>
       \/ /\ Fault
          /\ Goto(p, "failed")
          /\ \/ UNCHANGED <<total, cycle, peak>>
             \/ total + Estimate[p] <= Limit /\ Moved(total + Estimate[p])
    /\ UNCHANGED <<crossings, view, fresh, sets, announced>>

\* The total is read after the commit, and goes by the cycle of the reservation.
ReadReserved(p) ==
    /\ call[p].pc = "reserved"
    /\ call' = [call EXCEPT ![p].pc = "holding", ![p].total = total,
                            ![p].cycle = call[p].mark]
    /\ UNCHANGED <<counter, view, fresh, sets, announced, faults>>

\* The answer arrives, and the provider is called.
AdoptReserved(p) ==
    LET i == At[p] IN
    /\ call[p].pc = "holding"
    /\ view' = [view EXCEPT ![i] = Adopted(@, call[p].total, call[p].cycle)]
    /\ call' = [call EXCEPT ![p] = [NewCall EXCEPT !.pc = "calling",
                                                   !.mark = call[p].mark]]
    /\ UNCHANGED <<counter, fresh, sets, announced, faults>>

Delta(p, cost) == cost - Estimate[p]

\* Thresholds that the total will have reached and no alert item records.
Due(p, cost) ==
    {t \in Thresholds : /\ cycle = call[p].mark
                        /\ total + Delta(p, cost) >= t
                        /\ <<cycle, t>> \notin crossings}

\* finalize_budget_reservation reads the counter and the alert items.
Plan(p) ==
    /\ call[p].pc \in {"calling", "planning"}
    /\ \E cost \in IF call[p].pc = "calling" THEN Costs[p] ELSE {call[p].cost} :
          call' = [call EXCEPT ![p].pc = "planned", ![p].cost = cost,
                               ![p].cycle = cycle, ![p].crossed = Due(p, cost)]
    /\ UNCHANGED <<counter, view, fresh, sets, announced, faults>>

\* Does the transaction change the counter?  Only in the cycle of the reservation.
Adjusts(p) == call[p].cycle = call[p].mark /\ Delta(p, call[p].cost) # 0

\* Mutant of AlertsNew: the alert items are put whether or not they are there.
AlertsNewAny(p) == call[p].crossed \subseteq Thresholds

AlertsNew(p) == \A t \in call[p].crossed : <<call[p].mark, t>> \notin crossings

\* Mutant of Conditions: the epoch is not checked again, so a refund planned
\* before a reset is taken off the new cycle.
ConditionsAnyEpoch(p) == AlertsNew(p)

Conditions(p) ==
    /\ AlertsNew(p)
    /\ Adjusts(p) => cycle = call[p].mark

Settle(p) ==
    /\ Conditions(p)
    /\ crossings' = crossings \cup ({call[p].mark} \X call[p].crossed)
    /\ IF Adjusts(p)
       THEN Moved(total + Delta(p, call[p].cost))
       ELSE UNCHANGED <<total, cycle, peak>>

\* When the call fails after the commit, or its commit is found out from the
\* marker, nobody learns of the thresholds.
Commit(p) ==
    /\ call[p].pc = "planned"
    /\ \/ Settle(p) /\ Goto(p, "settled") /\ UNCHANGED faults
       \/ /\ ~Conditions(p)
          /\ Goto(p, "planning")
          /\ UNCHANGED <<counter, faults>>
       \/ /\ Fault
          /\ Settle(p)
          /\ call' = [call EXCEPT ![p].pc = "settled", ![p].crossed = {}]
       \/ /\ Fault
          /\ End(p, "failed")
          /\ Settle(p) \/ UNCHANGED counter
    /\ UNCHANGED <<view, fresh, sets, announced>>

\* The total and its cycle are read after the commit.
ReadSettled(p) ==
    /\ call[p].pc = "settled"
    /\ Answer(p, "answered")
    /\ UNCHANGED <<counter, view, fresh, sets, announced, faults>>

-----------------------------------------------------------------------------
(* Announcing thresholds                                                   *)

\* The lowest threshold in due is held to be announced, and its callback begins.
\* The rest follows when the callback is done; then the set is written back.
Announce(p, v, set, held, due) ==
    LET i == At[p]
        next == CHOOSE t \in due : \A o \in due : t <= o IN
    IF due = {}
    THEN /\ view' = [view EXCEPT ![i] = [v EXCEPT !.alerted = set]]
         /\ End(p, "done")
         /\ sets' = [sets EXCEPT ![set] = held]
         /\ UNCHANGED announced
    ELSE /\ view' = [view EXCEPT ![i] = v]
         /\ call' = [call EXCEPT ![p].pc = "alerting", ![p].set = set]
         /\ sets' = [sets EXCEPT ![set] = held \cup {next}]
         /\ announced' = [announced EXCEPT ![<<call[p].mark, next>>] = @ + 1]

\* The answer of the settlement arrives, and _fire_budget_alerts begins.
AdoptSettled(p) ==
    LET v == Adopted(view[At[p]], call[p].total, call[p].cycle)
        set == IF v.alerted = NoSet THEN p ELSE v.alerted
        held == IF v.alerted = NoSet THEN {} ELSE sets[set] IN
    /\ call[p].pc = "answered"
    /\ IF call[p].crossed = {}
       THEN /\ view' = [view EXCEPT ![At[p]] = v]
            /\ End(p, "done")
            /\ UNCHANGED <<sets, announced>>
       ELSE Announce(p, v, set, held, call[p].crossed \ held)
    /\ UNCHANGED <<counter, fresh, faults>>

\* A callback is done.
Alerted(p) ==
    LET set == call[p].set IN
    /\ call[p].pc = "alerting"
    /\ Announce(p, view[At[p]], set, sets[set], call[p].crossed \ sets[set])
    /\ UNCHANGED <<counter, fresh, faults>>

-----------------------------------------------------------------------------
(* A request without a budget: record_spend                                *)

AddSpend(b) ==
    /\ b \in Bills
    /\ Open(b)
    /\ \/ /\ Moved(total + BillCost)
          /\ call' = [call EXCEPT ![b].pc = "added", ![b].ok = TRUE,
                                  ![b].total = total + BillCost,
                                  ![b].cycle = cycle]
          /\ UNCHANGED faults
       \/ /\ Fault
          /\ NoAnswer(b, "added")
          /\ Moved(total + BillCost) \/ UNCHANGED <<total, cycle, peak>>
    /\ UNCHANGED <<crossings, view, fresh, sets, announced>>

\* Without an answer the cost is added to the local figure.
Charged(v) == [v EXCEPT !.spend = @ + BillCost, !.unshared = @ + BillCost]

AdoptAdded(b) ==
    /\ call[b].pc = "added"
    /\ view' = [view EXCEPT ![At[b]] =
                  IF call[b].ok THEN Adopted(@, call[b].total, call[b].cycle)
                  ELSE Charged(@)]
    /\ End(b, "done")
    /\ UNCHANGED <<counter, fresh, sets, announced, faults>>

-----------------------------------------------------------------------------
(* A reset of the cycle, and a restart                                     *)

\* The handler reads the spend first, to report it.
BeginReset(x) ==
    /\ x \in Resets
    /\ Open(x)
    /\ Goto(x, "reading")
    /\ UNCHANGED <<counter, view, fresh, sets, announced, faults>>

\* reset_spend_counters
Zero ==
    /\ total' = 0
    /\ cycle' = cycle + 1
    /\ UNCHANGED <<crossings, peak>>

Reset(x) ==
    /\ call[x].pc = "resetting"
    /\ \/ Zero /\ Goto(x, "reset") /\ UNCHANGED faults
       \/ /\ Fault
          /\ NoAnswer(x, "clearing")
          /\ Zero \/ UNCHANGED counter
    /\ UNCHANGED <<view, fresh, sets, announced>>

ReadReset(x) ==
    /\ call[x].pc = "reset"
    /\ Answer(x, "clearing")
    /\ UNCHANGED <<counter, view, fresh, sets, announced, faults>>

\* The spend and what has been alerted are forgotten.
Cleared(v, c) == [NewView EXCEPT !.known = c]

\* _clear_local: whatever the instance has learnt in the meantime.
Clear(x) ==
    LET i == At[x]
        c == IF call[x].ok THEN call[x].cycle ELSE view[i].known IN
    /\ call[x].pc = "clearing"
    /\ view' = [view EXCEPT ![i] = Cleared(@, c)]
    /\ fresh' = [fresh EXCEPT ![i] = FALSE]
    /\ End(x, "done")
    /\ UNCHANGED <<counter, sets, announced, faults>>

\* An instance dies; its successor seeds its copy before it serves anything
\* (adopt_fleet_spend), if it can read the counter.
Restart(i) ==
    /\ Fault
    /\ view' \in {[view EXCEPT ![i] = NewView],
                  [view EXCEPT ![i] = Adopted(NewView, total, cycle)]}
    /\ fresh' = [fresh EXCEPT ![i] = FALSE]
    /\ call' = [p \in Calls |->
                   IF At[p] # i \/ call[p].pc = "idle" THEN call[p]
                   ELSE IF p \in Probes THEN NewCall
                   ELSE [NewCall EXCEPT !.pc = "failed"]]
    /\ UNCHANGED <<counter, sets, announced>>

-----------------------------------------------------------------------------
Enforce(p) == Begin(p) \/ Read(p) \/ AdoptRead(p)

Spend(p) ==
    \/ Reserve(p) \/ ReadReserved(p) \/ AdoptReserved(p)
    \/ Plan(p) \/ Commit(p) \/ ReadSettled(p) \/ AdoptSettled(p) \/ Alerted(p)
    \/ AddSpend(p) \/ AdoptAdded(p)

StartOver(p) == BeginReset(p) \/ Reset(p) \/ ReadReset(p) \/ Clear(p)

Step(p) == Enforce(p) \/ Spend(p) \/ StartOver(p)

Next ==
    \/ \E p \in Calls : Step(p)
    \/ \E i \in Instances : Elapse(i) \/ Restart(i)

Spec == Init /\ [][Next]_vars

\* Calls that are under way get on, probes go on coming in, and time passes: a
\* probe that finds its copy fresh changes nothing, and only Elapse goes on.
FairSpec ==
    /\ Spec
    /\ WF_vars(\E p \in Calls \ Probes : Step(p))
    /\ \A p \in Probes : WF_vars(Step(p) \/ Elapse(At[p]))

-----------------------------------------------------------------------------
(* Properties                                                              *)

Labels == {"idle", "reading", "read", "admitted", "reserved", "holding",
           "calling", "planning", "planned", "settled", "answered", "alerting",
           "added", "resetting", "reset", "clearing"} \cup Ended

\* Every item and every local variable has its type.  Above all no refund takes the
\* counter below zero (finalize_budget_reservation), although a reset may have begun
\* a new cycle at any time since the reservation.
TypeOK ==
    /\ total \in Nat
    /\ cycle \in Nat
    /\ crossings \subseteq Keys
    /\ view \in [Instances -> [known    : Cycles,
                               spend    : Nat,
                               alerted  : Requests \cup {NoSet},
                               unshared : Nat]]
    /\ fresh \in [Instances -> BOOLEAN]
    /\ sets \in [Requests -> SUBSET Thresholds]
    /\ call \in [Calls -> [pc      : Labels,
                           ok      : BOOLEAN,
                           total   : Nat,
                           cycle   : Cycles,
                           mark    : Cycles,
                           cost    : Nat,
                           crossed : SUBSET Thresholds,
                           set     : Requests \cup {NoSet}]]
    /\ peak \in [Cycles -> Nat]
    /\ announced \in [Keys -> Nat]
    /\ faults \in Nat

\* What an instance takes for the spend was the spend at some time since the
\* cycle it knows of began, but for what it could not share.
CopyBacked ==
    \A i \in Instances :
        /\ view[i].known <= cycle
        /\ \E c \in view[i].known..cycle :
              view[i].spend <= peak[c] + view[i].unshared

\* A crossing is announced at most once in the fleet, whatever the instances
\* hold to be announced already.
AnnouncedOnce == \A k \in Keys : announced[k] <= 1

\* When nothing is spent any more, every instance that is asked comes to know the
\* cycle and at least the whole spend of it: no budget stays open because an
\* answer failed, came late, or was that of a reset.
EventuallySeen ==
    <>[](\A p \in Probes : /\ view[At[p]].known = cycle
                           /\ view[At[p]].spend >= total)

\* src/src/gateway/quota_enforcer.py:368 "Reads the local figure, which
\* record_spend and refresh_spend keep aligned with the fleet-wide counter."
EventuallyAligned ==
    <>[](\A p \in Probes :
            view[At[p]].known = cycle => view[At[p]].spend = total)
=============================================================================
