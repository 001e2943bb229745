--------------------------- MODULE BudgetContract ---------------------------
(***************************************************************************)
(* What the durable budget ledger promises, with nothing about how.        *)
(*                                                                         *)
(* A request is admitted only when its estimate fits under every limit     *)
(* that applies to it, and then all of its counters move at once.  An      *)
(* admitted request is settled once, at one price; the difference between  *)
(* price and estimate moves exactly the counters that are still in the     *)
(* billing cycle in which the request was admitted.  A reset closes the    *)
(* cycle of a group of counters together.                                  *)
(*                                                                         *)
(* BudgetLedger implements this module.                                    *)
(***************************************************************************)
EXTENDS Integers

CONSTANTS
    Requests,     \* request ids
    Counters,     \* spend counters: one (scope, ident) pair each
    CountersOf,   \* the counters a request reserves
    Amount,       \* the estimate a request reserves
    Limit,        \* the limit of a counter
    Costs,        \* the prices a request may turn out to have
    ResetGroups   \* the sets of counters that one reset closes together

VARIABLES
    spend,        \* spend[c]: total of counter c in its current billing cycle
    epoch,        \* epoch[c]: billing cycle of counter c
    stage,        \* stage[r]: "none", "reserved" or "finalized"
    origin,       \* origin[r][c]: billing cycle in which r was admitted on c
    price         \* price[r]: what r was settled at

contractVars == <<spend, epoch, stage, origin, price>>

Init ==
    /\ spend = [c \in Counters |-> 0]
    /\ epoch = [c \in Counters |-> 0]
    /\ stage = [r \in Requests |-> "none"]
    /\ origin = [r \in Requests |-> [c \in Counters |-> 0]]
    /\ price = [r \in Requests |-> 0]

Admit(r) ==
    /\ stage[r] = "none"
    /\ \A c \in CountersOf[r] : spend[c] + Amount[r] <= Limit[c]
    /\ stage' = [stage EXCEPT ![r] = "reserved"]
    /\ origin' = [origin EXCEPT ![r] =
                    [c \in Counters |-> IF c \in CountersOf[r] THEN epoch[c] ELSE 0]]
    /\ spend' = [c \in Counters |->
                    IF c \in CountersOf[r] THEN spend[c] + Amount[r] ELSE spend[c]]
    /\ UNCHANGED <<epoch, price>>

Settle(r, cost) ==
    /\ stage[r] = "reserved"
    /\ stage' = [stage EXCEPT ![r] = "finalized"]
    /\ price' = [price EXCEPT ![r] = cost]
    /\ spend' = [c \in Counters |->
                    IF c \in CountersOf[r] /\ origin[r][c] = epoch[c]
                    THEN spend[c] + (cost - Amount[r])
                    ELSE spend[c]]
    /\ UNCHANGED <<epoch, origin>>

\* Spend of a request that holds no reservation on the counter.
Charge(c, cost) ==
    /\ spend' = [spend EXCEPT ![c] = @ + cost]
    /\ UNCHANGED <<epoch, stage, origin, price>>

Reset(group) ==
    /\ spend' = [c \in Counters |-> IF c \in group THEN 0 ELSE spend[c]]
    /\ epoch' = [c \in Counters |-> IF c \in group THEN epoch[c] + 1 ELSE epoch[c]]
    /\ UNCHANGED <<stage, origin, price>>

Next ==
    \/ \E r \in Requests : Admit(r)
    \/ \E r \in Requests, cost \in Costs : Settle(r, cost)
    \/ \E c \in Counters, cost \in Costs : Charge(c, cost)
    \/ \E group \in ResetGroups : Reset(group)

Spec == Init /\ [][Next]_contractVars
=============================================================================
