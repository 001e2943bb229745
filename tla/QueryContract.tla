---------------------------- MODULE QueryContract ----------------------------
(***************************************************************************)
(* What the lifecycle of a data query promises, with nothing about leases, *)
(* claims, retries or crashes.                                             *)
(*                                                                         *)
(* A request id is admitted once and settled once, with one outcome.  Its  *)
(* QUERY_RESULT records state that outcome and no other, and the query is  *)
(* closed only when there is such a record; later ones may repeat it.      *)
(*                                                                         *)
(* QueryLifecycle implements this module.                                  *)
(***************************************************************************)
CONSTANTS
    Requests,   \* request ids
    Docs,       \* outcomes: a terminal status and the bytes charged
    NoDoc       \* the outcome of a query that has none yet

VARIABLES
    stage,      \* stage[q]: "new", "open", "settled" or "closed"
    outcome,    \* outcome[q]: how q ended
    records     \* records[q]: outcomes stated by the audit trail

contractVars == <<stage, outcome, records>>

Init ==
    /\ stage = [q \in Requests |-> "new"]
    /\ outcome = [q \in Requests |-> NoDoc]
    /\ records = [q \in Requests |-> {}]

Admit(q) ==
    /\ stage[q] = "new"
    /\ stage' = [stage EXCEPT ![q] = "open"]
    /\ UNCHANGED <<outcome, records>>

Settle(q, doc) ==
    /\ stage[q] = "open"
    /\ stage' = [stage EXCEPT ![q] = "settled"]
    /\ outcome' = [outcome EXCEPT ![q] = doc]
    /\ UNCHANGED records

Record(q) ==
    /\ stage[q] \in {"settled", "closed"}
    /\ records' = [records EXCEPT ![q] = @ \cup {outcome[q]}]
    /\ UNCHANGED <<stage, outcome>>

Close(q) ==
    /\ stage[q] = "settled"
    /\ outcome[q] \in records[q]
    /\ stage' = [stage EXCEPT ![q] = "closed"]
    /\ UNCHANGED <<outcome, records>>

Next ==
    \E q \in Requests :
        \/ Admit(q)
        \/ \E doc \in Docs : Settle(q, doc)
        \/ Record(q)
        \/ Close(q)

Spec == Init /\ [][Next]_contractVars
=============================================================================
