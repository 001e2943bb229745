--------------------------- MODULE MCBudgetLedger ---------------------------
(***************************************************************************)
(* Small instances of BudgetLedger.  One project with its two counters     *)
(* (scopes "quota" and "project"), one user counter; request r1 has a      *)
(* project limit, request r2 a project and a user limit.                   *)
(***************************************************************************)
EXTENDS BudgetLedger

CONSTANTS r1, r2, quota, project, user

MCRank == [c \in Counters |-> CASE c = project -> 1 [] c = quota -> 2 [] c = user -> 3]

MCCountersOf == [r \in Requests |->
    IF r = r1 THEN {quota, project} ELSE {quota, project, user} \cap Counters]

MCAmount == [r \in Requests |-> IF r = r1 THEN 3 ELSE 2]

\* Both requests fit under a project limit of 5; r2 alone fits under the user's.
MCLimit == [c \in Counters |-> IF c = user THEN 2 ELSE 5]

\* A tight project limit, under which only one of the two fits at a time.
TightLimit == [c \in Counters |-> IF c = user THEN 2 ELSE 4]

\* r2 alone uses up every limit.
SoloLimit == [c \in Counters |-> 2]

MCResetGroups == {{quota, project}}
=============================================================================
