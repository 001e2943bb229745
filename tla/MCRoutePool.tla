---------------------------- MODULE MCRoutePool ----------------------------
(***************************************************************************)
(* A small instance of RoutePool: two routes of one provider that share a  *)
(* capacity group, and what the control plane may do to them.              *)
(***************************************************************************)
EXTENDS RoutePool, TLC

CONSTANTS ra, rb, k1, k2, g, openai, m1, m2

Config(credential, models, priority, max) ==
    [provider |-> openai, models |-> models, credential |-> credential,
     group |-> g, limit |-> 2, max |-> max, priority |-> priority,
     enabled |-> TRUE]

\* rb is the failover tier of ra for m1; ra alone serves m2.
Both == [r \in {ra, rb} |-> IF r = ra THEN Config(k1, {m1, m2}, 0, 2)
                                      ELSE Config(k1, {m1}, 1, 2)]

\* ra's credential is rotated and rb disabled, and their limits are lowered.
Rotated == [r \in {ra, rb} |->
               [Both[r] EXCEPT !.max = 1,
                               !.credential = IF r = ra THEN k2 ELSE k1,
                               !.enabled = (r = ra)]]

\* ra is removed, and rb serves whatever is asked for.
OnlyB == [r \in {rb} |-> Config(k1, {}, 0, 1)]

MCCatalogs == {Both, Rotated, OnlyB}

AttemptSymmetry == Permutations(Attempts)
=============================================================================
