---------------------------- MODULE MCQuotaFleet ----------------------------
(***************************************************************************)
(* Small instances of QuotaFleet: two gateway instances, each of which is  *)
(* probed.  The requests are r1 at i1 and r2 at i2; the project is billed  *)
(* without a budget at i1, and reset by i2 and then i1.                    *)
(***************************************************************************)
EXTENDS QuotaFleet

CONSTANTS i1, i2, r1, r2, b1, s1, s2, x1, x2

MCAt == [p \in Calls |-> IF p \in {r1, b1, s1, x2} THEN i1 ELSE i2]

MCCosts == [r \in Requests |-> IF r = r1 THEN {1} ELSE {3}]

MCEstimate == [r \in Requests |-> 2]
=============================================================================
