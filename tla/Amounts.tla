------------------------------- MODULE Amounts -------------------------------
(***************************************************************************)
(* Sums of natural numbers over a set, counted out: the amount f[x] of x   *)
(* is taken as that many units of x, so a sum is the size of a set.  It    *)
(* needs no recursion, and AmountLemmas can prove how it changes.          *)
(***************************************************************************)
EXTENDS Integers, FiniteSets

UnitsOf(f, x) == {x} \X (1..f[x])

Units(f, S) == UNION {UnitsOf(f, x) : x \in S}

\* The sum of f[x] for x in S.
Total(f, S) == Cardinality(Units(f, S))
=============================================================================
