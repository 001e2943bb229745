---------------------------- MODULE MCFleetConfig ----------------------------
(***************************************************************************)
(* A fleet of two: instance a serves the operator, b follows.              *)
(***************************************************************************)
EXTENDS FleetConfig

CONSTANTS a, b, h1, p, u

OnlyA == [h \in {h1} |-> a]

AllRows == [h \in {h1} |-> {p, u}]
ProjectOnly == [h \in {h1} |-> {p}]
=============================================================================
