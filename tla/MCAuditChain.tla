---------------------------- MODULE MCAuditChain ----------------------------
(***************************************************************************)
(* Small instances of AuditChain: two gateway instances, the first of      *)
(* which makes all records but the second one.                             *)
(***************************************************************************)
EXTENDS AuditChain

CONSTANTS i1, i2, Ahead

MCAt == [r \in Records |-> IF r = 2 THEN i2 ELSE i1]

\* The clock of i2 is ahead of that of i1.
MCSkew == [i \in Instances |-> IF i = i2 THEN Ahead ELSE 0]
=============================================================================
