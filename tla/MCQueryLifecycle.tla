--------------------------- MODULE MCQueryLifecycle ---------------------------
(***************************************************************************)
(* Small instances of QueryLifecycle: one project with two slots, whose    *)
(* queries are made by one principal with one slot or by two principals.   *)
(***************************************************************************)
EXTENDS QueryLifecycle

CONSTANTS q1, q2, c1, c2, c3, project, alice, bob

\* c3 repeats the request id of c1.
MCRequestOf == [c \in Calls |-> IF c = c2 THEN q2 ELSE q1]

OnePrincipal == [q \in Requests |-> alice]
TwoPrincipals == [q \in Requests |-> IF q = q1 THEN alice ELSE bob]

MCConcurrency == [o \in Owners |-> IF o = project THEN 2 ELSE 1]
OneSlot == [o \in Owners |-> 1]

\* Two queries fit into the project's window.
MCScanLimit == [o \in Owners |-> 2 * Reserved]
\* Two queries only fit once the first is settled below its reservation.
TightScanLimit == [o \in Owners |-> 2 * Reserved - 1]
===============================================================================
