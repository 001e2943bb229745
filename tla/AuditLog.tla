------------------------------ MODULE AuditLog ------------------------------
(***************************************************************************)
(* What a tenant's audit trail promises its callers, with nothing about    *)
(* heads, hashes, retries or instances: one log that only grows, in which  *)
(* a record appears at most once.  A record whose caller was told that it  *)
(* succeeded is in the log from then on; one whose caller was told that it *)
(* failed may be in it, or may still arrive.                               *)
(*                                                                         *)
(* The log only grows, so a record that was acknowledged before another    *)
(* one was begun precedes it, on whichever instances the two were made.    *)
(*                                                                         *)
(* AuditChain implements this module.                                      *)
(***************************************************************************)
EXTENDS Sequences

CONSTANT Records

VARIABLES
    log,        \* the records of the tenant, oldest first
    answer      \* answer[r]: what the caller of r was told

logVars == <<log, answer>>

Logged(r) == \E k \in DOMAIN log : log[k] = r

Init ==
    /\ log = <<>>
    /\ answer = [r \in Records |-> "none"]

\* Written while its caller waits, or after it was told to have failed.
Arrive(r) ==
    /\ answer[r] # "ok"
    /\ ~Logged(r)
    /\ log' = Append(log, r)
    /\ UNCHANGED answer

Succeed(r) ==
    /\ answer[r] = "none"
    /\ Logged(r)
    /\ answer' = [answer EXCEPT ![r] = "ok"]
    /\ UNCHANGED log

\* Told to fail: any number of records at once when an instance dies.
Fail(S) ==
    /\ \A r \in S : answer[r] = "none"
    /\ answer' = [r \in Records |-> IF r \in S THEN "error" ELSE answer[r]]
    /\ UNCHANGED log

Next ==
    \/ \E r \in Records : Arrive(r) \/ Succeed(r)
    \/ \E S \in SUBSET Records : Fail(S)

Spec == Init /\ [][Next]_logVars
=============================================================================
