---------------------------- MODULE QueryLifecycle ----------------------------
(***************************************************************************)
(* The durable lifecycle of a data query: admission, execution on Athena,  *)
(* settlement, audit, and the reconciliation of interrupted queries.       *)
(*                                                                         *)
(*   src/src/gateway/query/service.py         execute and its error paths  *)
(*   src/src/gateway/query/admission.py       acquire, mark_started,       *)
(*                                            finalize, ack_audit          *)
(*   src/src/gateway/query/reconciliation.py  the reconciler               *)
(*   src/src/gateway/query/athena.py          execute, cancel              *)
(*   src/src/gateway/persistence.py           the DynamoDB transactions    *)
(*                                                                         *)
(* A call is one QueryService.execute; its lease_token is unique, so the   *)
(* call stands for it.  A reconciler is one QueryLifecycleReconciler.run   *)
(* after another.  Calls and reconcilers settle, audit and acknowledge     *)
(* through the same steps.  Every DynamoDB call is one atomic step, and    *)
(* everything between two of them may be interleaved.                      *)
(*                                                                         *)
(* The claim token of a call is the call, that of a reconciler the         *)
(* reconciler: each drops a claim before it takes the next one of the same *)
(* query, and a token that was dropped is never presented again.           *)
(***************************************************************************)
EXTENDS Integers, FiniteSets, Amounts

CONSTANTS
    Requests,       \* request ids of a project, chosen by its clients
    Calls,          \* executions of QueryService.execute
    RequestOf,      \* RequestOf[c]: the request id call c was made with
    Interrupted,    \* bound: calls that die when their query is admitted
    Reconcilers,    \* instances that run the reconciliation worker
    Project,        \* the project that owns the queries
    Principals,     \* the principals who make them
    PrincipalOf,    \* PrincipalOf[q]: who makes request q
    Concurrency,    \* Concurrency[o]: number of query slots of an owner
    ScanLimit,      \* ScanLimit[o]: bytes an owner may scan per window
    Reserved,       \* max_scan_bytes_per_query, reserved at admission
    Scans,          \* bytes an Athena execution may end up scanning
    Ends,           \* bound: states an Athena execution may end in
    MaxWindow,      \* bound: the last scan window
    MaxFaults       \* bound: failed or lost calls, crashed reconcilers and
                    \* claims that run out on a reconciler still at work

NoOne == "no one"   \* absent lease, claim or slot item

Owners == {Project} \cup Principals
OwnersOf(q) == {Project, PrincipalOf[q]}
Windows == 0..MaxWindow
Procs == Calls \cup Reconcilers

ASSUME QueryAssumption ==
    /\ RequestOf \in [Calls -> Requests]
    /\ PrincipalOf \in [Requests -> Principals]
    /\ Project \notin Principals
    /\ Calls \cap Reconcilers = {}
    /\ NoOne \notin Procs
    /\ Calls # {}
    /\ Interrupted \subseteq Calls

ASSUME LimitAssumption ==
    /\ Concurrency \in [Owners -> Nat \ {0}]
    /\ ScanLimit \in [Owners -> Nat]
    /\ Reserved \in Nat \ {0}
    /\ \A o \in Owners : Reserved <= ScanLimit[o]
    /\ Scans \subseteq Nat
    /\ Ends \subseteq {"SUCCEEDED", "FAILED", "CANCELLED"}
    /\ MaxWindow \in Nat
    /\ MaxFaults \in Nat

Open == {"accepted", "running"}
Terminal == {"succeeded", "failed", "cancelled"}

\* QueryTerminalAudit: the outcome and the bytes charged for it.
Docs == [status : Terminal, accounted : 0..Reserved]
NoDoc == [status |-> "failed", accounted |-> 0]

\* A slot is one item per owner and number; a query holds one of each owner.
Slots == UNION {{o} \X (0..(Concurrency[o] - 1)) : o \in Owners}
Pairs(q) == (0..(Concurrency[Project] - 1))
                \X (0..(Concurrency[PrincipalOf[q]] - 1))
SlotsOf(q, pair) == {<<Project, pair[1]>>, <<PrincipalOf[q], pair[2]>>}

VARIABLES
    life,       \* life[q]: the query_lifecycle item of request q
    slot,       \* slot[s]: lease_token in the query_admission_slot item
    counter,    \* counter[<<o, w>>]: query_scan_counter of a window
    dropped,    \* counters deleted by DynamoDB's time to live
    athena,     \* athena[q]: the execution that q's ClientRequestToken names
    audited,    \* audited[q]: final QUERY_RESULT records in the audit trail
    expired,    \* leases that have run out
    window,     \* the scan window of the wall clock
    proc,       \* proc[p]: local state of a call or a reconciler
    faults      \* failures so far

store == <<life, slot, counter, dropped>>
vars == <<store, athena, audited, expired, window, proc, faults>>

NoItem == [status |-> "none", lease |-> NoOne, window |-> 0,
           pair |-> <<0, 0>>, doc |-> NoDoc, pending |-> FALSE,
           claim |-> NoOne, live |-> FALSE, acked |-> NoOne]

NoClaim(q) == [req |-> q, status |-> "accepted", doc |-> NoDoc]

AnyRequest == RequestOf[CHOOSE c \in Calls : TRUE]

Idle(q) == [pc |-> "idle", work |-> NoClaim(q), doc |-> NoDoc, cause |-> "none",
            window |-> 0, untried |-> {}, mine |-> {}, counted |-> {},
            late |-> FALSE, held |-> {}]

Init ==
    /\ life = [q \in Requests |-> NoItem]
    /\ slot = [s \in Slots |-> NoOne]
    /\ counter = [k \in Owners \X Windows |-> 0]
    /\ dropped = {}
    /\ athena = [q \in Requests |-> [state |-> "none", scanned |-> 0]]
    /\ audited = [q \in Requests |-> {}]
    /\ expired = {}
    /\ window = 0
    /\ proc = [p \in Procs |->
                  Idle(IF p \in Calls THEN RequestOf[p] ELSE AnyRequest)]
    /\ faults = 0

Goto(p, label) == proc' = [proc EXCEPT ![p].pc = label]

\* A call that is over stays so; a reconciler goes on with its next claim,
\* whatever became of this one.
Finish(p) ==
    proc' = [proc EXCEPT ![p] =
        IF p \in Calls
        THEN [Idle(RequestOf[p]) EXCEPT !.pc = "ended", !.window = proc[p].window,
                                        !.late = proc[p].late]
        ELSE [Idle(AnyRequest) EXCEPT !.pc = "next", !.held = proc[p].held]]

Settle(p, doc) ==
    proc' = [proc EXCEPT ![p].pc = "plan", ![p].doc = doc, ![p].cause = "none"]

Fault == faults < MaxFaults /\ faults' = faults + 1

\* The lease a process settles: a call's own, or that of the claimed query.
LeaseOf(p) == IF p \in Calls THEN p ELSE life[proc[p].work.req].lease

-----------------------------------------------------------------------------
(* Admission                                                               *)

\* execute records QUERY_REQUEST, acquire consumes the rate limit and reads
\* the clock: the window of the reservation is the one of this moment.
Request(c) ==
    /\ proc[c].pc = "idle"
    /\ \/ proc' = [proc EXCEPT ![c].pc = "reserve", ![c].window = window,
                               ![c].untried = Pairs(RequestOf[c])]
       \/ Finish(c)             \* no durable audit, or over the rate limit
    /\ UNCHANGED <<store, athena, audited, expired, window, faults>>

\* Mutants: a slot is taken over whatever became of its lease; the reservation is
\* not counted in when the scan limit is checked.
SlotFreeAlways(s) == slot[s] \in Calls \cup {NoOne}

AffordableAlone(q, w) ==
    \A o \in OwnersOf(q) : counter[<<o, w>>] <= ScanLimit[o]

\* A slot item can be put when there is none or when its lease has run out.
SlotFree(s) == slot[s] = NoOne \/ slot[s] \in expired

Affordable(q, w) ==
    \A o \in OwnersOf(q) : counter[<<o, w>>] + Reserved <= ScanLimit[o]

\* The five writes of the admission transaction.
Admit(c, pair) ==
    LET q == RequestOf[c]
        w == proc[c].window IN
    /\ life' = [life EXCEPT ![q] = [NoItem EXCEPT
                    !.status = "accepted", !.lease = c, !.window = w,
                    !.pair = pair]]
    /\ slot' = [s \in Slots |-> IF s \in SlotsOf(q, pair) THEN c ELSE slot[s]]
    /\ counter' = [k \in Owners \X Windows |->
                      IF k \in OwnersOf(q) \X {w} THEN counter[k] + Reserved
                                                  ELSE counter[k]]
    /\ UNCHANGED dropped

\* reserve_query_capacity tries one pair of slots after the other, in an order
\* seeded by the lease token.  A used request id or a full scan budget ends the
\* loop, a busy slot leads to the next pair.
Reserve(c, pair) ==
    LET q == RequestOf[c]
        free == /\ life[q].status = "none"
                /\ Affordable(q, proc[c].window)
                /\ \A s \in SlotsOf(q, pair) : SlotFree(s) IN
    /\ proc[c].pc = "reserve"
    /\ pair \in proc[c].untried
    /\ \/ /\ free
          /\ Admit(c, pair)
          /\ proc' = [proc EXCEPT ![c].pc = "starting", ![c].untried = {}]
          /\ UNCHANGED faults
       \/ /\ life[q].status # "none" \/ ~Affordable(q, proc[c].window)
          /\ Finish(c)
          /\ UNCHANGED <<store, faults>>
       \/ /\ life[q].status = "none" /\ Affordable(q, proc[c].window)
          /\ \E s \in SlotsOf(q, pair) : ~SlotFree(s)
          /\ IF proc[c].untried = {pair} THEN Finish(c)
             ELSE proc' = [proc EXCEPT ![c].untried = @ \ {pair}]
          /\ UNCHANGED <<store, faults>>
       \/ /\ Fault              \* raised: 503, and the query may be admitted
          /\ (free /\ Admit(c, pair)) \/ UNCHANGED store
          /\ Finish(c)
    /\ UNCHANGED <<athena, audited, expired, window>>

-----------------------------------------------------------------------------
(* Execution                                                               *)

Failed(bytes) == [status |-> "failed", accounted |-> bytes]
Cancelled(bytes) == [status |-> "cancelled", accounted |-> bytes]

StartAthena(q) ==
    athena' = [athena EXCEPT ![q].state =
                  IF @ = "none" THEN "RUNNING" ELSE @]

\* _execute_bounded up to the answer of start_query_execution.  The call may be
\* cancelled by its client meanwhile; the thread that starts the query is waited
\* for, and its answer still recorded.
Start(c) ==
    LET q == RequestOf[c] IN
    /\ proc[c].pc = "starting"
    /\ c \notin Interrupted
    /\ \/ /\ \E doc \in {Failed(0), Cancelled(0)} : Settle(c, doc)
          /\ UNCHANGED athena               \* ended before the start
       \/ /\ StartAthena(q)
          /\ \E cause \in {"none", "cancel", "athena"} :
                proc' = [proc EXCEPT ![c].pc = "marking", ![c].cause = cause]
       \/ /\ StartAthena(q) \/ UNCHANGED athena
          /\ Settle(c, Failed(Reserved))    \* the start raised
       \/ /\ StartAthena(q) \/ UNCHANGED athena
          /\ Settle(c, Cancelled(0))        \* it raised during cancellation
    /\ UNCHANGED <<store, audited, expired, window, faults>>

Markable(c) == LET item == life[RequestOf[c]] IN
    item.lease = c /\ item.status \in Open

\* mark_query_started: accepted -> running, with the execution id.
MarkStarted(c) == life' = [life EXCEPT ![RequestOf[c]].status = "running"]

Mark(c) ==
    /\ proc[c].pc = "marking"
    /\ \/ /\ Markable(c)
          /\ MarkStarted(c)
          /\ Goto(c, IF proc[c].cause = "none" THEN "waiting" ELSE "stop")
          /\ UNCHANGED faults
       \/ /\ ~Markable(c)
          /\ Goto(c, "stop")
          /\ UNCHANGED <<life, faults>>
       \/ /\ Fault
          /\ (Markable(c) /\ MarkStarted(c)) \/ UNCHANGED life
          /\ Goto(c, "stop")
    /\ UNCHANGED <<slot, counter, dropped, athena, audited, expired, window>>

\* Cancelled or timed out while mark_query_started is in its thread: the thread
\* goes on, and its update lands at some later time.
AbandonMark(c, cause) ==
    /\ proc[c].pc = "marking"
    /\ proc[c].cause = "none"
    /\ proc' = [proc EXCEPT ![c].pc = "stop", ![c].cause = cause,
                            ![c].late = TRUE]
    /\ UNCHANGED <<store, athena, audited, expired, window, faults>>

LateMark(c) ==
    /\ proc[c].late
    /\ IF Markable(c) THEN MarkStarted(c) ELSE UNCHANGED life
    /\ proc' = [proc EXCEPT ![c].late = FALSE]
    /\ UNCHANGED <<slot, counter, dropped, athena, audited, expired, window,
                   faults>>

Stopped(q) == athena[q].state \in {"SUCCEEDED", "FAILED", "CANCELLED"}

\* Mutant of Charges: without statistics nothing is charged.
ChargesFree(q) ==
    {IF athena[q].scanned <= Reserved THEN athena[q].scanned ELSE Reserved, 0}

\* What a terminal execution is charged with: its bytes up to the reservation,
\* or all of it when Athena reports no statistics.
Charges(q) ==
    {IF athena[q].scanned <= Reserved THEN athena[q].scanned ELSE Reserved,
     Reserved}

\* Outcomes of a call whose execution is seen to be terminal.
Outcomes(c) ==
    LET state == athena[RequestOf[c]].state IN
    CASE proc[c].cause = "cancel" -> {"cancelled"}
      [] proc[c].cause = "athena" ->
            {IF state = "CANCELLED" THEN "cancelled" ELSE "failed"}
      [] OTHER -> {"failed"}

\* Waiting for the execution: it succeeds and its rows are read, it is seen to
\* be over but gives no result, or the call gives up on it (deadline, status
\* unavailable, cancelled by its client).
Wait(c) ==
    LET q == RequestOf[c] IN
    /\ proc[c].pc = "waiting"
    /\ \/ /\ athena[q].state = "SUCCEEDED"
          /\ athena[q].scanned <= Reserved
          /\ Settle(c, [status |-> "succeeded",
                        accounted |-> athena[q].scanned])
       \/ /\ Stopped(q)
          /\ \E bytes \in Charges(q) :
                Settle(c, IF athena[q].state = "CANCELLED"
                          THEN Cancelled(bytes) ELSE Failed(bytes))
       \/ \E cause \in {"cancel", "athena"} :
             proc' = [proc EXCEPT ![c].pc = "stop", ![c].cause = cause]
    /\ UNCHANGED <<store, athena, audited, expired, window, faults>>

\* AthenaQueryExecutor.cancel asks Athena to stop and waits for a terminal state.
\* A call that sees none leaves its query, with the reservation, to the lease.
Stop(c) ==
    LET q == RequestOf[c] IN
    /\ proc[c].pc = "stop"
    /\ \/ /\ Stopped(q)
          /\ \E status \in Outcomes(c), bytes \in Charges(q) :
                Settle(c, [status |-> status, accounted |-> bytes])
       \/ Finish(c)
    /\ UNCHANGED <<store, athena, audited, expired, window, faults>>

-----------------------------------------------------------------------------
(* Reconciliation                                                          *)

\* Mutant of Claimable: queries that only lack their audit are not found.
ClaimableOpen(q) ==
    /\ life[q].status \in Open /\ life[q].lease \in expired
    /\ ~life[q].live

\* The filter of claim_query_reconciliation_page, checked again by the
\* condition of each claiming update.
Claimable(q) ==
    /\ \/ life[q].status \in Open /\ life[q].lease \in expired
       \/ life[q].status \in Terminal /\ life[q].pending
    /\ ~life[q].live

TakeClaim(r, q) ==
    life' = [life EXCEPT ![q].claim = r, ![q].live = TRUE]

\* One claim of a page.  A call that fails ends the run, and with it the claims
\* of its page, which stay in the items until they run out.
Claim(r, q) ==
    /\ proc[r].pc \in {"idle", "scanning"}
    /\ Claimable(q)
    /\ \A claim \in proc[r].held : claim.req # q
    /\ \/ /\ TakeClaim(r, q)
          /\ proc' = [proc EXCEPT
                ![r].pc = "scanning",
                ![r].held = @ \cup {[req |-> q, status |-> life[q].status,
                                     doc |-> life[q].doc]}]
          /\ UNCHANGED faults
       \/ /\ Fault
          /\ TakeClaim(r, q) \/ UNCHANGED life
          /\ proc' = [proc EXCEPT ![r] = Idle(AnyRequest)]
    /\ UNCHANGED <<slot, counter, dropped, athena, audited, expired, window>>

\* The page is claimed; its claims are worked off one after the other.
EndPage(r) ==
    /\ proc[r].pc = "scanning"
    /\ Goto(r, "next")
    /\ UNCHANGED <<store, athena, audited, expired, window, faults>>

\* _reconcile_claim: a settled query only lacks its audit, one interrupted
\* before its execution id was known is charged with all it reserved.
NextClaim(r) ==
    /\ proc[r].pc = "next"
    /\ \/ /\ proc[r].held = {}
          /\ proc' = [proc EXCEPT ![r] = Idle(AnyRequest)]
       \/ \E claim \in proc[r].held :
             proc' = [proc EXCEPT
                ![r].held = @ \ {claim},
                ![r].work = claim,
                ![r].doc = IF claim.status = "accepted"
                           THEN Failed(Reserved) ELSE claim.doc,
                ![r].pc = CASE claim.status = "accepted" -> "plan"
                            [] claim.status = "running" -> "observe"
                            [] OTHER -> "record"]
    /\ UNCHANGED <<store, athena, audited, expired, window, faults>>

StatusOf(state) == CASE state = "SUCCEEDED" -> "succeeded"
                     [] state = "CANCELLED" -> "cancelled"
                     [] OTHER -> "failed"

\* _terminal_state of a running query.
Observe(r) ==
    LET q == proc[r].work.req IN
    /\ proc[r].pc = "observe"
    /\ \/ /\ Stopped(q)
          /\ \E bytes \in Charges(q) :
                Settle(r, [status |-> StatusOf(athena[q].state),
                           accounted |-> bytes])
          /\ UNCHANGED faults
       \/ /\ ~Stopped(q)
          /\ Goto(r, "defer")
          /\ UNCHANGED faults
       \/ /\ Fault          \* datasource, role or status unavailable
          /\ Goto(r, "defer")
    /\ UNCHANGED <<store, athena, audited, expired, window>>

\* defer_query_reconciliation gives back the claim it still holds.
Defer(r) ==
    LET q == proc[r].work.req
        holds == /\ life[q].claim = r
                 /\ life[q].status = proc[r].work.status
        release == life' = [life EXCEPT ![q].claim = NoOne, ![q].live = FALSE] IN
    /\ proc[r].pc = "defer"
    /\ \/ /\ IF holds THEN release ELSE UNCHANGED life
          /\ UNCHANGED faults
       \/ /\ Fault
          /\ UNCHANGED life
    /\ Finish(r)
    /\ UNCHANGED <<slot, counter, dropped, athena, audited, expired, window>>

-----------------------------------------------------------------------------
(* Settlement, audit, acknowledgement                                      *)

\* The reads before the transaction: which of the query's slots still carry its
\* lease and, for a reconciler, which counters still exist.
Plan(p) ==
    LET q == proc[p].work.req IN
    /\ proc[p].pc = "plan"
    /\ proc' = [proc EXCEPT
          ![p].pc = "commit",
          ![p].mine = {s \in SlotsOf(q, life[q].pair) : slot[s] = LeaseOf(p)},
          ![p].counted = IF p \in Calls THEN OwnersOf(q)
                         ELSE {o \in OwnersOf(q) :
                                  <<o, life[q].window>> \notin dropped}]
    /\ UNCHANGED <<store, athena, audited, expired, window, faults>>

Refund(p) == Reserved - proc[p].doc.accounted

\* Mutant of Permitted: status and claim are not looked at.
PermittedTwice(p) ==
    LET q == proc[p].work.req IN
    /\ life[q].lease = LeaseOf(p)
    /\ Refund(p) # 0 => \A o \in proc[p].counted :
          /\ <<o, life[q].window>> \notin dropped
          /\ counter[<<o, life[q].window>>] >= Refund(p)
    /\ \A s \in proc[p].mine : slot[s] = LeaseOf(p)

\* The conditions of finalize_query_capacity (a call) and of
\* finalize_query_reconciliation (a reconciler, which must hold the claim).
Permitted(p) ==
    LET q == proc[p].work.req IN
    /\ life[q].lease = LeaseOf(p)
    /\ IF p \in Calls THEN life[q].status \in Open
       ELSE life[q].claim = p /\ life[q].status = proc[p].work.status
    /\ Refund(p) # 0 => \A o \in proc[p].counted :
          /\ <<o, life[q].window>> \notin dropped
          /\ counter[<<o, life[q].window>>] >= Refund(p)
    /\ \A s \in proc[p].mine : slot[s] = LeaseOf(p)

\* The item after the transaction.  A call's settlement starts a claim
\* of its own, so that no reconciler repeats the audit it is about to write.
Finalized(p, item) ==
    [item EXCEPT !.status = proc[p].doc.status,
                 !.doc = proc[p].doc,
                 !.pending = TRUE,
                 !.claim = IF p \in Calls THEN p ELSE item.claim,
                 !.live = p \in Calls \/ item.live]

\* Mutant of Finalize: only the project's counter is refunded.
FinalizeProject(p) ==
    LET q == proc[p].work.req IN
    /\ life' = [life EXCEPT ![q] = Finalized(p, life[q])]
    /\ slot' = [s \in Slots |-> IF s \in proc[p].mine THEN NoOne ELSE slot[s]]
    /\ counter' = [k \in Owners \X Windows |->
                      IF k = <<Project, life[q].window>>
                      THEN counter[k] - Refund(p) ELSE counter[k]]
    /\ UNCHANGED dropped

Finalize(p) ==
    LET q == proc[p].work.req IN
    /\ life' = [life EXCEPT ![q] = Finalized(p, life[q])]
    /\ slot' = [s \in Slots |-> IF s \in proc[p].mine THEN NoOne ELSE slot[s]]
    /\ counter' = [k \in Owners \X Windows |->
                      IF k \in proc[p].counted \X {life[q].window}
                      THEN counter[k] - Refund(p) ELSE counter[k]]
    /\ UNCHANGED dropped

\* The plan is not needed any more.
Leave(p, label) ==
    proc' = [proc EXCEPT ![p].pc = label, ![p].mine = {}, ![p].counted = {}]

Commit(p) ==
    /\ proc[p].pc = "commit"
    /\ \/ /\ Permitted(p)
          /\ Finalize(p)
          /\ Leave(p, "record")
          /\ UNCHANGED faults
       \/ /\ ~Permitted(p)
          /\ Leave(p, "check")
          /\ UNCHANGED <<store, faults>>
       \/ /\ Fault
          /\ (Permitted(p) /\ Finalize(p)) \/ UNCHANGED store
          /\ Leave(p, "check")
    /\ UNCHANGED <<athena, audited, expired, window>>

\* Mutant of Matches: any settlement is taken for one's own.
MatchesAny(p) ==
    LET item == life[proc[p].work.req] IN
    item.lease = LeaseOf(p) /\ item.status \in Terminal

\* After an exception the item is read again: the transaction took effect when
\* the item shows this outcome under this process's claim.
\* A call that finds otherwise, or gives up earlier, still writes a QUERY_RESULT
\* record; that one says lifecycle_finalized = False or reconciliation_pending
\* and is no final record, so audited leaves it out.
Matches(p) ==
    LET item == life[proc[p].work.req] IN
    /\ item.lease = LeaseOf(p)
    /\ item.status = proc[p].doc.status
    /\ item.doc = proc[p].doc
    /\ item.claim = p \/ item.acked = p

Check(p) ==
    /\ proc[p].pc = "check"
    /\ \/ /\ Matches(p)
          /\ Goto(p, "record")
          /\ UNCHANGED faults
       \/ /\ ~Matches(p)
          /\ Finish(p)          \* 503, or a lost claim
          /\ UNCHANGED faults
       \/ /\ Fault
          /\ Finish(p)
    /\ UNCHANGED <<store, athena, audited, expired, window>>

Append(p) ==
    LET q == proc[p].work.req IN
    audited' = [audited EXCEPT ![q] = @ \cup {proc[p].doc}]

\* The QUERY_RESULT record.  If it fails the query stays pending and the audit
\* is left to a reconciler.
Record(p) ==
    /\ proc[p].pc = "record"
    /\ \/ /\ Append(p)
          /\ Goto(p, "ack")
          /\ UNCHANGED faults
       \/ /\ Fault
          /\ Append(p) \/ UNCHANGED audited
          /\ Finish(p)
    /\ UNCHANGED <<store, athena, expired, window>>

\* ack_query_reconciliation_audit.  Its answer changes nothing for the process.
Ack(p) ==
    LET q == proc[p].work.req
        holds == /\ life[q].lease = LeaseOf(p)
                 /\ life[q].claim = p
                 /\ life[q].status = proc[p].doc.status
                 /\ life[q].pending
                 /\ life[q].doc = proc[p].doc IN
    /\ proc[p].pc = "ack"
    /\ \/ /\ holds
          /\ life' = [life EXCEPT ![q] = [@ EXCEPT
                !.pending = FALSE, !.acked = p, !.claim = NoOne,
                !.live = FALSE]]
          /\ UNCHANGED faults
       \/ /\ ~holds
          /\ UNCHANGED <<life, faults>>
       \/ /\ Fault
          /\ UNCHANGED life
    /\ Finish(p)
    /\ UNCHANGED <<slot, counter, dropped, athena, audited, expired, window>>

-----------------------------------------------------------------------------
(* Athena, time, crashes                                                   *)

\* An execution ends by itself or because it is stopped.
AthenaEnds(q) ==
    /\ athena[q].state = "RUNNING"
    /\ \E state \in Ends, bytes \in Scans :
          athena' = [athena EXCEPT ![q] = [state |-> state, scanned |-> bytes]]
    /\ UNCHANGED <<store, audited, expired, window, proc, faults>>

LeaseExpires(c) ==
    /\ life[RequestOf[c]].lease = c
    /\ c \notin expired
    /\ expired' = expired \cup {c}
    /\ UNCHANGED <<store, athena, audited, window, proc, faults>>

\* Is process p still at work on its claim of q?
AtWork(p, q) ==
    \/ p \in Reconcilers /\ \E claim \in proc[p].held : claim.req = q
    \/ /\ proc[p].pc \in {"observe", "defer", "plan", "commit", "check",
                          "record", "ack"}
       /\ proc[p].work.req = q

\* A claim runs out.  That it does so while its reconciler is at work on it is a
\* fault: claims are made for longer than a page takes.
ClaimExpires(q) ==
    /\ life[q].live
    /\ IF life[q].claim \in Reconcilers /\ AtWork(life[q].claim, q)
       THEN Fault ELSE UNCHANGED faults
    /\ life' = [life EXCEPT ![q].live = FALSE]
    /\ UNCHANGED <<slot, counter, dropped, athena, audited, expired, window,
                   proc>>

NextWindow ==
    /\ window < MaxWindow
    /\ window' = window + 1
    /\ UNCHANGED <<store, athena, audited, expired, proc, faults>>

\* A counter outlives its window by another one and a lease.
CounterExpires(o, w) ==
    /\ w < window
    /\ <<o, w>> \notin dropped
    /\ \A c \in Calls : proc[c].window = w =>
          /\ proc[c].pc \notin {"idle", "reserve"}
          /\ life[RequestOf[c]].lease = c => c \in expired
    /\ dropped' = dropped \cup {<<o, w>>}
    /\ UNCHANGED <<life, slot, counter, athena, audited, expired, window, proc,
                   faults>>

\* A reconciler dies with its instance and starts again; its claims stay in their
\* items.  A call that dies, or that is cancelled outside the shielded part of
\* execute, only takes no further step, and no call is owed one.
CrashReconciler(r) ==
    /\ proc[r].pc # "idle"
    /\ Fault
    /\ proc' = [proc EXCEPT ![r] = Idle(AnyRequest)]
    /\ UNCHANGED <<store, athena, audited, expired, window>>

-----------------------------------------------------------------------------
Process(p) == Plan(p) \/ Commit(p) \/ Check(p) \/ Record(p) \/ Ack(p)

Call(c) ==
    \/ Request(c)
    \/ \E pair \in Pairs(RequestOf[c]) : Reserve(c, pair)
    \/ Start(c)
    \/ Mark(c)
    \/ \E cause \in {"cancel", "athena"} : AbandonMark(c, cause)
    \/ LateMark(c)
    \/ Wait(c)
    \/ Stop(c)
    \/ Process(c)

Reconcile(r) ==
    \/ \E q \in Requests : Claim(r, q)
    \/ EndPage(r)
    \/ NextClaim(r)
    \/ Observe(r)
    \/ Defer(r)
    \/ Process(r)

Environment ==
    \/ \E q \in Requests : AthenaEnds(q) \/ ClaimExpires(q)
    \/ \E c \in Calls : LeaseExpires(c)
    \/ \E r \in Reconcilers : CrashReconciler(r)
    \/ NextWindow
    \/ \E o \in Owners, w \in Windows : CounterExpires(o, w)

Next ==
    \/ \E c \in Calls : Call(c)
    \/ \E r \in Reconcilers : Reconcile(r)
    \/ Environment

Spec == Init /\ [][Next]_vars

\* What the scheduler owes a query: time passes, Athena ends what it runs, and
\* the reconciliation worker of a live instance keeps running.  Nothing is
\* assumed of the call that made the query.
FairSpec ==
    /\ Spec
    /\ \A q \in Requests : WF_vars(AthenaEnds(q)) /\ WF_vars(ClaimExpires(q))
    /\ \A c \in Calls : WF_vars(LeaseExpires(c))
    /\ \A r \in Reconcilers : WF_vars(Reconcile(r))

-----------------------------------------------------------------------------
(* Properties                                                              *)

Items == [status  : {"none"} \cup Open \cup Terminal,
          lease   : Calls \cup {NoOne},
          window  : Windows,
          pair    : Nat \X Nat,
          doc     : Docs,               \* terminal_audit
          pending : BOOLEAN,            \* audit_pending
          claim   : Procs \cup {NoOne}, \* reconciliation_token
          live    : BOOLEAN,            \* the claim has not run out
          acked   : Procs \cup {NoOne}] \* audit_acknowledged_claim_token

Claims == [req : Requests, status : Open \cup Terminal, doc : Docs]

Labels == {"idle", "reserve", "starting", "marking", "waiting", "stop", "ended",
           "scanning", "next", "observe", "defer",
           "plan", "commit", "check", "record", "ack"}

Locals == [pc      : Labels,
           work    : Claims,            \* the query worked on
           doc     : Docs,              \* the outcome it is settled with
           cause   : {"none", "cancel", "athena"}, \* why a call gave up
           window  : Windows,
           untried : SUBSET (Nat \X Nat),
           mine    : SUBSET Slots,      \* slots the transaction deletes
           counted : SUBSET Owners,     \* counters the transaction refunds
           late    : BOOLEAN,           \* an abandoned update is under way
           held    : SUBSET Claims]     \* claims of the page not yet begun

\* Every item and every local variable has its type.
TypeOK ==
    /\ life \in [Requests -> Items]
    /\ slot \in [Slots -> Calls \cup {NoOne}]
    /\ counter \in [Owners \X Windows -> Int]
    /\ dropped \in SUBSET (Owners \X Windows)
    /\ athena \in [Requests ->
            [state   : {"none", "RUNNING", "SUCCEEDED", "FAILED", "CANCELLED"},
             scanned : Nat]]
    /\ audited \in [Requests -> SUBSET Docs]
    /\ expired \in SUBSET Calls
    /\ window \in Windows
    /\ proc \in [Procs -> Locals]
    /\ faults \in Nat

\* An admitted query whose lease has not run out owns the slots it was given:
\* no takeover of an expired slot, and no settlement of another query that once
\* held it, frees or reassigns them.  So an owner never has more such queries
\* than slots.
LeaseOwnsSlots ==
    \A q \in Requests :
        (life[q].status \in Open /\ life[q].lease \notin expired)
            => \A s \in SlotsOf(q, life[q].pair) : slot[s] = life[q].lease

\* The scan budget of a window is never overrun by what is reserved and charged
\* in it, and a refund never takes it below zero.
ScanBudget ==
    \A o \in Owners, w \in Windows :
        counter[<<o, w>>] \in 0..ScanLimit[o]

\* What request q takes from the scan budget of owner o in window w.
Share(q, o, w) ==
    IF life[q].status = "none" \/ o \notin OwnersOf(q) \/ life[q].window # w
    THEN 0
    ELSE IF life[q].status \in Open THEN Reserved ELSE life[q].doc.accounted

Shares(o, w) == [q \in Requests |-> Share(q, o, w)]

\* No byte is lost or counted twice: while a counter exists it is the sum of
\* the reservations of open queries and the charges of settled ones.  In
\* particular the floor in the settling transaction never blocks a refund.
Conservation ==
    \A o \in Owners, w \in Windows :
        <<o, w>> \notin dropped =>
            counter[<<o, w>>] = Total(Shares(o, w), Requests)

Least(a, b) == IF a <= b THEN a ELSE b

\* Bytes of q's execution that its settlement leaves out.  One that still runs
\* may scan up to its cutoff.
Uncharged(q) ==
    LET used == CASE athena[q].state = "none" -> 0
                  [] athena[q].state = "RUNNING" -> Reserved
                  [] OTHER -> Least(athena[q].scanned, Reserved) IN
    used > life[q].doc.accounted

\* A settled query is charged for what its execution scans, even when it was
\* started after a reconciler had given it up; only a call that was cancelled
\* before it knew of an execution is let off.
ScanCharged ==
    \A q \in Requests :
        (life[q].status \in Terminal /\ life[q].doc # Cancelled(0))
            => ~Uncharged(q)

\* docs/PRD.md:365 "Every terminal path reconciles actual scan bytes and
\* releases slots": whatever ends a query, its execution's bytes are charged.
EveryScanCharged ==
    \A q \in Requests : life[q].status \in Terminal => ~Uncharged(q)

\* The lifecycle implements its contract: settled once, every final audit record
\* states the stored outcome, and the pending mark is removed only after such a
\* record, although calls and reconcilers race for each of these steps.
Stage(q) == CASE life[q].status = "none" -> "new"
              [] life[q].status \in Open -> "open"
              [] OTHER -> IF life[q].pending THEN "settled" ELSE "closed"

Contract == INSTANCE QueryContract WITH
    stage   <- [q \in Requests |-> Stage(q)],
    outcome <- [q \in Requests |-> life[q].doc],
    records <- audited

ContractSpec == Contract!Spec

\* An admitted query is settled and its audit acknowledged in the end, even when
\* its call dies at any point and the reconciler with it.
EventuallyClosed ==
    \A q \in Requests :
        life[q].status \in Open
            ~> (life[q].status \in Terminal /\ ~life[q].pending)
=============================================================================
