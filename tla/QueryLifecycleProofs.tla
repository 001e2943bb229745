------------------------- MODULE QueryLifecycleProofs -------------------------
(***************************************************************************)
(* Proofs about QueryLifecycle, for any requests, calls, reconcilers,      *)
(* slots, scan limits and number of faults.                                *)
(***************************************************************************)
EXTENDS QueryLifecycle, AmountLemmas, TLAPS

-----------------------------------------------------------------------------
(* Types                                                                   *)

LEMMA RequestTypes ==
    /\ AnyRequest \in Requests
    /\ \A c \in Calls : RequestOf[c] \in Requests
    /\ \A q \in Requests : PrincipalOf[q] \in Principals
    /\ \A q \in Requests : OwnersOf(q) \subseteq Owners
    /\ \A q \in Requests : <<0, 0>> \in Pairs(q)
    /\ \A q \in Requests : Pairs(q) \subseteq Nat \X Nat
    /\ \A q \in Requests : \A pair \in Pairs(q) : SlotsOf(q, pair) \subseteq Slots
  <1>1. AnyRequest \in Requests /\ \A c \in Calls : RequestOf[c] \in Requests
    BY QueryAssumption DEF AnyRequest
  <1>2. \A q \in Requests : PrincipalOf[q] \in Principals
    BY QueryAssumption
  <1>3. /\ \A q \in Requests : OwnersOf(q) \subseteq Owners
        /\ \A o \in Owners : Concurrency[o] \in Nat \ {0}
        /\ Project \in Owners
    BY <1>2, LimitAssumption DEF OwnersOf, Owners
  <1>4. ASSUME NEW q \in Requests
        PROVE  <<0, 0>> \in Pairs(q) /\ Pairs(q) \subseteq Nat \X Nat
    <2>1. /\ Concurrency[Project] \in Nat \ {0}
          /\ Concurrency[PrincipalOf[q]] \in Nat \ {0}
      BY <1>2, <1>3 DEF Owners
    <2> QED
      BY <2>1 DEF Pairs
  <1>5. ASSUME NEW q \in Requests, NEW pair \in Pairs(q)
        PROVE  SlotsOf(q, pair) \subseteq Slots
    <2>1. /\ pair[1] \in 0..(Concurrency[Project] - 1)
          /\ pair[2] \in 0..(Concurrency[PrincipalOf[q]] - 1)
      BY DEF Pairs
    <2>2. PrincipalOf[q] \in Owners
      BY <1>2 DEF Owners
    <2>3. /\ <<Project, pair[1]>> \in {Project} \X (0..(Concurrency[Project] - 1))
          /\ <<PrincipalOf[q], pair[2]>>
               \in {PrincipalOf[q]} \X (0..(Concurrency[PrincipalOf[q]] - 1))
      BY <2>1
    <2> QED
      BY <2>2, <2>3, <1>3 DEF SlotsOf, Slots
  <1> QED
    BY <1>1, <1>2, <1>3, <1>4, <1>5

LEMMA DocTypes ==
    /\ NoDoc \in Docs
    /\ \A bytes \in 0..Reserved : Failed(bytes) \in Docs /\ Cancelled(bytes) \in Docs
    /\ 0 \in 0..Reserved /\ Reserved \in 0..Reserved
  BY LimitAssumption DEF NoDoc, Docs, Terminal, Failed, Cancelled

LEMMA IdleType ==
    ASSUME NEW q \in Requests
    PROVE  Idle(q) \in Locals
  BY DocTypes, LimitAssumption
     DEF Idle, Locals, Labels, NoClaim, Claims, Open, Windows

LEMMA StepType ==
    ASSUME TypeOK, NEW p \in Procs, NEW next \in Locals,
           proc' = [proc EXCEPT ![p] = next]
    PROVE  /\ proc' \in [Procs -> Locals]
           /\ proc'[p] = next
           /\ \A other \in Procs : other # p => proc'[other] = proc[other]
  BY DEF TypeOK

LEMMA GotoType ==
    ASSUME TypeOK, NEW p \in Procs, NEW label \in Labels, Goto(p, label)
    PROVE  proc' \in [Procs -> Locals]
  <1>1. [proc[p] EXCEPT !.pc = label] \in Locals
    BY DEF TypeOK, Locals
  <1> QED
    BY <1>1, StepType DEF Goto

LEMMA SettleType ==
    ASSUME TypeOK, NEW p \in Procs, NEW doc \in Docs, Settle(p, doc)
    PROVE  proc' \in [Procs -> Locals]
  <1> DEFINE next == [proc[p] EXCEPT !.pc = "plan", !.doc = doc,
                                     !.cause = "none"]
  <1>1. proc[p] \in Locals
    BY DEF TypeOK
  <1>2. next \in Locals
    BY <1>1 DEF Locals, Labels
  <1>3. proc' = [proc EXCEPT ![p] = next]
    BY DEF Settle
  <1> QED
    BY <1>2, <1>3, StepType

LEMMA FinishType ==
    ASSUME TypeOK, NEW p \in Procs, Finish(p)
    PROVE  proc' \in [Procs -> Locals]
  <1>1. proc[p] \in Locals
    BY DEF TypeOK
  <1>2. CASE p \in Calls
    <2>1. Idle(RequestOf[p]) \in Locals
      BY <1>2, IdleType, RequestTypes
    <2> DEFINE next == [Idle(RequestOf[p]) EXCEPT !.pc = "ended",
                            !.window = proc[p].window, !.late = proc[p].late]
    <2>2. next \in Locals
      BY <1>1, <2>1 DEF Locals, Labels
    <2>3. proc' = [proc EXCEPT ![p] = next]
      BY <1>2 DEF Finish
    <2> QED
      BY <2>2, <2>3, StepType
  <1>3. CASE p \notin Calls
    <2>1. Idle(AnyRequest) \in Locals
      BY IdleType, RequestTypes
    <2> DEFINE next == [Idle(AnyRequest) EXCEPT !.pc = "next",
                                                !.held = proc[p].held]
    <2>2. next \in Locals
      BY <1>1, <2>1 DEF Locals, Labels
    <2>3. proc' = [proc EXCEPT ![p] = next]
      BY <1>3 DEF Finish
    <2> QED
      BY <2>2, <2>3, StepType
  <1> QED
    BY <1>2, <1>3

LEMMA FaultType ==
    ASSUME TypeOK, Fault \/ UNCHANGED faults
    PROVE  faults' \in Nat
  BY DEF TypeOK, Fault

\* An update of one field of a lifecycle item.
LEMMA ItemType ==
    ASSUME TypeOK, NEW q \in Requests, NEW item \in Items,
           life' = [life EXCEPT ![q] = item]
    PROVE  life' \in [Requests -> Items]
  BY DEF TypeOK

\* A step that only changes process-local state keeps the types.
LEMMA LocalType ==
    ASSUME TypeOK, UNCHANGED <<store, athena, audited, expired, window>>,
           Fault \/ UNCHANGED faults, proc' \in [Procs -> Locals]
    PROVE  TypeOK'
  BY FaultType DEF TypeOK, store

LEMMA AdmitType ==
    ASSUME TypeOK, NEW c \in Calls, NEW pair \in Pairs(RequestOf[c]),
           Admit(c, pair)
    PROVE  /\ life' \in [Requests -> Items]
           /\ slot' \in [Slots -> Calls \cup {NoOne}]
           /\ counter' \in [Owners \X Windows -> Int]
           /\ dropped' = dropped
  <1> DEFINE q == RequestOf[c]
             item == [NoItem EXCEPT !.status = "accepted", !.lease = c,
                                    !.window = proc[c].window, !.pair = pair]
  <1>1. q \in Requests /\ pair \in Nat \X Nat
    BY RequestTypes
  <1>2. proc[c].window \in Windows
    BY DEF TypeOK, Procs, Locals
  <1>3. <<0, 0>> \in Nat \X Nat /\ 0 \in Windows
    BY LimitAssumption DEF Windows
  <1>4. item \in Items
    BY <1>1, <1>2, <1>3, DocTypes DEF NoItem, Items, Open
  <1>5. life' = [life EXCEPT ![q] = item]
    BY DEF Admit
  <1>6. life' \in [Requests -> Items]
    BY <1>1, <1>4, <1>5, ItemType
  <1>7. counter' \in [Owners \X Windows -> Int]
    <2>1. Reserved \in Int /\ counter \in [Owners \X Windows -> Int]
      BY LimitAssumption DEF TypeOK
    <2> QED
      BY <2>1 DEF Admit
  <1>8. slot' \in [Slots -> Calls \cup {NoOne}] /\ dropped' = dropped
    BY DEF Admit, TypeOK
  <1> QED
    BY <1>6, <1>7, <1>8

LEMMA MarkStartedType ==
    ASSUME TypeOK, NEW c \in Calls, MarkStarted(c)
    PROVE  life' \in [Requests -> Items]
  <1>1. RequestOf[c] \in Requests
    BY RequestTypes
  <1>2. life[RequestOf[c]] \in Items
    BY <1>1 DEF TypeOK
  <1>3. [life[RequestOf[c]] EXCEPT !.status = "running"] \in Items
    BY <1>2 DEF Items, Open
  <1> QED
    BY <1>1, <1>3, ItemType DEF MarkStarted

LEMMA AdmissionTypeStep ==
    ASSUME TypeOK, NEW c \in Calls,
           Request(c) \/ \E pair \in Pairs(RequestOf[c]) : Reserve(c, pair)
    PROVE  TypeOK'
  <1>0. c \in Procs /\ proc[c] \in Locals /\ RequestOf[c] \in Requests
    BY RequestTypes DEF TypeOK, Procs
  <1>1. CASE Request(c)
    <2>1. CASE Finish(c)
      BY <1>0, <1>1, <2>1, FinishType, LocalType DEF Request
    <2>2. CASE ~Finish(c)
      <3> DEFINE next == [proc[c] EXCEPT !.pc = "reserve", !.window = window,
                                         !.untried = Pairs(RequestOf[c])]
      <3>1. window \in Windows /\ Pairs(RequestOf[c]) \subseteq Nat \X Nat
        BY <1>0, RequestTypes DEF TypeOK
      <3>2. next \in Locals
        BY <1>0, <3>1 DEF Locals, Labels
      <3>3. proc' = [proc EXCEPT ![c] = next]
        BY <1>1, <2>2 DEF Request
      <3>4. proc' \in [Procs -> Locals]
        BY <1>0, <3>2, <3>3, StepType
      <3> QED
        BY <1>1, <3>4, LocalType DEF Request
    <2> QED
      BY <2>1, <2>2
  <1>2. ASSUME NEW pair \in Pairs(RequestOf[c]), Reserve(c, pair)
        PROVE  TypeOK'
    <2>1. proc' \in [Procs -> Locals]
      <3>1. CASE Finish(c)
        BY <1>0, <3>1, FinishType
      <3>2. CASE proc' = [proc EXCEPT ![c].untried = @ \ {pair}]
        <4>1. [proc[c] EXCEPT !.untried = @ \ {pair}] \in Locals
          BY <1>0 DEF Locals
        <4> QED
          BY <1>0, <3>2, <4>1, StepType
      <3>3. CASE proc' = [proc EXCEPT ![c].pc = "starting", ![c].untried = {}]
        <4>1. [proc[c] EXCEPT !.pc = "starting", !.untried = {}] \in Locals
          BY <1>0 DEF Locals, Labels
        <4> QED
          BY <1>0, <3>3, <4>1, StepType
      <3> QED
        BY <1>2, <3>1, <3>2, <3>3 DEF Reserve
    <2>2. Fault \/ UNCHANGED faults
      BY <1>2 DEF Reserve
    <2>3. CASE UNCHANGED store
      BY <1>2, <2>1, <2>2, <2>3, LocalType DEF Reserve
    <2>4. CASE Admit(c, pair)
      BY <1>2, <2>1, <2>2, <2>4, AdmitType, FaultType DEF Reserve, TypeOK
    <2> QED
      BY <1>2, <2>3, <2>4 DEF Reserve
  <1> QED
    BY <1>1, <1>2

LEMMA StartTypes ==
    ASSUME TypeOK, NEW q \in Requests, StartAthena(q) \/ UNCHANGED athena
    PROVE  athena' \in [Requests ->
                [state   : {"none", "RUNNING", "SUCCEEDED", "FAILED", "CANCELLED"},
                 scanned : Nat]]
  <1>1. CASE UNCHANGED athena
    BY <1>1 DEF TypeOK
  <1>2. CASE StartAthena(q)
    <2> DEFINE next == [athena[q] EXCEPT !.state =
                            IF @ = "none" THEN "RUNNING" ELSE @]
    <2>1. athena[q] \in [state   : {"none", "RUNNING", "SUCCEEDED", "FAILED",
                                    "CANCELLED"},
                         scanned : Nat]
      BY DEF TypeOK
    <2>2. next \in [state   : {"none", "RUNNING", "SUCCEEDED", "FAILED",
                               "CANCELLED"},
                    scanned : Nat]
      BY <2>1
    <2>3. athena' = [athena EXCEPT ![q] = next]
      BY <1>2 DEF StartAthena
    <2> QED
      BY <2>2, <2>3 DEF TypeOK
  <1> QED
    BY <1>1, <1>2

\* Everything a call does between admission and settlement.
LEMMA ExecutionTypeStep ==
    ASSUME TypeOK, NEW c \in Calls,
           \/ Start(c) \/ Mark(c) \/ LateMark(c) \/ Wait(c) \/ Stop(c)
           \/ \E cause \in {"cancel", "athena"} : AbandonMark(c, cause)
    PROVE  TypeOK'
  <1> DEFINE q == RequestOf[c]
  <1>0. c \in Procs /\ proc[c] \in Locals /\ q \in Requests
    BY RequestTypes DEF TypeOK, Procs
  <1>c. Charges(q) \subseteq 0..Reserved
    <2>1. athena[q].scanned \in Nat /\ Reserved \in Nat
      BY <1>0, LimitAssumption DEF TypeOK
    <2> QED
      BY <2>1 DEF Charges
  <1>d. \A status \in Terminal, bytes \in 0..Reserved :
            [status |-> status, accounted |-> bytes] \in Docs
    BY DEF Docs
  <1>1. CASE Start(c)
    <2>1. proc' \in [Procs -> Locals]
      <3>1. CASE \E doc \in {Failed(0), Cancelled(0), Failed(Reserved)} :
                    Settle(c, doc)
        BY <1>0, <3>1, DocTypes, SettleType
      <3>2. CASE \E cause \in {"none", "cancel", "athena"} :
                    proc' = [proc EXCEPT ![c].pc = "marking", ![c].cause = cause]
        <4>1. PICK cause \in {"none", "cancel", "athena"} :
                    proc' = [proc EXCEPT ![c].pc = "marking", ![c].cause = cause]
          BY <3>2
        <4>2. [proc[c] EXCEPT !.pc = "marking", !.cause = cause] \in Locals
          BY <1>0 DEF Locals, Labels
        <4> QED
          BY <1>0, <4>1, <4>2, StepType
      <3> QED
        BY <1>1, <3>1, <3>2 DEF Start
    <2>2. StartAthena(q) \/ UNCHANGED athena
      BY <1>1 DEF Start
    <2>3. UNCHANGED <<store, audited, expired, window, faults>>
      BY <1>1 DEF Start
    <2> QED
      BY <1>0, <2>1, <2>2, <2>3, StartTypes DEF TypeOK, store
  <1>2. CASE Mark(c)
    <2>1. proc' \in [Procs -> Locals]
      BY <1>0, <1>2, GotoType DEF Mark, Labels
    <2>2. life' \in [Requests -> Items]
      <3>1. CASE UNCHANGED life
        BY <3>1 DEF TypeOK
      <3> QED
        BY <1>2, <3>1, MarkStartedType DEF Mark
    <2>3. Fault \/ UNCHANGED faults
      BY <1>2 DEF Mark
    <2>4. UNCHANGED <<slot, counter, dropped, athena, audited, expired, window>>
      BY <1>2 DEF Mark
    <2> QED
      BY <2>1, <2>2, <2>3, <2>4, FaultType DEF TypeOK
  <1>3. CASE LateMark(c)
    <2>1. [proc[c] EXCEPT !.late = FALSE] \in Locals
      BY <1>0 DEF Locals
    <2>2. proc' \in [Procs -> Locals]
      BY <1>0, <1>3, <2>1, StepType DEF LateMark
    <2>3. life' \in [Requests -> Items]
      <3>1. CASE UNCHANGED life
        BY <3>1 DEF TypeOK
      <3> QED
        BY <1>3, <3>1, MarkStartedType DEF LateMark
    <2> QED
      BY <1>3, <2>2, <2>3 DEF LateMark, TypeOK
  <1>4. CASE Wait(c)
    <2>1. CASE \E doc \in Docs : Settle(c, doc)
      BY <1>0, <1>4, <2>1, SettleType, LocalType DEF Wait
    <2>2. CASE \E cause \in {"cancel", "athena"} :
                  proc' = [proc EXCEPT ![c].pc = "stop", ![c].cause = cause]
      <3>1. PICK cause \in {"cancel", "athena"} :
                  proc' = [proc EXCEPT ![c].pc = "stop", ![c].cause = cause]
        BY <2>2
      <3>2. [proc[c] EXCEPT !.pc = "stop", !.cause = cause] \in Locals
        BY <1>0 DEF Locals, Labels
      <3>3. proc' \in [Procs -> Locals]
        BY <1>0, <3>1, <3>2, StepType
      <3> QED
        BY <1>4, <3>3, LocalType DEF Wait
    <2>3. ASSUME athena[q].scanned <= Reserved
          PROVE  athena[q].scanned \in 0..Reserved
      <3>1. athena[q].scanned \in Nat /\ Reserved \in Nat
        BY <1>0, LimitAssumption DEF TypeOK
      <3> QED
        BY <2>3, <3>1
    <2>4. "succeeded" \in Terminal
      BY DEF Terminal
    <2>5. \A bytes \in Charges(q) : Cancelled(bytes) \in Docs /\ Failed(bytes) \in Docs
      BY <1>c, DocTypes
    <2>6. \/ \E doc \in Docs : Settle(c, doc)
          \/ \E cause \in {"cancel", "athena"} :
                proc' = [proc EXCEPT ![c].pc = "stop", ![c].cause = cause]
      BY <1>4, <1>d, <2>3, <2>4, <2>5 DEF Wait
    <2> QED
      BY <2>1, <2>2, <2>6
  <1>5. CASE Stop(c)
    <2>1. CASE Finish(c)
      BY <1>0, <1>5, <2>1, FinishType, LocalType DEF Stop
    <2>2. CASE \E doc \in Docs : Settle(c, doc)
      BY <1>0, <1>5, <2>2, SettleType, LocalType DEF Stop
    <2>3. Outcomes(c) \subseteq Terminal
      BY DEF Outcomes, Terminal
    <2>4. (\E doc \in Docs : Settle(c, doc)) \/ Finish(c)
      BY <1>5, <1>c, <1>d, <2>3 DEF Stop
    <2> QED
      BY <2>1, <2>2, <2>4
  <1>6. ASSUME NEW cause \in {"cancel", "athena"}, AbandonMark(c, cause)
        PROVE  TypeOK'
    <2> DEFINE next == [proc[c] EXCEPT !.pc = "stop", !.cause = cause, !.late = TRUE]
    <2>1. next \in Locals
      <3>1. "stop" \in Labels /\ cause \in {"none", "cancel", "athena"}
            /\ TRUE \in BOOLEAN
        BY DEF Labels
      <3> QED
        BY <1>0, <3>1 DEF Locals
    <2>3. proc' = [proc EXCEPT ![c] = next]
      BY <1>6 DEF AbandonMark
    <2>2. proc' \in [Procs -> Locals]
      BY <1>0, <2>1, <2>3, StepType
    <2> QED
      BY <1>6, <2>2, LocalType DEF AbandonMark
  <1> QED
    BY <1>1, <1>2, <1>3, <1>4, <1>5, <1>6

LEMMA ReconcilerIdleType ==
    ASSUME TypeOK, NEW r \in Reconcilers,
           proc' = [proc EXCEPT ![r] = Idle(AnyRequest)]
    PROVE  proc' \in [Procs -> Locals]
  BY IdleType, RequestTypes, StepType DEF Procs

LEMMA ReconcileTypeStep ==
    ASSUME TypeOK, NEW r \in Reconcilers,
           \/ \E q \in Requests : Claim(r, q)
           \/ EndPage(r) \/ NextClaim(r) \/ Observe(r) \/ Defer(r)
    PROVE  TypeOK'
  <1> DEFINE q == proc[r].work.req
  <1>0. /\ r \in Procs
        /\ proc[r] \in Locals
        /\ q \in Requests
        /\ proc[r].held \in SUBSET Claims
    <2>1. r \in Procs /\ proc[r] \in Locals
      BY DEF TypeOK, Procs
    <2>2. proc[r].work \in Claims /\ proc[r].held \in SUBSET Claims
      BY <2>1 DEF Locals
    <2> QED
      BY <2>1, <2>2 DEF Claims
  <1>1. ASSUME NEW k \in Requests, Claim(r, k)
        PROVE  TypeOK'
    <2>0. life[k] \in Items
      BY DEF TypeOK
    <2>1. life' \in [Requests -> Items]
      <3>1. CASE TakeClaim(r, k)
        <4>1. [life[k] EXCEPT !.claim = r, !.live = TRUE] \in Items
          BY <1>0, <2>0 DEF Items
        <4> QED
          BY <3>1, <4>1, ItemType DEF TakeClaim
      <3>2. CASE UNCHANGED life
        BY <3>2 DEF TypeOK
      <3> QED
        BY <1>1, <3>1, <3>2 DEF Claim
    <2>2. proc' \in [Procs -> Locals]
      <3> DEFINE claim == [req |-> k, status |-> life[k].status, doc |-> life[k].doc]
                 next == [proc[r] EXCEPT !.pc = "scanning", !.held = @ \cup {claim}]
      <3>1. CASE proc' = [proc EXCEPT ![r] = Idle(AnyRequest)]
        BY <3>1, ReconcilerIdleType
      <3>2. CASE proc' = [proc EXCEPT ![r] = next]
        <4>1. life[k].status \in Open \cup Terminal /\ life[k].doc \in Docs
          BY <1>1, <2>0 DEF Claim, Claimable, Items
        <4>2. claim \in Claims
          BY <4>1 DEF Claims
        <4>3. "scanning" \in Labels
          BY DEF Labels
        <4>4. next \in Locals
          BY <1>0, <4>2, <4>3 DEF Locals
        <4> QED
          BY <1>0, <3>2, <4>4, StepType
      <3> QED
        BY <1>1, <3>1, <3>2 DEF Claim
    <2>3. Fault \/ UNCHANGED faults
      BY <1>1 DEF Claim
    <2>4. UNCHANGED <<slot, counter, dropped, athena, audited, expired, window>>
      BY <1>1 DEF Claim
    <2> QED
      BY <2>1, <2>2, <2>3, <2>4, FaultType DEF TypeOK
  <1>2. CASE EndPage(r)
    <2>1. proc' \in [Procs -> Locals]
      BY <1>0, <1>2, GotoType DEF EndPage, Labels
    <2> QED
      BY <1>2, <2>1, LocalType DEF EndPage
  <1>3. CASE NextClaim(r)
    <2>1. proc' \in [Procs -> Locals]
      <3>1. CASE proc' = [proc EXCEPT ![r] = Idle(AnyRequest)]
        BY <3>1, ReconcilerIdleType
      <3>2. CASE proc' # [proc EXCEPT ![r] = Idle(AnyRequest)]
        <4>1. PICK claim \in proc[r].held : proc' = [proc EXCEPT
                ![r].held = @ \ {claim},
                ![r].work = claim,
                ![r].doc = IF claim.status = "accepted"
                           THEN Failed(Reserved) ELSE claim.doc,
                ![r].pc = CASE claim.status = "accepted" -> "plan"
                            [] claim.status = "running" -> "observe"
                            [] OTHER -> "record"]
          BY <1>3, <3>2 DEF NextClaim
        <4> DEFINE doc == IF claim.status = "accepted"
                          THEN Failed(Reserved) ELSE claim.doc
                   label == CASE claim.status = "accepted" -> "plan"
                              [] claim.status = "running" -> "observe"
                              [] OTHER -> "record"
        <4>2. claim \in Claims
          BY <1>0
        <4>3. doc \in Docs
          BY <4>2, DocTypes DEF Claims
        <4>4. label \in Labels
          BY DEF Labels
        <4> HIDE DEF doc, label
        <4> DEFINE next == [proc[r] EXCEPT !.held = @ \ {claim}, !.work = claim,
                                           !.doc = doc, !.pc = label]
        <4>5. next \in Locals
          BY <1>0, <4>2, <4>3, <4>4 DEF Locals
        <4>6. proc' = [proc EXCEPT ![r] = next]
          BY <4>1 DEF doc, label
        <4> QED
          BY <1>0, <4>5, <4>6, StepType
      <3> QED
        BY <3>1, <3>2
    <2> QED
      BY <1>3, <2>1, LocalType DEF NextClaim
  <1>4. CASE Observe(r)
    <2>1. proc' \in [Procs -> Locals]
      <3>1. CASE Goto(r, "defer")
        BY <1>0, <3>1, GotoType DEF Labels
      <3>2. CASE \E bytes \in Charges(q) :
                    Settle(r, [status |-> StatusOf(athena[q].state),
                               accounted |-> bytes])
        <4>1. athena[q].scanned \in Nat /\ Reserved \in Nat
          BY <1>0, LimitAssumption DEF TypeOK
        <4>2. Charges(q) \subseteq 0..Reserved
          BY <4>1 DEF Charges
        <4>3. StatusOf(athena[q].state) \in Terminal
          BY DEF StatusOf, Terminal
        <4> QED
          BY <1>0, <3>2, <4>2, <4>3, SettleType DEF Docs
      <3> QED
        BY <1>4, <3>1, <3>2 DEF Observe
    <2>2. Fault \/ UNCHANGED faults
      BY <1>4 DEF Observe
    <2> QED
      BY <1>4, <2>1, <2>2, LocalType DEF Observe
  <1>5. CASE Defer(r)
    <2>1. proc' \in [Procs -> Locals]
      BY <1>0, <1>5, FinishType DEF Defer
    <2>2. life' \in [Requests -> Items]
      <3>1. CASE UNCHANGED life
        BY <3>1 DEF TypeOK
      <3>2. CASE life' = [life EXCEPT ![q].claim = NoOne, ![q].live = FALSE]
        <4>1. life[q] \in Items
          BY <1>0 DEF TypeOK
        <4> DEFINE item == [life[q] EXCEPT !.claim = NoOne, !.live = FALSE]
        <4>2. item \in Items
          BY <4>1 DEF Items
        <4>3. life' = [life EXCEPT ![q] = item]
          BY <3>2
        <4> QED
          BY <1>0, <4>2, <4>3, ItemType
      <3> QED
        BY <1>5, <3>1, <3>2 DEF Defer
    <2>3. Fault \/ UNCHANGED faults
      BY <1>5 DEF Defer
    <2>4. UNCHANGED <<slot, counter, dropped, athena, audited, expired, window>>
      BY <1>5 DEF Defer
    <2> QED
      BY <2>1, <2>2, <2>3, <2>4, FaultType DEF TypeOK
  <1> QED
    BY <1>1, <1>2, <1>3, <1>4, <1>5

\* The slots of an item are slots of its owners.
Placed == \A q \in Requests : life[q].pair \in Pairs(q)

LEMMA LeaveType ==
    ASSUME TypeOK, NEW p \in Procs, NEW label \in Labels, Leave(p, label)
    PROVE  proc' \in [Procs -> Locals]
  <1> DEFINE next == [proc[p] EXCEPT !.pc = label, !.mine = {}, !.counted = {}]
  <1>1. proc[p] \in Locals
    BY DEF TypeOK
  <1>2. next \in Locals
    BY <1>1 DEF Locals
  <1>3. proc' = [proc EXCEPT ![p] = next]
    BY DEF Leave
  <1> QED
    BY <1>2, <1>3, StepType

LEMMA FinalizeType ==
    ASSUME TypeOK, NEW p \in Procs, Finalize(p)
    PROVE  /\ life' \in [Requests -> Items]
           /\ slot' \in [Slots -> Calls \cup {NoOne}]
           /\ counter' \in [Owners \X Windows -> Int]
           /\ dropped' = dropped
  <1> DEFINE q == proc[p].work.req
             item == Finalized(p, life[q])
  <1>0. q \in Requests /\ proc[p].doc \in Docs
    <2>1. proc[p] \in Locals
      BY DEF TypeOK
    <2>2. proc[p].work \in Claims /\ proc[p].doc \in Docs
      BY <2>1 DEF Locals
    <2> QED
      BY <2>2 DEF Claims
  <1>1. item \in Items
    <2>1. life[q] \in Items
      BY <1>0 DEF TypeOK
    <2>2. proc[p].doc.status \in Terminal
      BY <1>0 DEF Docs
    <2> DEFINE claim == IF p \in Calls THEN p ELSE life[q].claim
               live == p \in Calls \/ life[q].live
    <2>3. claim \in Procs \cup {NoOne} /\ live \in BOOLEAN
      BY <2>1 DEF Items
    <2>4. item = [life[q] EXCEPT
                 !.status = proc[p].doc.status, !.doc = proc[p].doc,
                 !.pending = TRUE, !.claim = claim, !.live = live]
      BY DEF Finalized
    <2> HIDE DEF claim, live, item
    <2> QED
      BY <1>0, <2>1, <2>2, <2>3, <2>4 DEF Items
  <1>2. life' = [life EXCEPT ![q] = item]
    BY DEF Finalize
  <1>3. life' \in [Requests -> Items]
    BY <1>0, <1>1, <1>2, ItemType
  <1>4. counter' \in [Owners \X Windows -> Int]
    <2>1. Refund(p) \in Int
      <3>1. proc[p].doc.accounted \in Int /\ Reserved \in Int
        BY <1>0, LimitAssumption DEF Docs
      <3> QED
        BY <3>1 DEF Refund
    <2>2. counter \in [Owners \X Windows -> Int]
      BY DEF TypeOK
    <2> QED
      BY <2>1, <2>2 DEF Finalize
  <1>5. slot' \in [Slots -> Calls \cup {NoOne}] /\ dropped' = dropped
    BY DEF Finalize, TypeOK
  <1> QED
    BY <1>3, <1>4, <1>5

LEMMA ProcessTypeStep ==
    ASSUME TypeOK, Placed, NEW p \in Procs, Process(p)
    PROVE  TypeOK'
  <1> DEFINE q == proc[p].work.req
  <1>0. /\ proc[p] \in Locals
        /\ q \in Requests
        /\ proc[p].doc \in Docs
        /\ life[q] \in Items
    <2>1. proc[p] \in Locals
      BY DEF TypeOK
    <2>2. proc[p].work \in Claims /\ proc[p].doc \in Docs
      BY <2>1 DEF Locals
    <2>3. q \in Requests
      BY <2>2 DEF Claims
    <2> QED
      BY <2>1, <2>2, <2>3 DEF TypeOK
  <1>1. CASE Plan(p)
    <2> DEFINE mine == {s \in SlotsOf(q, life[q].pair) : slot[s] = LeaseOf(p)}
               counted == IF p \in Calls THEN OwnersOf(q)
                          ELSE {o \in OwnersOf(q) :
                                  <<o, life[q].window>> \notin dropped}
               next == [proc[p] EXCEPT !.pc = "commit", !.mine = mine,
                                       !.counted = counted]
    <2>1. ASSUME mine \subseteq Slots
          PROVE  proc' \in [Procs -> Locals]
      <3>1. counted \subseteq Owners
        BY <1>0, RequestTypes
      <3>2. "commit" \in Labels
        BY DEF Labels
      <3>3. proc' = [proc EXCEPT ![p] = next]
        BY <1>1 DEF Plan
      <3> HIDE DEF mine, counted
      <3>4. next \in Locals
        BY <1>0, <2>1, <3>1, <3>2 DEF Locals
      <3> QED
        BY <3>3, <3>4, StepType
    <2>2. mine \subseteq Slots
      BY <1>0, RequestTypes DEF Placed
    <2> QED
      BY <1>1, <2>1, <2>2, LocalType DEF Plan
  <1>2. CASE Commit(p)
    <2>1. proc' \in [Procs -> Locals]
      BY <1>2, LeaveType DEF Commit, Labels
    <2>2. Fault \/ UNCHANGED faults
      BY <1>2 DEF Commit
    <2>3. CASE UNCHANGED store
      BY <1>2, <2>1, <2>2, <2>3, LocalType DEF Commit
    <2>4. CASE Finalize(p)
      BY <1>2, <2>1, <2>2, <2>4, FinalizeType, FaultType DEF Commit, TypeOK
    <2> QED
      BY <1>2, <2>3, <2>4 DEF Commit
  <1>3. CASE Check(p)
    <2>1. proc' \in [Procs -> Locals]
      BY <1>3, GotoType, FinishType DEF Check, Labels
    <2>2. Fault \/ UNCHANGED faults
      BY <1>3 DEF Check
    <2> QED
      BY <1>3, <2>1, <2>2, LocalType DEF Check
  <1>4. CASE Record(p)
    <2>1. proc' \in [Procs -> Locals]
      BY <1>4, GotoType, FinishType DEF Record, Labels
    <2>2. Fault \/ UNCHANGED faults
      BY <1>4 DEF Record
    <2>3. audited' \in [Requests -> SUBSET Docs]
      <3>1. CASE UNCHANGED audited
        BY <3>1 DEF TypeOK
      <3>2. CASE Append(p)
        BY <1>0, <3>2 DEF Append, TypeOK
      <3> QED
        BY <1>4, <3>1, <3>2 DEF Record
    <2>4. UNCHANGED <<store, athena, expired, window>>
      BY <1>4 DEF Record
    <2> QED
      BY <2>1, <2>2, <2>3, <2>4, FaultType DEF TypeOK, store
  <1>5. CASE Ack(p)
    <2>1. proc' \in [Procs -> Locals]
      BY <1>5, FinishType DEF Ack
    <2>2. Fault \/ UNCHANGED faults
      BY <1>5 DEF Ack
    <2>3. life' \in [Requests -> Items]
      <3> DEFINE item == [life[q] EXCEPT !.pending = FALSE, !.acked = p,
                              !.claim = NoOne, !.live = FALSE]
      <3>1. CASE UNCHANGED life
        BY <3>1 DEF TypeOK
      <3>2. CASE life' = [life EXCEPT ![q] = item]
        <4>1. item \in Items
          BY <1>0 DEF Items
        <4> QED
          BY <1>0, <3>2, <4>1, ItemType
      <3> QED
        BY <1>5, <3>1, <3>2 DEF Ack
    <2>4. UNCHANGED <<slot, counter, dropped, athena, audited, expired, window>>
      BY <1>5 DEF Ack
    <2> QED
      BY <2>1, <2>2, <2>3, <2>4, FaultType DEF TypeOK
  <1> QED
    BY <1>1, <1>2, <1>3, <1>4, <1>5 DEF Process

LEMMA EnvironmentTypeStep ==
    ASSUME TypeOK, Environment
    PROVE  TypeOK'
  <1>1. ASSUME NEW q \in Requests, AthenaEnds(q)
        PROVE  TypeOK'
    <2>1. PICK state \in {"SUCCEEDED", "FAILED", "CANCELLED"}, bytes \in Nat :
            athena' = [athena EXCEPT ![q] = [state |-> state, scanned |-> bytes]]
      BY <1>1, LimitAssumption DEF AthenaEnds
    <2> QED
      BY <1>1, <2>1 DEF AthenaEnds, TypeOK, store
  <1>2. ASSUME NEW q \in Requests, ClaimExpires(q)
        PROVE  TypeOK'
    <2>1. life[q] \in Items
      BY DEF TypeOK
    <2>2. [life[q] EXCEPT !.live = FALSE] \in Items
      BY <2>1 DEF Items
    <2>3. life' \in [Requests -> Items]
      BY <1>2, <2>2, ItemType DEF ClaimExpires
    <2>4. Fault \/ UNCHANGED faults
      BY <1>2 DEF ClaimExpires
    <2> QED
      BY <1>2, <2>3, <2>4, FaultType DEF ClaimExpires, TypeOK
  <1>3. ASSUME NEW c \in Calls, LeaseExpires(c)
        PROVE  TypeOK'
    BY <1>3 DEF LeaseExpires, TypeOK, store
  <1>4. ASSUME NEW r \in Reconcilers, CrashReconciler(r)
        PROVE  TypeOK'
    BY <1>4, ReconcilerIdleType, LocalType DEF CrashReconciler
  <1>5. CASE NextWindow
    <2>1. window' \in Windows
      BY <1>5, LimitAssumption DEF NextWindow, TypeOK, Windows
    <2> QED
      BY <1>5, <2>1 DEF NextWindow, TypeOK, store
  <1>6. ASSUME NEW o \in Owners, NEW w \in Windows, CounterExpires(o, w)
        PROVE  TypeOK'
    BY <1>6 DEF CounterExpires, TypeOK
  <1> QED
    BY <1>1, <1>2, <1>3, <1>4, <1>5, <1>6 DEF Environment

-----------------------------------------------------------------------------
(* The inductive invariant                                                 *)

Admitted(q) == life[q].status # "none"

Settled(q, doc) == life[q].status \in Terminal /\ life[q].doc = doc

\* No call will start q's execution any more, and none has.
Unstarted(q) ==
    /\ athena[q].state = "none"
    /\ \A c \in Calls : proc[c].pc = "starting" => RequestOf[c] # q

\* Settling q with doc leaves nothing uncharged, now and later.
Charged(q, doc) ==
    \/ doc = Cancelled(0)
    \/ doc.accounted = Reserved
    \/ Stopped(q) /\ Least(athena[q].scanned, Reserved) <= doc.accounted
    \/ Unstarted(q)

Tracked == {"starting", "marking", "waiting", "stop", "plan", "commit", "check",
            "record", "ack"}
Settling == {"plan", "commit", "check"}

\* What an item says about its own history.
ItemInv(q) ==
    /\ life[q].pair \in Pairs(q)
    /\ life[q].status = "none" => athena[q].state = "none"
    /\ life[q].status # "none" => /\ life[q].lease \in Calls
                                  /\ RequestOf[life[q].lease] = q
    /\ life[q].status \notin Terminal => life[q].doc = NoDoc /\ audited[q] = {}
    /\ audited[q] \subseteq {life[q].doc}
    /\ life[q].status \in Terminal =>
          /\ life[q].pending \/ life[q].doc \in audited[q]
          /\ Charged(q, life[q].doc)

\* What a process knows of the query it works on.
CallInv(c) ==
    /\ proc[c].work.req = RequestOf[c]
    /\ proc[c].pc \in Tracked => /\ Admitted(RequestOf[c])
                                 /\ life[RequestOf[c]].lease = c
    /\ proc[c].pc = "starting" => athena[RequestOf[c]].state = "none"

ReconcilerInv(r) ==
    /\ \A claim \in proc[r].held :
          /\ Admitted(claim.req)
          /\ claim.status \in Terminal => Settled(claim.req, claim.doc)
    /\ proc[r].pc \in Settling \cup {"observe"} =>
          Admitted(proc[r].work.req) /\ proc[r].work.status \in Open

WorkInv(p) ==
    LET q == proc[p].work.req
        doc == proc[p].doc IN
    /\ proc[p].pc \in Settling => Charged(q, doc)
    /\ proc[p].pc \in {"record", "ack"} => Settled(q, doc)
    /\ proc[p].pc = "ack" => doc \in audited[q]

ProcInv(p) ==
    /\ p \in Calls => CallInv(p)
    /\ p \in Reconcilers => ReconcilerInv(p)
    /\ WorkInv(p)

IInv ==
    /\ TypeOK
    /\ \A q \in Requests : ItemInv(q)
    /\ \A p \in Procs : ProcInv(p)

\* What a step never takes back.
Forward ==
    /\ \A q \in Requests : Admitted(q) =>
          life'[q].status # "none" /\ life'[q].lease = life[q].lease
    /\ \A q \in Requests : life[q].status \in Terminal =>
          life'[q].status \in Terminal /\ life'[q].doc = life[q].doc
    /\ \A q \in Requests : audited[q] \subseteq audited'[q]
    /\ \A q \in Requests, doc \in Docs :
          Admitted(q) /\ Charged(q, doc) => Charged(q, doc)'
    /\ \A c \in Calls : (proc[c].pc = "starting" /\ proc'[c].pc = "starting")
          => athena'[RequestOf[c]].state = "none"

LEMMA WorkTypes ==
    ASSUME TypeOK, NEW p \in Procs
    PROVE  /\ proc[p] \in Locals
           /\ proc[p].work.req \in Requests
           /\ proc[p].doc \in Docs
           /\ \A claim \in proc[p].held : claim.req \in Requests /\ claim.doc \in Docs
  <1>1. proc[p] \in Locals
    BY DEF TypeOK
  <1>2. /\ proc[p].work \in Claims
        /\ proc[p].doc \in Docs
        /\ proc[p].held \in SUBSET Claims
    BY <1>1 DEF Locals
  <1> QED
    BY <1>1, <1>2 DEF Claims

\* A process that does not move keeps what it knows.
LEMMA Bystander ==
    ASSUME TypeOK, Forward, NEW p \in Procs, ProcInv(p),
           proc'[p].pc = proc[p].pc, proc'[p].work = proc[p].work,
           proc'[p].doc = proc[p].doc, proc'[p].held = proc[p].held
    PROVE  ProcInv(p)'
  <1> DEFINE q == proc[p].work.req
  <1>0. /\ q \in Requests
        /\ proc[p].doc \in Docs
        /\ \A claim \in proc[p].held : claim.req \in Requests /\ claim.doc \in Docs
    BY WorkTypes
  <1>1. ASSUME p \in Calls PROVE CallInv(p)'
    <2>1. RequestOf[p] \in Requests /\ CallInv(p)
      BY <1>1, RequestTypes DEF ProcInv
    <2> QED
      BY <1>1, <2>1 DEF CallInv, Forward, Admitted
  <1>2. ASSUME p \in Reconcilers PROVE ReconcilerInv(p)'
    <2>1. ReconcilerInv(p)
      BY <1>2 DEF ProcInv
    <2> QED
      BY <1>0, <2>1 DEF ReconcilerInv, Forward, Admitted, Settled
  <1>3. WorkInv(p)'
    <2>1. WorkInv(p)
      BY DEF ProcInv
    <2>2. proc[p].pc \in Settling => Admitted(q)
      BY QueryAssumption DEF ProcInv, CallInv, ReconcilerInv, Settling, Tracked, Procs
    <2>3. proc[p].pc \in Settling => Charged(q, proc[p].doc)'
      BY <1>0, <2>1, <2>2 DEF WorkInv, Forward
    <2>4. /\ proc'[p].work.req = q
          /\ proc'[p].doc = proc[p].doc
          /\ proc'[p].pc = proc[p].pc
      OBVIOUS
    <2>5. Charged(q, proc[p].doc)' = Charged(proc[p].work.req, proc[p].doc)'
      OBVIOUS
    <2> QED
      BY <1>0, <2>1, <2>3, <2>4 DEF WorkInv, Forward, Settled
  <1> QED
    BY <1>1, <1>2, <1>3 DEF ProcInv

\* What a step that is no admission, settlement or acknowledgement does to the
\* items.
Kept == \A q \in Requests :
    /\ life'[q].lease = life[q].lease
    /\ life'[q].pair = life[q].pair
    /\ life'[q].window = life[q].window
    /\ life'[q].doc = life[q].doc
    /\ life'[q].pending = life[q].pending
    /\ \/ life'[q].status = life[q].status
       \/ life[q].status \in Open /\ life'[q].status \in Open

\* No call gets to the point of starting an execution.
NoStarter == \A c \in Calls : proc'[c].pc = "starting" => proc[c].pc = "starting"

LEMMA ChargedKept ==
    ASSUME UNCHANGED athena, NoStarter, NEW q \in Requests, NEW doc \in Docs,
           Charged(q, doc)
    PROVE  Charged(q, doc)'
  BY DEF Charged, Stopped, Unstarted, NoStarter

LEMMA KeptIsForward ==
    ASSUME IInv, Kept, NoStarter, UNCHANGED <<athena, audited>>
    PROVE  Forward /\ \A q \in Requests : ItemInv(q)'
  <1>1. Forward
    <2>1. \A q \in Requests : Admitted(q) =>
            life'[q].status # "none" /\ life'[q].lease = life[q].lease
      BY DEF Kept, Admitted, Open
    <2>2. \A q \in Requests : life[q].status \in Terminal =>
            life'[q].status \in Terminal /\ life'[q].doc = life[q].doc
      BY DEF Kept, Terminal, Open
    <2>3. \A c \in Calls : proc[c].pc = "starting" =>
            athena[RequestOf[c]].state = "none"
      BY DEF IInv, ProcInv, CallInv, Procs
    <2>4. \A q \in Requests, doc \in Docs : Charged(q, doc) => Charged(q, doc)'
      BY ChargedKept
    <2> QED
      BY <2>1, <2>2, <2>3, <2>4 DEF Forward
  <1>2. ASSUME NEW q \in Requests PROVE ItemInv(q)'
    <2>1. ItemInv(q) /\ life[q].doc \in Docs
      BY DEF IInv, TypeOK, Items
    <2>2. /\ life'[q].status = "none" <=> life[q].status = "none"
          /\ life'[q].status \in Terminal <=> life[q].status \in Terminal
      BY DEF Kept, Open, Terminal
    <2>3. /\ life'[q].lease = life[q].lease
          /\ life'[q].pair = life[q].pair
          /\ life'[q].doc = life[q].doc
          /\ life'[q].pending = life[q].pending
      BY DEF Kept
    <2>4. Charged(q, life[q].doc) => Charged(q, life[q].doc)'
      BY <2>3 DEF Charged, Stopped, Unstarted, NoStarter
    <2> QED
      BY <2>1, <2>2, <2>3, <2>4 DEF ItemInv
  <1> QED
    BY <1>1, <1>2

Others(p) == \A other \in Procs : other # p => proc'[other] = proc[other]

\* It suffices to look at the process that moves.
LEMMA Moved ==
    ASSUME IInv, TypeOK', Forward, \A q \in Requests : ItemInv(q)',
           NEW p \in Procs, Others(p), ProcInv(p)'
    PROVE  IInv'
  <1>1. TypeOK /\ \A other \in Procs : ProcInv(other)
    BY DEF IInv
  <1>2. ASSUME NEW other \in Procs PROVE ProcInv(other)'
    BY <1>1, <1>2, Bystander DEF Others
  <1> QED
    BY <1>2 DEF IInv

LEMMA FinishInv ==
    ASSUME IInv, Forward, NEW p \in Procs, Finish(p)
    PROVE  ProcInv(p)' /\ Others(p) /\ proc'[p].pc # "starting"
  <1>0. proc \in [Procs -> Locals] /\ ProcInv(p)
    BY DEF IInv, TypeOK
  <1>1. CASE p \in Calls
    <2>1. /\ proc'[p].pc = "ended"
          /\ proc'[p].work.req = RequestOf[p]
          /\ Others(p)
      BY <1>0, <1>1 DEF Finish, Idle, NoClaim, Others
    <2> QED
      BY <1>1, <2>1, QueryAssumption
         DEF ProcInv, CallInv, ReconcilerInv, WorkInv, Tracked, Settling
  <1>2. CASE p \in Reconcilers
    <2>1. p \notin Calls
      BY <1>2, QueryAssumption
    <2>2. /\ proc'[p].pc = "next"
          /\ proc'[p].held = proc[p].held
          /\ Others(p)
      BY <1>0, <2>1 DEF Finish, Idle, Others
    <2>3. \A claim \in proc[p].held :
            /\ claim.req \in Requests
            /\ Admitted(claim.req)
            /\ claim.status \in Terminal => Settled(claim.req, claim.doc)
      BY <1>0, <1>2, WorkTypes DEF IInv, ProcInv, ReconcilerInv
    <2>4. ReconcilerInv(p)'
      BY <2>2, <2>3 DEF ReconcilerInv, Forward, Admitted, Settled, Settling
    <2> QED
      BY <2>1, <2>2, <2>4 DEF ProcInv, WorkInv, Settling
  <1> QED
    BY <1>1, <1>2 DEF Procs

\* A call that goes on with its query still owns the query's lease.
LEMMA CallMove ==
    ASSUME IInv, Forward, NEW c \in Calls,
           proc'[c].work = proc[c].work,
           proc'[c].pc # "starting",
           proc'[c].pc \in Tracked => proc[c].pc \in Tracked,
           WorkInv(c)'
    PROVE  ProcInv(c)'
  <1>1. c \in Procs /\ RequestOf[c] \in Requests /\ c \notin Reconcilers
    BY RequestTypes, QueryAssumption DEF Procs
  <1>2. CallInv(c)
    BY <1>1 DEF IInv, ProcInv
  <1> QED
    BY <1>1, <1>2 DEF ProcInv, CallInv, Forward, Admitted

LEMMA ReconcilerMove ==
    ASSUME IInv, Forward, NEW r \in Reconcilers,
           proc'[r].held \subseteq proc[r].held,
           proc'[r].pc \in Settling \cup {"observe"} =>
              /\ proc'[r].work = proc[r].work
              /\ proc[r].pc \in Settling \cup {"observe"},
           WorkInv(r)'
    PROVE  ProcInv(r)'
  <1>1. r \in Procs /\ r \notin Calls
    BY QueryAssumption DEF Procs
  <1>2. ReconcilerInv(r) /\ TypeOK
    BY <1>1 DEF IInv, ProcInv
  <1>3. /\ proc[r].work.req \in Requests
        /\ \A claim \in proc[r].held : claim.req \in Requests /\ claim.doc \in Docs
    BY <1>1, <1>2, WorkTypes
  <1> QED
    BY <1>1, <1>2, <1>3 DEF ProcInv, ReconcilerInv, Forward, Admitted, Settled

\* Steps that leave the items, the executions and the audit trail alone.
Local == UNCHANGED <<life, athena, audited>>

LEMMA LocalIsForward ==
    ASSUME IInv, Local, NoStarter
    PROVE  Forward /\ \A q \in Requests : ItemInv(q)'
  BY KeptIsForward DEF Local, Kept

\* A process that finishes without having changed anything shared.
LEMMA FinishStep ==
    ASSUME IInv, TypeOK', Local, NEW p \in Procs, Finish(p)
    PROVE  IInv'
  <1>1. NoStarter
    <2>1. proc \in [Procs -> Locals]
      BY DEF IInv, TypeOK
    <2>2. proc'[p].pc # "starting" /\ \A other \in Procs : other # p =>
              proc'[other] = proc[other]
      BY <2>1 DEF Finish, Idle
    <2> QED
      BY <2>2 DEF NoStarter, Procs
  <1>2. Forward /\ \A q \in Requests : ItemInv(q)'
    BY <1>1, LocalIsForward
  <1> QED
    BY <1>2, FinishInv, Moved

LEMMA RequestStep ==
    ASSUME IInv, NEW c \in Calls, Request(c)
    PROVE  IInv'
  <1>1. TypeOK'
    BY AdmissionTypeStep DEF IInv
  <1>2. c \in Procs /\ Local /\ proc \in [Procs -> Locals]
    BY DEF Request, Procs, Local, store, IInv, TypeOK
  <1>3. CASE Finish(c)
    BY <1>1, <1>2, <1>3, FinishStep
  <1>4. CASE ~Finish(c)
    <2>1. /\ Others(c)
          /\ proc'[c].pc = "reserve"
          /\ proc'[c].work = proc[c].work
      <3>1. proc[c] \in Locals
        BY <1>2
      <3> QED
        BY <1>2, <1>4, <3>1 DEF Request, Others, Locals
    <2>2. NoStarter
      BY <2>1 DEF NoStarter, Others, Procs
    <2>3. Forward /\ \A q \in Requests : ItemInv(q)'
      BY <1>2, <2>2, LocalIsForward
    <2>4. ProcInv(c)'
      BY <2>1, <2>3, CallMove DEF WorkInv, Settling, Tracked
    <2> QED
      BY <1>1, <1>2, <2>1, <2>3, <2>4, Moved
  <1> QED
    BY <1>3, <1>4

\* The query just admitted was nobody's before.
LEMMA AdmitForward ==
    ASSUME IInv, NEW c \in Calls, NEW pair \in Pairs(RequestOf[c]),
           life[RequestOf[c]].status = "none", Admit(c, pair), Others(c),
           UNCHANGED <<athena, audited>>
    PROVE  Forward /\ \A q \in Requests : ItemInv(q)'
  <1> DEFINE k == RequestOf[c]
  <1>1. /\ k \in Requests
        /\ life \in [Requests -> Items]
        /\ athena[k].state = "none"
    BY RequestTypes DEF IInv, ItemInv, TypeOK
  <1>2. /\ life'[k].status = "accepted" /\ life'[k].lease = c
        /\ life'[k].pair = pair /\ life'[k].doc = NoDoc
        /\ \A q \in Requests : q # k => life'[q] = life[q]
    BY <1>1 DEF Admit, NoItem
  <1>3. ASSUME NEW q \in Requests, q # k, NEW doc \in Docs, Charged(q, doc)
        PROVE  Charged(q, doc)'
    BY <1>3 DEF Charged, Stopped, Unstarted, Others, Procs
  <1>4. Forward
    <2>1. \A q \in Requests : Admitted(q) => q # k /\ life'[q] = life[q]
      BY <1>2 DEF Admitted
    <2>2. \A q \in Requests : life[q].status \in Terminal => life'[q] = life[q]
      BY <1>2 DEF Terminal
    <2>3. \A other \in Calls : (proc[other].pc = "starting" /\
              proc'[other].pc = "starting") => athena[RequestOf[other]].state = "none"
      BY DEF IInv, ProcInv, CallInv, Procs
    <2> QED
      BY <1>3, <2>1, <2>2, <2>3 DEF Forward, Admitted
  <1>5. ASSUME NEW q \in Requests PROVE ItemInv(q)'
    <2>1. CASE q = k
      <3>1. ItemInv(k)
        BY <1>1 DEF IInv
      <3> QED
        BY <1>1, <1>2, <2>1, <3>1 DEF ItemInv, Terminal
    <2>2. CASE q # k
      <3>1. ItemInv(q) /\ life'[q] = life[q]
        BY <1>2, <2>2 DEF IInv
      <3>2. Charged(q, life[q].doc) => Charged(q, life[q].doc)'
        BY <2>2, <3>1 DEF Charged, Stopped, Unstarted, Others, Procs
      <3> QED
        BY <3>1, <3>2 DEF ItemInv
    <2> QED
      BY <2>1, <2>2
  <1> QED
    BY <1>4, <1>5

LEMMA ReserveStep ==
    ASSUME IInv, NEW c \in Calls, NEW pair \in Pairs(RequestOf[c]),
           Reserve(c, pair)
    PROVE  IInv'
  <1>1. TypeOK'
    BY AdmissionTypeStep DEF IInv
  <1>2. /\ c \in Procs /\ proc \in [Procs -> Locals]
        /\ UNCHANGED <<athena, audited>>
        /\ proc[c].pc = "reserve"
        /\ CallInv(c)
    BY DEF Reserve, Procs, IInv, TypeOK, ProcInv
  <1>3. CASE UNCHANGED store
    <2>1. Local
      BY <1>2, <1>3 DEF Local, store
    <2>2. CASE Finish(c)
      BY <1>1, <1>2, <2>1, <2>2, FinishStep
    <2>3. CASE proc' = [proc EXCEPT ![c].untried = @ \ {pair}]
      <3>1. /\ Others(c)
            /\ proc'[c].pc = "reserve"
            /\ proc'[c].work = proc[c].work
        BY <1>2, <2>3 DEF Others
      <3>2. NoStarter
        BY <3>1 DEF NoStarter, Others, Procs
      <3>3. Forward /\ \A q \in Requests : ItemInv(q)'
        BY <2>1, <3>2, LocalIsForward
      <3>4. ProcInv(c)'
        BY <3>1, <3>3, CallMove DEF WorkInv, Settling, Tracked
      <3> QED
        BY <1>1, <1>2, <3>1, <3>3, <3>4, Moved
    <2>4. ASSUME life[RequestOf[c]].status = "none", Admit(c, pair)
          PROVE  FALSE
      <3>1. /\ RequestOf[c] \in Requests
            /\ life \in [Requests -> Items]
        BY RequestTypes DEF IInv, TypeOK
      <3>2. life'[RequestOf[c]].status = "accepted"
        BY <2>4, <3>1 DEF Admit, NoItem
      <3> QED
        BY <1>3, <2>4, <3>2 DEF store
    <2> QED
      BY <1>3, <2>2, <2>3, <2>4 DEF Reserve
  <1>4. CASE ~UNCHANGED store
    <2>0. Admit(c, pair) /\ life[RequestOf[c]].status = "none"
      BY <1>4 DEF Reserve
    <2>1. CASE Finish(c)
      <3>1. Others(c)
        BY <1>2, <2>1 DEF Finish, Others
      <3>2. Forward /\ \A q \in Requests : ItemInv(q)'
        BY <1>2, <2>0, <3>1, AdmitForward
      <3> QED
        BY <1>1, <1>2, <2>1, <3>1, <3>2, FinishInv, Moved
    <2>2. CASE proc' = [proc EXCEPT ![c].pc = "starting", ![c].untried = {}]
      <3>1. /\ Others(c)
            /\ proc'[c].pc = "starting"
            /\ proc'[c].work = proc[c].work
        BY <1>2, <2>2 DEF Others
      <3>2. Forward /\ \A q \in Requests : ItemInv(q)'
        BY <1>2, <2>0, <3>1, AdmitForward
      <3>3. /\ life'[RequestOf[c]].status = "accepted"
            /\ life'[RequestOf[c]].lease = c
            /\ athena[RequestOf[c]].state = "none"
        BY <2>0, RequestTypes DEF Admit, NoItem, IInv, TypeOK, ItemInv
      <3>4. ProcInv(c)'
        BY <1>2, <3>1, <3>3, QueryAssumption
           DEF ProcInv, CallInv, WorkInv, Settling, Admitted
      <3> QED
        BY <1>1, <1>2, <3>1, <3>2, <3>4, Moved
    <2> QED
      BY <1>4, <2>1, <2>2 DEF Reserve
  <1> QED
    BY <1>3, <1>4 DEF Reserve

\* Where a call stands after one of its own steps.
LEMMA CallStep ==
    ASSUME IInv, TypeOK', NEW c \in Calls, Others(c),
           Forward, \A q \in Requests : ItemInv(q)',
           proc'[c].work = proc[c].work,
           proc'[c].pc # "starting",
           proc'[c].pc \in Tracked => proc[c].pc \in Tracked,
           WorkInv(c)'
    PROVE  IInv'
  BY CallMove, Moved DEF Procs

LEMMA SettleMove ==
    ASSUME IInv, NEW p \in Procs, NEW doc, Settle(p, doc)
    PROVE  /\ Others(p)
           /\ proc'[p].pc = "plan"
           /\ proc'[p].doc = doc
           /\ proc'[p].work = proc[p].work
           /\ proc'[p].held = proc[p].held
           /\ NoStarter
  <1>1. proc \in [Procs -> Locals] /\ proc[p] \in Locals
    BY DEF IInv, TypeOK
  <1>2. /\ Others(p)
        /\ proc'[p].pc = "plan"
        /\ proc'[p].doc = doc
        /\ proc'[p].work = proc[p].work
        /\ proc'[p].held = proc[p].held
    BY <1>1 DEF Settle, Others, Locals
  <1> QED
    BY <1>2 DEF NoStarter, Others, Procs

LEMMA GotoMove ==
    ASSUME IInv, NEW p \in Procs, NEW label, label # "starting", Goto(p, label)
    PROVE  /\ Others(p)
           /\ proc'[p].pc = label
           /\ proc'[p].doc = proc[p].doc
           /\ proc'[p].work = proc[p].work
           /\ proc'[p].held = proc[p].held
           /\ NoStarter
  <1>1. proc \in [Procs -> Locals] /\ proc[p] \in Locals
    BY DEF IInv, TypeOK
  <1>2. /\ Others(p)
        /\ proc'[p].pc = label
        /\ proc'[p].doc = proc[p].doc
        /\ proc'[p].work = proc[p].work
        /\ proc'[p].held = proc[p].held
    BY <1>1 DEF Goto, Others, Locals
  <1> QED
    BY <1>2 DEF NoStarter, Others, Procs

\* Nobody else is about to start the execution of a query.
LEMMA OnlyStarter ==
    ASSUME IInv, NEW c \in Calls, proc[c].pc = "starting",
           NEW other \in Calls, proc[other].pc = "starting",
           RequestOf[other] = RequestOf[c]
    PROVE  other = c
  <1>1. CallInv(c) /\ CallInv(other)
    BY DEF IInv, ProcInv, Procs
  <1> QED
    BY <1>1 DEF CallInv, Tracked

LEMMA StartForward ==
    ASSUME IInv, NEW c \in Calls, proc[c].pc = "starting",
           StartAthena(RequestOf[c]) \/ UNCHANGED athena,
           UNCHANGED <<life, audited>>, Others(c), proc'[c].pc # "starting"
    PROVE  Forward /\ \A q \in Requests : ItemInv(q)'
  <1> DEFINE k == RequestOf[c]
  <1>1. /\ k \in Requests
        /\ athena[k].state = "none"
        /\ Admitted(k)
    BY RequestTypes DEF IInv, ProcInv, CallInv, Procs, Tracked
  <1>2. \A q \in Requests : q # k => athena'[q] = athena[q]
    BY <1>1 DEF StartAthena, IInv, TypeOK
  <1>3. \A other \in Calls :
            proc'[other].pc = "starting" =>
                proc[other].pc = "starting" /\ RequestOf[other] # k
    BY OnlyStarter DEF Others, Procs
  <1>4. ASSUME NEW q \in Requests, NEW doc \in Docs, Charged(q, doc)
        PROVE  Charged(q, doc)'
    <2>1. CASE q = k
      BY <1>1, <1>4, <2>1 DEF Charged, Stopped, Unstarted
    <2>2. CASE q # k
      BY <1>2, <1>3, <1>4, <2>2 DEF Charged, Stopped, Unstarted
    <2> QED
      BY <2>1, <2>2
  <1>5. Forward
    <2>1. \A other \in Calls :
            (proc[other].pc = "starting" /\ proc'[other].pc = "starting")
                => athena'[RequestOf[other]].state = "none"
      <3>1. \A other \in Calls : proc[other].pc = "starting" =>
                athena[RequestOf[other]].state = "none"
        BY DEF IInv, ProcInv, CallInv, Procs
      <3> QED
        BY <1>2, <1>3, <3>1, RequestTypes
    <2> QED
      BY <1>4, <2>1 DEF Forward, Admitted
  <1>6. ASSUME NEW q \in Requests PROVE ItemInv(q)'
    <2>1. ItemInv(q)
      BY DEF IInv
    <2>2. Charged(q, life[q].doc) => Charged(q, life[q].doc)'
      <3>1. CASE q = k
        BY <1>1, <3>1 DEF Charged, Stopped, Unstarted
      <3>2. CASE q # k
        BY <1>2, <1>3, <3>2 DEF Charged, Stopped, Unstarted
      <3> QED
        BY <3>1, <3>2
    <2>3. life[q].status = "none" => athena'[q].state = "none"
      BY <1>1, <1>2, <2>1 DEF ItemInv, Admitted
    <2> QED
      BY <2>1, <2>2, <2>3 DEF ItemInv
  <1> QED
    BY <1>5, <1>6

LEMMA StartStep ==
    ASSUME IInv, NEW c \in Calls, Start(c)
    PROVE  IInv'
  <1> DEFINE k == RequestOf[c]
  <1>1. TypeOK'
    BY ExecutionTypeStep DEF IInv
  <1>2. /\ c \in Procs /\ proc \in [Procs -> Locals] /\ proc[c] \in Locals
        /\ proc[c].pc = "starting"
        /\ proc[c].pc \in Tracked
        /\ UNCHANGED <<life, audited>>
        /\ StartAthena(k) \/ UNCHANGED athena
    BY DEF Start, Procs, IInv, TypeOK, store, Tracked
  <1>3. proc[c].work.req = k /\ athena[k].state = "none" /\ k \in Requests
    BY <1>2, RequestTypes DEF IInv, ProcInv, CallInv, Procs
  <1>4. ASSUME NEW doc, Settle(c, doc), UNCHANGED athena \/ doc.accounted = Reserved
                                        \/ doc = Cancelled(0)
        PROVE  IInv'
    <2>1. /\ Others(c) /\ proc'[c].pc = "plan" /\ proc'[c].doc = doc
          /\ proc'[c].work = proc[c].work
      BY <1>2, <1>4, SettleMove
    <2>2. Forward /\ \A q \in Requests : ItemInv(q)'
      BY <1>2, <2>1, StartForward
    <2>3. \A other \in Calls : proc'[other].pc = "starting" => RequestOf[other] # k
      BY <1>2, <2>1, OnlyStarter DEF Others, Procs
    <2>4. UNCHANGED athena => Unstarted(k)'
      BY <1>3, <2>3 DEF Unstarted
    <2>5. WorkInv(c)'
      BY <1>3, <1>4, <2>1, <2>4 DEF WorkInv, Charged, Settling
    <2> QED
      BY <1>1, <1>2, <2>1, <2>2, <2>5, CallStep
  <1>5. ASSUME NEW cause, proc' = [proc EXCEPT ![c].pc = "marking", ![c].cause = cause]
        PROVE  IInv'
    <2>1. Others(c) /\ proc'[c].pc = "marking" /\ proc'[c].work = proc[c].work
      BY <1>2, <1>5 DEF Others, Locals
    <2>2. Forward /\ \A q \in Requests : ItemInv(q)'
      BY <1>2, <2>1, StartForward
    <2>3. WorkInv(c)'
      BY <2>1 DEF WorkInv, Settling
    <2> QED
      BY <1>1, <1>2, <2>1, <2>2, <2>3, CallStep
  <1>6. Failed(Reserved).accounted = Reserved
    BY DEF Failed
  <1> QED
    BY <1>4, <1>5, <1>6 DEF Start

LEMMA MarkKept ==
    ASSUME IInv, NEW c \in Calls,
           (Markable(c) /\ MarkStarted(c)) \/ UNCHANGED life
    PROVE  Kept
  <1>1. life \in [Requests -> Items] /\ RequestOf[c] \in Requests
    BY RequestTypes DEF IInv, TypeOK
  <1>2. CASE UNCHANGED life
    BY <1>2 DEF Kept
  <1>3. CASE Markable(c) /\ MarkStarted(c)
    BY <1>1, <1>3 DEF Kept, Markable, MarkStarted, Open, Items
  <1> QED
    BY <1>2, <1>3

LEMMA MarkStep ==
    ASSUME IInv, NEW c \in Calls,
           Mark(c) \/ \E cause \in {"cancel", "athena"} : AbandonMark(c, cause)
    PROVE  IInv'
  <1>1. TypeOK'
    BY ExecutionTypeStep DEF IInv
  <1>2. /\ c \in Procs /\ proc \in [Procs -> Locals] /\ proc[c] \in Locals
        /\ UNCHANGED <<athena, audited>>
        /\ proc[c].pc \in Tracked
    BY DEF Mark, AbandonMark, Procs, IInv, TypeOK, Tracked
  <1>3. Kept
    <2>1. (Markable(c) /\ MarkStarted(c)) \/ UNCHANGED life
      BY DEF Mark, AbandonMark, store
    <2> QED
      BY <2>1, MarkKept
  <1>4. /\ Others(c)
        /\ proc'[c].pc \in {"waiting", "stop"}
        /\ proc'[c].work = proc[c].work
    <2>1. CASE Mark(c)
      <3>1. PICK label \in {"waiting", "stop"} : Goto(c, label)
        BY <2>1 DEF Mark
      <3> QED
        BY <1>2, <3>1, GotoMove
    <2>2. ASSUME NEW cause \in {"cancel", "athena"}, AbandonMark(c, cause)
          PROVE  /\ Others(c)
                 /\ proc'[c].pc = "stop"
                 /\ proc'[c].work = proc[c].work
      BY <1>2, <2>2 DEF AbandonMark, Others, Locals
    <2> QED
      BY <2>1, <2>2
  <1>5. NoStarter
    BY <1>4 DEF NoStarter, Others, Procs
  <1>6. Forward /\ \A q \in Requests : ItemInv(q)'
    BY <1>2, <1>3, <1>5, KeptIsForward
  <1>7. WorkInv(c)'
    BY <1>4 DEF WorkInv, Settling
  <1> QED
    BY <1>1, <1>2, <1>4, <1>6, <1>7, CallStep

LEMMA LateMarkStep ==
    ASSUME IInv, NEW c \in Calls, LateMark(c)
    PROVE  IInv'
  <1>1. TypeOK'
    BY ExecutionTypeStep DEF IInv
  <1>2. /\ c \in Procs /\ proc \in [Procs -> Locals] /\ proc[c] \in Locals
        /\ UNCHANGED <<athena, audited>>
        /\ TypeOK /\ ProcInv(c)
    BY DEF LateMark, Procs, IInv, TypeOK
  <1>3. Kept
    BY MarkKept DEF LateMark
  <1>4. /\ Others(c)
        /\ proc'[c].pc = proc[c].pc /\ proc'[c].work = proc[c].work
        /\ proc'[c].doc = proc[c].doc /\ proc'[c].held = proc[c].held
    BY <1>2 DEF LateMark, Others, Locals
  <1>5. NoStarter
    BY <1>4 DEF NoStarter, Others, Procs
  <1>6. Forward /\ \A q \in Requests : ItemInv(q)'
    BY <1>2, <1>3, <1>5, KeptIsForward
  <1>7. ProcInv(c)'
    BY <1>2, <1>4, <1>6, Bystander
  <1> QED
    BY <1>1, <1>2, <1>4, <1>6, <1>7, Moved

\* What an execution that is over is charged with leaves nothing out.
LEMMA ChargesCharge ==
    ASSUME IInv, NEW q \in Requests, Stopped(q), NEW doc,
           doc.accounted \in Charges(q)
              \/ (athena[q].scanned <= Reserved /\ doc.accounted = athena[q].scanned)
    PROVE  Charged(q, doc)
  <1>1. athena[q].scanned \in Nat /\ Reserved \in Nat
    BY LimitAssumption DEF IInv, TypeOK
  <1> QED
    BY <1>1 DEF Charged, Charges, Least

\* A process settles an execution that it saw to be over.
LEMMA SettleStep ==
    ASSUME IInv, TypeOK', Local, NEW p \in Procs, NEW doc, Settle(p, doc),
           Charged(proc[p].work.req, doc),
           p \in Calls => proc[p].pc \in Tracked,
           p \in Reconcilers => proc[p].pc = "observe"
    PROVE  IInv'
  <1> DEFINE q == proc[p].work.req
  <1>1. /\ Others(p) /\ proc'[p].pc = "plan" /\ proc'[p].doc = doc
        /\ proc'[p].work = proc[p].work /\ proc'[p].held = proc[p].held
        /\ NoStarter
    BY SettleMove
  <1>2. Forward /\ \A k \in Requests : ItemInv(k)'
    BY <1>1, LocalIsForward
  <1>3. WorkInv(p)'
    <2>1. Charged(q, doc) => Charged(q, proc[p].doc)'
      BY <1>1 DEF Charged, Stopped, Unstarted, NoStarter, Local
    <2> QED
      BY <1>1, <2>1 DEF WorkInv, Settling, Charged, Stopped, Unstarted
  <1>4. ProcInv(p)'
    BY <1>1, <1>2, <1>3, CallMove, ReconcilerMove DEF Procs
  <1> QED
    BY <1>1, <1>2, <1>4, Moved

LEMMA WaitStep ==
    ASSUME IInv, NEW c \in Calls, Wait(c) \/ Stop(c)
    PROVE  IInv'
  <1> DEFINE q == RequestOf[c]
  <1>1. TypeOK'
    BY ExecutionTypeStep DEF IInv
  <1>2. /\ c \in Procs /\ proc \in [Procs -> Locals] /\ proc[c] \in Locals
        /\ Local
        /\ proc[c].pc \in Tracked
        /\ q \in Requests
        /\ proc[c].work.req = q
        /\ c \notin Reconcilers
    BY RequestTypes, QueryAssumption
       DEF Wait, Stop, Procs, IInv, TypeOK, Tracked, Local, store, ProcInv, CallInv
  <1>3. CASE Finish(c)
    BY <1>1, <1>2, <1>3, FinishStep
  <1>4. ASSUME NEW doc, Settle(c, doc), Stopped(q),
               doc.accounted \in Charges(q)
                  \/ (athena[q].scanned <= Reserved
                        /\ doc.accounted = athena[q].scanned)
        PROVE  IInv'
    <2>1. Charged(q, doc)
      BY <1>2, <1>4, ChargesCharge
    <2> QED
      BY <1>1, <1>2, <1>4, <2>1, SettleStep
  <1>5. ASSUME NEW cause, proc' = [proc EXCEPT ![c].pc = "stop", ![c].cause = cause]
        PROVE  IInv'
    <2>1. Others(c) /\ proc'[c].pc = "stop" /\ proc'[c].work = proc[c].work
      BY <1>2, <1>5 DEF Others, Locals
    <2>2. NoStarter
      BY <2>1 DEF NoStarter, Others, Procs
    <2>3. Forward /\ \A k \in Requests : ItemInv(k)'
      BY <1>2, <2>2, LocalIsForward
    <2>4. WorkInv(c)'
      BY <2>1 DEF WorkInv, Settling
    <2> QED
      BY <1>1, <1>2, <2>1, <2>3, <2>4, CallStep
  <1>6. CASE Wait(c)
    <2>1. CASE /\ athena[q].state = "SUCCEEDED"
               /\ athena[q].scanned <= Reserved
               /\ Settle(c, [status |-> "succeeded",
                             accounted |-> athena[q].scanned])
      BY <1>4, <2>1 DEF Stopped
    <2>2. CASE /\ Stopped(q)
               /\ \E bytes \in Charges(q) :
                     Settle(c, IF athena[q].state = "CANCELLED"
                               THEN Cancelled(bytes) ELSE Failed(bytes))
      <3>1. PICK bytes \in Charges(q) :
                     Settle(c, IF athena[q].state = "CANCELLED"
                               THEN Cancelled(bytes) ELSE Failed(bytes))
        BY <2>2
      <3> DEFINE doc == IF athena[q].state = "CANCELLED"
                        THEN Cancelled(bytes) ELSE Failed(bytes)
      <3>2. doc.accounted = bytes
        BY DEF Cancelled, Failed
      <3> HIDE DEF doc
      <3> QED
        BY <1>4, <2>2, <3>1, <3>2 DEF doc
    <2> QED
      BY <1>5, <1>6, <2>1, <2>2 DEF Wait
  <1>7. CASE Stop(c)
    <2>1. ASSUME NEW status \in Outcomes(c), NEW bytes \in Charges(q), Stopped(q),
                 Settle(c, [status |-> status, accounted |-> bytes])
          PROVE  IInv'
      BY <1>4, <2>1
    <2> QED
      BY <1>3, <1>7, <2>1 DEF Stop
  <1> QED
    BY <1>6, <1>7

LEMMA ClaimStep ==
    ASSUME IInv, NEW r \in Reconcilers, NEW q \in Requests, Claim(r, q)
    PROVE  IInv'
  <1>1. TypeOK'
    BY ReconcileTypeStep DEF IInv
  <1>2. /\ r \in Procs /\ proc \in [Procs -> Locals] /\ proc[r] \in Locals
        /\ r \notin Calls
        /\ UNCHANGED <<athena, audited>>
        /\ life \in [Requests -> Items] /\ life[q] \in Items
    BY QueryAssumption DEF Claim, Procs, IInv, TypeOK
  <1>3. Kept
    <2>1. CASE UNCHANGED life
      BY <2>1 DEF Kept
    <2>2. CASE TakeClaim(r, q)
      BY <1>2, <2>2 DEF Kept, TakeClaim, Items
    <2> QED
      BY <2>1, <2>2 DEF Claim
  <1> DEFINE claim == [req |-> q, status |-> life[q].status, doc |-> life[q].doc]
  <1>4. Others(r) /\ proc'[r].pc \in {"idle", "scanning"}
        /\ proc'[r].held \subseteq proc[r].held \cup {claim}
    <2>1. CASE proc' = [proc EXCEPT ![r] = Idle(AnyRequest)]
      BY <1>2, <2>1 DEF Others, Idle
    <2>2. CASE proc' = [proc EXCEPT ![r].pc = "scanning", ![r].held = @ \cup {claim}]
      BY <1>2, <2>2 DEF Others, Locals
    <2> QED
      BY <2>1, <2>2 DEF Claim
  <1>5. NoStarter
    BY <1>2, <1>4 DEF NoStarter, Others, Procs
  <1>6. Forward /\ \A k \in Requests : ItemInv(k)'
    BY <1>2, <1>3, <1>5, KeptIsForward
  <1>7. ReconcilerInv(r)'
    <2>1. \A old \in proc[r].held :
            /\ old.req \in Requests
            /\ Admitted(old.req)
            /\ old.status \in Terminal => Settled(old.req, old.doc)
      BY <1>2, WorkTypes DEF IInv, ProcInv, ReconcilerInv
    <2>2. Admitted(q)
      BY DEF Claim, Claimable, Admitted, Open, Terminal
    <2>3. claim.status \in Terminal => Settled(q, claim.doc)
      BY DEF Settled
    <2>4. \A new \in proc'[r].held :
            /\ new.req \in Requests
            /\ Admitted(new.req)
            /\ new.status \in Terminal => Settled(new.req, new.doc)
      BY <1>4, <2>1, <2>2, <2>3
    <2> QED
      BY <1>4, <1>6, <2>4 DEF ReconcilerInv, Forward, Admitted, Settled, Settling
  <1>8. ProcInv(r)'
    BY <1>2, <1>4, <1>7 DEF ProcInv, WorkInv, Settling
  <1> QED
    BY <1>1, <1>2, <1>4, <1>6, <1>8, Moved

\* A reconciler that is reset knows nothing.
LEMMA ResetStep ==
    ASSUME IInv, TypeOK', Local, NEW r \in Reconcilers,
           proc' = [proc EXCEPT ![r] = Idle(AnyRequest)]
    PROVE  IInv'
  <1>1. r \in Procs /\ r \notin Calls /\ proc \in [Procs -> Locals]
    BY QueryAssumption DEF IInv, TypeOK, Procs
  <1>2. Others(r) /\ proc'[r].pc = "idle" /\ proc'[r].held = {}
    BY <1>1 DEF Others, Idle
  <1>3. NoStarter
    BY <1>1, <1>2 DEF NoStarter, Others, Procs
  <1>4. Forward /\ \A k \in Requests : ItemInv(k)'
    BY <1>3, LocalIsForward
  <1>5. ProcInv(r)'
    BY <1>1, <1>2 DEF ProcInv, ReconcilerInv, WorkInv, Settling
  <1> QED
    BY <1>1, <1>2, <1>4, <1>5, Moved

\* A reconciler that only changes its label.
LEMMA GotoStep ==
    ASSUME IInv, TypeOK', Local, NEW r \in Reconcilers,
           NEW label \in {"next", "defer"}, Goto(r, label)
    PROVE  IInv'
  <1>1. r \in Procs
    BY DEF Procs
  <1>2. /\ Others(r) /\ proc'[r].pc = label
        /\ proc'[r].held = proc[r].held /\ NoStarter
    BY <1>1, GotoMove
  <1>3. Forward /\ \A k \in Requests : ItemInv(k)'
    BY <1>2, LocalIsForward
  <1>4. WorkInv(r)'
    BY <1>2 DEF WorkInv, Settling
  <1>5. ProcInv(r)'
    BY <1>2, <1>3, <1>4, ReconcilerMove DEF Settling
  <1> QED
    BY <1>1, <1>2, <1>3, <1>5, Moved

LEMMA NextClaimStep ==
    ASSUME IInv, NEW r \in Reconcilers, NextClaim(r)
    PROVE  IInv'
  <1>1. TypeOK'
    BY ReconcileTypeStep DEF IInv
  <1>2. /\ r \in Procs /\ proc \in [Procs -> Locals] /\ proc[r] \in Locals
        /\ r \notin Calls
        /\ Local
    BY QueryAssumption DEF NextClaim, Procs, IInv, TypeOK, Local, store
  <1>3. CASE proc' = [proc EXCEPT ![r] = Idle(AnyRequest)]
    BY <1>1, <1>2, <1>3, ResetStep
  <1>4. CASE proc' # [proc EXCEPT ![r] = Idle(AnyRequest)]
    <2>1. PICK claim \in proc[r].held : proc' = [proc EXCEPT
                ![r].held = @ \ {claim},
                ![r].work = claim,
                ![r].doc = IF claim.status = "accepted"
                           THEN Failed(Reserved) ELSE claim.doc,
                ![r].pc = CASE claim.status = "accepted" -> "plan"
                            [] claim.status = "running" -> "observe"
                            [] OTHER -> "record"]
      BY <1>4 DEF NextClaim
    <2> DEFINE doc == IF claim.status = "accepted"
                      THEN Failed(Reserved) ELSE claim.doc
               label == CASE claim.status = "accepted" -> "plan"
                          [] claim.status = "running" -> "observe"
                          [] OTHER -> "record"
    <2>2. /\ claim \in Claims
          /\ claim.req \in Requests
          /\ claim.status \in Open \cup Terminal
      BY <1>2 DEF Locals, Claims
    <2>3. /\ Admitted(claim.req)
          /\ claim.status \in Terminal => Settled(claim.req, claim.doc)
      BY <1>2 DEF IInv, ProcInv, ReconcilerInv
    <2> HIDE DEF doc, label
    <2>4. /\ Others(r) /\ proc'[r].pc = label
          /\ proc'[r].doc = doc
          /\ proc'[r].work = claim
          /\ proc'[r].held = proc[r].held \ {claim}
      BY <1>2, <2>1 DEF Others, Locals, doc, label
    <2>5. /\ label \in {"plan", "observe", "record"}
          /\ label = "record" => claim.status \in Terminal /\ doc = claim.doc
          /\ label = "plan" => doc.accounted = Reserved
          /\ label \in {"plan", "observe"} => claim.status \in Open
      BY <2>2 DEF label, doc, Open, Terminal, Failed
    <2>6. NoStarter
      BY <1>2, <2>4, <2>5 DEF NoStarter, Others, Procs
    <2>7. Forward /\ \A q \in Requests : ItemInv(q)'
      BY <1>2, <2>6, LocalIsForward
    <2>8. ReconcilerInv(r)'
      <3>1. \A old \in proc[r].held :
            /\ old.req \in Requests
            /\ Admitted(old.req)
            /\ old.status \in Terminal => Settled(old.req, old.doc)
        BY <1>2, WorkTypes DEF IInv, ProcInv, ReconcilerInv
      <3>2. \A old \in proc'[r].held : old \in proc[r].held
        BY <2>4
      <3> QED
        BY <2>2, <2>3, <2>4, <2>5, <2>7, <3>1, <3>2
           DEF ReconcilerInv, Forward, Admitted, Settled, Settling
    <2>9. WorkInv(r)'
      BY <2>2, <2>3, <2>4, <2>5, <2>7
         DEF WorkInv, Settling, Charged, Settled, Forward
    <2> QED
      BY <1>1, <1>2, <2>4, <2>7, <2>8, <2>9, Moved DEF ProcInv
  <1> QED
    BY <1>3, <1>4

LEMMA ObserveStep ==
    ASSUME IInv, NEW r \in Reconcilers, Observe(r)
    PROVE  IInv'
  <1>1. TypeOK'
    BY ReconcileTypeStep DEF IInv
  <1>2. /\ r \in Procs /\ r \notin Calls
        /\ Local
        /\ proc[r].pc = "observe"
        /\ proc[r].work.req \in Requests
    BY QueryAssumption, WorkTypes DEF Observe, Procs, IInv, Local, store
  <1>3. CASE Goto(r, "defer")
    BY <1>1, <1>2, <1>3, GotoStep
  <1>4. CASE /\ Stopped(proc[r].work.req)
             /\ \E bytes \in Charges(proc[r].work.req) :
                   Settle(r, [status |-> StatusOf(athena[proc[r].work.req].state),
                              accounted |-> bytes])
    <2>1. PICK bytes \in Charges(proc[r].work.req) :
                   Settle(r, [status |-> StatusOf(athena[proc[r].work.req].state),
                              accounted |-> bytes])
      BY <1>4
    <2> DEFINE doc == [status |-> StatusOf(athena[proc[r].work.req].state),
                       accounted |-> bytes]
    <2>2. doc.accounted = bytes
      OBVIOUS
    <2> HIDE DEF doc
    <2>3. Charged(proc[r].work.req, doc)
      BY <1>2, <1>4, <2>2, ChargesCharge
    <2> QED
      BY <1>1, <1>2, <2>1, <2>3, SettleStep DEF doc
  <1> QED
    BY <1>3, <1>4 DEF Observe

LEMMA DeferStep ==
    ASSUME IInv, NEW r \in Reconcilers, Defer(r)
    PROVE  IInv'
  <1> DEFINE q == proc[r].work.req
  <1>1. TypeOK'
    BY ReconcileTypeStep DEF IInv
  <1>2. /\ r \in Procs /\ Finish(r)
        /\ UNCHANGED <<athena, audited>>
        /\ q \in Requests
        /\ life \in [Requests -> Items] /\ life[q] \in Items
    BY WorkTypes DEF Defer, Procs, IInv, TypeOK
  <1>3. Kept
    <2>1. CASE UNCHANGED life
      BY <2>1 DEF Kept
    <2>2. CASE life' = [life EXCEPT ![q].claim = NoOne, ![q].live = FALSE]
      BY <1>2, <2>2 DEF Kept, Items
    <2> QED
      BY <2>1, <2>2 DEF Defer
  <1>4. NoStarter
    <2>1. proc \in [Procs -> Locals]
      BY DEF IInv, TypeOK
    <2>2. proc'[r].pc # "starting" /\ Others(r)
      BY <1>2, <2>1 DEF Finish, Idle, Others
    <2> QED
      BY <2>2 DEF NoStarter, Procs, Others
  <1>5. Forward /\ \A k \in Requests : ItemInv(k)'
    BY <1>2, <1>3, <1>4, KeptIsForward
  <1> QED
    BY <1>1, <1>2, <1>5, FinishInv, Moved

LEMMA EndPageStep ==
    ASSUME IInv, NEW r \in Reconcilers, EndPage(r)
    PROVE  IInv'
  <1>1. TypeOK'
    BY ReconcileTypeStep DEF IInv
  <1>2. Local
    BY DEF EndPage, Local, store
  <1> QED
    BY <1>1, <1>2, GotoStep DEF EndPage

LEMMA ItemsPlaced ==
    ASSUME IInv
    PROVE  Placed
  BY DEF IInv, ItemInv, Placed

LEMMA LeaveMove ==
    ASSUME IInv, NEW p \in Procs, NEW label, label # "starting", Leave(p, label)
    PROVE  /\ Others(p)
           /\ proc'[p].pc = label
           /\ proc'[p].doc = proc[p].doc
           /\ proc'[p].work = proc[p].work
           /\ proc'[p].held = proc[p].held
           /\ NoStarter
  <1>1. proc \in [Procs -> Locals] /\ proc[p] \in Locals
    BY DEF IInv, TypeOK
  <1>2. /\ Others(p)
        /\ proc'[p].pc = label
        /\ proc'[p].doc = proc[p].doc
        /\ proc'[p].work = proc[p].work
        /\ proc'[p].held = proc[p].held
    BY <1>1 DEF Leave, Others, Locals
  <1> QED
    BY <1>2 DEF NoStarter, Others, Procs

\* A process goes on settling its query, or to its audit.
LEMMA SettlingMove ==
    ASSUME IInv, TypeOK', Forward, \A k \in Requests : ItemInv(k)',
           NEW p \in Procs, proc[p].pc \in Settling, Others(p), NoStarter,
           proc'[p].doc = proc[p].doc, proc'[p].work = proc[p].work,
           proc'[p].held = proc[p].held,
           \/ proc'[p].pc \in Settling /\ UNCHANGED athena
           \/ /\ proc'[p].pc = "record"
              /\ Settled(proc[p].work.req, proc[p].doc)'
    PROVE  IInv'
  <1> DEFINE q == proc[p].work.req
  <1>1. q \in Requests /\ proc[p].doc \in Docs /\ WorkInv(p)
    BY WorkTypes DEF IInv, ProcInv
  <1>2. WorkInv(p)'
    <2>1. CASE proc'[p].pc \in Settling /\ UNCHANGED athena
      <3>1. Charged(q, proc[p].doc)
        BY <1>1 DEF WorkInv
      <3>2. Charged(q, proc[p].doc)'
        BY <2>1, <3>1 DEF Charged, Stopped, Unstarted, NoStarter
      <3> QED
        BY <2>1, <3>2 DEF WorkInv, Settling, Charged, Stopped, Unstarted
    <2>2. CASE proc'[p].pc = "record" /\ Settled(proc[p].work.req, proc[p].doc)'
      BY <2>2 DEF WorkInv, Settling, Settled
    <2> QED
      BY <2>1, <2>2
  <1>3. ProcInv(p)'
    <2>1. ASSUME p \in Calls PROVE ProcInv(p)'
      BY <1>2, <2>1, CallMove DEF Settling, Tracked
    <2>2. ASSUME p \in Reconcilers PROVE ProcInv(p)'
      BY <1>2, <2>2, ReconcilerMove DEF Settling
    <2> QED
      BY <2>1, <2>2 DEF Procs
  <1> QED
    BY <1>3, Moved

\* What the settling transaction finds and leaves.
LEMMA FinalizeForward ==
    ASSUME IInv, NEW p \in Procs, proc[p].pc = "commit", Permitted(p),
           Finalize(p), NoStarter, UNCHANGED <<athena, audited>>,
           proc'[p].doc = proc[p].doc, proc'[p].work = proc[p].work
    PROVE  /\ Forward
           /\ \A k \in Requests : ItemInv(k)'
           /\ Settled(proc[p].work.req, proc[p].doc)'
  <1> DEFINE q == proc[p].work.req
             doc == proc[p].doc
  <1>1. /\ q \in Requests
        /\ doc \in Docs
        /\ doc.status \in Terminal
        /\ life \in [Requests -> Items]
        /\ life[q] \in Items
        /\ ItemInv(q)
        /\ Charged(q, doc)
    BY WorkTypes DEF IInv, TypeOK, Docs, ProcInv, WorkInv, Settling
  <1>2. life[q].status \in Open
    <2>1. CASE p \in Calls
      BY <2>1 DEF Permitted
    <2>2. CASE p \in Reconcilers
      BY <2>2, QueryAssumption
         DEF Permitted, IInv, ProcInv, ReconcilerInv, Settling, Procs
    <2> QED
      BY <2>1, <2>2 DEF Procs
  <1>3. /\ life'[q].status = doc.status
        /\ life'[q].doc = doc
        /\ life'[q].pending = TRUE
        /\ life'[q].lease = life[q].lease
        /\ life'[q].pair = life[q].pair
        /\ \A k \in Requests : k # q => life'[k] = life[k]
    BY <1>1 DEF Finalize, Finalized, Items
  <1>4. Forward
    <2>1. \A k \in Requests, d \in Docs : Charged(k, d) => Charged(k, d)'
      BY ChargedKept
    <2>2. \A c \in Calls : proc[c].pc = "starting" =>
            athena[RequestOf[c]].state = "none"
      BY DEF IInv, ProcInv, CallInv, Procs
    <2>3. \A k \in Requests : Admitted(k) =>
            life'[k].status # "none" /\ life'[k].lease = life[k].lease
      BY <1>1, <1>3 DEF Admitted, Terminal
    <2>4. \A k \in Requests : life[k].status \in Terminal => life'[k] = life[k]
      BY <1>2, <1>3 DEF Open, Terminal
    <2> QED
      BY <2>1, <2>2, <2>3, <2>4 DEF Forward
  <1>5. ASSUME NEW k \in Requests PROVE ItemInv(k)'
    <2>1. CASE k = q
      <3>1. Charged(q, doc)'
        BY <1>1 DEF Charged, Stopped, Unstarted, NoStarter
      <3>2. Charged(k, life[k].doc)'
        BY <1>3, <2>1, <3>1 DEF Charged, Stopped, Unstarted
      <3>3. audited[q] = {}
        BY <1>1, <1>2 DEF ItemInv, Open, Terminal
      <3>4. life[q].status # "none"
        BY <1>2 DEF Open
      <3> QED
        BY <1>1, <1>3, <2>1, <3>2, <3>3, <3>4 DEF ItemInv, Terminal
    <2>2. CASE k # q
      <3>1. ItemInv(k) /\ life'[k] = life[k]
        BY <1>3, <2>2 DEF IInv
      <3>2. Charged(k, life[k].doc) => Charged(k, life[k].doc)'
        BY <3>1 DEF Charged, Stopped, Unstarted, NoStarter
      <3> QED
        BY <3>1, <3>2 DEF ItemInv
    <2> QED
      BY <2>1, <2>2
  <1>6. Settled(q, doc)'
    BY <1>1, <1>3 DEF Settled
  <1> QED
    BY <1>4, <1>5, <1>6

LEMMA PlanStep ==
    ASSUME IInv, NEW p \in Procs, Plan(p)
    PROVE  IInv'
  <1>1. TypeOK'
    BY ItemsPlaced, ProcessTypeStep DEF IInv, Process
  <1>2. /\ proc \in [Procs -> Locals] /\ proc[p] \in Locals
        /\ Local
        /\ proc[p].pc \in Settling
    BY DEF Plan, IInv, TypeOK, Local, store, Settling
  <1> DEFINE mine == {s \in SlotsOf(proc[p].work.req, life[proc[p].work.req].pair) :
                          slot[s] = LeaseOf(p)}
             counted == IF p \in Calls THEN OwnersOf(proc[p].work.req)
                        ELSE {o \in OwnersOf(proc[p].work.req) :
                                <<o, life[proc[p].work.req].window>> \notin dropped}
  <1>3. proc' = [proc EXCEPT ![p].pc = "commit", ![p].mine = mine,
                             ![p].counted = counted]
    BY DEF Plan
  <1> HIDE DEF mine, counted
  <1>4. /\ Others(p) /\ proc'[p].pc = "commit"
        /\ proc'[p].doc = proc[p].doc
        /\ proc'[p].work = proc[p].work
        /\ proc'[p].held = proc[p].held
    BY <1>2, <1>3 DEF Others, Locals
  <1>5. NoStarter
    BY <1>4 DEF NoStarter, Others, Procs
  <1>6. Forward /\ \A k \in Requests : ItemInv(k)'
    BY <1>2, <1>5, LocalIsForward
  <1>7. proc'[p].pc \in Settling /\ UNCHANGED athena
    BY <1>2, <1>4 DEF Settling, Local
  <1> QED
    BY <1>1, <1>2, <1>4, <1>5, <1>6, <1>7, SettlingMove

LEMMA CommitStep ==
    ASSUME IInv, NEW p \in Procs, Commit(p)
    PROVE  IInv'
  <1>1. TypeOK'
    BY ItemsPlaced, ProcessTypeStep DEF IInv, Process
  <1>2. proc[p].pc = "commit" /\ proc[p].pc \in Settling
        /\ UNCHANGED <<athena, audited>>
    BY DEF Commit, Settling
  <1>3. PICK label \in {"record", "check"} : Leave(p, label)
    BY DEF Commit
  <1>4. /\ Others(p) /\ proc'[p].pc = label
        /\ proc'[p].doc = proc[p].doc
        /\ proc'[p].work = proc[p].work
        /\ proc'[p].held = proc[p].held
        /\ NoStarter
    BY <1>3, LeaveMove
  <1>5. CASE Permitted(p) /\ Finalize(p)
    <2>1. /\ Forward /\ \A k \in Requests : ItemInv(k)'
          /\ Settled(proc[p].work.req, proc[p].doc)'
      BY <1>2, <1>4, <1>5, FinalizeForward
    <2>2. \/ proc'[p].pc = "record"
          \/ proc'[p].pc \in Settling /\ UNCHANGED athena
      BY <1>2, <1>3, <1>4 DEF Settling
    <2> QED
      BY <1>1, <1>2, <1>4, <2>1, <2>2, SettlingMove
  <1>6. CASE UNCHANGED store /\ Leave(p, "check")
    <2>1. Local
      BY <1>2, <1>6 DEF Local, store
    <2>2. Forward /\ \A k \in Requests : ItemInv(k)'
      BY <1>4, <2>1, LocalIsForward
    <2>3. proc'[p].pc \in Settling
      BY <1>6, LeaveMove DEF Settling
    <2> QED
      BY <1>1, <1>2, <1>4, <2>2, <2>3, SettlingMove
  <1> QED
    BY <1>5, <1>6 DEF Commit

LEMMA CheckStep ==
    ASSUME IInv, NEW p \in Procs, Check(p)
    PROVE  IInv'
  <1>1. TypeOK'
    BY ItemsPlaced, ProcessTypeStep DEF IInv, Process
  <1>2. Local /\ proc[p].pc \in Settling
    BY DEF Check, Local, store, Settling
  <1>3. CASE Finish(p)
    BY <1>1, <1>2, <1>3, FinishStep
  <1>4. CASE Matches(p) /\ Goto(p, "record")
    <2>1. /\ Others(p) /\ proc'[p].pc = "record"
          /\ proc'[p].doc = proc[p].doc
          /\ proc'[p].work = proc[p].work
          /\ proc'[p].held = proc[p].held
          /\ NoStarter
      BY <1>4, GotoMove
    <2>2. Forward /\ \A k \in Requests : ItemInv(k)'
      BY <1>2, <2>1, LocalIsForward
    <2>3. proc[p].work.req \in Requests /\ proc[p].doc.status \in Terminal
      BY WorkTypes DEF IInv, Docs
    <2>4. Settled(proc[p].work.req, proc[p].doc)'
      BY <1>2, <1>4, <2>1, <2>3 DEF Settled, Matches, Local
    <2> QED
      BY <1>1, <1>2, <2>1, <2>2, <2>4, SettlingMove
  <1> QED
    BY <1>3, <1>4 DEF Check

\* One more record of the outcome of a settled query.
LEMMA AppendForward ==
    ASSUME IInv, NEW p \in Procs, proc[p].pc = "record",
           Append(p) \/ UNCHANGED audited, UNCHANGED <<life, athena>>, NoStarter
    PROVE  /\ Forward
           /\ \A k \in Requests : ItemInv(k)'
           /\ Append(p) => proc[p].doc \in audited'[proc[p].work.req]
  <1> DEFINE q == proc[p].work.req
  <1>1. /\ q \in Requests /\ proc[p].doc \in Docs
        /\ audited \in [Requests -> SUBSET Docs]
        /\ Settled(q, proc[p].doc)
    BY WorkTypes DEF IInv, TypeOK, ProcInv, WorkInv
  <1>2. /\ \A k \in Requests : audited[k] \subseteq audited'[k]
        /\ \A k \in Requests : k # q => audited'[k] = audited[k]
        /\ audited'[q] \subseteq audited[q] \cup {proc[p].doc}
        /\ Append(p) => proc[p].doc \in audited'[q]
    BY <1>1 DEF Append
  <1>3. Forward
    <2>1. \A k \in Requests, d \in Docs : Charged(k, d) => Charged(k, d)'
      BY ChargedKept
    <2>2. \A c \in Calls : proc[c].pc = "starting" =>
            athena[RequestOf[c]].state = "none"
      BY DEF IInv, ProcInv, CallInv, Procs
    <2> QED
      BY <1>2, <2>1, <2>2 DEF Forward, Admitted
  <1>4. ASSUME NEW k \in Requests PROVE ItemInv(k)'
    <2>1. ItemInv(k)
      BY DEF IInv
    <2>2. Charged(k, life[k].doc) => Charged(k, life[k].doc)'
      BY DEF Charged, Stopped, Unstarted, NoStarter
    <2> QED
      BY <1>1, <1>2, <2>1, <2>2 DEF ItemInv, Settled
  <1> QED
    BY <1>2, <1>3, <1>4

LEMMA RecordStep ==
    ASSUME IInv, NEW p \in Procs, Record(p)
    PROVE  IInv'
  <1>1. TypeOK'
    BY ItemsPlaced, ProcessTypeStep DEF IInv, Process
  <1>2. /\ proc[p].pc = "record"
        /\ UNCHANGED <<life, athena>>
        /\ Append(p) \/ UNCHANGED audited
    BY DEF Record, store
  <1>3. CASE Finish(p)
    <2>1. NoStarter
      <3>1. proc \in [Procs -> Locals]
        BY DEF IInv, TypeOK
      <3>2. proc'[p].pc # "starting" /\ Others(p)
        BY <1>3, <3>1 DEF Finish, Idle, Others
      <3> QED
        BY <3>2 DEF NoStarter, Procs, Others
    <2>2. Forward /\ \A k \in Requests : ItemInv(k)'
      BY <1>2, <2>1, AppendForward
    <2> QED
      BY <1>1, <1>3, <2>2, FinishInv, Moved
  <1>4. CASE Append(p) /\ Goto(p, "ack")
    <2>1. /\ Others(p) /\ proc'[p].pc = "ack"
          /\ proc'[p].doc = proc[p].doc
          /\ proc'[p].work = proc[p].work
          /\ proc'[p].held = proc[p].held
          /\ NoStarter
      BY <1>4, GotoMove
    <2>2. /\ Forward /\ \A k \in Requests : ItemInv(k)'
          /\ proc[p].doc \in audited'[proc[p].work.req]
      BY <1>2, <1>4, <2>1, AppendForward
    <2>3. /\ proc[p].work.req \in Requests /\ proc[p].doc \in Docs
          /\ Settled(proc[p].work.req, proc[p].doc)
      BY <1>2, WorkTypes DEF IInv, ProcInv, WorkInv
    <2>4. WorkInv(p)'
      BY <2>1, <2>2, <2>3 DEF WorkInv, Settling, Settled, Forward
    <2>5. ProcInv(p)'
      <3>1. ASSUME p \in Calls PROVE ProcInv(p)'
        BY <1>2, <2>1, <2>2, <2>4, <3>1, CallMove DEF Tracked
      <3>2. ASSUME p \in Reconcilers PROVE ProcInv(p)'
        BY <1>2, <2>1, <2>2, <2>4, <3>2, ReconcilerMove DEF Settling
      <3> QED
        BY <3>1, <3>2 DEF Procs
    <2> QED
      BY <1>1, <2>1, <2>2, <2>5, Moved
  <1> QED
    BY <1>3, <1>4 DEF Record

LEMMA AckStep ==
    ASSUME IInv, NEW p \in Procs, Ack(p)
    PROVE  IInv'
  <1> DEFINE q == proc[p].work.req
  <1>1. TypeOK'
    BY ItemsPlaced, ProcessTypeStep DEF IInv, Process
  <1>2. /\ proc[p].pc = "ack"
        /\ Finish(p)
        /\ UNCHANGED <<athena, audited>>
        /\ q \in Requests
        /\ life \in [Requests -> Items] /\ life[q] \in Items
        /\ proc[p].doc \in audited[q]
        /\ Settled(q, proc[p].doc)
    BY WorkTypes DEF Ack, IInv, TypeOK, ProcInv, WorkInv
  <1>3. NoStarter /\ Others(p)
    <2>1. proc \in [Procs -> Locals]
      BY DEF IInv, TypeOK
    <2>2. proc'[p].pc # "starting" /\ Others(p)
      BY <1>2, <2>1 DEF Finish, Idle, Others
    <2> QED
      BY <2>2 DEF NoStarter, Procs, Others
  <1>4. CASE UNCHANGED life
    BY <1>1, <1>2, <1>4, FinishStep DEF Local
  <1>5. CASE life' = [life EXCEPT ![q] = [@ EXCEPT
                !.pending = FALSE, !.acked = p, !.claim = NoOne, !.live = FALSE]]
    <2>1. /\ life'[q].status = life[q].status
          /\ life'[q].doc = life[q].doc
          /\ life'[q].lease = life[q].lease
          /\ life'[q].pair = life[q].pair
          /\ \A k \in Requests : k # q => life'[k] = life[k]
      BY <1>2, <1>5 DEF Items
    <2>2. Forward
      <3>1. \A k \in Requests, d \in Docs : Charged(k, d) => Charged(k, d)'
        BY <1>2, <1>3, ChargedKept
      <3>2. \A c \in Calls : proc[c].pc = "starting" =>
              athena[RequestOf[c]].state = "none"
        BY DEF IInv, ProcInv, CallInv, Procs
      <3> QED
        BY <1>2, <2>1, <3>1, <3>2 DEF Forward, Admitted
    <2>3. ASSUME NEW k \in Requests PROVE ItemInv(k)'
      <3>1. ItemInv(k) /\ life'[k].doc = life[k].doc
        BY <2>1 DEF IInv
      <3>2. Charged(k, life[k].doc) => Charged(k, life[k].doc)'
        BY <1>2, <1>3, <3>1 DEF Charged, Stopped, Unstarted, NoStarter
      <3>3. CASE k = q
        BY <1>2, <2>1, <3>1, <3>2, <3>3 DEF ItemInv, Settled
      <3>4. CASE k # q
        BY <1>2, <2>1, <3>1, <3>2, <3>4 DEF ItemInv
      <3> QED
        BY <3>3, <3>4
    <2> QED
      BY <1>1, <1>2, <2>2, <2>3, FinishInv, Moved
  <1> QED
    BY <1>4, <1>5 DEF Ack

LEMMA StillStep ==
    ASSUME IInv, TypeOK', Forward, \A q \in Requests : ItemInv(q)',
           UNCHANGED proc
    PROVE  IInv'
  <1>1. TypeOK /\ \A p \in Procs : ProcInv(p)
    BY DEF IInv
  <1>2. ASSUME NEW p \in Procs PROVE ProcInv(p)'
    BY <1>1, Bystander
  <1> QED
    BY <1>2 DEF IInv

LEMMA AthenaStep ==
    ASSUME IInv, NEW q \in Requests, AthenaEnds(q)
    PROVE  IInv'
  <1>1. TypeOK'
    BY EnvironmentTypeStep DEF IInv, Environment
  <1>2. /\ athena[q].state = "RUNNING"
        /\ athena'[q].state \in {"SUCCEEDED", "FAILED", "CANCELLED"}
        /\ \A k \in Requests : k # q => athena'[k] = athena[k]
        /\ UNCHANGED <<life, audited, proc>>
    <2>1. athena[q].state = "RUNNING" /\ UNCHANGED <<life, audited, proc>>
      BY DEF AthenaEnds, store
    <2>2. PICK state \in {"SUCCEEDED", "FAILED", "CANCELLED"}, bytes \in Nat :
            athena' = [athena EXCEPT ![q] = [state |-> state, scanned |-> bytes]]
      BY LimitAssumption DEF AthenaEnds
    <2> QED
      BY <2>1, <2>2 DEF IInv, TypeOK
  <1>3. ASSUME NEW k \in Requests, NEW doc \in Docs, Charged(k, doc)
        PROVE  Charged(k, doc)'
    <2>1. CASE k = q
      BY <1>2, <1>3, <2>1 DEF Charged, Stopped, Unstarted
    <2>2. CASE k # q
      BY <1>2, <1>3, <2>2 DEF Charged, Stopped, Unstarted
    <2> QED
      BY <2>1, <2>2
  <1>4. Forward
    <2>1. ASSUME NEW c \in Calls, proc[c].pc = "starting"
          PROVE  athena'[RequestOf[c]].state = "none"
      <3>1. RequestOf[c] \in Requests /\ athena[RequestOf[c]].state = "none"
        BY <2>1, RequestTypes DEF IInv, ProcInv, CallInv, Procs
      <3> QED
        BY <1>2, <3>1
    <2> QED
      BY <1>2, <1>3, <2>1 DEF Forward, Admitted
  <1>5. ASSUME NEW k \in Requests PROVE ItemInv(k)'
    <2>1. ItemInv(k)
      BY DEF IInv
    <2>2. Charged(k, life[k].doc) => Charged(k, life[k].doc)'
      <3>1. CASE k = q
        BY <1>2, <3>1 DEF Charged, Stopped, Unstarted
      <3>2. CASE k # q
        BY <1>2, <3>2 DEF Charged, Stopped, Unstarted
      <3> QED
        BY <3>1, <3>2
    <2>3. life[k].status = "none" => athena'[k].state = "none"
      BY <1>2, <2>1 DEF ItemInv
    <2> QED
      BY <1>2, <2>1, <2>2, <2>3 DEF ItemInv
  <1> QED
    BY <1>1, <1>2, <1>4, <1>5, StillStep

LEMMA EnvironmentStep ==
    ASSUME IInv, Environment
    PROVE  IInv'
  <1>1. TypeOK'
    BY EnvironmentTypeStep DEF IInv
  <1>2. ASSUME Kept, UNCHANGED <<athena, audited, proc>>
        PROVE  IInv'
    <2>1. NoStarter
      BY <1>2 DEF NoStarter
    <2> QED
      BY <1>1, <1>2, <2>1, KeptIsForward, StillStep
  <1>3. ASSUME NEW q \in Requests, ClaimExpires(q)
        PROVE  IInv'
    <2>1. Kept /\ UNCHANGED <<athena, audited, proc>>
      BY <1>3 DEF ClaimExpires, Kept, IInv, TypeOK, Items
    <2> QED
      BY <1>2, <2>1
  <1>4. ASSUME UNCHANGED <<life, athena, audited, proc>>
        PROVE  IInv'
    BY <1>2, <1>4 DEF Kept
  <1>5. ASSUME NEW r \in Reconcilers, CrashReconciler(r)
        PROVE  IInv'
    BY <1>1, <1>5, ResetStep DEF CrashReconciler, Local, store
  <1> QED
    BY <1>3, <1>4, <1>5, AthenaStep
       DEF Environment, LeaseExpires, NextWindow, CounterExpires, store

-----------------------------------------------------------------------------
(* The inductive invariant holds                                           *)

LEMMA InitInv == Init => IInv
  <1> SUFFICES ASSUME Init PROVE IInv
    OBVIOUS
  <1>1. NoItem \in Items
    <2>1. <<0, 0>> \in Nat \X Nat /\ 0 \in Windows
      BY LimitAssumption DEF Windows
    <2> QED
      BY <2>1, DocTypes DEF NoItem, Items
  <1>2. \A p \in Procs :
            Idle(IF p \in Calls THEN RequestOf[p] ELSE AnyRequest) \in Locals
    BY IdleType, RequestTypes
  <1>3. TypeOK
    BY <1>1, <1>2, LimitAssumption DEF Init, TypeOK, Windows
  <1>4. ASSUME NEW q \in Requests PROVE ItemInv(q)
    BY RequestTypes DEF Init, ItemInv, NoItem, Terminal
  <1>5. ASSUME NEW p \in Procs PROVE ProcInv(p)
    <2>1. proc[p] = Idle(IF p \in Calls THEN RequestOf[p] ELSE AnyRequest)
      BY DEF Init
    <2> QED
      BY <2>1 DEF ProcInv, CallInv, ReconcilerInv, WorkInv, Idle, NoClaim,
                  Tracked, Settling
  <1> QED
    BY <1>3, <1>4, <1>5 DEF IInv

LEMMA StepInv ==
    ASSUME IInv, Next
    PROVE  IInv'
  <1>1. ASSUME NEW p \in Procs, Process(p) PROVE IInv'
    BY <1>1, PlanStep, CommitStep, CheckStep, RecordStep, AckStep DEF Process
  <1>2. ASSUME NEW c \in Calls, Call(c) PROVE IInv'
    <2>1. CASE Process(c)
      BY <1>1, <2>1 DEF Procs
    <2> QED
      BY <1>2, <2>1, RequestStep, ReserveStep, StartStep, MarkStep, LateMarkStep,
         WaitStep DEF Call
  <1>3. ASSUME NEW r \in Reconcilers, Reconcile(r) PROVE IInv'
    <2>1. CASE Process(r)
      BY <1>1, <2>1 DEF Procs
    <2> QED
      BY <1>3, <2>1, ClaimStep, EndPageStep, NextClaimStep, ObserveStep,
         DeferStep DEF Reconcile
  <1> QED
    BY <1>2, <1>3, EnvironmentStep DEF Next

LEMMA StutterInv ==
    ASSUME IInv, UNCHANGED vars
    PROVE  IInv'
  <1>1. /\ TypeOK' /\ Local /\ UNCHANGED proc
    BY DEF IInv, TypeOK, vars, store, Local
  <1>2. NoStarter
    BY <1>1 DEF NoStarter
  <1> QED
    BY <1>1, <1>2, LocalIsForward, StillStep

LEMMA Inductive == Spec => []IInv
  <1>1. IInv /\ [Next]_vars => IInv'
    BY StepInv, StutterInv
  <1> QED
    BY InitInv, <1>1, PTL DEF Spec

\* Every item and every process has its type, whatever calls, reconcilers and
\* failures there are (query/service.py, reconciliation.py and the lifecycle
\* items of persistence.py).
THEOREM TypeCorrect == Spec => []TypeOK
  BY Inductive, PTL DEF IInv

\* A settled query is charged for what its execution scans: the bytes of an
\* execution that a call or a reconciler saw end, the whole reservation of one
\* that neither saw, and nothing only when none was or will be started.
THEOREM NothingUncharged == Spec => []ScanCharged
  <1>1. IInv => ScanCharged
    <2> SUFFICES ASSUME IInv, NEW q \in Requests, life[q].status \in Terminal,
                        life[q].doc # Cancelled(0)
                 PROVE  ~Uncharged(q)
      BY DEF ScanCharged
    <2>1. Charged(q, life[q].doc)
      BY DEF IInv, ItemInv
    <2>2. /\ athena[q].scanned \in Nat /\ Reserved \in Nat
          /\ life[q].doc.accounted \in Nat
          /\ athena[q].state
                \in {"none", "RUNNING", "SUCCEEDED", "FAILED", "CANCELLED"}
      BY LimitAssumption DEF IInv, TypeOK, Items, Docs
    <2>3. CASE life[q].doc.accounted = Reserved
      BY <2>2, <2>3 DEF Uncharged, Least
    <2>4. CASE Stopped(q) /\ Least(athena[q].scanned, Reserved)
                                <= life[q].doc.accounted
      <3>1. athena[q].state # "none" /\ athena[q].state # "RUNNING"
        BY <2>4 DEF Stopped
      <3>2. Uncharged(q) =>
               Least(athena[q].scanned, Reserved) > life[q].doc.accounted
        BY <3>1 DEF Uncharged
      <3>3. Least(athena[q].scanned, Reserved) \in Nat
        BY <2>2 DEF Least
      <3> QED
        BY <2>2, <2>4, <3>2, <3>3
    <2>5. CASE Unstarted(q)
      BY <2>2, <2>5 DEF Uncharged, Unstarted
    <2> QED
      BY <2>1, <2>3, <2>4, <2>5 DEF Charged
  <1> QED
    BY Inductive, <1>1, PTL

-----------------------------------------------------------------------------
(* Slots and counters                                                      *)

Admission(c, pair) ==
    /\ life[RequestOf[c]].status = "none"
    /\ Affordable(RequestOf[c], proc[c].window)
    /\ \A s \in SlotsOf(RequestOf[c], pair) : SlotFree(s)
    /\ Admit(c, pair)
    /\ UNCHANGED audited

Settlement(p) ==
    /\ proc[p].pc = "commit"
    /\ Permitted(p)
    /\ Finalize(p)
    /\ UNCHANGED audited

Recording(p) ==
    /\ proc[p].pc = "record"
    /\ Append(p)
    /\ UNCHANGED <<life, slot, counter>>

Acknowledgement(p) ==
    LET q == proc[p].work.req IN
    /\ proc[p].pc = "ack"
    /\ life[q].pending
    /\ life' = [life EXCEPT ![q] = [@ EXCEPT
          !.pending = FALSE, !.acked = p, !.claim = NoOne, !.live = FALSE]]
    /\ UNCHANGED <<slot, counter, audited>>

Nothing == Kept /\ UNCHANGED <<slot, counter, audited>>

\* All that a step may do to items, slots, counters and the audit trail.
LEMMA Effects ==
    ASSUME IInv, Next
    PROVE  /\ expired \subseteq expired'
           /\ \/ Nothing
              \/ \E c \in Calls : \E pair \in Pairs(RequestOf[c]) :
                    Admission(c, pair)
              \/ \E p \in Procs : Settlement(p) \/ Recording(p) \/ Acknowledgement(p)
  <1>0. /\ life \in [Requests -> Items]
        /\ \A q \in Requests : life[q] \in Items
    BY DEF IInv, TypeOK
  <1>1. ASSUME UNCHANGED store, UNCHANGED audited PROVE Nothing
    BY <1>1 DEF Nothing, Kept, store
  <1> DEFINE Effect ==
        /\ expired \subseteq expired'
        /\ \/ Nothing
           \/ \E c \in Calls : \E pair \in Pairs(RequestOf[c]) : Admission(c, pair)
           \/ \E p \in Procs : Settlement(p) \/ Recording(p) \/ Acknowledgement(p)
  <1>3. ASSUME NEW p \in Procs, Process(p) PROVE Effect
    <2>1. CASE Plan(p) \/ Check(p)
      BY <1>1, <2>1 DEF Plan, Check
    <2>2. CASE Commit(p)
      BY <1>1, <2>2 DEF Commit, Settlement
    <2>3. CASE Record(p)
      <3>1. CASE UNCHANGED audited
        BY <1>1, <2>3, <3>1 DEF Record
      <3>2. CASE Append(p)
        BY <2>3, <3>2 DEF Record, Recording, store
      <3> QED
        BY <2>3, <3>1, <3>2 DEF Record
    <2>4. CASE Ack(p)
      <3>1. CASE UNCHANGED life
        BY <1>1, <2>4, <3>1 DEF Ack, store
      <3>2. CASE ~UNCHANGED life
        BY <2>4, <3>2 DEF Ack, Acknowledgement
      <3> QED
        BY <3>1, <3>2
    <2> QED
      BY <1>3, <2>1, <2>2, <2>3, <2>4 DEF Process
  <1>4. ASSUME NEW c \in Calls, Call(c) PROVE Effect
    <2>1. CASE Process(c)
      BY <1>3, <2>1 DEF Procs
    <2>2. ASSUME NEW pair \in Pairs(RequestOf[c]), Reserve(c, pair) PROVE Effect
      BY <1>1, <2>2 DEF Reserve, Admission
    <2>3. CASE Mark(c) \/ LateMark(c)
      BY <2>3, MarkKept DEF Mark, LateMark, Nothing
    <2>4. CASE \/ Request(c) \/ Start(c) \/ Wait(c) \/ Stop(c)
               \/ \E cause \in {"cancel", "athena"} : AbandonMark(c, cause)
      BY <1>1, <2>4 DEF Request, Start, Wait, Stop, AbandonMark
    <2> QED
      BY <1>4, <2>1, <2>2, <2>3, <2>4 DEF Call
  <1>5. ASSUME NEW r \in Reconcilers, Reconcile(r) PROVE Effect
    <2>1. CASE Process(r)
      BY <1>3, <2>1 DEF Procs
    <2>2. ASSUME NEW q \in Requests, Claim(r, q) PROVE Effect
      <3>1. Kept
        BY <1>0, <2>2 DEF Claim, TakeClaim, Kept, Items
      <3> QED
        BY <2>2, <3>1 DEF Claim, Nothing
    <2>3. CASE EndPage(r) \/ NextClaim(r) \/ Observe(r)
      BY <1>1, <2>3 DEF EndPage, NextClaim, Observe
    <2>4. CASE Defer(r)
      <3>1. Kept
        <4> DEFINE q == proc[r].work.req
        <4>1. CASE UNCHANGED life
          BY <4>1 DEF Kept
        <4>2. CASE life' = [life EXCEPT ![q].claim = NoOne, ![q].live = FALSE]
          BY <1>0, <4>2 DEF Kept, Items
        <4> QED
          BY <2>4, <4>1, <4>2 DEF Defer
      <3> QED
        BY <2>4, <3>1 DEF Defer, Nothing
    <2> QED
      BY <1>5, <2>1, <2>2, <2>3, <2>4 DEF Reconcile
  <1>6. CASE Environment
    <2>1. ASSUME NEW q \in Requests, ClaimExpires(q) PROVE Effect
      <3>1. Kept
        BY <1>0, <2>1 DEF ClaimExpires, Kept, Items
      <3> QED
        BY <2>1, <3>1 DEF ClaimExpires, Nothing
    <2>2. CASE /\ UNCHANGED <<life, slot, counter, audited>>
               /\ expired \subseteq expired'
      BY <2>2 DEF Nothing, Kept
    <2> QED
      BY <1>6, <2>1, <2>2
         DEF Environment, AthenaEnds, LeaseExpires, CrashReconciler, NextWindow,
             CounterExpires, store
  <1> QED
    BY <1>4, <1>5, <1>6 DEF Next

\* What every step but an admission or a settlement does to the leases.
Steady == \A q \in Requests :
    /\ life'[q].lease = life[q].lease
    /\ life'[q].pair = life[q].pair
    /\ \/ life'[q].status = life[q].status
       \/ life[q].status \in Open /\ life'[q].status \in Open

\* Only admissions and settlements touch slots and counters.
LEMMA StoreSteps ==
    ASSUME IInv, Next
    PROVE  /\ expired \subseteq expired'
           /\ \/ Steady /\ UNCHANGED <<slot, counter>>
              \/ \E c \in Calls : \E pair \in Pairs(RequestOf[c]) :
                    Admission(c, pair)
              \/ \E p \in Procs : Permitted(p) /\ Finalize(p)
  <1>1. Nothing => Steady /\ UNCHANGED <<slot, counter>>
    BY DEF Nothing, Kept, Steady
  <1>2. ASSUME NEW p \in Procs, Recording(p)
        PROVE  Steady /\ UNCHANGED <<slot, counter>>
    BY <1>2 DEF Recording, Steady
  <1>3. ASSUME NEW p \in Procs, Acknowledgement(p)
        PROVE  Steady /\ UNCHANGED <<slot, counter>>
    BY <1>3 DEF Acknowledgement, Steady, IInv, TypeOK, Items
  <1> QED
    BY <1>1, <1>2, <1>3, Effects DEF Settlement

LEMMA SlotOwners ==
    ASSUME NEW q \in Requests, NEW pair \in Pairs(q)
    PROVE  \A s \in SlotsOf(q, pair) : s \in Slots
  BY RequestTypes

\* Neither a slot nor its lease is taken from an admitted query whose lease has
\* not run out: no admission takes a slot over from it, and no settlement of
\* another query, however late, frees it.
THEOREM SlotsKept == Spec => []LeaseOwnsSlots
  <1>1. Init => LeaseOwnsSlots
    BY DEF Init, LeaseOwnsSlots, NoItem, Open
  <1>2. ASSUME IInv, LeaseOwnsSlots, [Next]_vars
        PROVE  LeaseOwnsSlots'
    <2>0. /\ life \in [Requests -> Items]
          /\ slot \in [Slots -> Calls \cup {NoOne}]
          /\ NoOne \notin Calls
          /\ \A q \in Requests : life[q].pair \in Pairs(q)
          /\ \A q \in Requests : life[q].status # "none" =>
                life[q].lease \in Calls /\ RequestOf[life[q].lease] = q
      BY <1>2, QueryAssumption DEF IInv, TypeOK, ItemInv, Procs
    <2>1. CASE UNCHANGED vars
      BY <1>2, <2>1 DEF LeaseOwnsSlots, vars, store
    <2>2. CASE Next
      <3>1. expired \subseteq expired'
        BY <1>2, <2>2, StoreSteps
      <3>2. CASE Steady /\ UNCHANGED <<slot, counter>>
        <4> SUFFICES ASSUME NEW q \in Requests, life'[q].status \in Open,
                            life'[q].lease \notin expired',
                            NEW s \in SlotsOf(q, life'[q].pair)
                     PROVE  slot'[s] = life'[q].lease
          BY DEF LeaseOwnsSlots
        <4>1. /\ life'[q].lease = life[q].lease
              /\ life'[q].pair = life[q].pair
              /\ life[q].status \in Open
          BY <3>2 DEF Steady
        <4>2. slot[s] = life[q].lease
          BY <1>2, <3>1, <4>1 DEF LeaseOwnsSlots
        <4> QED
          BY <3>2, <4>1, <4>2
      <3>3. ASSUME NEW c \in Calls, NEW pair \in Pairs(RequestOf[c]),
                   Admission(c, pair)
            PROVE  LeaseOwnsSlots'
        <4> DEFINE k == RequestOf[c]
        <4>1. /\ k \in Requests
              /\ life'[k].lease = c /\ life'[k].pair = pair
              /\ \A q \in Requests : q # k => life'[q] = life[q]
          BY <2>0, <3>3, RequestTypes DEF Admission, Admit, NoItem
        <4>2. \A s \in Slots :
                slot'[s] = IF s \in SlotsOf(k, pair) THEN c ELSE slot[s]
          BY <3>3 DEF Admission, Admit
        <4> SUFFICES ASSUME NEW q \in Requests, life'[q].status \in Open,
                            life'[q].lease \notin expired',
                            NEW s \in SlotsOf(q, life'[q].pair)
                     PROVE  slot'[s] = life'[q].lease
          BY DEF LeaseOwnsSlots
        <4>3. CASE q = k
          BY <4>1, <4>2, <4>3, SlotOwners
        <4>4. CASE q # k
          <5>1. /\ life'[q] = life[q]
                /\ s \in Slots
            BY <2>0, <4>1, <4>4, SlotOwners
          <5>2. slot[s] = life[q].lease /\ life[q].lease \notin expired
                /\ life[q].lease \in Calls
            BY <1>2, <2>0, <3>1, <5>1 DEF LeaseOwnsSlots, Open
          <5>3. s \notin SlotsOf(k, pair)
            BY <2>0, <3>3, <5>2 DEF Admission, SlotFree
          <5> QED
            BY <4>2, <5>1, <5>2, <5>3
        <4> QED
          BY <4>3, <4>4
      <3>4. ASSUME NEW p \in Procs, Permitted(p), Finalize(p)
            PROVE  LeaseOwnsSlots'
        <4> DEFINE k == proc[p].work.req
        <4>1. /\ k \in Requests /\ proc[p].doc.status \in Terminal
              /\ life[k] \in Items
          BY <1>2, WorkTypes DEF IInv, TypeOK, Docs
        <4>2. /\ life'[k].status = proc[p].doc.status
              /\ \A q \in Requests : q # k => life'[q] = life[q]
          BY <2>0, <3>4, <4>1 DEF Finalize, Finalized, Items
        <4>3. \A s \in Slots :
                slot'[s] = IF s \in proc[p].mine THEN NoOne ELSE slot[s]
          BY <3>4 DEF Finalize
        <4>4. \A s \in proc[p].mine : slot[s] = life[k].lease
          BY <3>4 DEF Permitted
        <4> SUFFICES ASSUME NEW q \in Requests, life'[q].status \in Open,
                            life'[q].lease \notin expired',
                            NEW s \in SlotsOf(q, life'[q].pair)
                     PROVE  slot'[s] = life'[q].lease
          BY DEF LeaseOwnsSlots
        <4>5. q # k
          BY <4>1, <4>2 DEF Open, Terminal
        <4>6. life'[q] = life[q] /\ s \in Slots
          BY <2>0, <4>2, <4>5, SlotOwners
        <4>7. slot[s] = life[q].lease /\ life[q].lease \in Calls
              /\ RequestOf[life[q].lease] = q
          BY <1>2, <2>0, <3>1, <4>6 DEF LeaseOwnsSlots, Open
        <4>8. life[k].lease # life[q].lease
          <5>1. life[k].status # "none"
            <6>1. CASE p \in Calls
              BY <3>4, <6>1 DEF Permitted, Open
            <6>2. CASE p \notin Calls
              <7>1. proc[p].work \in Claims
                BY <1>2 DEF IInv, TypeOK, Locals
              <7> QED
                BY <3>4, <6>2, <7>1 DEF Permitted, Claims, Open, Terminal
            <6> QED
              BY <6>1, <6>2
          <5> QED
            BY <2>0, <4>1, <4>5, <4>7, <5>1
        <4>9. s \notin proc[p].mine
          BY <4>4, <4>7, <4>8
        <4> QED
          BY <4>3, <4>6, <4>7, <4>9
      <3> QED
        BY <1>2, <2>2, <3>2, <3>3, <3>4, StoreSteps
    <2> QED
      BY <1>2, <2>1, <2>2
  <1> QED
    BY <1>1, <1>2, Inductive, PTL DEF Spec

\* The bytes reserved and charged in a window stay within each owner's limit, and
\* no refund is made twice or exceeds what was reserved.
THEOREM BudgetKept == Spec => []ScanBudget
  <1>1. Init => ScanBudget
    BY LimitAssumption DEF Init, ScanBudget
  <1>2. ASSUME IInv, ScanBudget, [Next]_vars
        PROVE  ScanBudget'
    <2>1. CASE UNCHANGED vars
      BY <1>2, <2>1 DEF ScanBudget, vars, store
    <2>2. CASE Next
      <3>1. CASE Steady /\ UNCHANGED <<slot, counter>>
        BY <1>2, <3>1 DEF ScanBudget
      <3> SUFFICES ASSUME ~(Steady /\ UNCHANGED <<slot, counter>>),
                          NEW o \in Owners, NEW w \in Windows
                   PROVE  counter'[<<o, w>>] \in 0..ScanLimit[o]
        BY <3>1 DEF ScanBudget
      <3>2. /\ counter[<<o, w>>] \in 0..ScanLimit[o]
            /\ ScanLimit[o] \in Nat /\ Reserved \in Nat
            /\ <<o, w>> \in Owners \X Windows
        BY <1>2, LimitAssumption DEF ScanBudget
      <3>3. ASSUME NEW c \in Calls, NEW pair \in Pairs(RequestOf[c]),
                   Admission(c, pair)
            PROVE  counter'[<<o, w>>] \in 0..ScanLimit[o]
        <4> DEFINE charged == OwnersOf(RequestOf[c]) \X {proc[c].window}
        <4>1. counter'[<<o, w>>] = IF <<o, w>> \in charged
                                   THEN counter[<<o, w>>] + Reserved
                                   ELSE counter[<<o, w>>]
          BY <3>2, <3>3 DEF Admission, Admit
        <4>2. <<o, w>> \in charged => counter[<<o, w>>] + Reserved <= ScanLimit[o]
          BY <3>3 DEF Admission, Affordable
        <4> HIDE DEF charged
        <4> QED
          BY <3>2, <4>1, <4>2
      <3>4. ASSUME NEW p \in Procs, Permitted(p), Finalize(p)
            PROVE  counter'[<<o, w>>] \in 0..ScanLimit[o]
        <4> DEFINE refunded == proc[p].counted \X {life[proc[p].work.req].window}
        <4>1. counter'[<<o, w>>] = IF <<o, w>> \in refunded
                                   THEN counter[<<o, w>>] - Refund(p)
                                   ELSE counter[<<o, w>>]
          BY <3>2, <3>4 DEF Finalize
        <4>2. Refund(p) \in Nat
          <5>1. proc[p].doc.accounted \in 0..Reserved
            BY <1>2, WorkTypes DEF IInv, Docs
          <5> QED
            BY <3>2, <5>1 DEF Refund
        <4>3. <<o, w>> \in refunded /\ Refund(p) # 0
                 => counter[<<o, w>>] >= Refund(p)
          BY <3>4 DEF Permitted
        <4> HIDE DEF refunded
        <4> QED
          BY <3>2, <4>1, <4>2, <4>3
      <3> QED
        BY <1>2, <2>2, <3>3, <3>4, StoreSteps
    <2> QED
      BY <1>2, <2>1, <2>2
  <1> QED
    BY <1>1, <1>2, Inductive, PTL DEF Spec

-----------------------------------------------------------------------------
(* The scanned bytes add up                                                *)

\* The settlement p is about to commit refunds owners of its query, and each
\* whose counter still exists: counters that were gone when it was planned are
\* gone for good.
Planned(p) ==
    LET q == proc[p].work.req IN
    proc[p].pc = "commit" =>
        /\ proc[p].counted \subseteq OwnersOf(q)
        /\ \A o \in OwnersOf(q) :
              <<o, life[q].window>> \notin dropped => o \in proc[p].counted

\* What p does to its own plan when it makes a step of its own that is not Plan.
Unplanned(p) ==
    /\ Others(p)
    /\ proc'[p].pc = "commit" => /\ proc[p].pc = "commit"
                                 /\ proc'[p].work = proc[p].work
                                 /\ proc'[p].counted = proc[p].counted

LEMMA MoveUnplanned ==
    ASSUME TypeOK, NEW p \in Procs, NEW next, next.pc # "commit",
           proc' = [proc EXCEPT ![p] = next]
    PROVE  Unplanned(p)
  BY DEF TypeOK, Unplanned, Others

LEMMA GotoUnplanned ==
    ASSUME TypeOK, NEW p \in Procs, NEW label, label # "commit", Goto(p, label)
    PROVE  Unplanned(p)
  <1>1. [proc[p] EXCEPT !.pc = label].pc = label
    BY DEF TypeOK, Locals
  <1> QED
    BY <1>1, MoveUnplanned DEF Goto

LEMMA SettleUnplanned ==
    ASSUME TypeOK, NEW p \in Procs, NEW doc, Settle(p, doc)
    PROVE  Unplanned(p)
  <1>1. [proc[p] EXCEPT !.pc = "plan", !.doc = doc, !.cause = "none"].pc = "plan"
    BY DEF TypeOK, Locals
  <1> QED
    BY <1>1, MoveUnplanned DEF Settle

LEMMA LeaveUnplanned ==
    ASSUME TypeOK, NEW p \in Procs, NEW label, label # "commit", Leave(p, label)
    PROVE  Unplanned(p)
  <1>1. [proc[p] EXCEPT !.pc = label, !.mine = {}, !.counted = {}].pc = label
    BY DEF TypeOK, Locals
  <1> QED
    BY <1>1, MoveUnplanned DEF Leave

LEMMA FinishUnplanned ==
    ASSUME TypeOK, NEW p \in Procs, Finish(p)
    PROVE  Unplanned(p)
  <1>1. [Idle(RequestOf[p]) EXCEPT !.pc = "ended", !.window = proc[p].window,
                                   !.late = proc[p].late].pc = "ended"
    BY DEF Idle
  <1>2. [Idle(AnyRequest) EXCEPT !.pc = "next", !.held = proc[p].held].pc = "next"
    BY DEF Idle
  <1>3. CASE p \in Calls
    BY <1>1, <1>3, MoveUnplanned DEF Finish
  <1>4. CASE p \notin Calls
    BY <1>2, <1>4, MoveUnplanned DEF Finish
  <1> QED
    BY <1>3, <1>4

LEMMA ProcessUnplanned ==
    ASSUME TypeOK, NEW p \in Procs, Process(p)
    PROVE  Unplanned(p) \/ Plan(p)
  <1>1. CASE Commit(p)
    BY <1>1, LeaveUnplanned DEF Commit
  <1>2. CASE Check(p)
    BY <1>2, GotoUnplanned, FinishUnplanned DEF Check
  <1>3. CASE Record(p)
    BY <1>3, GotoUnplanned, FinishUnplanned DEF Record
  <1>4. CASE Ack(p)
    BY <1>4, FinishUnplanned DEF Ack
  <1> QED
    BY <1>1, <1>2, <1>3, <1>4 DEF Process

LEMMA CallUnplanned ==
    ASSUME TypeOK, NEW c \in Calls, Call(c)
    PROVE  Unplanned(c) \/ Plan(c)
  <1>0. c \in Procs /\ proc[c] \in Locals
    BY DEF Procs, TypeOK
  <1>1. CASE Process(c)
    BY <1>0, <1>1, ProcessUnplanned
  <1>2. CASE Request(c)
    <2> DEFINE next == [proc[c] EXCEPT !.pc = "reserve", !.window = window,
                                       !.untried = Pairs(RequestOf[c])]
    <2>1. next.pc = "reserve"
      BY <1>0 DEF Locals
    <2>2. CASE proc' = [proc EXCEPT ![c] = next]
      BY <1>0, <2>1, <2>2, MoveUnplanned
    <2> QED
      BY <1>0, <1>2, <2>2, FinishUnplanned DEF Request
  <1>3. ASSUME NEW pair \in Pairs(RequestOf[c]), Reserve(c, pair)
        PROVE  Unplanned(c)
    <2> DEFINE next == [proc[c] EXCEPT !.pc = "starting", !.untried = {}]
               other == [proc[c] EXCEPT !.untried = @ \ {pair}]
    <2>1. next.pc = "starting" /\ other.pc = "reserve"
      BY <1>0, <1>3 DEF Locals, Reserve
    <2>2. CASE proc' = [proc EXCEPT ![c] = next]
      BY <1>0, <2>1, <2>2, MoveUnplanned
    <2>3. CASE proc' = [proc EXCEPT ![c] = other]
      BY <1>0, <2>1, <2>3, MoveUnplanned
    <2> QED
      BY <1>0, <1>3, <2>2, <2>3, FinishUnplanned DEF Reserve
  <1>4. CASE Start(c)
    <2>1. ASSUME NEW cause, proc' = [proc EXCEPT ![c].pc = "marking", ![c].cause = cause]
          PROVE  Unplanned(c)
      <3>1. [proc[c] EXCEPT !.pc = "marking", !.cause = cause].pc = "marking"
        BY <1>0 DEF Locals
      <3> QED
        BY <1>0, <2>1, <3>1, MoveUnplanned
    <2> QED
      BY <1>0, <1>4, <2>1, SettleUnplanned DEF Start
  <1>5. CASE Mark(c)
    BY <1>0, <1>5, GotoUnplanned DEF Mark
  <1>6. ASSUME NEW cause, AbandonMark(c, cause) PROVE Unplanned(c)
    <2>1. [proc[c] EXCEPT !.pc = "stop", !.cause = cause, !.late = TRUE].pc = "stop"
      BY <1>0 DEF Locals
    <2> QED
      BY <1>0, <1>6, <2>1, MoveUnplanned DEF AbandonMark
  <1>7. CASE LateMark(c)
    <2>1. /\ proc'[c] = [proc[c] EXCEPT !.late = FALSE]
          /\ Others(c)
      BY <1>0, <1>7 DEF LateMark, TypeOK, Others
    <2> QED
      BY <1>0, <2>1 DEF Unplanned, Locals
  <1>8. CASE Wait(c)
    <2>1. ASSUME NEW cause, proc' = [proc EXCEPT ![c].pc = "stop", ![c].cause = cause]
          PROVE  Unplanned(c)
      <3>1. [proc[c] EXCEPT !.pc = "stop", !.cause = cause].pc = "stop"
        BY <1>0 DEF Locals
      <3> QED
        BY <1>0, <2>1, <3>1, MoveUnplanned
    <2> QED
      BY <1>0, <1>8, <2>1, SettleUnplanned DEF Wait
  <1>9. CASE Stop(c)
    BY <1>0, <1>9, SettleUnplanned, FinishUnplanned DEF Stop
  <1> QED
    BY <1>1, <1>2, <1>3, <1>4, <1>5, <1>6, <1>7, <1>8, <1>9 DEF Call

LEMMA ReconcileUnplanned ==
    ASSUME TypeOK, NEW r \in Reconcilers, Reconcile(r)
    PROVE  Unplanned(r) \/ Plan(r)
  <1>0. r \in Procs /\ proc[r] \in Locals /\ Idle(AnyRequest).pc = "idle"
    BY DEF Procs, TypeOK, Idle
  <1>1. CASE Process(r)
    BY <1>0, <1>1, ProcessUnplanned
  <1>2. ASSUME NEW q \in Requests, Claim(r, q) PROVE Unplanned(r)
    <2> DEFINE claim == [req |-> q, status |-> life[q].status, doc |-> life[q].doc]
               next == [proc[r] EXCEPT !.pc = "scanning", !.held = @ \cup {claim}]
    <2>1. next.pc = "scanning"
      BY <1>0 DEF Locals
    <2>2. CASE proc' = [proc EXCEPT ![r] = next]
      BY <1>0, <2>1, <2>2, MoveUnplanned
    <2>3. CASE proc' = [proc EXCEPT ![r] = Idle(AnyRequest)]
      BY <1>0, <2>3, MoveUnplanned
    <2> QED
      BY <1>2, <2>2, <2>3 DEF Claim
  <1>3. CASE EndPage(r)
    BY <1>0, <1>3, GotoUnplanned DEF EndPage
  <1>4. CASE NextClaim(r)
    <2>1. CASE proc' = [proc EXCEPT ![r] = Idle(AnyRequest)]
      BY <1>0, <2>1, MoveUnplanned
    <2>2. ASSUME NEW claim \in proc[r].held,
                 proc' = [proc EXCEPT
                    ![r].held = @ \ {claim},
                    ![r].work = claim,
                    ![r].doc = IF claim.status = "accepted"
                               THEN Failed(Reserved) ELSE claim.doc,
                    ![r].pc = CASE claim.status = "accepted" -> "plan"
                                [] claim.status = "running" -> "observe"
                                [] OTHER -> "record"]
          PROVE  Unplanned(r)
      <3> DEFINE label == CASE claim.status = "accepted" -> "plan"
                            [] claim.status = "running" -> "observe"
                            [] OTHER -> "record"
      <3>1. label # "commit"
        OBVIOUS
      <3> HIDE DEF label
      <3>2. [proc[r] EXCEPT
                !.held = @ \ {claim}, !.work = claim,
                !.doc = IF claim.status = "accepted"
                        THEN Failed(Reserved) ELSE claim.doc,
                !.pc = label].pc = label
        BY <1>0 DEF Locals
      <3> QED
        BY <1>0, <2>2, <3>1, <3>2, MoveUnplanned DEF label
    <2> QED
      BY <1>4, <2>1, <2>2 DEF NextClaim
  <1>5. CASE Observe(r)
    BY <1>0, <1>5, SettleUnplanned, GotoUnplanned DEF Observe
  <1>6. CASE Defer(r)
    BY <1>0, <1>6, FinishUnplanned DEF Defer
  <1> QED
    BY <1>1, <1>2, <1>3, <1>4, <1>5, <1>6 DEF Reconcile

\* Whoever moves, the settlement a process is about to commit is as it was.
LEMMA PlanKept ==
    ASSUME TypeOK, Next
    PROVE  \/ \E p \in Procs : Plan(p)
           \/ \A p \in Procs : proc'[p].pc = "commit" =>
                 /\ proc[p].pc = "commit"
                 /\ proc'[p].work = proc[p].work
                 /\ proc'[p].counted = proc[p].counted
  <1> DEFINE Same == \A p \in Procs : proc'[p].pc = "commit" =>
                 /\ proc[p].pc = "commit"
                 /\ proc'[p].work = proc[p].work
                 /\ proc'[p].counted = proc[p].counted
  <1>1. ASSUME NEW p \in Procs, Unplanned(p) PROVE Same
    BY <1>1 DEF Unplanned, Others
  <1>2. CASE UNCHANGED proc
    BY <1>2
  <1>3. ASSUME NEW r \in Reconcilers, CrashReconciler(r) PROVE Same
    <2>1. Idle(AnyRequest).pc # "commit" /\ r \in Procs
      BY DEF Idle, Procs
    <2> QED
      BY <1>1, <1>3, <2>1, MoveUnplanned DEF CrashReconciler
  <1>4. CASE Environment
    BY <1>2, <1>3, <1>4
       DEF Environment, AthenaEnds, ClaimExpires, LeaseExpires, NextWindow,
           CounterExpires
  <1> QED
    BY <1>1, <1>4, CallUnplanned, ReconcileUnplanned DEF Next, Procs

\* A counter that is gone stays so, and a query stays in its window.
LEMMA DroppedGrows ==
    ASSUME IInv, Next
    PROVE  dropped \subseteq dropped'
  <1>1. ASSUME NEW p \in Procs, Process(p) PROVE UNCHANGED dropped
    BY <1>1 DEF Process, Plan, Commit, Check, Record, Ack, Finalize, store
  <1>2. ASSUME NEW c \in Calls, Call(c) PROVE UNCHANGED dropped
    <2>1. CASE Process(c)
      BY <1>1, <2>1 DEF Procs
    <2> QED
      BY <1>2, <2>1 DEF Call, Request, Reserve, Admit, Start, Mark, AbandonMark,
                        LateMark, Wait, Stop, store
  <1>3. ASSUME NEW r \in Reconcilers, Reconcile(r) PROVE UNCHANGED dropped
    <2>1. CASE Process(r)
      BY <1>1, <2>1 DEF Procs
    <2> QED
      BY <1>3, <2>1 DEF Reconcile, Claim, EndPage, NextClaim, Observe, Defer, store
  <1>4. CASE Environment
    BY <1>4 DEF Environment, AthenaEnds, ClaimExpires, LeaseExpires,
                CrashReconciler, NextWindow, CounterExpires, store
  <1> QED
    BY <1>2, <1>3, <1>4 DEF Next

LEMMA WindowKept ==
    ASSUME IInv, Next, NEW q \in Requests, Admitted(q)
    PROVE  life'[q].window = life[q].window
  <1>0. life \in [Requests -> Items] /\ life[q] \in Items
    BY DEF IInv, TypeOK
  <1>1. CASE Nothing
    BY <1>1 DEF Nothing, Kept
  <1>2. ASSUME NEW c \in Calls, NEW pair \in Pairs(RequestOf[c]), Admission(c, pair)
        PROVE  life'[q].window = life[q].window
    <2>1. RequestOf[c] # q
      BY <1>2 DEF Admission, Admitted
    <2> QED
      BY <1>0, <1>2, <2>1 DEF Admission, Admit
  <1>3. ASSUME NEW p \in Procs, Settlement(p) PROVE life'[q].window = life[q].window
    BY <1>0, <1>3 DEF Settlement, Finalize, Finalized, Items
  <1>4. ASSUME NEW p \in Procs, Recording(p) PROVE life'[q].window = life[q].window
    BY <1>4 DEF Recording
  <1>5. ASSUME NEW p \in Procs, Acknowledgement(p)
        PROVE  life'[q].window = life[q].window
    BY <1>0, <1>5 DEF Acknowledgement, Items
  <1> QED
    BY <1>1, <1>2, <1>3, <1>4, <1>5, Effects

\* A process that is about to commit has an admitted query before it.
LEMMA CommitsAdmitted ==
    ASSUME IInv, NEW p \in Procs, proc[p].pc = "commit"
    PROVE  /\ proc[p].work.req \in Requests
           /\ Admitted(proc[p].work.req)
           /\ p \notin Calls => proc[p].work.status \in Open
  <1>1. ProcInv(p) /\ proc[p].work.req \in Requests
    BY WorkTypes DEF IInv
  <1>2. CASE p \in Calls
    BY <1>1, <1>2 DEF ProcInv, CallInv, Tracked
  <1>3. CASE p \notin Calls
    BY <1>1, <1>3 DEF ProcInv, ReconcilerInv, Settling, Procs
  <1> QED
    BY <1>1, <1>2, <1>3

LEMMA PlannedStep ==
    ASSUME IInv, \A p \in Procs : Planned(p), Next
    PROVE  \A p \in Procs : Planned(p)'
  <1> SUFFICES ASSUME NEW p \in Procs, proc'[p].pc = "commit"
               PROVE  LET q == proc'[p].work.req IN
                      /\ proc'[p].counted \subseteq OwnersOf(q)
                      /\ \A o \in OwnersOf(q) :
                            <<o, life'[q].window>> \notin dropped'
                                => o \in proc'[p].counted
    BY DEF Planned
  <1>0. TypeOK /\ proc[p] \in Locals /\ dropped \subseteq dropped'
    BY DroppedGrows DEF IInv, TypeOK
  <1>1. ASSUME /\ proc[p].pc = "commit"
               /\ proc'[p].work = proc[p].work
               /\ proc'[p].counted = proc[p].counted
        PROVE  LET q == proc'[p].work.req IN
               /\ proc'[p].counted \subseteq OwnersOf(q)
               /\ \A o \in OwnersOf(q) :
                     <<o, life'[q].window>> \notin dropped' => o \in proc'[p].counted
    <2>1. Planned(p)
      OBVIOUS
    <2>2. life'[proc[p].work.req].window = life[proc[p].work.req].window
      BY <1>1, CommitsAdmitted, WindowKept
    <2> QED
      BY <1>0, <1>1, <2>1, <2>2 DEF Planned
  <1>2. ASSUME NEW m \in Procs, Plan(m)
        PROVE  LET q == proc'[p].work.req IN
               /\ proc'[p].counted \subseteq OwnersOf(q)
               /\ \A o \in OwnersOf(q) :
                     <<o, life'[q].window>> \notin dropped' => o \in proc'[p].counted
    <2>1. CASE m # p
      <3>1. proc'[p] = proc[p]
        BY <1>0, <1>2, <2>1 DEF Plan, TypeOK
      <3> QED
        BY <1>1, <3>1
    <2>2. CASE m = p
      <3>1. life' = life /\ dropped' = dropped
        BY <1>2 DEF Plan, store
      <3>2. proc'[p].work = proc[p].work
        BY <1>0, <1>2, <2>2 DEF Plan, TypeOK, Locals
      <3>3. proc'[p].counted =
                IF p \in Calls THEN OwnersOf(proc[p].work.req)
                ELSE {o \in OwnersOf(proc[p].work.req) :
                         <<o, life[proc[p].work.req].window>> \notin dropped}
        BY <1>0, <1>2, <2>2 DEF Plan, TypeOK, Locals
      <3> QED
        BY <3>1, <3>2, <3>3
    <2> QED
      BY <2>1, <2>2
  <1> QED
    BY <1>0, <1>1, <1>2, PlanKept

\* A counter that exists is the sum of what was taken from it.
Accounted(o, w) ==
    <<o, w>> \notin dropped =>
        /\ IsFiniteSet(Units(Shares(o, w), Requests))
        /\ counter[<<o, w>>] = Total(Shares(o, w), Requests)

AllAccounted == \A o \in Owners, w \in Windows : Accounted(o, w)

LEMMA ShareNatural ==
    ASSUME TypeOK, NEW q \in Requests, NEW o, NEW w
    PROVE  Share(q, o, w) \in Nat
  <1>1. life[q].doc.accounted \in Nat /\ Reserved \in Nat
    BY LimitAssumption DEF TypeOK, Items, Docs
  <1> QED
    BY <1>1 DEF Share

LEMMA ShareNaturalNext ==
    ASSUME TypeOK', NEW q \in Requests, NEW o, NEW w
    PROVE  Share(q, o, w)' \in Nat
  <1>1. life'[q].doc.accounted \in Nat /\ Reserved \in Nat
    BY LimitAssumption DEF TypeOK, Items, Docs
  <1> QED
    BY <1>1 DEF Share

\* A step that changes at most the share of q keeps a counter accounted for, if
\* the counter moves by as much.
LEMMA ShareMoves ==
    ASSUME TypeOK, TypeOK', dropped \subseteq dropped',
           NEW o \in Owners, NEW w \in Windows, Accounted(o, w), NEW q \in Requests,
           \A k \in Requests : k # q => Share(k, o, w)' = Share(k, o, w),
           <<o, w>> \notin dropped' =>
               counter'[<<o, w>>] = counter[<<o, w>>] + Share(q, o, w)'
                                                      - Share(q, o, w)
    PROVE  Accounted(o, w)'
  <1> SUFFICES ASSUME <<o, w>> \notin dropped'
               PROVE  /\ IsFiniteSet(Units(Shares(o, w)', Requests))
                      /\ counter'[<<o, w>>] = Total(Shares(o, w)', Requests)
    BY DEF Accounted, Units, UnitsOf, Total
  <1>a. PICK f : f = Shares(o, w)
    OBVIOUS
  <1>b. PICK g : g = Shares(o, w)'
    OBVIOUS
  <1>1. /\ f[q] = Share(q, o, w) /\ g[q] = Share(q, o, w)'
        /\ \A k \in Requests : k # q => f[k] = g[k]
    BY <1>a, <1>b DEF Shares
  <1>2. f[q] \in Nat /\ g[q] \in Nat
    BY <1>1, ShareNatural, ShareNaturalNext
  <1>3. IsFiniteSet(Units(f, Requests)) /\ counter[<<o, w>>] = Total(f, Requests)
    BY <1>a DEF Accounted, Units, UnitsOf, Total
  <1>4. \A k \in Requests : k # q => f[k] = g[k]
    BY <1>1
  <1>5. /\ IsFiniteSet(Units(g, Requests))
        /\ counter[<<o, w>>] - f[q] + g[q] = Total(g, Requests)
    BY <1>2, <1>3, <1>4, TotalFollows
  <1>6. counter[<<o, w>>] \in Int
    BY DEF TypeOK
  <1>7. counter'[<<o, w>>] = Total(g, Requests)
    BY <1>1, <1>2, <1>5, <1>6
  <1> QED
    BY <1>b, <1>5, <1>7 DEF Units, UnitsOf, Total

LEMMA SharesStand ==
    ASSUME TypeOK, TypeOK', dropped \subseteq dropped', AllAccounted,
           UNCHANGED counter,
           \A q \in Requests, o \in Owners, w \in Windows :
               Share(q, o, w)' = Share(q, o, w)
    PROVE  AllAccounted'
  <1> SUFFICES ASSUME NEW o \in Owners, NEW w \in Windows PROVE Accounted(o, w)'
    BY DEF AllAccounted
  <1>1. AnyRequest \in Requests /\ Accounted(o, w)
    BY RequestTypes DEF AllAccounted
  <1>2. /\ Share(AnyRequest, o, w) \in Nat
        /\ Share(AnyRequest, o, w)' = Share(AnyRequest, o, w)
    BY <1>1, ShareNatural
  <1>3. counter[<<o, w>>] \in Int
    BY DEF TypeOK
  <1>4. counter'[<<o, w>>] = counter[<<o, w>>] + Share(AnyRequest, o, w)'
                                               - Share(AnyRequest, o, w)
    BY <1>2, <1>3
  <1> QED
    BY <1>1, <1>2, <1>4, ShareMoves

LEMMA AdmissionAccounted ==
    ASSUME IInv, TypeOK', dropped \subseteq dropped', AllAccounted,
           NEW c \in Calls, NEW pair \in Pairs(RequestOf[c]), Admission(c, pair)
    PROVE  AllAccounted'
  <1> SUFFICES ASSUME NEW o \in Owners, NEW w \in Windows PROVE Accounted(o, w)'
    BY DEF AllAccounted
  <1>a. PICK q : q = RequestOf[c]
    OBVIOUS
  <1>0. q \in Requests /\ TypeOK /\ Accounted(o, w) /\ Reserved \in Nat
    BY <1>a, RequestTypes, LimitAssumption DEF IInv, AllAccounted
  <1>1. /\ life[q].status = "none"
        /\ life'[q].status = "accepted" /\ life'[q].window = proc[c].window
        /\ \A k \in Requests : k # q => life'[k] = life[k]
    BY <1>a, <1>0 DEF Admission, Admit, NoItem, TypeOK
  <1>2. counter'[<<o, w>>] = IF o \in OwnersOf(q) /\ w = proc[c].window
                             THEN counter[<<o, w>>] + Reserved
                             ELSE counter[<<o, w>>]
    BY <1>a DEF Admission, Admit
  <1>3. Share(q, o, w) = 0
    BY <1>1 DEF Share
  <1>4. Share(q, o, w)' = IF o \in OwnersOf(q) /\ w = proc[c].window
                          THEN Reserved ELSE 0
    BY <1>1 DEF Share, Open
  <1>5. \A k \in Requests : k # q => Share(k, o, w)' = Share(k, o, w)
    BY <1>1 DEF Share
  <1>6. counter[<<o, w>>] \in Int
    BY <1>0 DEF TypeOK
  <1>7. counter'[<<o, w>>] = counter[<<o, w>>] + Share(q, o, w)' - Share(q, o, w)
    BY <1>0, <1>2, <1>3, <1>4, <1>6
  <1> QED
    BY <1>0, <1>5, <1>7, ShareMoves

\* A settlement moves every counter that exists from the reservation to the
\* charge: the query was open, and its plan misses no such counter.
LEMMA SettlementAccounted ==
    ASSUME IInv, TypeOK', dropped \subseteq dropped', AllAccounted,
           NEW p \in Procs, Planned(p), Settlement(p)
    PROVE  AllAccounted'
  <1> SUFFICES ASSUME NEW o \in Owners, NEW w \in Windows PROVE Accounted(o, w)'
    BY DEF AllAccounted
  <1>a. PICK q : q = proc[p].work.req
    OBVIOUS
  <1>b. PICK doc : doc = proc[p].doc
    OBVIOUS
  <1>0. /\ q \in Requests /\ TypeOK /\ Accounted(o, w) /\ Reserved \in Nat
        /\ doc \in Docs /\ doc.accounted \in Nat /\ life[q] \in Items
    BY <1>a, <1>b, WorkTypes, LimitAssumption
       DEF IInv, AllAccounted, Docs, TypeOK
  <1>1. life[q].status \in Open
    <2>1. proc[p].pc = "commit" /\ Permitted(p)
      BY DEF Settlement
    <2> QED
      BY <1>a, <2>1, CommitsAdmitted DEF Permitted
  <1>2. /\ life'[q].status = doc.status /\ life'[q].doc = doc
        /\ life'[q].window = life[q].window
        /\ \A k \in Requests : k # q => life'[k] = life[k]
    BY <1>a, <1>b, <1>0 DEF Settlement, Finalize, Finalized, TypeOK, Items
  <1>3. counter'[<<o, w>>] =
            IF o \in proc[p].counted /\ w = life[q].window
            THEN counter[<<o, w>>] - (Reserved - doc.accounted)
            ELSE counter[<<o, w>>]
    BY <1>a, <1>b DEF Settlement, Finalize, Refund
  <1>4. /\ o \in proc[p].counted => o \in OwnersOf(q)
        /\ (o \in OwnersOf(q) /\ <<o, life[q].window>> \notin dropped)
              => o \in proc[p].counted
    BY <1>a DEF Planned, Settlement
  <1>5. Share(q, o, w) = IF o \in OwnersOf(q) /\ w = life[q].window
                         THEN Reserved ELSE 0
    BY <1>1 DEF Share, Open
  <1>6. Share(q, o, w)' = IF o \in OwnersOf(q) /\ w = life[q].window
                          THEN doc.accounted ELSE 0
    <2>1. doc.status # "none" /\ doc.status \notin Open
      BY <1>0 DEF Docs, Open, Terminal
    <2> QED
      BY <1>2, <2>1 DEF Share
  <1>7. \A k \in Requests : k # q => Share(k, o, w)' = Share(k, o, w)
    BY <1>2 DEF Share
  <1>8. counter[<<o, w>>] \in Int
    BY <1>0 DEF TypeOK
  <1>9. <<o, w>> \notin dropped' =>
            counter'[<<o, w>>] = counter[<<o, w>>] + Share(q, o, w)' - Share(q, o, w)
    <2> SUFFICES ASSUME <<o, w>> \notin dropped
                 PROVE  counter'[<<o, w>>] = counter[<<o, w>>] + Share(q, o, w)'
                                                               - Share(q, o, w)
      OBVIOUS
    <2>1. CASE o \in OwnersOf(q) /\ w = life[q].window
      BY <1>0, <1>3, <1>4, <1>5, <1>6, <1>8, <2>1
    <2>2. CASE ~(o \in OwnersOf(q) /\ w = life[q].window)
      BY <1>0, <1>3, <1>4, <1>5, <1>6, <1>8, <2>2
    <2> QED
      BY <2>1, <2>2
  <1> QED
    BY <1>0, <1>7, <1>9, ShareMoves

LEMMA AccountedStep ==
    ASSUME IInv, \A p \in Procs : Planned(p), AllAccounted, Next
    PROVE  AllAccounted'
  <1>0. TypeOK /\ TypeOK' /\ dropped \subseteq dropped'
    BY StepInv, DroppedGrows DEF IInv
  <1>1. ASSUME NEW c \in Calls, NEW pair \in Pairs(RequestOf[c]), Admission(c, pair)
        PROVE  AllAccounted'
    BY <1>0, <1>1, AdmissionAccounted
  <1>2. ASSUME NEW p \in Procs, Settlement(p) PROVE AllAccounted'
    BY <1>0, <1>2, SettlementAccounted
  \* Every other step keeps what a share is made of.
  <1>3. ASSUME UNCHANGED counter,
               \A q \in Requests :
                  /\ life'[q].window = life[q].window
                  /\ life'[q].doc = life[q].doc
                  /\ \/ life'[q].status = life[q].status
                     \/ life[q].status \in Open /\ life'[q].status \in Open
        PROVE  AllAccounted'
    <2>1. ASSUME NEW q \in Requests, NEW o \in Owners, NEW w \in Windows
          PROVE  Share(q, o, w)' = Share(q, o, w)
      BY <1>3 DEF Share, Open
    <2> QED
      BY <1>0, <1>3, <2>1, SharesStand
  <1>4. CASE Nothing
    BY <1>3, <1>4 DEF Nothing, Kept
  <1>5. ASSUME NEW p \in Procs, Recording(p) PROVE AllAccounted'
    BY <1>3, <1>5 DEF Recording
  <1>6. ASSUME NEW p \in Procs, Acknowledgement(p) PROVE AllAccounted'
    <2>1. \A q \in Requests : /\ life'[q].window = life[q].window
                              /\ life'[q].doc = life[q].doc
                              /\ life'[q].status = life[q].status
      BY <1>0, <1>6 DEF Acknowledgement, TypeOK, Items
    <2> QED
      BY <1>3, <1>6, <2>1 DEF Acknowledgement
  <1> QED
    BY <1>1, <1>2, <1>4, <1>5, <1>6, Effects

\* While a counter exists it is the sum of the reservations of open queries and
\* of the charges of settled ones, for each owner and window: although calls and
\* reconcilers race to settle, refunds skip counters that time has removed, and
\* a settlement's plan may be older than its transaction.
THEOREM BytesConserved == Spec => []Conservation
  <1>1. Init => (\A p \in Procs : Planned(p)) /\ AllAccounted
    <2> SUFFICES ASSUME Init
                 PROVE  (\A p \in Procs : Planned(p)) /\ AllAccounted
      OBVIOUS
    <2>1. ASSUME NEW p \in Procs PROVE Planned(p)
      BY DEF Init, Planned, Idle
    <2>2. ASSUME NEW o \in Owners, NEW w \in Windows PROVE Accounted(o, w)
      <3>1. \A q \in Requests : Share(q, o, w) = 0
        BY DEF Init, Share, NoItem
      <3>2. Units(Shares(o, w), Requests) = {}
        BY <3>1 DEF Units, UnitsOf, Shares
      <3>3. IsFiniteSet(Units(Shares(o, w), Requests)) /\ Total(Shares(o, w), Requests) = 0
        BY <3>2, FS_EmptySet DEF Total
      <3> QED
        BY <3>3 DEF Init, Accounted
    <2> QED
      BY <2>1, <2>2 DEF AllAccounted
  <1>2. IInv /\ (\A p \in Procs : Planned(p)) /\ AllAccounted /\ [Next]_vars
            => ((\A p \in Procs : Planned(p)) /\ AllAccounted)'
    <2> SUFFICES ASSUME IInv, \A p \in Procs : Planned(p), AllAccounted, [Next]_vars
                 PROVE  (\A p \in Procs : Planned(p)') /\ AllAccounted'
      OBVIOUS
    <2>1. CASE Next
      BY <2>1, PlannedStep, AccountedStep
    <2>2. CASE UNCHANGED vars
      <3>1. /\ TypeOK /\ TypeOK' /\ dropped' = dropped /\ counter' = counter
            /\ life' = life /\ proc' = proc
        BY <2>2, StutterInv DEF IInv, vars, store
      <3>2. \A p \in Procs : Planned(p)'
        BY <3>1 DEF Planned
      <3>3. \A q \in Requests, o \in Owners, w \in Windows :
                Share(q, o, w)' = Share(q, o, w)
        BY <3>1 DEF Share
      <3> QED
        BY <3>1, <3>2, <3>3, SharesStand
    <2> QED
      BY <2>1, <2>2
  <1>3. AllAccounted => Conservation
    BY DEF AllAccounted, Accounted, Conservation
  <1> QED
    BY <1>1, <1>2, <1>3, Inductive, PTL DEF Spec

-----------------------------------------------------------------------------
(* The lifecycle implements its contract                                   *)

\* One request changes its stage, the others keep theirs.
LEMMA StageChange ==
    ASSUME IInv, NEW k \in Requests, \A q \in Requests : q # k => life'[q] = life[q]
    PROVE  /\ [q \in Requests |-> Stage(q)]'
                 = [[q \in Requests |-> Stage(q)] EXCEPT ![k] = Stage(k)']
           /\ [q \in Requests |-> life[q].doc]'
                 = [[q \in Requests |-> life[q].doc] EXCEPT ![k] = life'[k].doc]
  <1>1. \A q \in Requests : q # k => Stage(q)' = Stage(q)
    BY DEF Stage
  <1> QED
    BY <1>1

LEMMA ContractStep ==
    ASSUME IInv, [Next]_vars
    PROVE  [Contract!Next]_(Contract!contractVars)
  <1>0. /\ life \in [Requests -> Items]
        /\ \A q \in Requests : life[q] \in Items /\ ItemInv(q)
    BY DEF IInv, TypeOK
  <1>1. CASE UNCHANGED vars \/ Nothing
    <2>1. \A q \in Requests : Stage(q)' = Stage(q) /\ life'[q].doc = life[q].doc
      BY <1>1 DEF Nothing, Kept, Stage, Open, vars, store
    <2> QED
      BY <1>1, <2>1 DEF Contract!contractVars, Nothing, vars, store
  <1>2. ASSUME NEW c \in Calls, NEW pair \in Pairs(RequestOf[c]), Admission(c, pair)
        PROVE  Contract!Next
    <2> DEFINE k == RequestOf[c]
    <2>1. /\ k \in Requests
          /\ Stage(k) = "new" /\ Stage(k)' = "open"
          /\ life'[k].doc = life[k].doc
          /\ \A q \in Requests : q # k => life'[q] = life[q]
      BY <1>0, <1>2, RequestTypes
         DEF Admission, Admit, NoItem, Stage, Open, ItemInv, Terminal
    <2>2. Contract!Admit(k)
      BY <1>2, <2>1, StageChange DEF Contract!Admit, Admission
    <2> QED
      BY <2>1, <2>2 DEF Contract!Next
  <1>3. ASSUME NEW p \in Procs, Settlement(p)
        PROVE  Contract!Next
    <2>0. proc[p].work.req \in Requests /\ proc[p].doc \in Docs
      BY WorkTypes DEF IInv
    <2>k. PICK k \in Requests, doc \in Docs :
             k = proc[p].work.req /\ doc = proc[p].doc
      BY <2>0
    <2>1. doc.status \in Terminal
      BY DEF Docs
    <2>2. life[k].status \in Open
      <3>1. CASE p \in Calls
        BY <1>3, <2>k, <3>1 DEF Settlement, Permitted
      <3>2. CASE p \in Reconcilers
        BY <1>3, <2>k, <3>2, QueryAssumption
           DEF Settlement, Permitted, IInv, ProcInv, ReconcilerInv, Settling, Procs
      <3> QED
        BY <3>1, <3>2 DEF Procs
    <2>3. /\ Stage(k) = "open" /\ Stage(k)' = "settled"
          /\ life'[k].doc = doc
          /\ \A q \in Requests : q # k => life'[q] = life[q]
      BY <1>0, <1>3, <2>k, <2>1, <2>2
         DEF Settlement, Finalize, Finalized, Stage, Open, Terminal, Items
    <2>4. Contract!Settle(k, doc)
      BY <1>3, <2>1, <2>3, StageChange DEF Contract!Settle, Settlement
    <2> QED
      BY <2>1, <2>4 DEF Contract!Next
  <1>4. ASSUME NEW p \in Procs, Recording(p)
        PROVE  Contract!Next
    <2>0. proc[p].work.req \in Requests
      BY WorkTypes DEF IInv
    <2>k. PICK k \in Requests : k = proc[p].work.req
      BY <2>0
    <2>1. Settled(k, proc[p].doc)
      BY <1>4, <2>k, WorkTypes DEF IInv, ProcInv, WorkInv, Recording
    <2>2. Stage(k) \in {"settled", "closed"}
      BY <2>1 DEF Settled, Stage, Terminal, Open
    <2>3. audited' = [audited EXCEPT ![k] = @ \cup {life[k].doc}]
      BY <1>4, <2>k, <2>1 DEF Recording, Append, Settled
    <2>4. \A q \in Requests : Stage(q)' = Stage(q) /\ life'[q].doc = life[q].doc
      BY <1>4 DEF Recording, Stage
    <2>5. Contract!Record(k)
      BY <2>1, <2>2, <2>3, <2>4 DEF Contract!Record
    <2> QED
      BY <2>1, <2>5 DEF Contract!Next
  <1>5. ASSUME NEW p \in Procs, Acknowledgement(p)
        PROVE  Contract!Next
    <2>0. proc[p].work.req \in Requests
      BY WorkTypes DEF IInv
    <2>k. PICK k \in Requests : k = proc[p].work.req
      BY <2>0
    <2>1. /\ Settled(k, proc[p].doc)
          /\ proc[p].doc \in audited[k]
      BY <1>5, <2>k, WorkTypes DEF IInv, ProcInv, WorkInv, Acknowledgement
    <2>2. /\ life'[k].status = life[k].status
          /\ life'[k].doc = life[k].doc
          /\ life[k].pending /\ ~life'[k].pending
          /\ \A q \in Requests : q # k => life'[q] = life[q]
      BY <1>0, <1>5, <2>k, <2>1 DEF Acknowledgement, Items
    <2>3. Stage(k) = "settled" /\ Stage(k)' = "closed"
      BY <2>1, <2>2 DEF Stage, Settled, Terminal, Open
    <2>4. life[k].doc \in audited[k] /\ UNCHANGED audited
      BY <1>5, <2>1 DEF Settled, Acknowledgement
    <2>5. Contract!Close(k)
      BY <2>1, <2>2, <2>3, <2>4, StageChange DEF Contract!Close
    <2> QED
      BY <2>1, <2>5 DEF Contract!Next
  <1> QED
    BY <1>1, <1>2, <1>3, <1>4, <1>5, Effects

\* Whoever settles, audits and acknowledges a query, and however often each is
\* tried again: the query is admitted and settled once, every QUERY_RESULT record
\* states the outcome that is stored, and the pending mark goes after one of them.
THEOREM ImplementsContract == Spec => ContractSpec
  <1>1. Init => Contract!Init
    <2>1. Init => \A q \in Requests : Stage(q) = "new" /\ life[q].doc = NoDoc
      BY DEF Init, NoItem, Stage, Open
    <2> QED
      BY <2>1 DEF Init, Contract!Init
  <1>2. IInv /\ [Next]_vars => [Contract!Next]_(Contract!contractVars)
    BY ContractStep
  <1> QED
    BY <1>1, <1>2, Inductive, PTL DEF Spec, ContractSpec, Contract!Spec
=============================================================================
