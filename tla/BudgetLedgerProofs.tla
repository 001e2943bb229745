------------------------- MODULE BudgetLedgerProofs -------------------------
(***************************************************************************)
(* Proofs about BudgetLedger, for every set of requests, sweeps and        *)
(* counters, every limit, estimate and price, and every bound.             *)
(***************************************************************************)
EXTENDS BudgetLedger, AmountLemmas, TLAPS

LEMMA CostsAreNaturals == Costs \subseteq Nat /\ 0 \in Costs
  BY AmountAssumption

Outcomes == Ended \cup {"admitted"}

LEMMA IdleType ==
    /\ AnyRequest \in Requests
    /\ \A r \in Requests : Idle(r) \in Locals
  <1>1. AnyRequest \in Requests
    BY RequestsAssumption DEF AnyRequest
  <1>2. ASSUME NEW r \in Requests PROVE Idle(r) \in Locals
    BY CostsAreNaturals DEF Idle, Locals
  <1> QED
    BY <1>1, <1>2

\* Returning leaves a well-typed process, whatever it was doing.
LEMMA ReturnType ==
    ASSUME TypeOK, NEW p \in Procs, NEW outcome \in Outcomes, Return(p, outcome)
    PROVE  proc' \in [Procs -> Locals]
  <1> DEFINE next == IF p \in Cleaners
                     THEN [Idle(AnyRequest) EXCEPT !.pc = "sweeping", !.todo = proc[p].todo]
                     ELSE [Idle(p) EXCEPT !.pc = outcome, !.cost = proc[p].cost]
  <1>1. proc[p] \in Locals
    BY DEF TypeOK
  <1>2. next \in Locals
    <2>1. CASE p \in Cleaners
      BY <1>1, <2>1, IdleType DEF Locals
    <2>2. CASE p \notin Cleaners
      <3>1. p \in Requests
        BY <2>2 DEF Procs
      <3> QED
        BY <1>1, <2>2, <3>1, IdleType DEF Locals, Outcomes
    <2> QED
      BY <2>1, <2>2
  <1>3. proc' = [proc EXCEPT ![p] = next]
    BY DEF Return
  <1> QED
    BY <1>2, <1>3 DEF TypeOK

LEMMA GotoType ==
    ASSUME TypeOK, NEW p \in Procs,
           NEW label \in Reserving \cup Finalizing, Goto(p, label)
    PROVE  proc' \in [Procs -> Locals]
  <1> DEFINE next == [proc[p] EXCEPT !.pc = label]
  <1>1. proc[p] \in Locals
    BY DEF TypeOK
  <1>2. next \in Locals
    BY <1>1 DEF Locals
  <1>3. proc' = [proc EXCEPT ![p] = next]
    BY DEF Goto
  <1> QED
    BY <1>2, <1>3 DEF TypeOK

LEMMA ReadType ==
    ASSUME TypeOK, NEW p \in Procs, NEW c, NEW total,
           c \in Counters => total \in Int,
           NEW label \in Reserving \cup Finalizing, ReadCounter(p, c, total, label)
    PROVE  proc' \in [Procs -> Locals]
  <1>1. proc[p] \in Locals
    BY DEF TypeOK
  <1> DEFINE next == [proc[p] EXCEPT
                !.unread = @ \ {c},
                !.seenEpoch[c] = epoch[c],
                !.seenSpend[c] = total,
                !.pc = IF proc[p].unread = {c} THEN label ELSE @]
  <1>2. next \in Locals
    BY <1>1 DEF TypeOK, Locals
  <1>3. proc' = [proc EXCEPT ![p] = next]
    BY DEF ReadCounter
  <1> QED
    BY <1>2, <1>3 DEF TypeOK

\* A step that only changes process-local state keeps the types.
LEMMA LocalStepType ==
    ASSUME TypeOK, UNCHANGED <<items, history>>, proc' \in [Procs -> Locals]
    PROVE  TypeOK'
  BY DEF TypeOK, items, history

LEMMA CrossedType ==
    ASSUME TypeOK, NEW p \in Procs
    PROVE  Crossed(p) \subseteq AlertKeys
  <1> DEFINE r == proc[p].req
  <1>1. r \in Requests
    BY DEF TypeOK, Locals
  <1>2. marker[r].epochs \in [Counters -> Nat]
    BY <1>1 DEF TypeOK, Markers
  <1>3. Current(p) \subseteq Counters
    BY <1>1, RequestsAssumption DEF Current
  <1> QED
    BY <1>2, <1>3 DEF Crossed, AlertKeys

LEMMA ReserveTypeStep ==
    ASSUME TypeOK, NEW r \in Requests, Reserve(r)
    PROVE  TypeOK'
  <1> r \in Procs
    BY DEF Procs
  <1>0. /\ proc[r] \in Locals
        /\ CountersOf[r] \in SUBSET Counters
        /\ Amount[r] \in Nat
        /\ Amount[r] \in Costs
    BY RequestsAssumption, AmountAssumption DEF TypeOK
  <1>1. CASE BeginReserve(r)
    <2>1. CASE Return(r, "denied")
      BY <1>1, <2>1, ReturnType, LocalStepType DEF BeginReserve, Outcomes, Ended
    <2>2. CASE ~ \E c \in CountersOf[r] : Amount[r] > Limit[c]
      <3> DEFINE next == [proc[r] EXCEPT !.pc = "reading", !.tries = 1,
                                         !.unread = CountersOf[r]]
      <3>1. next \in Locals
        BY <1>0 DEF Locals, Reserving
      <3>2. proc' = [proc EXCEPT ![r] = next]
        BY <1>1, <2>2 DEF BeginReserve
      <3>3. proc' \in [Procs -> Locals]
        BY <3>1, <3>2 DEF TypeOK
      <3> QED
        BY <1>1, <3>3, LocalStepType DEF BeginReserve
    <2> QED
      BY <1>1, <2>1, <2>2 DEF BeginReserve
  <1>2. CASE ReserveRead(r)
    <2>1. PICK c : ReadCounter(r, c, 0, "reserve")
      BY <1>2 DEF ReserveRead
    <2>2. 0 \in Int /\ "reserve" \in Reserving \cup Finalizing
      BY DEF Reserving
    <2>3. proc' \in [Procs -> Locals]
      BY <2>1, <2>2, ReadType
    <2> QED
      BY <1>2, <2>3, LocalStepType DEF ReserveRead
  <1>3. CASE ReserveCommit(r)
    <2> DEFINE m == [NoMarker EXCEPT
                        !.state = "reserved", !.settlement = Amount[r],
                        !.epochs = [c \in Counters |->
                            IF c \in CountersOf[r] THEN proc[r].seenEpoch[c] ELSE 0]]
    <2>1. proc' \in [Procs -> Locals]
      BY <1>3, ReturnType, GotoType DEF ReserveCommit, Outcomes, Ended, Reserving
    <2>2. m \in Markers
      BY <1>0, CostsAreNaturals DEF NoMarker, Markers, Locals
    <2>3. marker' \in [Requests -> Markers]
      BY <1>3, <2>2 DEF ReserveCommit, TypeOK
    <2>4. spend' \in [Counters -> Int]
      BY <1>0, <1>3 DEF ReserveCommit, TypeOK
    <2> QED
      BY <1>3, <2>1, <2>3, <2>4 DEF ReserveCommit, TypeOK, history
  <1>4. CASE ReserveRefused(r)
    <2> DEFINE next == [proc[r] EXCEPT !.pc = "checkReserve",
                            !.refused = \E c \in CountersOf[r] : ~Fits(r, c)]
    <2>1. next \in Locals
      BY <1>0 DEF Locals, Reserving
    <2>2. proc' = [proc EXCEPT ![r] = next]
      BY <1>4 DEF ReserveRefused
    <2>3. proc' \in [Procs -> Locals]
      BY <2>1, <2>2 DEF TypeOK
    <2> QED
      BY <1>4, <2>3, LocalStepType DEF ReserveRefused
  <1>5. CASE ReserveCheck(r)
    <2> DEFINE next == [Idle(r) EXCEPT !.pc = "reading", !.unread = CountersOf[r],
                                       !.tries = proc[r].tries + 1]
    <2>1. CASE proc' = [proc EXCEPT ![r] = next]
      <3> HIDE DEF next
      <3>1. next \in Locals
        <4>1. proc[r].tries + 1 \in Nat
          BY <1>0 DEF Locals
        <4>2. Idle(r) \in Locals
          BY IdleType
        <4> QED
          BY <1>0, <4>1, <4>2 DEF next, Locals, Reserving
      <3>2. proc' \in [Procs -> Locals]
        BY <2>1, <3>1 DEF TypeOK
      <3> QED
        BY <1>5, <3>2, LocalStepType DEF ReserveCheck
    <2>2. CASE \E outcome \in Outcomes : Return(r, outcome)
      BY <1>5, <2>2, ReturnType, LocalStepType DEF ReserveCheck
    <2> QED
      BY <1>5, <2>1, <2>2 DEF ReserveCheck, Outcomes, Ended
  <1> QED
    BY <1>1, <1>2, <1>3, <1>4, <1>5 DEF Reserve

LEMMA FinalizeTypeStep ==
    ASSUME TypeOK, NEW p \in Procs, Finalize(p)
    PROVE  TypeOK'
  <1> DEFINE r == proc[p].req
  <1>0. /\ proc[p] \in Locals
        /\ r \in Requests
        /\ marker[r] \in Markers
        /\ CountersOf[r] \in SUBSET Counters
        /\ Amount[r] \in Nat
        /\ proc[p].cost \in Nat
        /\ Delta(p) \in Int
    <2>1. proc[p] \in Locals
      BY DEF TypeOK
    <2>2. r \in Requests /\ proc[p].cost \in Nat
      <3>1. r \in Requests /\ proc[p].cost \in Costs
        BY <2>1 DEF Locals
      <3> QED
        BY <3>1, CostsAreNaturals
    <2>3. marker[r] \in Markers /\ CountersOf[r] \in SUBSET Counters /\ Amount[r] \in Nat
      BY <2>2, RequestsAssumption, AmountAssumption DEF TypeOK
    <2> QED
      BY <2>1, <2>2, <2>3 DEF Delta
  <1>1. ASSUME \E outcome \in Outcomes : Return(p, outcome), UNCHANGED <<items, history>>
        PROVE  TypeOK'
    BY <1>1, ReturnType, LocalStepType
  <1>2. ASSUME NEW label \in Finalizing, Goto(p, label), UNCHANGED <<items, history>>
        PROVE  TypeOK'
    BY <1>2, GotoType, LocalStepType
  <1>3. CASE FinalizeReadMarker(p)
    BY <1>1, <1>2, <1>3 DEF FinalizeReadMarker, Outcomes, Ended, Finalizing
  <1>4. CASE RecordIntent(p)
    <2> DEFINE next == [proc[p] EXCEPT !.pc = "refresh", !.tries = 1,
                                       !.unread = CountersOf[r]]
    <2>1. next \in Locals
      BY <1>0 DEF Locals, Finalizing
    <2>2. ASSUME proc' = [proc EXCEPT ![p] = next] PROVE proc' \in [Procs -> Locals]
      BY <2>1, <2>2 DEF TypeOK
    <2>3. ASSUME Goto(p, "checkIntent") PROVE proc' \in [Procs -> Locals]
      BY <2>3, GotoType DEF Finalizing
    <2>4. proc' \in [Procs -> Locals]
      BY <1>4, <2>2, <2>3 DEF RecordIntent
    <2> DEFINE m == [marker[r] EXCEPT !.settlement = proc[p].cost, !.reported = TRUE]
    <2>5. m \in Markers
      BY <1>0 DEF Markers, Locals
    <2>6. marker' = [marker EXCEPT ![r] = m]
      BY <1>4 DEF RecordIntent
    <2>7. marker' \in [Requests -> Markers]
      BY <2>5, <2>6 DEF TypeOK
    <2> QED
      BY <1>4, <2>4, <2>7 DEF RecordIntent, TypeOK, history
  <1>5. CASE IntentRefused(p)
    BY <1>2, <1>5 DEF IntentRefused, Finalizing
  <1>6. CASE IntentCheck(p)
    BY <1>1, <1>6 DEF IntentCheck, Outcomes, Ended
  <1>7. CASE FinalizeRead(p)
    <2>1. PICK c : ReadCounter(p, c, IF c \in QuotaCounters THEN spend[c] ELSE 0, "plan")
      BY <1>7 DEF FinalizeRead
    <2>2. PICK total : /\ total = IF c \in QuotaCounters THEN spend[c] ELSE 0
                       /\ ReadCounter(p, c, total, "plan")
      BY <2>1
    <2>3. (c \in Counters => total \in Int) /\ "plan" \in Reserving \cup Finalizing
      BY <2>2 DEF Finalizing, TypeOK
    <2>4. proc' \in [Procs -> Locals]
      BY <2>2, <2>3, ReadType
    <2> QED
      BY <1>7, <2>4, LocalStepType DEF FinalizeRead
  <1>8. CASE FinalizePlan(p)
    <2>1. CASE Return(p, "failed")
      BY <1>1, <1>8, <2>1 DEF FinalizePlan, Outcomes, Ended
    <2>2. CASE ~Return(p, "failed")
      <3> DEFINE next == [proc[p] EXCEPT !.pc = "commit",
                                         !.seenSpend = [c \in Counters |-> 0],
                                         !.due = Crossed(p) \ alerts]
      <3>0. PICK due \in SUBSET AlertKeys : due = Crossed(p) \ alerts
        BY CrossedType
      <3>1. next \in Locals
        <4>1. next = [proc[p] EXCEPT !.pc = "commit",
                                     !.seenSpend = [c \in Counters |-> 0], !.due = due]
          BY <3>0
        <4>2. [c \in Counters |-> 0] \in [Counters -> Int]
          OBVIOUS
        <4> QED
          BY <1>0, <4>1, <4>2 DEF Locals, Finalizing
      <3>2. proc' = [proc EXCEPT ![p] = next]
        BY <1>8, <2>2 DEF FinalizePlan
      <3>3. proc' \in [Procs -> Locals]
        BY <3>1, <3>2 DEF TypeOK
      <3> QED
        BY <1>8, <3>3, LocalStepType DEF FinalizePlan
    <2> QED
      BY <2>1, <2>2
  <1>9. CASE FinalizeCommit(p)
    <2>1. proc' \in [Procs -> Locals]
      BY <1>9, GotoType DEF FinalizeCommit, Finalizing
    <2> DEFINE m == [marker[r] EXCEPT !.state = "finalized",
                                      !.actual = proc[p].cost, !.expired = FALSE]
    <2>2. m \in Markers
      BY <1>0 DEF Markers, Locals
    <2>3. marker' = [marker EXCEPT ![r] = m]
      BY <1>9 DEF FinalizeCommit
    <2>4. marker' \in [Requests -> Markers]
      BY <2>2, <2>3 DEF TypeOK
    <2>5. spend' \in [Counters -> Int] /\ overrun' \in [Counters -> Nat]
      BY <1>0, <1>9 DEF FinalizeCommit, TypeOK
    <2>6. alerts' \in SUBSET AlertKeys
      BY <1>0, <1>9 DEF FinalizeCommit, TypeOK, Locals
    <2> QED
      BY <1>9, <2>1, <2>4, <2>5, <2>6 DEF FinalizeCommit, TypeOK
  <1>10. CASE FinalizeRefused(p)
    <2> DEFINE next == [proc[p] EXCEPT !.pc = "checkCommit",
                                       !.clash = proc[p].due \cap alerts # {}]
    <2>1. next \in Locals
      BY <1>0 DEF Locals, Finalizing
    <2>2. proc' = [proc EXCEPT ![p] = next]
      BY <1>10 DEF FinalizeRefused
    <2>3. proc' \in [Procs -> Locals]
      BY <2>1, <2>2 DEF TypeOK
    <2> QED
      BY <1>10, <2>3, LocalStepType DEF FinalizeRefused
  <1>11. CASE FinalizeCheck(p)
    <2> DEFINE next == [proc[p] EXCEPT !.pc = "refresh", !.unread = CountersOf[r],
                                       !.tries = @ + 1, !.due = {}, !.clash = FALSE]
    <2>0. proc[p].tries + 1 \in Nat
      BY <1>0 DEF Locals
    <2>1. next \in Locals
      BY <1>0, <2>0 DEF Locals, Finalizing
    <2>2. CASE proc' = [proc EXCEPT ![p] = next]
      <3>1. proc' \in [Procs -> Locals]
        BY <2>1, <2>2 DEF TypeOK
      <3> QED
        BY <1>11, <3>1, LocalStepType DEF FinalizeCheck
    <2>3. CASE \E outcome \in Outcomes : Return(p, outcome)
      BY <1>1, <1>11, <2>3 DEF FinalizeCheck
    <2> QED
      BY <1>11, <2>2, <2>3 DEF FinalizeCheck, Outcomes, Ended
  <1>12. CASE FinalizeReply(p)
    <2>1. proc' \in [Procs -> Locals]
      BY <1>12, ReturnType DEF FinalizeReply, Outcomes, Ended
    <2>2. returned' \in [QuotaCounters \X (0..MaxEpoch) \X Thresholds -> Nat]
      BY <1>12 DEF FinalizeReply, TypeOK
    <2> QED
      BY <1>12, <2>1, <2>2 DEF FinalizeReply, TypeOK, items
  <1> QED
    BY <1>3, <1>4, <1>5, <1>6, <1>7, <1>8, <1>9, <1>10, <1>11, <1>12 DEF Finalize

LEMMA SweepTypeStep ==
    ASSUME TypeOK, NEW k \in Cleaners,
           SweepNext(k) \/ \E c \in Counters : BeginSweep(k, c)
    PROVE  TypeOK'
  <1>0. k \in Procs /\ proc[k] \in Locals
    BY DEF TypeOK, Procs
  <1>1. ASSUME NEW next \in Locals, proc' = [proc EXCEPT ![k] = next],
               UNCHANGED <<items, history>>
        PROVE  TypeOK'
    <2>1. proc' \in [Procs -> Locals]
      BY <1>1 DEF TypeOK
    <2> QED
      BY <1>1, <2>1, LocalStepType
  <1>2. CASE \E c \in Counters : BeginSweep(k, c)
    <2>1. PICK c \in Counters : BeginSweep(k, c)
      BY <1>2
    <2>2. \A r \in Requests : SweptAt(r) \in Costs
      BY DEF SweptAt, TypeOK, Markers
    <2>3. PICK todo \in SUBSET (Requests \X Costs) :
             todo = {<<r, SweptAt(r)>> : r \in Stale(c)}
      <3>1. Stale(c) \subseteq Requests
        BY DEF Stale
      <3>2. {<<r, SweptAt(r)>> : r \in Stale(c)} \in SUBSET (Requests \X Costs)
        BY <2>2, <3>1
      <3> QED
        BY <3>2
    <2> DEFINE next == [proc[k] EXCEPT !.pc = "sweeping", !.todo = todo]
    <2>4. next \in Locals
      BY <1>0 DEF Locals
    <2>5. proc' = [proc EXCEPT ![k] = next]
      BY <2>1, <2>3 DEF BeginSweep
    <2> QED
      BY <1>1, <2>1, <2>4, <2>5 DEF BeginSweep
  <1>3. CASE SweepNext(k)
    <2>1. CASE proc' = [proc EXCEPT ![k] = Idle(AnyRequest)]
      BY <1>1, <1>3, <2>1, IdleType DEF SweepNext
    <2>2. ASSUME NEW job \in proc[k].todo,
                 proc' = [proc EXCEPT ![k].pc = "finalize", ![k].req = job[1],
                                      ![k].cost = job[2], ![k].todo = @ \ {job}]
          PROVE  TypeOK'
      <3>1. job[1] \in Requests /\ job[2] \in Costs
        BY <1>0 DEF Locals
      <3> DEFINE next == [proc[k] EXCEPT !.pc = "finalize", !.req = job[1],
                                         !.cost = job[2], !.todo = @ \ {job}]
      <3>2. next \in Locals
        BY <1>0, <3>1 DEF Locals, Finalizing
      <3>3. proc' = [proc EXCEPT ![k] = next]
        BY <2>2
      <3> QED
        BY <1>1, <1>3, <3>2, <3>3 DEF SweepNext
    <2> QED
      BY <1>3, <2>1, <2>2 DEF SweepNext
  <1> QED
    BY <1>2, <1>3

LEMMA FaultTypeStep ==
    ASSUME TypeOK, NEW p \in Procs, CallRaises(p) \/ Crash(p)
    PROVE  TypeOK'
  <1>0. proc[p] \in Locals
    BY DEF TypeOK
  <1>1. CASE CallRaises(p)
    <2>1. proc' \in [Procs -> Locals]
      BY <1>1, ReturnType, GotoType
         DEF CallRaises, Outcomes, Ended, Reserving, Finalizing
    <2> QED
      BY <1>1, <2>1, LocalStepType DEF CallRaises
  <1>2. CASE Crash(p)
    <2> DEFINE next == IF p \in Cleaners THEN Idle(AnyRequest)
                       ELSE [Idle(p) EXCEPT !.pc = "crashed"]
    <2>1. next \in Locals
      <3>1. CASE p \in Cleaners
        BY <3>1, IdleType
      <3>2. CASE p \notin Cleaners
        BY <3>2, IdleType DEF Locals, Ended, Procs
      <3> QED
        BY <3>1, <3>2
    <2>2. proc' = [proc EXCEPT ![p] = next]
      BY <1>2 DEF Crash
    <2>3. proc' \in [Procs -> Locals]
      BY <2>1, <2>2 DEF TypeOK
    <2> QED
      BY <1>2, <2>3, LocalStepType DEF Crash
  <1> QED
    BY <1>1, <1>2

LEMMA TypeStep ==
    ASSUME TypeOK, [Next]_vars
    PROVE  TypeOK'
  <1>1. ASSUME NEW r \in Requests, NEW cost \in Costs, BeginFinalize(r, cost)
        PROVE  TypeOK'
    <2> DEFINE next == [proc[r] EXCEPT !.pc = "finalize", !.cost = cost]
    <2>0. r \in Procs /\ proc[r] \in Locals
      BY DEF TypeOK, Procs
    <2>1. next \in Locals
      BY <2>0 DEF Locals, Finalizing
    <2>2. proc' = [proc EXCEPT ![r] = next]
      BY <1>1 DEF BeginFinalize
    <2>3. proc' \in [Procs -> Locals]
      BY <2>1, <2>2 DEF TypeOK
    <2> QED
      BY <1>1, <2>3, LocalStepType DEF BeginFinalize
  <1>2. ASSUME NEW r \in Requests, LeaseExpires(r)
        PROVE  TypeOK'
    <2>1. [marker[r] EXCEPT !.expired = TRUE] \in Markers
      BY DEF TypeOK, Markers
    <2>2. marker' = [marker EXCEPT ![r] = [marker[r] EXCEPT !.expired = TRUE]]
      BY <1>2 DEF LeaseExpires
    <2>3. marker' \in [Requests -> Markers]
      BY <2>1, <2>2 DEF TypeOK
    <2> QED
      BY <1>2, <2>3 DEF LeaseExpires, TypeOK, history
  <1>3. ASSUME NEW c \in Counters, NEW cost \in Costs, AddSpend(c, cost)
        PROVE  TypeOK'
    <2>1. cost \in Nat
      BY CostsAreNaturals
    <2> QED
      BY <1>3, <2>1 DEF AddSpend, TypeOK
  <1>4. ASSUME NEW group \in ResetGroups, ResetSpend(group)
        PROVE  TypeOK'
    BY <1>4 DEF ResetSpend, TypeOK
  <1>5. CASE UNCHANGED vars
    BY <1>5, LocalStepType DEF vars, TypeOK
  <1> QED
    BY <1>1, <1>2, <1>3, <1>4, <1>5, ReserveTypeStep, FinalizeTypeStep,
       SweepTypeStep, FaultTypeStep DEF Next

\* Every item of the table and every local variable keeps its type.
THEOREM TypeCorrect == Spec => []TypeOK
  <1>1. Init => TypeOK
    <2> SUFFICES ASSUME Init PROVE TypeOK
      OBVIOUS
    <2>1. NoMarker \in Markers
      BY CostsAreNaturals DEF NoMarker, Markers
    <2>2. proc \in [Procs -> Locals]
      BY IdleType DEF Init, Procs
    <2> QED
      BY <2>1, <2>2 DEF Init, TypeOK
  <1>2. TypeOK /\ [Next]_vars => TypeOK'
    BY TypeStep
  <1> QED
    BY <1>1, <1>2, PTL DEF Spec

-----------------------------------------------------------------------------
(* The limits                                                              *)

\* What every process may rely on when it settles r = proc[p].req.
LEMMA SettlementFacts ==
    ASSUME TypeOK, NEW p \in Procs
    PROVE  /\ proc[p] \in Locals
           /\ proc[p].req \in Requests
           /\ marker[proc[p].req] \in Markers
           /\ CountersOf[proc[p].req] \in SUBSET Counters
           /\ Amount[proc[p].req] \in Nat
           /\ proc[p].cost \in Nat
           /\ proc[p].cost \in Costs
           /\ Delta(p) \in Int
           /\ Delta(p) >= -Amount[proc[p].req]
           /\ Delta(p) = proc[p].cost - Amount[proc[p].req]
  <1>1. proc[p] \in Locals
    BY DEF TypeOK
  <1>2. proc[p].req \in Requests /\ proc[p].cost \in Costs
    BY <1>1 DEF Locals
  <1>3. /\ marker[proc[p].req] \in Markers
        /\ CountersOf[proc[p].req] \in SUBSET Counters
        /\ Amount[proc[p].req] \in Nat
    BY <1>2, RequestsAssumption, AmountAssumption DEF TypeOK
  <1>4. proc[p].cost \in Nat
    BY <1>2, CostsAreNaturals
  <1> QED
    BY <1>1, <1>2, <1>3, <1>4 DEF Delta

LEMMA BoundStep ==
    ASSUME TypeOK, BudgetBound, [Next]_vars
    PROVE  BudgetBound'
  <1> USE DEF BudgetBound
  <1>0. Limit \in [Counters -> Nat]
    BY AmountAssumption
  <1>1. ASSUME NEW r \in Requests, ReserveCommit(r)
        PROVE  BudgetBound'
    <2>1. Amount[r] \in Nat
      BY AmountAssumption
    <2>2. \A c \in CountersOf[r] : spend[c] <= Limit[c] - Amount[r]
      BY <1>1 DEF ReserveCommit, Reservable, Fits
    <2> QED
      BY <1>0, <1>1, <2>1, <2>2 DEF ReserveCommit, TypeOK, history
  <1>2. ASSUME NEW p \in Procs, FinalizeCommit(p)
        PROVE  BudgetBound'
    <2> DEFINE r == proc[p].req
    <2>1. Delta(p) # 0 =>
             \A c \in Current(p) : /\ spend[c] >= Amount[r]
                                   /\ epoch[c] = marker[r].epochs[c]
      BY <1>2 DEF FinalizeCommit, Settleable
    <2>2. /\ Amount[r] \in Nat
          /\ Delta(p) \in Int
          /\ Delta(p) >= -Amount[r]
      BY SettlementFacts
    <2>3. ASSUME NEW c \in Counters
          PROVE  /\ 0 <= spend'[c]
                 /\ spend'[c] <= Limit[c] + overrun'[c] + direct'[c]
      <3>1. spend[c] \in Int /\ overrun[c] \in Nat /\ direct[c] \in Nat /\ Limit[c] \in Nat
        BY <1>0 DEF TypeOK
      <3>2. /\ spend'[c] = IF c \in Current(p) THEN spend[c] + Delta(p) ELSE spend[c]
            /\ overrun'[c] = IF /\ c \in Current(p)
                                /\ epoch[c] = marker[r].epochs[c]
                                /\ Delta(p) > 0
                             THEN overrun[c] + Delta(p) ELSE overrun[c]
            /\ direct'[c] = direct[c]
        BY <1>2 DEF FinalizeCommit
      <3>3. CASE c \notin Current(p)
        BY <3>1, <3>2, <3>3
      <3>4. CASE c \in Current(p) /\ Delta(p) = 0
        BY <3>1, <3>2, <3>4
      <3>5. CASE c \in Current(p) /\ Delta(p) # 0
        BY <2>1, <2>2, <3>1, <3>2, <3>5
      <3> QED
        BY <3>3, <3>4, <3>5
    <2> QED
      BY <2>3
  <1>3. ASSUME NEW c \in Counters, NEW cost \in Costs, AddSpend(c, cost)
        PROVE  BudgetBound'
    <2>1. cost \in Nat
      BY CostsAreNaturals
    <2> QED
      BY <1>0, <1>3, <2>1 DEF AddSpend, TypeOK
  <1>4. ASSUME NEW group \in ResetGroups, ResetSpend(group)
        PROVE  BudgetBound'
    BY <1>0, <1>4 DEF ResetSpend, TypeOK
  <1>5. ASSUME UNCHANGED <<spend, overrun, direct>>
        PROVE  BudgetBound'
    BY <1>5
  <1>6. ASSUME NEW r \in Requests, Reserve(r), ~ReserveCommit(r)
        PROVE  UNCHANGED <<spend, overrun, direct>>
    BY <1>6 DEF Reserve, BeginReserve, ReserveRead, ReserveRefused, ReserveCheck,
                items, history
  <1>7. ASSUME NEW p \in Procs, Finalize(p), ~FinalizeCommit(p)
        PROVE  UNCHANGED <<spend, overrun, direct>>
    BY <1>7 DEF Finalize, FinalizeReadMarker, RecordIntent, IntentRefused, IntentCheck,
                FinalizeRead, FinalizePlan, FinalizeRefused, FinalizeCheck,
                FinalizeReply, items, history
  <1> QED
    BY <1>1, <1>2, <1>3, <1>4, <1>5, <1>6, <1>7
       DEF Next, BeginFinalize, LeaseExpires, BeginSweep, SweepNext, CallRaises, Crash,
           items, history, vars

\* Whatever the interleaving, whichever calls fail and whoever crashes, the
\* reservations alone never take a counter past its limit, and no refund takes
\* one below zero.
THEOREM Bounded == Spec => []BudgetBound
  <1>1. Init => BudgetBound
    BY AmountAssumption DEF Init, BudgetBound
  <1>2. TypeOK /\ BudgetBound /\ [Next]_vars => BudgetBound'
    BY BoundStep
  <1> QED
    BY <1>1, <1>2, TypeCorrect, PTL DEF Spec

-----------------------------------------------------------------------------
(* The markers                                                             *)

\* A marker that does not exist yet is blank.
Blank == \A r \in Requests : marker[r].state = "none" => marker[r] = NoMarker

\* What a step may do to the marker of r.
MarkerStep(r) ==
    \/ marker'[r] = marker[r]
    \/ /\ marker[r].state = "none"                            \* ReserveCommit
       /\ marker'[r].state = "reserved"
       /\ proc[r].pc = "reserve" /\ proc'[r].pc # "reserve"
    \/ /\ marker[r].state = "reserved"                        \* RecordIntent
       /\ marker'[r] = [marker[r] EXCEPT !.settlement = marker'[r].settlement,
                                         !.reported = TRUE]
       /\ marker[r].reported => marker'[r].settlement = marker[r].settlement
    \/ /\ marker[r].state = "reserved"                        \* FinalizeCommit
       /\ marker'[r] = [marker[r] EXCEPT !.state = "finalized",
                                         !.actual = marker'[r].actual,
                                         !.expired = FALSE]
    \/ /\ marker[r].state = "reserved"                        \* LeaseExpires
       /\ marker'[r] = [marker[r] EXCEPT !.expired = TRUE]

LEMMA MarkerSteps ==
    ASSUME TypeOK, [Next]_vars, NEW r \in Requests
    PROVE  MarkerStep(r)
  <1>0. ASSUME marker' = marker PROVE MarkerStep(r)
    BY <1>0 DEF MarkerStep
  <1>1. ASSUME NEW q \in Requests, ReserveCommit(q)
        PROVE  MarkerStep(r)
    <2>1. CASE q = r
      <3>1. marker[r].state = "none" /\ marker'[r].state = "reserved"
        BY <1>1, <2>1 DEF ReserveCommit, Reservable, NoMarker, TypeOK
      <3>2. r \in Procs /\ r \notin Cleaners
        BY RequestsAssumption DEF Procs
      <3>3. ASSUME NEW outcome \in {"admitted", "unavailable"}, Return(r, outcome)
            PROVE  proc'[r].pc # "reserve"
        BY <3>2, <3>3 DEF Return, Idle, TypeOK
      <3>4. Goto(r, "checkReserve") => proc'[r].pc # "reserve"
        BY <3>2 DEF Goto, TypeOK, Locals
      <3>5. proc[r].pc = "reserve" /\ proc'[r].pc # "reserve"
        BY <1>1, <2>1, <3>3, <3>4 DEF ReserveCommit
      <3> QED
        BY <3>1, <3>5 DEF MarkerStep
    <2>2. CASE q # r
      <3>1. marker'[r] = marker[r]
        BY <1>1, <2>2 DEF ReserveCommit, TypeOK
      <3> QED
        BY <3>1 DEF MarkerStep
    <2> QED
      BY <2>1, <2>2
  <1>2. ASSUME NEW p \in Procs, RecordIntent(p)
        PROVE  MarkerStep(r)
    <2>1. CASE proc[p].req = r
      <3>0. marker[r] \in Markers
        BY DEF TypeOK
      <3>1. marker'[r] = [marker[r] EXCEPT !.settlement = proc[p].cost, !.reported = TRUE]
        BY <1>2, <2>1 DEF RecordIntent, TypeOK
      <3>2. marker[r].state = "reserved" /\ (marker[r].reported => marker[r].settlement = proc[p].cost)
        BY <1>2, <2>1 DEF RecordIntent, MayReport
      <3>3. marker'[r].settlement = proc[p].cost
        BY <3>0, <3>1 DEF Markers
      <3> QED
        BY <3>1, <3>2, <3>3 DEF MarkerStep
    <2>2. CASE proc[p].req # r
      <3>1. marker'[r] = marker[r]
        BY <1>2, <2>2 DEF RecordIntent, TypeOK
      <3> QED
        BY <3>1 DEF MarkerStep
    <2> QED
      BY <2>1, <2>2
  <1>3. ASSUME NEW p \in Procs, FinalizeCommit(p)
        PROVE  MarkerStep(r)
    <2>1. CASE proc[p].req = r
      <3>0. marker[r] \in Markers
        BY DEF TypeOK
      <3>1. marker'[r] = [marker[r] EXCEPT !.state = "finalized", !.actual = proc[p].cost,
                                           !.expired = FALSE]
        BY <1>3, <2>1 DEF FinalizeCommit, TypeOK
      <3>2. marker[r].state = "reserved"
        BY <1>3, <2>1 DEF FinalizeCommit, Settleable
      <3>3. marker'[r].actual = proc[p].cost
        BY <3>0, <3>1 DEF Markers
      <3> QED
        BY <3>1, <3>2, <3>3 DEF MarkerStep
    <2>2. CASE proc[p].req # r
      <3>1. marker'[r] = marker[r]
        BY <1>3, <2>2 DEF FinalizeCommit, TypeOK
      <3> QED
        BY <3>1 DEF MarkerStep
    <2> QED
      BY <2>1, <2>2
  <1>4. ASSUME NEW q \in Requests, LeaseExpires(q)
        PROVE  MarkerStep(r)
    BY <1>4 DEF LeaseExpires, MarkerStep, TypeOK
  <1>5. ASSUME NEW q \in Requests, Reserve(q), ~ReserveCommit(q)
        PROVE  marker' = marker
    BY <1>5 DEF Reserve, BeginReserve, ReserveRead, ReserveRefused, ReserveCheck, items
  <1>6. ASSUME NEW p \in Procs, Finalize(p), ~FinalizeCommit(p), ~RecordIntent(p)
        PROVE  marker' = marker
    BY <1>6 DEF Finalize, FinalizeReadMarker, IntentRefused, IntentCheck, FinalizeRead,
                FinalizePlan, FinalizeRefused, FinalizeCheck, FinalizeReply, items
  <1> QED
    BY <1>0, <1>1, <1>2, <1>3, <1>4, <1>5, <1>6
       DEF Next, BeginFinalize, BeginSweep, SweepNext, AddSpend, ResetSpend, CallRaises,
           Crash, items, vars

\* A marker that does not exist yet is blank.
LEMMA AlwaysBlank == Spec => []Blank
  <1>1. Init => Blank
    BY DEF Init, Blank
  <1>2. TypeOK /\ Blank /\ [Next]_vars => Blank'
    <2> SUFFICES ASSUME TypeOK, Blank, [Next]_vars, NEW r \in Requests,
                        marker'[r].state = "none"
                 PROVE  marker'[r] = NoMarker
      BY DEF Blank
    <2>1. MarkerStep(r) /\ marker[r] \in Markers
      BY MarkerSteps DEF TypeOK
    <2> QED
      BY <2>1 DEF MarkerStep, Blank, Markers
  <1> QED
    BY <1>1, <1>2, TypeCorrect, PTL DEF Spec

\* A cost once reported and a reservation once finalized stand: no late sweep,
\* no late request and no retry changes them.
THEOREM SettlementStands == Spec => SettledOnce
  <1>1. TypeOK /\ Blank /\ [Next]_vars =>
           [\A r \in Requests :
              /\ marker[r].state = "finalized" => marker'[r] = marker[r]
              /\ marker[r].reported => /\ marker'[r].reported
                                       /\ marker'[r].settlement = marker[r].settlement]_vars
    <2> SUFFICES ASSUME TypeOK, Blank, [Next]_vars, NEW r \in Requests
                 PROVE  /\ marker[r].state = "finalized" => marker'[r] = marker[r]
                        /\ marker[r].reported =>
                              /\ marker'[r].reported
                              /\ marker'[r].settlement = marker[r].settlement
      OBVIOUS
    <2>1. MarkerStep(r) /\ marker[r] \in Markers
      BY MarkerSteps DEF TypeOK
    <2>2. marker[r].state = "none" => ~marker[r].reported
      BY DEF Blank, NoMarker
    <2> QED
      BY <2>1, <2>2 DEF MarkerStep, Markers
  <1> QED
    BY <1>1, TypeCorrect, AlwaysBlank, PTL DEF Spec, SettledOnce

-----------------------------------------------------------------------------
(* What a process may rely on across the steps of others                   *)

IntentRecorded == {"refresh", "plan", "commit", "checkCommit", "reply"}

\* The epochs p has read are not ahead of the counters; once p has recorded the
\* settlement intent the marker exists; the settlement it is about to commit was
\* planned with epochs no older than the reservation's; and it replies only
\* about a reservation that is settled as it asked.
LocalOK(p) ==
    LET m == marker[proc[p].req] IN
    /\ \A c \in Counters : proc[p].seenEpoch[c] <= epoch[c]
    /\ proc[p].pc \in IntentRecorded => m.state # "none"
    /\ proc[p].pc = "commit" =>
          \A c \in CountersOf[proc[p].req] : m.epochs[c] <= proc[p].seenEpoch[c]
    /\ proc[p].pc = "reply" => m.state = "finalized" /\ m.actual = proc[p].cost

\* A request works on its own reservation, which exists only once it was made,
\* and was answered truthfully (the three parts of AnswerHonest).
RequestOK(r) ==
    /\ proc[r].req = r
    /\ proc[r].pc \in {"idle", "reading", "reserve"} => marker[r].state = "none"
    /\ proc[r].pc = "settled" => /\ marker[r].state = "finalized"
                                 /\ marker[r].actual = proc[r].cost
    /\ proc[r].pc = "denied" => marker[r].state # "reserved"
    /\ proc[r].pc = "admitted" => marker[r].state # "none"

LocalInv ==
    /\ \A p \in Procs : LocalOK(p)
    /\ \A r \in Requests : RequestOK(r)

LEMMA EpochsGrow ==
    ASSUME TypeOK, [Next]_vars, NEW c \in Counters
    PROVE  epoch[c] <= epoch'[c]
  <1>1. ASSUME epoch' = epoch PROVE epoch[c] <= epoch'[c]
    BY <1>1 DEF TypeOK
  <1>2. ASSUME NEW group \in ResetGroups, ResetSpend(group) PROVE epoch[c] <= epoch'[c]
    BY <1>2 DEF ResetSpend, TypeOK
  <1>3. ASSUME NEW r \in Requests, Reserve(r) PROVE epoch' = epoch
    BY <1>3 DEF Reserve, BeginReserve, ReserveRead, ReserveCommit, ReserveRefused,
                ReserveCheck, items
  <1>4. ASSUME NEW p \in Procs, Finalize(p) PROVE epoch' = epoch
    BY <1>4 DEF Finalize, FinalizeReadMarker, RecordIntent, IntentRefused, IntentCheck,
                FinalizeRead, FinalizePlan, FinalizeCommit, FinalizeRefused,
                FinalizeCheck, FinalizeReply, items
  <1> QED
    BY <1>1, <1>2, <1>3, <1>4
       DEF Next, BeginFinalize, LeaseExpires, BeginSweep, SweepNext, AddSpend,
           CallRaises, Crash, items, vars

\* The marker of a reservation only moves forward.
LEMMA MarkerForward ==
    ASSUME TypeOK, Blank, [Next]_vars, NEW r \in Requests
    PROVE  /\ marker[r].state # "none" =>
                 marker'[r].state # "none" /\ marker'[r].epochs = marker[r].epochs
           /\ marker[r].state = "finalized" => marker'[r] = marker[r]
           /\ marker[r].state = "none" /\ proc'[r] = proc[r] => marker'[r] = marker[r]
           /\ marker[r].state # "reserved" /\ marker'[r].state = "reserved" =>
                 marker[r].state = "none" /\ proc[r].pc = "reserve"
  <1>1. MarkerStep(r) /\ marker[r] \in Markers
    BY MarkerSteps DEF TypeOK
  <1> QED
    BY <1>1 DEF MarkerStep, Markers

\* A process that does not move keeps what it relies on, whoever moves.
LEMMA Frame ==
    ASSUME TypeOK, Blank, LocalInv, [Next]_vars
    PROVE  /\ \A p \in Procs : proc'[p] = proc[p] => LocalOK(p)'
           /\ \A r \in Requests : proc'[r] = proc[r] => RequestOK(r)'
  <1>1. ASSUME NEW p \in Procs, proc'[p] = proc[p]
        PROVE  LocalOK(p)'
    <2>1. LocalOK(p) /\ proc[p] \in Locals /\ proc[p].req \in Requests
      BY SettlementFacts DEF LocalInv
    <2>2. \A c \in Counters : proc[p].seenEpoch[c] <= epoch'[c]
      <3> TAKE c \in Counters
      <3>1. /\ proc[p].seenEpoch[c] <= epoch[c] /\ epoch[c] <= epoch'[c]
            /\ proc[p].seenEpoch[c] \in Nat /\ epoch[c] \in Nat /\ epoch'[c] \in Nat
        BY <2>1, EpochsGrow, TypeStep DEF LocalOK, Locals, TypeOK
      <3> QED
        BY <3>1
    <2>3. LET m == marker[proc[p].req] n == marker'[proc[p].req] IN
          /\ m.state # "none" => n.state # "none" /\ n.epochs = m.epochs
          /\ m.state = "finalized" => n = m
      BY <2>1, MarkerForward
    <2> QED
      BY <1>1, <2>1, <2>2, <2>3 DEF LocalOK, IntentRecorded
  <1>2. ASSUME NEW r \in Requests, proc'[r] = proc[r]
        PROVE  RequestOK(r)'
    BY <1>2, MarkerForward DEF LocalInv, RequestOK
  <1> QED
    BY <1>1, <1>2

Moved(p) ==
    /\ \A q \in Procs : q # p => proc'[q] = proc[q]
    /\ LocalOK(p)'
    /\ p \in Requests => RequestOK(p)'

LEMMA MoverSuffices ==
    ASSUME TypeOK, Blank, LocalInv, [Next]_vars, NEW p \in Procs, Moved(p)
    PROVE  LocalInv'
  BY Frame DEF Moved, LocalInv, Procs

\* Returning is always safe, if the answer is true.
LEMMA ReturnMoved ==
    ASSUME TypeOK, TypeOK', NEW p \in Procs, NEW outcome \in Outcomes, Return(p, outcome),
           p \in Requests =>
              /\ outcome = "settled" => /\ marker'[p].state = "finalized"
                                        /\ marker'[p].actual = proc[p].cost
              /\ outcome = "denied" => marker'[p].state # "reserved"
              /\ outcome = "admitted" => marker'[p].state # "none"
    PROVE  Moved(p)
  <1>1. \A q \in Procs : q # p => proc'[q] = proc[q]
    BY DEF Return, TypeOK
  <1>2. CASE p \in Cleaners
    <2>1. p \notin Requests
      BY <1>2, RequestsAssumption
    <2>2. proc'[p] = [Idle(AnyRequest) EXCEPT !.pc = "sweeping", !.todo = proc[p].todo]
      BY <1>2 DEF Return, TypeOK
    <2>3. proc'[p].pc = "sweeping" /\ proc'[p].seenEpoch = [c \in Counters |-> 0]
      BY <2>2 DEF Idle
    <2> QED
      BY <1>1, <2>1, <2>3 DEF Moved, LocalOK, IntentRecorded, TypeOK
  <1>3. CASE p \notin Cleaners
    <2>1. proc'[p] = [Idle(p) EXCEPT !.pc = outcome, !.cost = proc[p].cost]
      BY <1>3 DEF Return, TypeOK
    <2>2. /\ proc'[p].pc = outcome /\ proc'[p].cost = proc[p].cost /\ proc'[p].req = p
          /\ proc'[p].seenEpoch = [c \in Counters |-> 0]
      BY <2>1 DEF Idle
    <2>3. LocalOK(p)'
      BY <2>2 DEF LocalOK, IntentRecorded, TypeOK, Outcomes, Ended
    <2>4. p \in Requests => RequestOK(p)'
      BY <2>2 DEF RequestOK, Outcomes, Ended
    <2> QED
      BY <1>1, <2>3, <2>4 DEF Moved
  <1> QED
    BY <1>2, <1>3

\* A step to another label that keeps everything else p knows.
LEMMA GotoMoved ==
    ASSUME TypeOK, TypeOK', LocalInv, NEW p \in Procs,
           NEW label \in Reserving \cup Finalizing, Goto(p, label),
           epoch' = epoch,
           label \in IntentRecorded => marker'[proc[p].req].state # "none",
           label # "commit",
           label = "reply" => /\ marker'[proc[p].req].state = "finalized"
                              /\ marker'[proc[p].req].actual = proc[p].cost,
           label \notin {"reading", "reserve"}
    PROVE  Moved(p)
  <1>1. proc[p] \in Locals
    BY DEF TypeOK
  <1>2. proc'[p] = [proc[p] EXCEPT !.pc = label] /\ \A q \in Procs : q # p => proc'[q] = proc[q]
    BY DEF Goto, TypeOK
  <1>3. /\ proc'[p].pc = label /\ proc'[p].req = proc[p].req /\ proc'[p].cost = proc[p].cost
        /\ proc'[p].seenEpoch = proc[p].seenEpoch
    BY <1>1, <1>2 DEF Locals
  <1>4. LocalOK(p) /\ (p \in Requests => RequestOK(p))
    BY DEF LocalInv
  <1>5. LocalOK(p)'
    BY <1>3, <1>4 DEF LocalOK
  <1>6. p \in Requests => RequestOK(p)'
    BY <1>3, <1>4 DEF RequestOK, Reserving, Finalizing
  <1> QED
    BY <1>2, <1>5, <1>6 DEF Moved

\* A read of one counter.
LEMMA ReadMoved ==
    ASSUME TypeOK, TypeOK', LocalInv, NEW p \in Procs, NEW c, NEW total, NEW label,
           ReadCounter(p, c, total, label), UNCHANGED items,
           \/ p \in Requests /\ proc[p].pc = "reading" /\ label = "reserve"
           \/ proc[p].pc = "refresh" /\ label = "plan"
    PROVE  Moved(p)
  <1>1. proc[p] \in Locals
    BY DEF TypeOK
  <1> DEFINE next == [proc[p] EXCEPT
                !.unread = @ \ {c},
                !.seenEpoch[c] = epoch[c],
                !.seenSpend[c] = total,
                !.pc = IF proc[p].unread = {c} THEN label ELSE @]
  <1>2. proc'[p] = next /\ \A q \in Procs : q # p => proc'[q] = proc[q]
    BY DEF ReadCounter, TypeOK
  <1>3. /\ proc'[p].pc \in {proc[p].pc, label}
        /\ proc'[p].req = proc[p].req
        /\ proc'[p].seenEpoch = [proc[p].seenEpoch EXCEPT ![c] = epoch[c]]
    BY <1>1, <1>2 DEF Locals
  <1>4. LocalOK(p) /\ (p \in Requests => RequestOK(p))
    BY DEF LocalInv
  <1>5. \A d \in Counters : proc'[p].seenEpoch[d] <= epoch'[d]
    BY <1>1, <1>3, <1>4 DEF LocalOK, Locals, TypeOK, items
  <1>6. LocalOK(p)'
    BY <1>3, <1>4, <1>5 DEF LocalOK, IntentRecorded, items
  <1>7. p \in Requests => RequestOK(p)'
    BY <1>3, <1>4 DEF RequestOK, items
  <1> QED
    BY <1>2, <1>6, <1>7 DEF Moved

LEMMA ReserveMoved ==
    ASSUME TypeOK, TypeOK', LocalInv, NEW r \in Requests, Reserve(r)
    PROVE  Moved(r)
  <1>0. /\ r \in Procs /\ proc[r] \in Locals /\ r \notin Cleaners
        /\ LocalOK(r) /\ RequestOK(r)
    BY RequestsAssumption DEF TypeOK, Procs, LocalInv
  <1>1. CASE BeginReserve(r)
    <2>1. CASE Return(r, "denied")
      <3>1. marker'[r].state # "reserved"
        BY <1>0, <1>1 DEF BeginReserve, RequestOK, items
      <3> QED
        BY <1>0, <2>1, <3>1, ReturnMoved DEF Outcomes, Ended
    <2>2. CASE ~Return(r, "denied")
      <3>1. /\ proc'[r] = [proc[r] EXCEPT !.pc = "reading", !.tries = 1,
                                          !.unread = CountersOf[r]]
            /\ \A q \in Procs : q # r => proc'[q] = proc[q]
        BY <1>0, <1>1, <2>2 DEF BeginReserve, TypeOK
      <3>2. /\ proc'[r].pc = "reading" /\ proc'[r].req = proc[r].req
            /\ proc'[r].seenEpoch = proc[r].seenEpoch
        BY <1>0, <3>1 DEF Locals
      <3>3. LocalOK(r)'
        BY <1>0, <1>1, <3>2 DEF LocalOK, IntentRecorded, BeginReserve, items
      <3>4. RequestOK(r)'
        BY <1>0, <1>1, <3>2 DEF RequestOK, BeginReserve, items
      <3> QED
        BY <3>1, <3>3, <3>4 DEF Moved
    <2> QED
      BY <2>1, <2>2
  <1>2. CASE ReserveRead(r)
    <2>1. PICK c : ReadCounter(r, c, 0, "reserve")
      BY <1>2 DEF ReserveRead
    <2>2. proc[r].pc = "reading" /\ UNCHANGED items
      BY <1>2 DEF ReserveRead
    <2> QED
      BY <1>0, <2>1, <2>2, ReadMoved
  <1>3. CASE ReserveCommit(r)
    <2>1. marker'[r].state = "reserved"
      BY <1>3 DEF ReserveCommit, NoMarker, TypeOK
    <2>2. epoch' = epoch
      BY <1>3 DEF ReserveCommit
    <2>3. CASE Return(r, "admitted")
      BY <1>0, <2>1, <2>3, ReturnMoved DEF Outcomes
    <2>4. CASE Return(r, "unavailable")
      BY <1>0, <2>4, ReturnMoved DEF Outcomes, Ended
    <2>5. CASE Goto(r, "checkReserve")
      BY <1>0, <2>2, <2>5, GotoMoved DEF Reserving, IntentRecorded
    <2> QED
      BY <1>3, <2>3, <2>4, <2>5 DEF ReserveCommit
  <1>4. CASE ReserveRefused(r)
    <2>1. /\ proc'[r] = [proc[r] EXCEPT !.pc = "checkReserve",
                            !.refused = \E c \in CountersOf[r] : ~Fits(r, c)]
          /\ \A q \in Procs : q # r => proc'[q] = proc[q]
      BY <1>0, <1>4 DEF ReserveRefused, TypeOK
    <2>2. /\ proc'[r].pc = "checkReserve" /\ proc'[r].req = proc[r].req
          /\ proc'[r].seenEpoch = proc[r].seenEpoch
      BY <1>0, <2>1 DEF Locals
    <2>3. LocalOK(r)'
      BY <1>0, <1>4, <2>2 DEF LocalOK, IntentRecorded, ReserveRefused, items
    <2>4. RequestOK(r)'
      BY <1>0, <1>4, <2>2 DEF RequestOK, ReserveRefused, items
    <2> QED
      BY <2>1, <2>3, <2>4 DEF Moved
  <1>5. CASE ReserveCheck(r)
    <2>0. marker' = marker /\ epoch' = epoch /\ marker[r] \in Markers
      BY <1>5 DEF ReserveCheck, items, TypeOK
    <2>1. CASE marker[r].state = "reserved"
      <3>1. Return(r, "admitted")
        BY <1>5, <2>1 DEF ReserveCheck
      <3> QED
        BY <1>0, <2>0, <2>1, <3>1, ReturnMoved DEF Outcomes
    <2>2. CASE marker[r].state = "finalized"
      <3>1. Return(r, "denied")
        BY <1>5, <2>2 DEF ReserveCheck
      <3> QED
        BY <1>0, <2>0, <2>2, <3>1, ReturnMoved DEF Outcomes, Ended
    <2>3. CASE marker[r].state = "none"
      <3>1. CASE Return(r, "denied")
        BY <1>0, <2>0, <2>3, <3>1, ReturnMoved DEF Outcomes, Ended
      <3>2. CASE Return(r, "unavailable")
        BY <1>0, <2>0, <3>2, ReturnMoved DEF Outcomes, Ended
      <3>3. CASE proc' = [proc EXCEPT ![r] =
                    [Idle(r) EXCEPT !.pc = "reading", !.unread = CountersOf[r],
                                    !.tries = proc[r].tries + 1]]
        <4>1. /\ proc'[r].pc = "reading" /\ proc'[r].req = r
              /\ proc'[r].seenEpoch = [c \in Counters |-> 0]
              /\ \A q \in Procs : q # r => proc'[q] = proc[q]
          BY <1>0, <3>3 DEF Idle, TypeOK
        <4>2. LocalOK(r)'
          BY <4>1 DEF LocalOK, IntentRecorded, TypeOK
        <4>3. RequestOK(r)'
          BY <2>0, <2>3, <4>1 DEF RequestOK
        <4> QED
          BY <4>1, <4>2, <4>3 DEF Moved
      <3> QED
        BY <1>5, <2>3, <3>1, <3>2, <3>3 DEF ReserveCheck
    <2> QED
      BY <2>0, <2>1, <2>2, <2>3 DEF Markers
  <1> QED
    BY <1>1, <1>2, <1>3, <1>4, <1>5 DEF Reserve

LEMMA FinalizeMoved ==
    ASSUME TypeOK, TypeOK', LocalInv, NEW p \in Procs, Finalize(p)
    PROVE  Moved(p)
  <1> DEFINE r == proc[p].req
  <1>0. /\ proc[p] \in Locals /\ r \in Requests /\ marker[r] \in Markers
        /\ LocalOK(p) /\ (p \in Requests => RequestOK(p)) /\ (p \in Requests => r = p)
        /\ CountersOf[r] \in SUBSET Counters
    BY SettlementFacts DEF LocalInv, RequestOK
  \* returning "settled" or "failed" after finding the marker as it is
  <1>1. ASSUME Return(p, IF SettledAt(marker[r], proc[p].cost) THEN "settled" ELSE "failed"),
               marker' = marker
        PROVE  Moved(p)
    <2>1. CASE SettledAt(marker[r], proc[p].cost)
      BY <1>0, <1>1, <2>1, ReturnMoved DEF SettledAt, Outcomes, Ended
    <2>2. CASE ~SettledAt(marker[r], proc[p].cost)
      BY <1>0, <1>1, <2>2, ReturnMoved DEF Outcomes, Ended
    <2> QED
      BY <2>1, <2>2
  <1>2. ASSUME Return(p, "failed") PROVE Moved(p)
    BY <1>2, ReturnMoved DEF Outcomes, Ended
  <1>3. CASE FinalizeReadMarker(p)
    <2>1. CASE SameSignature(p) /\ marker[r].state = "reserved"
      <3>1. Goto(p, "intent") /\ epoch' = epoch
        BY <1>3, <2>1 DEF FinalizeReadMarker, items
      <3> QED
        BY <3>1, GotoMoved DEF Finalizing, IntentRecorded
    <2>2. CASE SameSignature(p) /\ marker[r].state # "reserved"
      BY <1>1, <1>3, <2>2 DEF FinalizeReadMarker, items
    <2>3. CASE ~SameSignature(p)
      BY <1>2, <1>3, <2>3 DEF FinalizeReadMarker, items
    <2> QED
      BY <2>1, <2>2, <2>3
  <1>4. CASE RecordIntent(p)
    <2>0. /\ marker'[r].state = "reserved" /\ epoch' = epoch
          /\ p \in Requests => marker'[p].state # "none"
      BY <1>0, <1>4 DEF RecordIntent, MayReport, TypeOK, Markers
    <2>1. CASE Goto(p, "checkIntent")
      BY <2>0, <2>1, GotoMoved DEF Finalizing, IntentRecorded
    <2>2. CASE ~Goto(p, "checkIntent")
      <3>1. /\ proc'[p] = [proc[p] EXCEPT !.pc = "refresh", !.tries = 1,
                                          !.unread = CountersOf[r]]
            /\ \A q \in Procs : q # p => proc'[q] = proc[q]
        BY <1>4, <2>2 DEF RecordIntent, TypeOK
      <3>2. /\ proc'[p].pc = "refresh" /\ proc'[p].req = r
            /\ proc'[p].seenEpoch = proc[p].seenEpoch
        BY <1>0, <3>1 DEF Locals
      <3>3. LocalOK(p)'
        BY <1>0, <2>0, <3>2 DEF LocalOK, IntentRecorded
      <3>4. p \in Requests => RequestOK(p)'
        BY <1>0, <3>2 DEF RequestOK
      <3> QED
        BY <3>1, <3>3, <3>4 DEF Moved
    <2> QED
      BY <2>1, <2>2
  <1>5. CASE IntentRefused(p)
    BY <1>5, GotoMoved DEF IntentRefused, Finalizing, IntentRecorded, items
  <1>6. CASE IntentCheck(p)
    BY <1>1, <1>6 DEF IntentCheck, items
  <1>7. CASE FinalizeRead(p)
    <2>1. PICK c, total : ReadCounter(p, c, total, "plan")
      BY <1>7 DEF FinalizeRead
    <2>2. proc[p].pc = "refresh" /\ UNCHANGED items
      BY <1>7 DEF FinalizeRead
    <2> QED
      BY <2>1, <2>2, ReadMoved
  <1>8. CASE FinalizePlan(p)
    <2>1. CASE Return(p, "failed")
      BY <1>2, <2>1
    <2>2. CASE ~Return(p, "failed")
      <3>1. /\ proc'[p] = [proc[p] EXCEPT !.pc = "commit",
                                          !.seenSpend = [c \in Counters |-> 0],
                                          !.due = Crossed(p) \ alerts]
            /\ \A q \in Procs : q # p => proc'[q] = proc[q]
            /\ \A c \in CountersOf[r] : ~(proc[p].seenEpoch[c] < marker[r].epochs[c])
            /\ proc[p].pc = "plan" /\ marker' = marker /\ epoch' = epoch
        BY <1>8, <2>2 DEF FinalizePlan, TypeOK, items
      <3>2. /\ proc'[p].pc = "commit" /\ proc'[p].req = r
            /\ proc'[p].seenEpoch = proc[p].seenEpoch
        BY <1>0, <3>1 DEF Locals
      <3>3. \A c \in CountersOf[r] : marker[r].epochs[c] <= proc[p].seenEpoch[c]
        <4> TAKE c \in CountersOf[r]
        <4>1. marker[r].epochs[c] \in Nat /\ proc[p].seenEpoch[c] \in Nat
          BY <1>0 DEF Markers, Locals
        <4> QED
          BY <3>1, <4>1
      <3>4. LocalOK(p)'
        BY <1>0, <3>1, <3>2, <3>3 DEF LocalOK, IntentRecorded
      <3>5. p \in Requests => RequestOK(p)'
        BY <1>0, <3>1, <3>2 DEF RequestOK
      <3> QED
        BY <3>1, <3>4, <3>5 DEF Moved
    <2> QED
      BY <2>1, <2>2
  <1>9. CASE FinalizeCommit(p)
    <2>1. /\ marker'[r].state = "finalized" /\ marker'[r].actual = proc[p].cost
          /\ epoch' = epoch
      BY <1>0, <1>9 DEF FinalizeCommit, TypeOK, Markers
    <2>2. CASE Goto(p, "reply")
      BY <2>1, <2>2, GotoMoved DEF Finalizing
    <2>3. CASE Goto(p, "checkCommit")
      BY <2>1, <2>3, GotoMoved DEF Finalizing
    <2> QED
      BY <1>9, <2>2, <2>3 DEF FinalizeCommit
  <1>10. CASE FinalizeRefused(p)
    <2>1. /\ proc'[p] = [proc[p] EXCEPT !.pc = "checkCommit",
                                        !.clash = proc[p].due \cap alerts # {}]
          /\ \A q \in Procs : q # p => proc'[q] = proc[q]
          /\ proc[p].pc = "commit" /\ marker' = marker /\ epoch' = epoch
      BY <1>10 DEF FinalizeRefused, TypeOK, items
    <2>2. /\ proc'[p].pc = "checkCommit" /\ proc'[p].req = r
          /\ proc'[p].seenEpoch = proc[p].seenEpoch
      BY <1>0, <2>1 DEF Locals
    <2>3. LocalOK(p)'
      BY <1>0, <2>1, <2>2 DEF LocalOK, IntentRecorded
    <2>4. p \in Requests => RequestOK(p)'
      BY <1>0, <2>1, <2>2 DEF RequestOK
    <2> QED
      BY <2>1, <2>3, <2>4 DEF Moved
  <1>11. CASE FinalizeCheck(p)
    <2>0. marker' = marker /\ epoch' = epoch /\ proc[p].pc = "checkCommit"
      BY <1>11 DEF FinalizeCheck, items
    <2>1. CASE marker[r].state = "finalized"
      BY <1>1, <1>11, <2>0, <2>1 DEF FinalizeCheck
    <2>2. CASE Return(p, "failed")
      BY <1>2, <2>2
    <2>3. CASE marker[r].state # "finalized" /\ ~Return(p, "failed")
      <3>1. /\ proc'[p] = [proc[p] EXCEPT !.pc = "refresh", !.unread = CountersOf[r],
                                          !.tries = @ + 1, !.due = {}, !.clash = FALSE]
            /\ \A q \in Procs : q # p => proc'[q] = proc[q]
        BY <1>11, <2>3 DEF FinalizeCheck, TypeOK
      <3>2. /\ proc'[p].pc = "refresh" /\ proc'[p].req = r
            /\ proc'[p].seenEpoch = proc[p].seenEpoch
        BY <1>0, <3>1 DEF Locals
      <3>3. LocalOK(p)'
        BY <1>0, <2>0, <3>2 DEF LocalOK, IntentRecorded
      <3>4. p \in Requests => RequestOK(p)'
        BY <1>0, <2>0, <3>2 DEF RequestOK
      <3> QED
        BY <3>1, <3>3, <3>4 DEF Moved
    <2> QED
      BY <2>1, <2>2, <2>3
  <1>12. CASE FinalizeReply(p)
    <2>1. Return(p, "settled") /\ marker' = marker /\ proc[p].pc = "reply"
      BY <1>12 DEF FinalizeReply, items
    <2>2. marker[r].state = "finalized" /\ marker[r].actual = proc[p].cost
      BY <1>0, <2>1 DEF LocalOK
    <2> QED
      BY <1>0, <2>1, <2>2, ReturnMoved DEF Outcomes, Ended
  <1> QED
    BY <1>3, <1>4, <1>5, <1>6, <1>7, <1>8, <1>9, <1>10, <1>11, <1>12 DEF Finalize

\* The steps of a sweep, of the provider call and of failures.
LEMMA OtherMoved ==
    ASSUME TypeOK, TypeOK', LocalInv, NEW p \in Procs,
           \/ p \in Requests /\ \E cost \in Costs : BeginFinalize(p, cost)
           \/ p \in Cleaners /\ \E c \in Counters : BeginSweep(p, c)
           \/ p \in Cleaners /\ SweepNext(p)
           \/ CallRaises(p)
           \/ Crash(p)
    PROVE  Moved(p)
  <1>0. /\ proc[p] \in Locals /\ LocalOK(p) /\ (p \in Requests => RequestOK(p))
        /\ (p \in Cleaners => p \notin Requests)
    BY RequestsAssumption DEF TypeOK, LocalInv
  <1>1. UNCHANGED <<marker, epoch>>
    BY DEF BeginFinalize, BeginSweep, SweepNext, CallRaises, Crash, items
  \* Any step to one of these labels is safe if it keeps the epochs read.
  <1>2. ASSUME proc'[p].pc \in {"finalize", "sweeping", "crashed", "idle"},
               \/ proc'[p].seenEpoch = proc[p].seenEpoch
               \/ proc'[p].seenEpoch = [c \in Counters |-> 0],
               \A q \in Procs : q # p => proc'[q] = proc[q],
               p \in Requests => proc'[p].req = p /\ proc'[p].pc # "idle"
        PROVE  Moved(p)
    <2>1. LocalOK(p)'
      BY <1>0, <1>1, <1>2 DEF LocalOK, IntentRecorded, TypeOK
    <2>2. p \in Requests => RequestOK(p)'
      BY <1>2 DEF RequestOK
    <2> QED
      BY <1>2, <2>1, <2>2 DEF Moved
  <1>3. ASSUME p \in Requests, NEW cost \in Costs, BeginFinalize(p, cost)
        PROVE  Moved(p)
    <2>1. /\ proc'[p] = [proc[p] EXCEPT !.pc = "finalize", !.cost = cost]
          /\ \A q \in Procs : q # p => proc'[q] = proc[q]
      BY <1>3 DEF BeginFinalize, TypeOK
    <2>2. /\ proc'[p].pc = "finalize" /\ proc'[p].seenEpoch = proc[p].seenEpoch
          /\ proc'[p].req = p
      BY <1>0, <1>3, <2>1 DEF Locals, RequestOK
    <2> QED
      BY <1>2, <2>1, <2>2
  <1>4. ASSUME p \in Cleaners, NEW c \in Counters, BeginSweep(p, c)
        PROVE  Moved(p)
    <2>1. /\ proc'[p] = [proc[p] EXCEPT !.pc = "sweeping",
                                        !.todo = {<<r, SweptAt(r)>> : r \in Stale(c)}]
          /\ \A q \in Procs : q # p => proc'[q] = proc[q]
      BY <1>4 DEF BeginSweep, TypeOK
    <2>2. proc'[p].pc = "sweeping" /\ proc'[p].seenEpoch = proc[p].seenEpoch
      BY <1>0, <2>1 DEF Locals
    <2> QED
      BY <1>0, <1>2, <1>4, <2>1, <2>2
  <1>5. ASSUME p \in Cleaners, SweepNext(p)
        PROVE  Moved(p)
    <2>1. CASE proc' = [proc EXCEPT ![p] = Idle(AnyRequest)]
      BY <1>0, <1>2, <1>5, <2>1 DEF Idle, TypeOK
    <2>2. CASE proc' # [proc EXCEPT ![p] = Idle(AnyRequest)]
      <3>1. PICK job \in proc[p].todo :
               proc' = [proc EXCEPT ![p].pc = "finalize", ![p].req = job[1],
                                    ![p].cost = job[2], ![p].todo = @ \ {job}]
        BY <1>5, <2>2 DEF SweepNext
      <3>2. /\ proc'[p] = [proc[p] EXCEPT !.pc = "finalize", !.req = job[1],
                                          !.cost = job[2], !.todo = @ \ {job}]
            /\ \A q \in Procs : q # p => proc'[q] = proc[q]
        BY <3>1 DEF TypeOK
      <3>3. proc'[p].pc = "finalize" /\ proc'[p].seenEpoch = proc[p].seenEpoch
        BY <1>0, <3>2 DEF Locals
      <3> QED
        BY <1>0, <1>2, <1>5, <3>2, <3>3
    <2> QED
      BY <2>1, <2>2
  <1>6. ASSUME CallRaises(p)
        PROVE  Moved(p)
    <2>1. ASSUME NEW label \in {"checkReserve", "checkIntent"}, Goto(p, label)
          PROVE  Moved(p)
      BY <1>1, <2>1, GotoMoved DEF Reserving, Finalizing, IntentRecorded
    <2>2. ASSUME proc[p].pc = "commit", Goto(p, "checkCommit")
          PROVE  Moved(p)
      <3>1. marker[proc[p].req].state # "none"
        BY <1>0, <2>2 DEF LocalOK, IntentRecorded
      <3> QED
        BY <1>1, <2>2, <3>1, GotoMoved DEF Finalizing, IntentRecorded
    <2>3. ASSUME NEW outcome \in {"unavailable", "failed"}, Return(p, outcome)
          PROVE  Moved(p)
      BY <2>3, ReturnMoved DEF Outcomes, Ended
    <2> QED
      BY <1>6, <2>1, <2>2, <2>3 DEF CallRaises
  <1>7. ASSUME Crash(p)
        PROVE  Moved(p)
    <2>1. \A q \in Procs : q # p => proc'[q] = proc[q]
      BY <1>7 DEF Crash, TypeOK
    <2>2. CASE p \in Cleaners
      <3>1. proc'[p] = Idle(AnyRequest)
        BY <1>7, <2>2 DEF Crash, TypeOK
      <3> QED
        BY <1>0, <1>2, <2>1, <2>2, <3>1 DEF Idle
    <2>3. CASE p \notin Cleaners
      <3>1. proc'[p] = [Idle(p) EXCEPT !.pc = "crashed"]
        BY <1>7, <2>3 DEF Crash, TypeOK
      <3> QED
        BY <1>2, <2>1, <3>1 DEF Idle
    <2> QED
      BY <2>2, <2>3
  <1> QED
    BY <1>3, <1>4, <1>5, <1>6, <1>7

LEMMA LocalStep ==
    ASSUME TypeOK, Blank, LocalInv, [Next]_vars
    PROVE  LocalInv'
  <1>0. TypeOK'
    BY TypeStep
  <1>1. ASSUME NEW p \in Procs, Moved(p) PROVE LocalInv'
    BY <1>1, MoverSuffices
  <1>2. ASSUME proc' = proc PROVE LocalInv'
    BY <1>2, Frame DEF LocalInv
  <1>3. ASSUME NEW r \in Requests, Reserve(r) PROVE LocalInv'
    BY <1>0, <1>1, <1>3, ReserveMoved DEF Procs
  <1>4. ASSUME NEW p \in Procs, Finalize(p) PROVE LocalInv'
    BY <1>0, <1>1, <1>4, FinalizeMoved
  <1>5. ASSUME NEW r \in Requests, NEW cost \in Costs, BeginFinalize(r, cost)
        PROVE  LocalInv'
    BY <1>0, <1>1, <1>5, OtherMoved DEF Procs
  <1>6. ASSUME NEW k \in Cleaners, SweepNext(k) \/ \E c \in Counters : BeginSweep(k, c)
        PROVE  LocalInv'
    BY <1>0, <1>1, <1>6, OtherMoved DEF Procs
  <1>7. ASSUME NEW p \in Procs, CallRaises(p) \/ Crash(p) PROVE LocalInv'
    BY <1>0, <1>1, <1>7, OtherMoved
  <1> QED
    BY <1>2, <1>3, <1>4, <1>5, <1>6, <1>7
       DEF Next, LeaseExpires, AddSpend, ResetSpend, vars

LEMMA AlwaysLocal == Spec => []LocalInv
  <1>1. Init => LocalInv
    <2> SUFFICES ASSUME Init PROVE LocalInv
      OBVIOUS
    <2>1. ASSUME NEW p \in Procs PROVE LocalOK(p)
      BY DEF Init, LocalOK, Idle, IntentRecorded
    <2>2. ASSUME NEW r \in Requests PROVE RequestOK(r)
      BY DEF Init, RequestOK, Idle, NoMarker, Procs
    <2> QED
      BY <2>1, <2>2 DEF LocalInv
  <1>2. TypeOK /\ Blank /\ LocalInv /\ [Next]_vars => LocalInv'
    BY LocalStep
  <1> QED
    BY <1>1, <1>2, TypeCorrect, AlwaysBlank, PTL DEF Spec

\* A request that is told "settled" was charged exactly what it reported, one
\* that is told "denied" holds no capacity, one that is admitted has a durable
\* reservation - under lost answers, failing calls, crashes and sweeps.
THEOREM Honest == Spec => []AnswerHonest
  <1>1. LocalInv => AnswerHonest
    BY DEF LocalInv, RequestOK, AnswerHonest
  <1> QED
    BY <1>1, AlwaysLocal, PTL

-----------------------------------------------------------------------------
(* The ledger implements its contract                                      *)

LEMMA AdmitStep ==
    ASSUME TypeOK, Blank, NEW r \in Requests, ReserveCommit(r)
    PROVE  Contract!Admit(r)
  <1> USE DEF Contract!Admit
  <1>0. CountersOf[r] \in SUBSET Counters /\ Amount[r] \in Nat /\ Limit \in [Counters -> Nat]
    BY RequestsAssumption, AmountAssumption
  <1>1. /\ marker[r] = NoMarker
        /\ marker[r].state = "none"
        /\ \A c \in CountersOf[r] : /\ epoch[c] = proc[r].seenEpoch[c]
                                     /\ spend[c] <= Limit[c] - Amount[r]
    BY DEF ReserveCommit, Reservable, Fits, Blank
  <1> DEFINE epochs == [c \in Counters |->
                            IF c \in CountersOf[r] THEN epoch[c] ELSE 0]
  <1>2. /\ marker' = [marker EXCEPT ![r] = marker'[r]]
        /\ marker'[r].state = "reserved" /\ marker'[r].epochs = epochs
        /\ marker'[r].actual = 0
    <2>1. marker' = [marker EXCEPT ![r] =
                    [NoMarker EXCEPT
                        !.state = "reserved", !.settlement = Amount[r],
                        !.epochs = [c \in Counters |->
                            IF c \in CountersOf[r] THEN proc[r].seenEpoch[c] ELSE 0]]]
      BY DEF ReserveCommit
    <2>2. [c \in Counters |-> IF c \in CountersOf[r] THEN proc[r].seenEpoch[c] ELSE 0] = epochs
      BY <1>1
    <2> QED
      BY <2>1, <2>2 DEF TypeOK, NoMarker
  <1>3. \A q \in Requests : q # r => marker'[q] = marker[q]
    BY <1>2 DEF TypeOK
  <1>4. \A c \in CountersOf[r] : spend[c] + Amount[r] <= Limit[c]
    BY <1>0, <1>1 DEF TypeOK
  <1>5. [q \in Requests |-> marker'[q].state]
           = [[q \in Requests |-> marker[q].state] EXCEPT ![r] = "reserved"]
    BY <1>2, <1>3
  <1>6. [q \in Requests |-> marker'[q].epochs]
           = [[q \in Requests |-> marker[q].epochs] EXCEPT ![r] = epochs]
    BY <1>2, <1>3
  <1>7. [q \in Requests |-> marker'[q].actual] = [q \in Requests |-> marker[q].actual]
    BY <1>1, <1>2, <1>3 DEF NoMarker
  <1> QED
    BY <1>1, <1>4, <1>5, <1>6, <1>7 DEF ReserveCommit

LEMMA SettleStep ==
    ASSUME TypeOK, LocalInv, NEW p \in Procs, FinalizeCommit(p)
    PROVE  Contract!Settle(proc[p].req, proc[p].cost)
  <1> USE DEF Contract!Settle
  <1> DEFINE r == proc[p].req
  <1>0. /\ proc[p] \in Locals /\ r \in Requests /\ marker[r] \in Markers
        /\ CountersOf[r] \in SUBSET Counters
        /\ Delta(p) \in Int /\ Delta(p) = proc[p].cost - Amount[r]
    BY SettlementFacts
  <1>1. /\ marker[r].state = "reserved"
        /\ Delta(p) # 0 => \A c \in Current(p) : epoch[c] = marker[r].epochs[c]
    BY DEF FinalizeCommit, Settleable
  <1>2. \A c \in CountersOf[r] : /\ marker[r].epochs[c] <= proc[p].seenEpoch[c]
                                 /\ proc[p].seenEpoch[c] <= epoch[c]
    BY <1>0 DEF FinalizeCommit, LocalInv, LocalOK
  \* The counters the transaction moves are the ones the contract names, since
  \* the epoch read lies between the reservation's and the current one.
  <1>3. ASSUME NEW c \in Counters
        PROVE  spend'[c] = IF c \in CountersOf[r] /\ marker[r].epochs[c] = epoch[c]
                           THEN spend[c] + (proc[p].cost - Amount[r]) ELSE spend[c]
    <2>0. spend[c] \in Int /\ epoch[c] \in Nat
      BY DEF TypeOK
    <2>1. spend'[c] = IF c \in Current(p) THEN spend[c] + Delta(p) ELSE spend[c]
      BY DEF FinalizeCommit
    <2>2. CASE Delta(p) = 0
      BY <1>0, <2>0, <2>1, <2>2
    <2>3. CASE Delta(p) # 0
      <3>1. c \in Current(p) => c \in CountersOf[r] /\ marker[r].epochs[c] = epoch[c]
        BY <1>1, <2>3 DEF Current
      <3>2. ASSUME c \in CountersOf[r], marker[r].epochs[c] = epoch[c]
            PROVE  c \in Current(p)
        <4>1. proc[p].seenEpoch[c] \in Nat
          BY <1>0 DEF Locals
        <4>2. proc[p].seenEpoch[c] = marker[r].epochs[c]
          BY <1>2, <2>0, <3>2, <4>1
        <4> QED
          BY <3>2, <4>2 DEF Current
      <3> QED
        BY <1>0, <2>1, <3>1, <3>2
    <2> QED
      BY <2>2, <2>3
  <1>4. /\ marker'[r].state = "finalized" /\ marker'[r].actual = proc[p].cost
        /\ marker'[r].epochs = marker[r].epochs
        /\ \A q \in Requests : q # r => marker'[q] = marker[q]
    BY <1>0 DEF FinalizeCommit, TypeOK, Markers
  <1>5. [q \in Requests |-> marker'[q].state]
           = [[q \in Requests |-> marker[q].state] EXCEPT ![r] = "finalized"]
    BY <1>4
  <1>6. [q \in Requests |-> marker'[q].actual]
           = [[q \in Requests |-> marker[q].actual] EXCEPT ![r] = proc[p].cost]
    BY <1>4
  <1>7. [q \in Requests |-> marker'[q].epochs] = [q \in Requests |-> marker[q].epochs]
    BY <1>4
  <1>8. spend' = [c \in Counters |->
            IF c \in CountersOf[r] /\ [q \in Requests |-> marker[q].epochs][r][c] = epoch[c]
            THEN spend[c] + (proc[p].cost - Amount[r]) ELSE spend[c]]
    <2>1. spend' = [c \in Counters |-> spend'[c]]
      BY DEF FinalizeCommit
    <2> QED
      BY <1>0, <1>3, <2>1
  <1>9. epoch' = epoch /\ [q \in Requests |-> marker[q].state][r] = "reserved"
    BY <1>0, <1>1 DEF FinalizeCommit
  <1> QED
    BY <1>5, <1>6, <1>7, <1>8, <1>9

\* What the contract calls visible is untouched by every other step.
LEMMA InvisibleStep ==
    ASSUME TypeOK, UNCHANGED <<spend, epoch>>,
           \A r \in Requests : /\ marker'[r].state = marker[r].state
                               /\ marker'[r].epochs = marker[r].epochs
                               /\ marker'[r].actual = marker[r].actual
    PROVE  UNCHANGED Contract!contractVars
  BY DEF Contract!contractVars

LEMMA ContractStep ==
    ASSUME TypeOK, Blank, LocalInv, [Next]_vars
    PROVE  [Contract!Next]_(Contract!contractVars)
  <1>1. ASSUME NEW r \in Requests, ReserveCommit(r) PROVE Contract!Next
    BY <1>1, AdmitStep DEF Contract!Next
  <1>2. ASSUME NEW p \in Procs, FinalizeCommit(p) PROVE Contract!Next
    <2>1. proc[p].req \in Requests /\ proc[p].cost \in Costs
      BY SettlementFacts
    <2>2. PICK r \in Requests, cost \in Costs : r = proc[p].req /\ cost = proc[p].cost
      BY <2>1
    <2>3. Contract!Settle(r, cost)
      BY <1>2, <2>2, SettleStep DEF Contract!Settle
    <2> QED
      BY <2>3 DEF Contract!Next
  <1>3. ASSUME NEW c \in Counters, NEW cost \in Costs, AddSpend(c, cost)
        PROVE  Contract!Next
    <2>1. Contract!Charge(c, cost)
      BY <1>3 DEF AddSpend, Contract!Charge
    <2> QED
      BY <2>1 DEF Contract!Next
  <1>4. ASSUME NEW group \in ResetGroups, ResetSpend(group)
        PROVE  Contract!Next
    <2>1. Contract!Reset(group)
      BY <1>4 DEF ResetSpend, Contract!Reset
    <2> QED
      BY <2>1 DEF Contract!Next
  <1>5. ASSUME UNCHANGED items PROVE UNCHANGED Contract!contractVars
    BY <1>5, InvisibleStep DEF items
  <1>6. ASSUME NEW p \in Procs, RecordIntent(p) PROVE UNCHANGED Contract!contractVars
    <2>1. \A r \in Requests : /\ marker'[r].state = marker[r].state
                              /\ marker'[r].epochs = marker[r].epochs
                              /\ marker'[r].actual = marker[r].actual
      BY <1>6 DEF RecordIntent, TypeOK, Markers
    <2> QED
      BY <1>6, <2>1, InvisibleStep DEF RecordIntent
  <1>7. ASSUME NEW q \in Requests, LeaseExpires(q) PROVE UNCHANGED Contract!contractVars
    <2>1. \A r \in Requests : /\ marker'[r].state = marker[r].state
                              /\ marker'[r].epochs = marker[r].epochs
                              /\ marker'[r].actual = marker[r].actual
      BY <1>7 DEF LeaseExpires, TypeOK, Markers
    <2> QED
      BY <1>7, <2>1, InvisibleStep DEF LeaseExpires
  <1>8. ASSUME NEW r \in Requests, Reserve(r), ~ReserveCommit(r) PROVE UNCHANGED items
    BY <1>8 DEF Reserve, BeginReserve, ReserveRead, ReserveRefused, ReserveCheck
  <1>9. ASSUME NEW p \in Procs, Finalize(p), ~FinalizeCommit(p), ~RecordIntent(p)
        PROVE  UNCHANGED items
    BY <1>9 DEF Finalize, FinalizeReadMarker, IntentRefused, IntentCheck, FinalizeRead,
                FinalizePlan, FinalizeRefused, FinalizeCheck, FinalizeReply
  <1> QED
    BY <1>1, <1>2, <1>3, <1>4, <1>5, <1>6, <1>7, <1>8, <1>9
       DEF Next, BeginFinalize, BeginSweep, SweepNext, CallRaises, Crash, vars

\* Every behaviour of the ledger is a behaviour of its contract: requests are
\* admitted within every limit or not at all, settled once at one price, and
\* settle only the counters still in the cycle they were admitted in.
THEOREM ImplementsContract == Spec => ContractSpec
  <1>1. Init => Contract!Init
    BY DEF Init, Contract!Init, NoMarker
  <1>2. TypeOK /\ Blank /\ LocalInv /\ [Next]_vars => [Contract!Next]_(Contract!contractVars)
    BY ContractStep
  <1> QED
    BY <1>1, <1>2, TypeCorrect, AlwaysBlank, AlwaysLocal, PTL
       DEF Spec, ContractSpec, Contract!Spec

-----------------------------------------------------------------------------
(* Steps that neither read, plan, commit nor answer a settlement           *)

\* Only p moves, and what it does next is none of these; but it may begin to read.
Aside(p) ==
    /\ \A q \in Procs : q # p => proc'[q] = proc[q]
    /\ \/ proc'[p].pc \notin {"refresh", "plan", "commit", "reply"}
       \/ proc'[p].pc = "refresh" /\ proc'[p].unread = CountersOf[proc'[p].req]

LEMMA ReturnAside ==
    ASSUME TypeOK, NEW p \in Procs, NEW outcome \in Outcomes, Return(p, outcome)
    PROVE  Aside(p)
  <1>1. \A q \in Procs : q # p => proc'[q] = proc[q]
    BY DEF Return, TypeOK
  <1>2. proc'[p].pc \notin {"refresh", "plan", "commit", "reply"}
    BY DEF Return, TypeOK, Idle, Outcomes, Ended
  <1> QED
    BY <1>1, <1>2 DEF Aside

LEMMA GotoAside ==
    ASSUME TypeOK, NEW p \in Procs, NEW label, Goto(p, label),
           label \notin {"refresh", "plan", "commit", "reply"}
    PROVE  Aside(p)
  <1>1. proc[p] \in Locals
    BY DEF TypeOK
  <1>2. /\ proc'[p].pc = label
        /\ \A q \in Procs : q # p => proc'[q] = proc[q]
    BY <1>1 DEF Goto, TypeOK, Locals
  <1> QED
    BY <1>2 DEF Aside

LEMMA ReserveAside ==
    ASSUME TypeOK, NEW r \in Requests, Reserve(r)
    PROVE  Aside(r)
  <1>0. r \in Procs /\ proc[r] \in Locals
    BY DEF TypeOK, Procs
  <1>1. ASSUME \A q \in Procs : q # r => proc'[q] = proc[q],
               proc'[r].pc \notin {"refresh", "plan", "commit", "reply"}
        PROVE  Aside(r)
    BY <1>1 DEF Aside
  <1>2. ASSUME \E outcome \in Outcomes : Return(r, outcome) PROVE Aside(r)
    BY <1>0, <1>2, ReturnAside
  <1>3. CASE BeginReserve(r)
    <2>1. CASE Return(r, "denied")
      BY <1>2, <2>1 DEF Outcomes, Ended
    <2>2. CASE ~Return(r, "denied")
      <3>1. proc' = [proc EXCEPT ![r].pc = "reading", ![r].tries = 1,
                                 ![r].unread = CountersOf[r]]
        BY <1>3, <2>2 DEF BeginReserve
      <3> QED
        BY <1>0, <1>1, <3>1 DEF TypeOK, Locals
    <2> QED
      BY <2>1, <2>2
  <1>4. CASE ReserveRead(r)
    <2>1. PICK c : ReadCounter(r, c, 0, "reserve")
      BY <1>4 DEF ReserveRead
    <2>2. proc[r].pc = "reading"
      BY <1>4 DEF ReserveRead
    <2> QED
      BY <1>0, <1>1, <2>1, <2>2 DEF ReadCounter, TypeOK, Locals
  <1>5. CASE ReserveCommit(r)
    BY <1>0, <1>2, <1>5, GotoAside DEF ReserveCommit, Outcomes, Ended
  <1>6. CASE ReserveRefused(r)
    <2>1. proc' = [proc EXCEPT ![r].pc = "checkReserve",
                            ![r].refused = \E c \in CountersOf[r] : ~Fits(r, c)]
      BY <1>6 DEF ReserveRefused
    <2> QED
      BY <1>0, <1>1, <2>1 DEF TypeOK, Locals
  <1>7. CASE ReserveCheck(r)
    <2>1. CASE \E outcome \in Outcomes : Return(r, outcome)
      BY <1>2, <2>1
    <2>2. CASE proc' = [proc EXCEPT ![r] =
                    [Idle(r) EXCEPT !.pc = "reading", !.unread = CountersOf[r],
                                    !.tries = proc[r].tries + 1]]
      BY <1>0, <1>1, <2>2 DEF TypeOK, Idle
    <2> QED
      BY <1>7, <2>1, <2>2 DEF ReserveCheck, Outcomes, Ended
  <1> QED
    BY <1>3, <1>4, <1>5, <1>6, <1>7 DEF Reserve

LEMMA FinalizeAside ==
    ASSUME TypeOK, NEW p \in Procs, Finalize(p), ~FinalizeRead(p), ~FinalizePlan(p),
           ~FinalizeCommit(p)
    PROVE  Aside(p)
  <1>0. proc[p] \in Locals
    BY DEF TypeOK
  <1>1. ASSUME \A q \in Procs : q # p => proc'[q] = proc[q],
               \/ proc'[p].pc \notin {"refresh", "plan", "commit", "reply"}
               \/ proc'[p].pc = "refresh" /\ proc'[p].unread = CountersOf[proc'[p].req]
        PROVE  Aside(p)
    BY <1>1 DEF Aside
  <1>2. ASSUME \E outcome \in Outcomes : Return(p, outcome) PROVE Aside(p)
    BY <1>2, ReturnAside
  <1>3. ASSUME NEW label \in {"intent", "checkIntent"},
               Goto(p, label)
        PROVE  Aside(p)
    BY <1>3, GotoAside
  <1>4. CASE FinalizeReadMarker(p) \/ IntentRefused(p) \/ IntentCheck(p) \/ FinalizeReply(p)
    BY <1>2, <1>3, <1>4
       DEF FinalizeReadMarker, IntentRefused, IntentCheck, FinalizeReply, Outcomes, Ended
  <1>5. CASE RecordIntent(p)
    <2>1. CASE Goto(p, "checkIntent")
      BY <1>3, <2>1
    <2>2. CASE ~Goto(p, "checkIntent")
      <3>1. proc' = [proc EXCEPT ![p].pc = "refresh", ![p].tries = 1,
                                 ![p].unread = CountersOf[proc[p].req]]
        BY <1>5, <2>2 DEF RecordIntent
      <3>2. /\ proc'[p].pc = "refresh" /\ proc'[p].req = proc[p].req
            /\ proc'[p].unread = CountersOf[proc[p].req]
            /\ \A q \in Procs : q # p => proc'[q] = proc[q]
        BY <1>0, <3>1 DEF TypeOK, Locals
      <3> QED
        BY <1>1, <3>2
    <2> QED
      BY <2>1, <2>2
  <1>6. CASE FinalizeRefused(p)
    <2>1. proc' = [proc EXCEPT ![p].pc = "checkCommit",
                            ![p].clash = proc[p].due \cap alerts # {}]
      BY <1>6 DEF FinalizeRefused
    <2> QED
      BY <1>0, <1>1, <2>1 DEF TypeOK, Locals
  <1>7. CASE FinalizeCheck(p)
    <2>1. CASE \E outcome \in Outcomes : Return(p, outcome)
      BY <1>2, <2>1
    <2>2. CASE proc' = [proc EXCEPT ![p].pc = "refresh",
                                 ![p].unread = CountersOf[proc[p].req],
                                 ![p].tries = @ + 1, ![p].due = {},
                                 ![p].clash = FALSE]
      <3>1. /\ proc'[p].pc = "refresh" /\ proc'[p].req = proc[p].req
            /\ proc'[p].unread = CountersOf[proc[p].req]
            /\ \A q \in Procs : q # p => proc'[q] = proc[q]
        BY <1>0, <2>2 DEF TypeOK, Locals
      <3> QED
        BY <1>1, <3>1
    <2> QED
      BY <1>7, <2>1, <2>2 DEF FinalizeCheck, Outcomes, Ended
  <1> QED
    BY <1>4, <1>5, <1>6, <1>7 DEF Finalize

\* The steps of a sweep, of the provider call and of failures.
LEMMA OtherAside ==
    ASSUME TypeOK, NEW p \in Procs,
           \/ p \in Requests /\ \E cost \in Costs : BeginFinalize(p, cost)
           \/ p \in Cleaners /\ \E c \in Counters : BeginSweep(p, c)
           \/ p \in Cleaners /\ SweepNext(p)
           \/ CallRaises(p)
           \/ Crash(p)
    PROVE  Aside(p)
  <1>0. proc[p] \in Locals
    BY DEF TypeOK
  <1>1. ASSUME \A q \in Procs : q # p => proc'[q] = proc[q],
               proc'[p].pc \notin {"refresh", "plan", "commit", "reply"}
        PROVE  Aside(p)
    BY <1>1 DEF Aside
  <1>2. ASSUME NEW cost \in Costs, BeginFinalize(p, cost) PROVE Aside(p)
    BY <1>0, <1>1, <1>2 DEF BeginFinalize, TypeOK, Locals
  <1>3. ASSUME NEW c \in Counters, BeginSweep(p, c) PROVE Aside(p)
    BY <1>0, <1>1, <1>3 DEF BeginSweep, TypeOK, Locals
  <1>4. ASSUME SweepNext(p) PROVE Aside(p)
    <2>1. CASE proc' = [proc EXCEPT ![p] = Idle(AnyRequest)]
      BY <1>1, <2>1 DEF Idle, TypeOK
    <2>2. CASE proc' # [proc EXCEPT ![p] = Idle(AnyRequest)]
      <3>1. PICK job \in proc[p].todo :
               proc' = [proc EXCEPT ![p].pc = "finalize", ![p].req = job[1],
                                    ![p].cost = job[2], ![p].todo = @ \ {job}]
        BY <1>4, <2>2 DEF SweepNext
      <3> QED
        BY <1>0, <1>1, <3>1 DEF TypeOK, Locals
    <2> QED
      BY <2>1, <2>2
  <1>5. ASSUME CallRaises(p) PROVE Aside(p)
    BY <1>5, GotoAside, ReturnAside DEF CallRaises, Outcomes, Ended
  <1>6. ASSUME Crash(p) PROVE Aside(p)
    BY <1>1, <1>6 DEF Crash, Idle, TypeOK
  <1> QED
    BY <1>2, <1>3, <1>4, <1>5, <1>6

-----------------------------------------------------------------------------
(* Alerts                                                                  *)

Replying(p) == proc[p].pc = "reply"

\* A process about to reply owns the alerts it has put: they are recorded, no
\* other process is about to return them, and nobody has.
AlertInv ==
    /\ \A p \in Procs : Replying(p) => proc[p].due \subseteq alerts
    /\ \A p \in Procs : Replying(p) =>
          \A k \in DOMAIN returned : k \in proc[p].due => returned[k] = 0
    /\ \A p, q \in Procs : Replying(p) /\ Replying(q) /\ p # q =>
          proc[p].due \cap proc[q].due = {}
    /\ \A k \in DOMAIN returned : returned[k] # 0 => k \in alerts
    /\ AlertOnce

\* No process begins to reply, and those that do keep their alerts.
NoNewReply ==
    \A q \in Procs : Replying(q)' => Replying(q) /\ proc'[q].due = proc[q].due

LEMMA AsideNoReply ==
    ASSUME NEW p \in Procs, Aside(p)
    PROVE  NoNewReply /\ ~Replying(p)'
  BY DEF Aside, NoNewReply, Replying

LEMMA FinalizeNoReply ==
    ASSUME TypeOK, NEW p \in Procs, Finalize(p), ~FinalizeCommit(p)
    PROVE  NoNewReply
  <1>0. proc[p] \in Locals
    BY DEF TypeOK
  <1>1. ASSUME \A q \in Procs : q # p => proc'[q] = proc[q], proc'[p].pc # "reply"
        PROVE  NoNewReply
    BY <1>1 DEF NoNewReply, Replying
  <1>2. CASE FinalizeRead(p)
    <2>1. PICK c, total : ReadCounter(p, c, total, "plan")
      BY <1>2 DEF FinalizeRead
    <2>2. proc[p].pc = "refresh"
      BY <1>2 DEF FinalizeRead
    <2> QED
      BY <1>0, <1>1, <2>1, <2>2 DEF ReadCounter, TypeOK, Locals
  <1>3. CASE FinalizePlan(p)
    <2>1. CASE Return(p, "failed")
      BY <2>1, ReturnAside, AsideNoReply DEF Outcomes, Ended
    <2>2. CASE ~Return(p, "failed")
      <3>1. proc' = [proc EXCEPT ![p].pc = "commit",
                                 ![p].seenSpend = [c \in Counters |-> 0],
                                 ![p].due = Crossed(p) \ alerts]
        BY <1>3, <2>2 DEF FinalizePlan
      <3> QED
        BY <1>0, <1>1, <3>1 DEF TypeOK, Locals
    <2> QED
      BY <2>1, <2>2
  <1>4. CASE ~FinalizeRead(p) /\ ~FinalizePlan(p)
    BY <1>4, FinalizeAside, AsideNoReply
  <1> QED
    BY <1>2, <1>3, <1>4

LEMMA AlertStep ==
    ASSUME TypeOK, AlertInv, [Next]_vars
    PROVE  AlertInv'
  <1>0. /\ DOMAIN returned' = DOMAIN returned
        /\ \A k \in DOMAIN returned : returned[k] \in Nat
    BY TypeStep DEF TypeOK
  <1>1. ASSUME NoNewReply, UNCHANGED <<alerts, returned>>
        PROVE  AlertInv'
    BY <1>1 DEF AlertInv, AlertOnce, NoNewReply
  <1>2. ASSUME NEW p \in Procs, FinalizeCommit(p)
        PROVE  AlertInv'
    <2>1. /\ proc[p].due \cap alerts = {}
          /\ alerts' = alerts \cup proc[p].due
          /\ returned' = returned
      BY <1>2 DEF FinalizeCommit, Settleable
    <2>2. /\ \A q \in Procs : q # p => proc'[q] = proc[q]
          /\ proc'[p].due = proc[p].due
      <3>1. proc[p] \in Locals
        BY DEF TypeOK
      <3>2. ASSUME NEW label \in {"reply", "checkCommit"}, Goto(p, label)
            PROVE  /\ \A q \in Procs : q # p => proc'[q] = proc[q]
                   /\ proc'[p].due = proc[p].due
        BY <3>1, <3>2 DEF Goto, TypeOK, Locals
      <3> QED
        BY <1>2, <3>2 DEF FinalizeCommit
    <2>3. \A q \in Procs : Replying(q)' => proc'[q].due \subseteq alerts'
      BY <2>1, <2>2 DEF AlertInv, Replying
    <2>4. ASSUME NEW q \in Procs, Replying(q)', NEW k \in DOMAIN returned, k \in proc'[q].due
          PROVE  returned'[k] = 0
      <3>1. CASE q = p
        <4>1. k \notin alerts
          BY <2>1, <2>2, <2>4, <3>1
        <4> QED
          BY <2>1, <4>1 DEF AlertInv
      <3>2. CASE q # p
        BY <2>1, <2>2, <2>4, <3>2 DEF AlertInv, Replying
      <3> QED
        BY <3>1, <3>2
    <2>5. ASSUME NEW q \in Procs, NEW s \in Procs, Replying(q)', Replying(s)', q # s
          PROVE  proc'[q].due \cap proc'[s].due = {}
      <3>1. \A t \in Procs : t # p /\ Replying(t)' =>
               Replying(t) /\ proc'[t].due = proc[t].due /\ proc[t].due \subseteq alerts
        BY <2>2 DEF AlertInv, Replying
      <3>2. CASE q # p /\ s # p
        BY <2>5, <3>1, <3>2 DEF AlertInv
      <3>3. CASE q = p
        BY <2>1, <2>2, <2>5, <3>1, <3>3
      <3>4. CASE s = p
        BY <2>1, <2>2, <2>5, <3>1, <3>4
      <3> QED
        BY <3>2, <3>3, <3>4
    <2>6. \A k \in DOMAIN returned' : returned'[k] # 0 => k \in alerts'
      BY <2>1 DEF AlertInv
    <2>7. AlertOnce'
      BY <2>1 DEF AlertInv, AlertOnce
    <2> QED
      BY <1>0, <2>3, <2>4, <2>5, <2>6, <2>7 DEF AlertInv
  <1>3. ASSUME NEW p \in Procs, FinalizeReply(p)
        PROVE  AlertInv'
    <2>1. /\ Replying(p) /\ alerts' = alerts
          /\ \A k \in DOMAIN returned :
                returned'[k] = IF p \in Requests /\ k \in proc[p].due
                               THEN returned[k] + 1 ELSE returned[k]
      BY <1>3 DEF FinalizeReply, Replying, items
    <2>2. NoNewReply /\ ~Replying(p)'
      BY <1>3, ReturnAside, AsideNoReply DEF FinalizeReply, Outcomes, Ended
    <2>3. \A q \in Procs : Replying(q)' => proc'[q].due \subseteq alerts'
      BY <2>1, <2>2 DEF AlertInv, NoNewReply
    <2>4. ASSUME NEW q \in Procs, Replying(q)', NEW k \in DOMAIN returned, k \in proc'[q].due
          PROVE  returned'[k] = 0
      <3>1. Replying(q) /\ k \in proc[q].due /\ q # p
        BY <2>2, <2>4 DEF NoNewReply
      <3>2. k \notin proc[p].due /\ returned[k] = 0
        BY <2>1, <3>1 DEF AlertInv
      <3> QED
        BY <2>1, <3>2
    <2>5. \A q, s \in Procs : Replying(q)' /\ Replying(s)' /\ q # s =>
             proc'[q].due \cap proc'[s].due = {}
      BY <2>2 DEF AlertInv, NoNewReply
    <2>6. ASSUME NEW k \in DOMAIN returned
          PROVE  (returned'[k] # 0 => k \in alerts') /\ returned'[k] <= 1
      <3>1. CASE p \in Requests /\ k \in proc[p].due
        BY <2>1, <3>1 DEF AlertInv
      <3>2. CASE ~(p \in Requests /\ k \in proc[p].due)
        BY <2>1, <3>2 DEF AlertInv, AlertOnce
      <3> QED
        BY <3>1, <3>2
    <2> QED
      BY <1>0, <2>3, <2>4, <2>5, <2>6 DEF AlertInv, AlertOnce
  <1>4. ASSUME NEW p \in Procs, Finalize(p), ~FinalizeCommit(p), ~FinalizeReply(p)
        PROVE  UNCHANGED <<alerts, returned>>
    BY <1>4 DEF Finalize, FinalizeReadMarker, RecordIntent, IntentRefused, IntentCheck,
                FinalizeRead, FinalizePlan, FinalizeRefused, FinalizeCheck, items, history
  <1>5. ASSUME NEW p \in Procs, Finalize(p) PROVE AlertInv'
    BY <1>1, <1>2, <1>3, <1>4, <1>5, FinalizeNoReply
  <1>6. ASSUME NEW r \in Requests, Reserve(r) PROVE AlertInv'
    <2>1. UNCHANGED <<alerts, returned>>
      BY <1>6 DEF Reserve, BeginReserve, ReserveRead, ReserveCommit, ReserveRefused,
                  ReserveCheck, items, history
    <2> QED
      BY <1>1, <1>6, <2>1, ReserveAside, AsideNoReply DEF Procs
  <1>7. ASSUME NEW p \in Procs,
               \/ p \in Requests /\ \E cost \in Costs : BeginFinalize(p, cost)
               \/ p \in Cleaners /\ \E c \in Counters : BeginSweep(p, c)
               \/ p \in Cleaners /\ SweepNext(p)
               \/ CallRaises(p)
               \/ Crash(p)
        PROVE  AlertInv'
    <2>1. UNCHANGED <<alerts, returned>>
      BY <1>7 DEF BeginFinalize, BeginSweep, SweepNext, CallRaises, Crash, items, history
    <2> QED
      BY <1>1, <1>7, <2>1, OtherAside, AsideNoReply
  <1>8. ASSUME proc' = proc, UNCHANGED <<alerts, returned>> PROVE AlertInv'
    BY <1>1, <1>8 DEF NoNewReply, Replying
  <1>9. ASSUME \/ \E r \in Requests : LeaseExpires(r)
               \/ \E c \in Counters, cost \in Costs : AddSpend(c, cost)
               \/ \E group \in ResetGroups : ResetSpend(group)
               \/ UNCHANGED vars
        PROVE  AlertInv'
    BY <1>8, <1>9 DEF LeaseExpires, AddSpend, ResetSpend, vars, items, history
  <1> QED
    BY <1>5, <1>6, <1>7, <1>9 DEF Next, Procs

\* No threshold of a billing cycle is handed to the alert callbacks twice,
\* whatever settlements and sweeps race for it.
THEOREM AlertsOnce == Spec => []AlertOnce
  <1>1. Init => AlertInv
    <2> SUFFICES ASSUME Init PROVE AlertInv
      OBVIOUS
    <2>1. \A p \in Procs : ~Replying(p)
      BY DEF Init, Replying, Idle
    <2>2. \A k \in DOMAIN returned : returned[k] = 0
      BY DEF Init
    <2> QED
      BY <2>1, <2>2 DEF AlertInv, AlertOnce
  <1>2. TypeOK /\ AlertInv /\ [Next]_vars => AlertInv'
    BY AlertStep
  <1>3. AlertInv => AlertOnce
    BY DEF AlertInv
  <1> QED
    BY <1>1, <1>2, <1>3, TypeCorrect, PTL DEF Spec

-----------------------------------------------------------------------------
(* The money adds up                                                       *)

\* No reservation is ahead of the billing cycle of its counters, so a reset
\* leaves none of them in the new cycle.
Behind == \A r \in Requests, c \in Counters : marker[r].epochs[c] <= epoch[c]

LEMMA BehindStep ==
    ASSUME TypeOK, Blank, LocalInv, Behind, [Next]_vars
    PROVE  Behind'
  <1> SUFFICES ASSUME NEW r \in Requests, NEW c \in Counters
               PROVE  marker'[r].epochs[c] <= epoch'[c]
    BY DEF Behind
  <1>1. /\ epoch[c] <= epoch'[c] /\ epoch[c] \in Nat /\ epoch'[c] \in Nat
        /\ marker[r].epochs[c] <= epoch[c]
        /\ marker[r] \in Markers
    BY EpochsGrow, TypeStep DEF TypeOK, Behind
  <1>2. marker[r].epochs[c] \in Nat
    BY <1>1 DEF Markers
  <1>3. CASE marker'[r].epochs = marker[r].epochs
    BY <1>1, <1>2, <1>3
  <1>4. ASSUME NEW q \in Requests, ReserveCommit(q), q = r
        PROVE  marker'[r].epochs[c] <= epoch'[c]
    <2>1. marker'[r].epochs[c] = IF c \in CountersOf[r] THEN proc[r].seenEpoch[c] ELSE 0
      BY <1>4 DEF ReserveCommit, NoMarker, TypeOK
    <2>2. proc[r].seenEpoch[c] <= epoch[c] /\ proc[r].seenEpoch[c] \in Nat
      <3>1. LocalOK(r) /\ proc[r] \in Locals
        BY DEF LocalInv, Procs, TypeOK
      <3> QED
        BY <3>1 DEF LocalOK, Locals
    <2> QED
      BY <1>1, <2>1, <2>2
  <1>5. ASSUME \A q \in Requests : ReserveCommit(q) => q # r
        PROVE  marker'[r].epochs = marker[r].epochs
    <2>1. MarkerStep(r)
      BY MarkerSteps
    <2>2. CASE marker[r].state # "none"
      BY <2>2, MarkerForward
    <2>3. CASE marker[r].state = "none"
      <3>1. ASSUME NEW q \in Requests, ReserveCommit(q)
            PROVE  marker'[r] = marker[r]
        BY <1>5, <3>1 DEF ReserveCommit, TypeOK
      <3>2. ASSUME NEW p \in Procs, RecordIntent(p) \/ FinalizeCommit(p)
            PROVE  marker'[r] = marker[r]
        <4>1. marker[proc[p].req].state = "reserved"
          BY <3>2 DEF RecordIntent, MayReport, FinalizeCommit, Settleable
        <4> QED
          BY <2>3, <3>2, <4>1 DEF RecordIntent, FinalizeCommit, TypeOK
      <3>3. ASSUME NEW q \in Requests, LeaseExpires(q)
            PROVE  marker'[r] = marker[r]
        BY <2>3, <3>3 DEF LeaseExpires, TypeOK
      <3>4. ASSUME NEW q \in Requests, Reserve(q), ~ReserveCommit(q)
            PROVE  marker' = marker
        BY <3>4 DEF Reserve, BeginReserve, ReserveRead, ReserveRefused, ReserveCheck,
                    items
      <3>5. ASSUME NEW p \in Procs, Finalize(p), ~FinalizeCommit(p), ~RecordIntent(p)
            PROVE  marker' = marker
        BY <3>5 DEF Finalize, FinalizeReadMarker, IntentRefused, IntentCheck,
                    FinalizeRead, FinalizePlan, FinalizeRefused, FinalizeCheck,
                    FinalizeReply, items
      <3> QED
        BY <3>1, <3>2, <3>3, <3>4, <3>5
           DEF Next, BeginFinalize, BeginSweep, SweepNext, AddSpend, ResetSpend,
               CallRaises, Crash, items, vars
    <2> QED
      BY <2>2, <2>3
  <1> QED
    BY <1>3, <1>4, <1>5

LEMMA AlwaysBehind == Spec => []Behind
  <1>1. Init => Behind
    BY DEF Init, Behind, NoMarker
  <1>2. TypeOK /\ Blank /\ LocalInv /\ Behind /\ [Next]_vars => Behind'
    BY BehindStep
  <1> QED
    BY <1>1, <1>2, TypeCorrect, AlwaysBlank, AlwaysLocal, PTL DEF Spec

\* A counter is the sum of its shares and of what was never reserved; only
\* finitely many requests have a share, however many may come.
BackedAt(c) ==
    /\ IsFiniteSet(Units(Shares(c), Requests))
    /\ spend[c] = direct[c] + Total(Shares(c), Requests)

Backed == \A c \in Counters : BackedAt(c)

LEMMA ShareNatural ==
    ASSUME TypeOK, NEW r \in Requests, NEW c \in Counters
    PROVE  Share(r, c) \in Nat
  <1>1. Amount[r] \in Nat /\ marker[r] \in Markers
    BY AmountAssumption DEF TypeOK
  <1>2. marker[r].actual \in Nat /\ marker[r].state \in {"none", "reserved", "finalized"}
    BY <1>1, CostsAreNaturals DEF Markers
  <1> QED
    BY <1>1, <1>2 DEF Share

LEMMA ShareNaturalNext ==
    ASSUME TypeOK', NEW r \in Requests, NEW c \in Counters
    PROVE  Share(r, c)' \in Nat
  <1>1. Amount[r] \in Nat /\ marker'[r] \in Markers
    BY AmountAssumption DEF TypeOK
  <1>2. /\ marker'[r].actual \in Nat
        /\ marker'[r].state \in {"none", "reserved", "finalized"}
    BY <1>1, CostsAreNaturals DEF Markers
  <1> QED
    BY <1>1, <1>2 DEF Share

\* A step that changes at most the share of r keeps a counter backed, if the
\* counter moves by as much.
LEMMA ShareMoves ==
    ASSUME TypeOK, TypeOK', NEW c \in Counters, BackedAt(c), NEW r \in Requests,
           \A q \in Requests : q # r => Share(q, c)' = Share(q, c),
           spend'[c] - direct'[c] = spend[c] - direct[c] + Share(r, c)' - Share(r, c)
    PROVE  BackedAt(c)'
  <1>a. PICK f : f = Shares(c)
    OBVIOUS
  <1>b. PICK g : g = Shares(c)'
    OBVIOUS
  <1>1. /\ f[r] = Share(r, c) /\ g[r] = Share(r, c)'
        /\ \A q \in Requests : q # r => f[q] = g[q]
    BY <1>a, <1>b DEF Shares
  <1>2. f[r] \in Nat /\ g[r] \in Nat
    BY <1>1, ShareNatural, ShareNaturalNext
  <1>3. IsFiniteSet(Units(f, Requests)) /\ spend[c] = direct[c] + Total(f, Requests)
    BY <1>a DEF BackedAt, Units, UnitsOf, Total
  <1>4. /\ IsFiniteSet(Units(g, Requests))
        /\ Total(f, Requests) \in Nat
        /\ Total(g, Requests) = Total(f, Requests) - f[r] + g[r]
    <2>1. \A q \in Requests : q # r => f[q] = g[q]
      BY <1>1
    <2>2. IsFiniteSet(Units(f, Requests))
      BY <1>3
    <2> QED
      BY <1>2, <2>1, <2>2, TotalUpdate
  <1>5. /\ spend[c] \in Int /\ spend'[c] \in Int /\ direct[c] \in Nat /\ direct'[c] \in Nat
    BY DEF TypeOK
  <1>6. spend'[c] = direct'[c] + Total(g, Requests)
    BY <1>1, <1>2, <1>3, <1>4, <1>5
  <1> QED
    BY <1>b, <1>4, <1>6 DEF BackedAt, Units, UnitsOf, Total

\* A step that changes no share.
LEMMA SharesStand ==
    ASSUME TypeOK, TypeOK', NEW c \in Counters, BackedAt(c),
           \A q \in Requests : Share(q, c)' = Share(q, c),
           spend'[c] - direct'[c] = spend[c] - direct[c]
    PROVE  BackedAt(c)'
  <1>1. AnyRequest \in Requests
    BY IdleType
  <1>2. Share(AnyRequest, c) \in Nat
    BY <1>1, ShareNatural
  <1>3. spend[c] \in Int /\ spend'[c] \in Int /\ direct[c] \in Nat /\ direct'[c] \in Nat
    BY DEF TypeOK
  <1>4. spend'[c] - direct'[c]
            = spend[c] - direct[c] + Share(AnyRequest, c)' - Share(AnyRequest, c)
    BY <1>1, <1>2, <1>3
  <1> QED
    BY <1>1, <1>4, ShareMoves

LEMMA ReserveBacked ==
    ASSUME TypeOK, TypeOK', Backed, NEW r \in Requests, ReserveCommit(r)
    PROVE  Backed'
  <1> SUFFICES ASSUME NEW c \in Counters PROVE BackedAt(c)'
    BY DEF Backed
  <1>1. \A q \in Requests : q # r => Share(q, c)' = Share(q, c)
    BY DEF ReserveCommit, Share, TypeOK
  <1>2. /\ marker[r].state = "none" /\ epoch' = epoch /\ direct' = direct
        /\ \A d \in CountersOf[r] : epoch[d] = proc[r].seenEpoch[d]
        /\ spend'[c] = IF c \in CountersOf[r] THEN spend[c] + Amount[r] ELSE spend[c]
    BY DEF ReserveCommit, Reservable, Fits, history
  <1>3. /\ marker'[r].state = "reserved"
        /\ c \in CountersOf[r] => marker'[r].epochs[c] = proc[r].seenEpoch[c]
    BY DEF ReserveCommit, NoMarker, TypeOK
  <1>4. Share(r, c) = 0
    BY <1>2 DEF Share
  <1>5. Share(r, c)' = IF c \in CountersOf[r] THEN Amount[r] ELSE 0
    BY <1>2, <1>3 DEF Share
  <1>6. spend[c] \in Int /\ direct[c] \in Nat /\ Amount[r] \in Nat
    BY AmountAssumption DEF TypeOK
  <1>7. spend'[c] - direct'[c] = spend[c] - direct[c] + Share(r, c)' - Share(r, c)
    BY <1>2, <1>4, <1>5, <1>6
  <1> QED
    BY <1>1, <1>7, ShareMoves DEF Backed

\* The contract's step already says which counters a settlement moves.
LEMMA SettleBacked ==
    ASSUME TypeOK, TypeOK', LocalInv, Backed, NEW p \in Procs, FinalizeCommit(p)
    PROVE  Backed'
  <1> SUFFICES ASSUME NEW c \in Counters PROVE BackedAt(c)'
    BY DEF Backed
  <1>a. PICK r : r = proc[p].req
    OBVIOUS
  <1>0. /\ r \in Requests /\ Amount[r] \in Nat /\ proc[p].cost \in Nat
        /\ marker[r] \in Markers
    BY <1>a, SettlementFacts
  <1>1. /\ marker[r].state = "reserved"
        /\ epoch' = epoch /\ direct' = direct
    BY <1>a DEF FinalizeCommit, Settleable
  <1>2. spend'[c] = IF c \in CountersOf[r] /\ marker[r].epochs[c] = epoch[c]
                    THEN spend[c] + (proc[p].cost - Amount[r]) ELSE spend[c]
    <2>1. Contract!Settle(r, proc[p].cost)
      BY <1>a, SettleStep
    <2>2. [q \in Requests |-> marker[q].epochs][r] = marker[r].epochs
      BY <1>0
    <2> QED
      BY <2>1, <2>2 DEF Contract!Settle
  <1>3. /\ marker'[r].state = "finalized" /\ marker'[r].actual = proc[p].cost
        /\ marker'[r].epochs = marker[r].epochs
        /\ \A q \in Requests : q # r => marker'[q] = marker[q]
    BY <1>a, <1>0 DEF FinalizeCommit, TypeOK, Markers
  <1>4. \A q \in Requests : q # r => Share(q, c)' = Share(q, c)
    BY <1>1, <1>3 DEF Share
  <1>5. Share(r, c) = IF c \in CountersOf[r] /\ marker[r].epochs[c] = epoch[c]
                      THEN Amount[r] ELSE 0
    BY <1>1 DEF Share
  <1>6. Share(r, c)' = IF c \in CountersOf[r] /\ marker[r].epochs[c] = epoch[c]
                       THEN proc[p].cost ELSE 0
    BY <1>1, <1>3 DEF Share
  <1>7. spend[c] \in Int /\ direct[c] \in Nat
    BY DEF TypeOK
  <1>8. spend'[c] - direct'[c] = spend[c] - direct[c] + Share(r, c)' - Share(r, c)
    BY <1>0, <1>1, <1>2, <1>5, <1>6, <1>7
  <1>9. BackedAt(c)
    BY DEF Backed
  <1> QED
    BY <1>0, <1>4, <1>8, <1>9, ShareMoves

LEMMA ResetBacked ==
    ASSUME TypeOK, TypeOK', Behind, Backed, NEW group \in ResetGroups, ResetSpend(group)
    PROVE  Backed'
  <1> SUFFICES ASSUME NEW c \in Counters PROVE BackedAt(c)'
    BY DEF Backed
  <1>1. marker' = marker
    BY DEF ResetSpend
  <1>2. CASE c \in group
    <2>1. epoch'[c] = epoch[c] + 1 /\ spend'[c] = 0 /\ direct'[c] = 0
      BY <1>2 DEF ResetSpend
    <2>2. ASSUME NEW q \in Requests PROVE Share(q, c)' = 0
      <3>1. marker[q] \in Markers /\ epoch[c] \in Nat /\ marker[q].epochs[c] <= epoch[c]
        BY DEF TypeOK, Behind
      <3>2. marker[q].epochs[c] \in Nat
        BY <3>1 DEF Markers
      <3>3. marker'[q].epochs[c] # epoch'[c]
        BY <1>1, <2>1, <3>1, <3>2
      <3> QED
        BY <3>3 DEF Share
    <2>3. Units(Shares(c)', Requests) = {}
      BY <2>2 DEF Units, UnitsOf, Shares
    <2>4. IsFiniteSet(Units(Shares(c)', Requests)) /\ Total(Shares(c)', Requests) = 0
      BY <2>3, FS_EmptySet DEF Total
    <2> QED
      BY <2>1, <2>4 DEF BackedAt
  <1>3. CASE c \notin group
    <2>1. epoch'[c] = epoch[c] /\ spend'[c] = spend[c] /\ direct'[c] = direct[c]
      BY <1>3 DEF ResetSpend
    <2>2. \A q \in Requests : Share(q, c)' = Share(q, c)
      BY <1>1, <2>1 DEF Share
    <2>3. spend'[c] - direct'[c] = spend[c] - direct[c]
      BY <2>1
    <2> QED
      BY <2>2, <2>3, SharesStand DEF Backed
  <1> QED
    BY <1>2, <1>3

LEMMA BackedStep ==
    ASSUME TypeOK, LocalInv, Behind, Backed, [Next]_vars
    PROVE  Backed'
  <1>0. TypeOK'
    BY TypeStep
  <1>1. ASSUME NEW r \in Requests, ReserveCommit(r) PROVE Backed'
    BY <1>0, <1>1, ReserveBacked
  <1>2. ASSUME NEW p \in Procs, FinalizeCommit(p) PROVE Backed'
    BY <1>0, <1>2, SettleBacked
  <1>3. ASSUME NEW group \in ResetGroups, ResetSpend(group) PROVE Backed'
    BY <1>0, <1>3, ResetBacked
  <1>4. ASSUME NEW d \in Counters, NEW cost \in Costs, AddSpend(d, cost)
        PROVE  Backed'
    <2> SUFFICES ASSUME NEW c \in Counters PROVE BackedAt(c)'
      BY DEF Backed
    <2>1. \A q \in Requests : Share(q, c)' = Share(q, c)
      BY <1>4 DEF AddSpend, Share
    <2>2. cost \in Nat /\ spend[c] \in Int /\ direct[c] \in Nat
      BY CostsAreNaturals DEF TypeOK
    <2>3. /\ spend'[c] = IF c = d THEN spend[c] + cost ELSE spend[c]
          /\ direct'[c] = IF c = d THEN direct[c] + cost ELSE direct[c]
      BY <1>4 DEF AddSpend, TypeOK
    <2>4. spend'[c] - direct'[c] = spend[c] - direct[c]
      BY <2>2, <2>3
    <2> QED
      BY <1>0, <2>1, <2>4, SharesStand DEF Backed
  \* Every other step leaves the counters, and all of a marker that counts.
  <1>5. ASSUME UNCHANGED <<spend, direct, epoch>>,
               \A r \in Requests : /\ marker'[r].state = marker[r].state
                                   /\ marker'[r].epochs = marker[r].epochs
                                   /\ marker'[r].actual = marker[r].actual
        PROVE  Backed'
    <2> SUFFICES ASSUME NEW c \in Counters PROVE BackedAt(c)'
      BY DEF Backed
    <2>1. \A q \in Requests : Share(q, c)' = Share(q, c)
      BY <1>5 DEF Share
    <2>2. spend'[c] - direct'[c] = spend[c] - direct[c]
      BY <1>5
    <2> QED
      BY <1>0, <2>1, <2>2, SharesStand DEF Backed
  <1>6. ASSUME NEW p \in Procs, RecordIntent(p) PROVE Backed'
    <2>1. /\ UNCHANGED <<spend, direct, epoch>>
          /\ \A r \in Requests : /\ marker'[r].state = marker[r].state
                                 /\ marker'[r].epochs = marker[r].epochs
                                 /\ marker'[r].actual = marker[r].actual
      BY <1>6 DEF RecordIntent, TypeOK, Markers, history
    <2> QED
      BY <1>5, <2>1
  <1>7. ASSUME NEW q \in Requests, LeaseExpires(q) PROVE Backed'
    <2>1. /\ UNCHANGED <<spend, direct, epoch>>
          /\ \A r \in Requests : /\ marker'[r].state = marker[r].state
                                 /\ marker'[r].epochs = marker[r].epochs
                                 /\ marker'[r].actual = marker[r].actual
      BY <1>7 DEF LeaseExpires, TypeOK, Markers, history
    <2> QED
      BY <1>5, <2>1
  <1>8. ASSUME UNCHANGED <<spend, direct, epoch, marker>> PROVE Backed'
    BY <1>5, <1>8
  <1>9. ASSUME NEW r \in Requests, Reserve(r), ~ReserveCommit(r)
        PROVE  UNCHANGED <<spend, direct, epoch, marker>>
    BY <1>9 DEF Reserve, BeginReserve, ReserveRead, ReserveRefused, ReserveCheck,
                items, history
  <1>10. ASSUME NEW p \in Procs, Finalize(p), ~FinalizeCommit(p), ~RecordIntent(p)
         PROVE  UNCHANGED <<spend, direct, epoch, marker>>
    BY <1>10 DEF Finalize, FinalizeReadMarker, IntentRefused, IntentCheck, FinalizeRead,
                 FinalizePlan, FinalizeRefused, FinalizeCheck, FinalizeReply, items,
                 history
  <1> QED
    BY <1>1, <1>2, <1>3, <1>4, <1>6, <1>7, <1>8, <1>9, <1>10
       DEF Next, BeginFinalize, BeginSweep, SweepNext, CallRaises, Crash, items,
           history, vars

\* No cent is lost or counted twice, whichever calls fail, whoever crashes and
\* however settlements, sweeps and resets interleave: a counter is the sum of the
\* open estimates and settled prices of its cycle and of the unreserved spend.
THEOREM Conserved == Spec => []Conservation
  <1>1. Init => Backed
    <2> SUFFICES ASSUME Init, NEW c \in Counters PROVE BackedAt(c)
      BY DEF Backed
    <2>1. \A q \in Requests : Share(q, c) = 0
      BY DEF Init, Share, NoMarker
    <2>2. Units(Shares(c), Requests) = {}
      BY <2>1 DEF Units, UnitsOf, Shares
    <2>3. IsFiniteSet(Units(Shares(c), Requests)) /\ Total(Shares(c), Requests) = 0
      BY <2>2, FS_EmptySet DEF Total
    <2> QED
      BY <2>3 DEF Init, BackedAt
  <1>2. TypeOK /\ LocalInv /\ Behind /\ Backed /\ [Next]_vars => Backed'
    BY BackedStep
  <1>3. Backed => Conservation
    BY DEF Backed, BackedAt, Conservation
  <1> QED
    BY <1>1, <1>2, <1>3, TypeCorrect, AlwaysLocal, AlwaysBehind, PTL DEF Spec
-----------------------------------------------------------------------------
(* No alert is missed                                                      *)

At(c, total) ==
    {t \in Thresholds : Limit[c] > 0 /\ 100 * total >= Limit[c] * t}

\* Where p settles r, what it knows of counter c is still good: the total it has
\* read is not below the total now, and of the thresholds its transaction makes
\* the total reach, none is neither recorded nor about to be.
Watches(p, c, r) ==
    proc[p].req = r =>
        /\ proc[p].pc = "refresh" /\ c \notin proc[p].unread =>
              spend[c] <= proc[p].seenSpend[c]
        /\ proc[p].pc = "plan" => spend[c] <= proc[p].seenSpend[c]
        /\ proc[p].pc = "commit" =>
              \A t \in At(c, spend[c] + Delta(p)) :
                 <<c, epoch[c], t>> \in alerts \cup proc[p].due

\* An open reservation that will record what is due when it is settled: the one
\* last made on c is one, for no total read for it is older than itself.
Witness(c, r) == r \in OpenOn(c) /\ \A p \in Procs : Watches(p, c, r)

Warned(c) == \A t \in At(c, spend[c]) : <<c, epoch[c], t>> \in alerts

GuardedAt(c) ==
    overrun[c] = 0 /\ direct[c] = 0 => Warned(c) \/ \E r \in Requests : Witness(c, r)

Guarded == \A c \in QuotaCounters : GuardedAt(c)

LEMMA AtGrows ==
    ASSUME NEW c \in Counters, NEW low \in Int, NEW high \in Int, low <= high
    PROVE  At(c, low) \subseteq At(c, high)
  <1> SUFFICES ASSUME NEW t \in At(c, low) PROVE 100 * high >= Limit[c] * t
    BY DEF At
  <1>1. Limit[c] \in Int /\ t \in Int /\ 100 * low >= Limit[c] * t
    BY AmountAssumption DEF At
  <1>2. PICK x \in Int : x = Limit[c] * t
    BY <1>1
  <1>3. 100 * low >= x
    BY <1>1, <1>2
  <1> QED
    BY <1>2, <1>3

LEMMA AtNothing ==
    ASSUME NEW c \in Counters
    PROVE  At(c, 0) = {}
  <1> SUFFICES ASSUME NEW t \in At(c, 0) PROVE FALSE
    OBVIOUS
  <1>1. /\ Limit[c] \in Nat /\ Limit[c] > 0
        /\ t \in Nat /\ t > 0
        /\ 100 * 0 >= Limit[c] * t
    BY AmountAssumption DEF At
  <1>2. Limit[c] * t > 0
    BY <1>1
  <1> QED
    BY <1>1, <1>2

\* A process that stands still keeps watching, as long as the total only falls.
LEMMA WatchesOn ==
    ASSUME TypeOK, TypeOK', NEW p \in Procs, NEW c \in Counters, NEW r \in Requests,
           Watches(p, c, r), proc'[p] = proc[p], epoch'[c] = epoch[c],
           spend'[c] <= spend[c], alerts \subseteq alerts'
    PROVE  Watches(p, c, r)'
  <1>1. /\ proc[p] \in Locals
        /\ Delta(p) \in Int /\ Delta(p)' = Delta(p)
    BY SettlementFacts DEF Delta
  <1>2. spend[c] \in Int /\ spend'[c] \in Int /\ proc[p].seenSpend[c] \in Int
    BY <1>1 DEF TypeOK, Locals
  <1>3. spend[c] <= proc[p].seenSpend[c] => spend'[c] <= proc[p].seenSpend[c]
    BY <1>2
  <1>4. At(c, spend'[c] + Delta(p)) \subseteq At(c, spend[c] + Delta(p))
    <2>1. /\ spend'[c] + Delta(p) \in Int /\ spend[c] + Delta(p) \in Int
          /\ spend'[c] + Delta(p) <= spend[c] + Delta(p)
      BY <1>1, <1>2
    <2> QED
      BY <2>1, AtGrows
  <1>5. CASE proc[p].req = r /\ proc[p].pc = "commit"
    <2>1. \A t \in At(c, spend[c] + Delta(p)) : <<c, epoch[c], t>> \in alerts \cup proc[p].due
      BY <1>5 DEF Watches
    <2>2. \A t \in At(c, spend'[c] + Delta(p)) :
             <<c, epoch'[c], t>> \in alerts' \cup proc'[p].due
      BY <1>4, <2>1
    <2>3. \A t \in At(c, spend'[c] + Delta(p)') :
             <<c, epoch'[c], t>> \in alerts' \cup proc'[p].due
      BY <1>1, <2>2
    <2> QED
      BY <1>5, <2>3 DEF Watches, At
  <1>6. CASE ~(proc[p].req = r /\ proc[p].pc = "commit")
    BY <1>3, <1>6 DEF Watches
  <1> QED
    BY <1>5, <1>6

\* Only p moves, and what it knows afterwards of any counter it has yet to read.
Unseeing(p) ==
    /\ \A q \in Procs : q # p => proc'[q] = proc[q]
    /\ \/ proc'[p].pc \notin {"refresh", "plan", "commit"}
       \/ proc'[p].pc = "refresh" /\ proc'[p].unread = CountersOf[proc'[p].req]

LEMMA AsideUnseeing ==
    ASSUME NEW p \in Procs, Aside(p)
    PROVE  Unseeing(p)
  BY DEF Aside, Unseeing

LEMMA UnseeingWatches ==
    ASSUME NEW p \in Procs, Unseeing(p), NEW r \in Requests, NEW c \in CountersOf[r]
    PROVE  Watches(p, c, r)'
  BY DEF Unseeing, Watches

\* Counter c is left alone or refunded, and what is open on it stays open.
Calm(c) ==
    /\ epoch'[c] = epoch[c]
    /\ spend'[c] <= spend[c]
    /\ alerts \subseteq alerts'
    /\ OpenOn(c) \subseteq OpenOn(c)'

LEMMA WarnedOn ==
    ASSUME TypeOK, TypeOK', NEW c \in Counters, Warned(c), epoch'[c] = epoch[c],
           spend'[c] <= spend[c], alerts \subseteq alerts'
    PROVE  Warned(c)'
  <1>1. spend[c] \in Int /\ spend'[c] \in Int
    BY DEF TypeOK
  <1>2. At(c, spend'[c]) \subseteq At(c, spend[c])
    BY <1>1, AtGrows
  <1>3. \A t \in At(c, spend'[c]) : <<c, epoch'[c], t>> \in alerts'
    BY <1>2 DEF Warned
  <1> QED
    BY <1>3 DEF Warned, At

LEMMA CalmGuarded ==
    ASSUME TypeOK, TypeOK', NEW c \in QuotaCounters, GuardedAt(c), Calm(c),
           overrun'[c] = 0 /\ direct'[c] = 0 => overrun[c] = 0 /\ direct[c] = 0,
           \A r \in OpenOn(c), p \in Procs : Watches(p, c, r) => Watches(p, c, r)'
    PROVE  GuardedAt(c)'
  <1>0. c \in Counters
    BY RequestsAssumption
  <1> SUFFICES ASSUME overrun'[c] = 0, direct'[c] = 0
               PROVE  Warned(c)' \/ \E r \in Requests : Witness(c, r)'
    BY DEF GuardedAt
  <1>1. CASE Warned(c)
    BY <1>0, <1>1, WarnedOn DEF Calm
  <1>2. CASE \E r \in Requests : Witness(c, r)
    <2>1. PICK r \in Requests : r \in OpenOn(c) /\ \A p \in Procs : Watches(p, c, r)
      BY <1>2 DEF Witness
    <2>2. r \in OpenOn(c)' /\ \A p \in Procs : Watches(p, c, r)'
      BY <2>1 DEF Calm
    <2>3. Witness(c, r)'
      BY <2>2 DEF Witness
    <2> QED
      BY <2>3
  <1> QED
    BY <1>1, <1>2 DEF GuardedAt

\* Nobody learns anything of c, and nothing on it is disturbed.
LEMMA UnseeingGuarded ==
    ASSUME TypeOK, TypeOK', NEW p \in Procs, Unseeing(p),
           NEW c \in QuotaCounters, GuardedAt(c), Calm(c),
           overrun'[c] = 0 /\ direct'[c] = 0 => overrun[c] = 0 /\ direct[c] = 0
    PROVE  GuardedAt(c)'
  <1>0. c \in Counters
    BY RequestsAssumption
  <1>1. ASSUME NEW r \in OpenOn(c), NEW q \in Procs, Watches(q, c, r)
        PROVE  Watches(q, c, r)'
    <2>1. r \in Requests /\ c \in CountersOf[r]
      BY DEF OpenOn
    <2>2. CASE q = p
      BY <2>1, <2>2, UnseeingWatches
    <2>3. CASE q # p
      BY <1>0, <1>1, <2>1, <2>3, WatchesOn DEF Calm, Unseeing
    <2> QED
      BY <2>2, <2>3
  <1> QED
    BY <1>1, CalmGuarded

\* The same when no process moves at all.
LEMMA IdleGuarded ==
    ASSUME TypeOK, TypeOK', proc' = proc, NEW c \in QuotaCounters, GuardedAt(c), Calm(c),
           overrun'[c] = 0 /\ direct'[c] = 0 => overrun[c] = 0 /\ direct[c] = 0
    PROVE  GuardedAt(c)'
  <1>0. c \in Counters
    BY RequestsAssumption
  <1>1. ASSUME NEW r \in OpenOn(c), NEW q \in Procs, Watches(q, c, r)
        PROVE  Watches(q, c, r)'
    BY <1>0, <1>1, WatchesOn DEF Calm, OpenOn
  <1> QED
    BY <1>1, CalmGuarded

\* A step that touches no counter and no marker's state leaves c calm.
LEMMA UntouchedCalm ==
    ASSUME TypeOK, NEW c \in QuotaCounters, UNCHANGED <<spend, epoch>>,
           alerts \subseteq alerts',
           \A r \in Requests : /\ marker'[r].state = marker[r].state
                               /\ marker'[r].epochs = marker[r].epochs
    PROVE  Calm(c)
  <1>1. spend[c] \in Int
    BY RequestsAssumption DEF TypeOK
  <1> QED
    BY <1>1 DEF Calm, OpenOn

LEMMA ReserveGuarded ==
    ASSUME TypeOK, TypeOK', LocalInv, Guarded, NEW q \in Requests, ReserveCommit(q)
    PROVE  Guarded'
  <1> SUFFICES ASSUME NEW c \in QuotaCounters PROVE GuardedAt(c)'
    BY DEF Guarded
  <1>0. /\ c \in Counters /\ GuardedAt(c)
        /\ q \in Procs /\ Unseeing(q)
    BY RequestsAssumption, ReserveAside, AsideUnseeing DEF Guarded, Procs, Reserve
  <1>1. /\ marker[q].state = "none"
        /\ \A d \in CountersOf[q] : epoch[d] = proc[q].seenEpoch[d]
        /\ UNCHANGED <<epoch, alerts, overrun, direct>>
        /\ spend'[c] = IF c \in CountersOf[q] THEN spend[c] + Amount[q] ELSE spend[c]
    BY <1>0 DEF ReserveCommit, Reservable, Fits, history
  <1>2. CASE c \notin CountersOf[q]
    <2>1. \A r \in Requests : r # q => marker'[r] = marker[r]
      BY DEF ReserveCommit, TypeOK
    <2>2. OpenOn(c) \subseteq OpenOn(c)'
      BY <1>1, <2>1 DEF OpenOn
    <2>3. spend[c] \in Int
      BY <1>0 DEF TypeOK
    <2>4. Calm(c)
      BY <1>1, <1>2, <2>2, <2>3 DEF Calm
    <2> QED
      BY <1>0, <1>1, <2>4, UnseeingGuarded
  <1>3. CASE c \in CountersOf[q]
    <2>1. /\ marker'[q].state = "reserved"
          /\ marker'[q].epochs[c] = proc[q].seenEpoch[c]
      BY <1>0, <1>3 DEF ReserveCommit, NoMarker, TypeOK
    <2>2. q \in OpenOn(c)'
      BY <1>1, <1>3, <2>1 DEF OpenOn
    <2>3. ASSUME NEW p \in Procs PROVE Watches(p, c, q)'
      <3>1. CASE p = q
        BY <1>0, <1>3, <3>1, UnseeingWatches
      <3>2. CASE p # q
        <4>1. proc'[p] = proc[p]
          BY <1>0, <3>2 DEF Unseeing
        <4>2. proc[p].req = q => proc[p].pc \notin IntentRecorded
          BY <1>1 DEF LocalInv, LocalOK
        <4> QED
          BY <4>1, <4>2 DEF Watches, IntentRecorded
      <3> QED
        BY <3>1, <3>2
    <2>4. Witness(c, q)'
      BY <2>2, <2>3 DEF Witness
    <2> QED
      BY <2>4 DEF GuardedAt
  <1> QED
    BY <1>2, <1>3

LEMMA ReadGuarded ==
    ASSUME TypeOK, TypeOK', Guarded, NEW p \in Procs, FinalizeRead(p)
    PROVE  Guarded'
  <1> SUFFICES ASSUME NEW c \in QuotaCounters PROVE GuardedAt(c)'
    BY DEF Guarded
  <1>0. /\ c \in Counters /\ GuardedAt(c) /\ proc[p] \in Locals
        /\ UNCHANGED <<spend, epoch, marker, alerts, overrun, direct>>
    BY RequestsAssumption DEF Guarded, TypeOK, FinalizeRead, items, history
  <1>1. Calm(c)
    BY <1>0, UntouchedCalm
  <1>2. PICK d, total : /\ ReadCounter(p, d, total, "plan")
                        /\ d = c => total = spend[c]
    BY DEF FinalizeRead
  <1>3. /\ \A q \in Procs : q # p => proc'[q] = proc[q]
        /\ proc'[p].req = proc[p].req
        /\ proc'[p].unread = proc[p].unread \ {d}
        /\ proc'[p].pc = IF proc[p].unread = {d} THEN "plan" ELSE proc[p].pc
        /\ proc'[p].seenSpend[c] = IF c = d THEN total ELSE proc[p].seenSpend[c]
    <2>1. proc' = [proc EXCEPT
                      ![p].unread = @ \ {d},
                      ![p].seenEpoch[d] = epoch[d],
                      ![p].seenSpend[d] = total,
                      ![p].pc = IF proc[p].unread = {d} THEN "plan" ELSE @]
      BY <1>2 DEF ReadCounter
    <2>2. PICK read : read = [proc[p] EXCEPT
                      !.unread = @ \ {d},
                      !.seenEpoch[d] = epoch[d],
                      !.seenSpend[d] = total,
                      !.pc = IF proc[p].unread = {d} THEN "plan" ELSE @]
      OBVIOUS
    <2>3. proc' = [proc EXCEPT ![p] = read]
      BY <2>1, <2>2
    <2>4. /\ \A q \in Procs : q # p => proc'[q] = proc[q]
          /\ proc'[p] = read
      BY <2>3 DEF TypeOK
    <2>5. proc[p].seenSpend \in [Counters -> Int]
      BY <1>0 DEF Locals
    <2>6. /\ read.req = proc[p].req
          /\ read.unread = proc[p].unread \ {d}
          /\ read.pc = IF proc[p].unread = {d} THEN "plan" ELSE proc[p].pc
          /\ read.seenSpend = [proc[p].seenSpend EXCEPT ![d] = total]
      BY <1>0, <2>2 DEF Locals
    <2>7. read.seenSpend[c] = IF c = d THEN total ELSE proc[p].seenSpend[c]
      BY <1>0, <2>5, <2>6
    <2> QED
      BY <2>4, <2>6, <2>7
  <1>4. proc[p].pc = "refresh"
    BY DEF FinalizeRead
  <1>5. ASSUME NEW r \in OpenOn(c), NEW q \in Procs, Watches(q, c, r)
        PROVE  Watches(q, c, r)'
    <2>1. CASE q = p /\ proc[p].req = r
      <3>1. c \notin proc'[p].unread => spend[c] <= proc'[p].seenSpend[c]
        <4>1. CASE c = d
          <5>1. proc'[p].seenSpend[c] = spend[c] /\ spend[c] \in Int
            BY <1>0, <1>2, <1>3, <4>1 DEF TypeOK
          <5> QED
            BY <5>1
        <4>2. CASE c # d
          BY <1>3, <1>4, <1>5, <2>1, <4>2 DEF Watches
        <4> QED
          BY <4>1, <4>2
      <3>2. CASE proc'[p].pc = "plan"
        <4>1. proc'[p].unread = {}
          BY <1>3, <1>4, <3>2
        <4>2. spend'[c] <= proc'[p].seenSpend[c]
          BY <1>0, <3>1, <4>1
        <4> QED
          BY <2>1, <3>2, <4>2 DEF Watches
      <3>3. CASE proc'[p].pc = "refresh"
        BY <1>0, <2>1, <3>1, <3>3 DEF Watches
      <3> QED
        BY <1>3, <1>4, <3>2, <3>3
    <2>2. CASE q = p /\ proc[p].req # r
      BY <1>3, <2>2 DEF Watches
    <2>3. CASE q # p
      BY <1>0, <1>1, <1>3, <1>5, <2>3, WatchesOn DEF Calm, OpenOn
    <2> QED
      BY <2>1, <2>2, <2>3
  <1> QED
    BY <1>0, <1>1, <1>5, CalmGuarded

\* The thresholds the transaction will make the total reach, at most, are due or
\* recorded: they were judged by a total that is not below the one now.
LEMMA PlanWatches ==
    ASSUME TypeOK, LocalInv, NEW p \in Procs, FinalizePlan(p), ~Return(p, "failed"),
           NEW c \in QuotaCounters, NEW r \in OpenOn(c), Watches(p, c, r)
    PROVE  Watches(p, c, r)'
  <1>0. /\ c \in Counters /\ proc[p] \in Locals /\ r \in Requests
        /\ c \in CountersOf[r] /\ marker[r].epochs[c] = epoch[c]
        /\ UNCHANGED <<spend, epoch, marker, alerts>>
        /\ proc[p].pc = "plan"
    BY RequestsAssumption DEF TypeOK, FinalizePlan, items, OpenOn
  <1>1. proc' = [proc EXCEPT ![p].pc = "commit",
                             ![p].seenSpend = [d \in Counters |-> 0],
                             ![p].due = Crossed(p) \ alerts]
    BY DEF FinalizePlan
  <1>2. /\ proc'[p].req = proc[p].req /\ proc'[p].pc = "commit"
        /\ proc'[p].cost = proc[p].cost
        /\ proc'[p].due = Crossed(p) \ alerts
    BY <1>0, <1>1 DEF TypeOK, Locals
  <1>3. Delta(p)' = Delta(p)
    BY <1>2 DEF Delta
  <1> SUFFICES ASSUME proc[p].req = r, NEW t \in At(c, spend[c] + Delta(p))
               PROVE  <<c, epoch[c], t>> \in alerts \cup (Crossed(p) \ alerts)
    BY <1>0, <1>2, <1>3 DEF Watches, At
  <1>4. c \in Current(p)
    <2>1. /\ ~(proc[p].seenEpoch[c] < marker[r].epochs[c])
          /\ proc[p].seenEpoch[c] <= epoch[c]
      BY <1>0, <1>1 DEF FinalizePlan, LocalInv, LocalOK
    <2>2. proc[p].seenEpoch[c] \in Nat /\ epoch[c] \in Nat
      BY <1>0 DEF Locals, TypeOK
    <2>3. proc[p].seenEpoch[c] = marker[r].epochs[c]
      BY <1>0, <2>1, <2>2
    <2> QED
      BY <1>0, <2>3 DEF Current
  <1>5. t \in At(c, proc[p].seenSpend[c] + Delta(p))
    <2>1. spend[c] <= proc[p].seenSpend[c]
      BY <1>0 DEF Watches
    <2>2. spend[c] \in Int /\ proc[p].seenSpend[c] \in Int /\ Delta(p) \in Int
      BY <1>0, SettlementFacts DEF TypeOK, Locals
    <2>3. /\ spend[c] + Delta(p) \in Int /\ proc[p].seenSpend[c] + Delta(p) \in Int
          /\ spend[c] + Delta(p) <= proc[p].seenSpend[c] + Delta(p)
      BY <2>1, <2>2
    <2> QED
      BY <1>0, <2>3, AtGrows
  <1>6. PICK k : k = <<c, marker[proc[p].req].epochs[c], t>>
    OBVIOUS
  <1>7. k \in Crossed(p)
    <2>1. /\ t \in Thresholds /\ Limit[c] > 0
          /\ 100 * (proc[p].seenSpend[c] + Delta(p)) >= Limit[c] * t
      BY <1>5 DEF At
    <2>2. k[1] = c /\ k[3] = t
      BY <1>6
    <2>3. k \in {<<d, marker[proc[p].req].epochs[d], u>> :
                    d \in Current(p) \cap QuotaCounters, u \in Thresholds}
      BY <1>4, <1>6, <2>1
    <2> QED
      BY <2>1, <2>2, <2>3 DEF Crossed
  <1>8. k = <<c, epoch[c], t>>
    BY <1>0, <1>6
  <1> QED
    BY <1>7, <1>8

LEMMA PlanGuarded ==
    ASSUME TypeOK, TypeOK', LocalInv, Guarded, NEW p \in Procs, FinalizePlan(p)
    PROVE  Guarded'
  <1> SUFFICES ASSUME NEW c \in QuotaCounters PROVE GuardedAt(c)'
    BY DEF Guarded
  <1>0. /\ c \in Counters /\ GuardedAt(c) /\ proc[p] \in Locals
        /\ UNCHANGED <<spend, epoch, marker, alerts, overrun, direct>>
    BY RequestsAssumption DEF Guarded, TypeOK, FinalizePlan, items, history
  <1>1. Calm(c)
    BY <1>0, UntouchedCalm
  <1>2. CASE Return(p, "failed")
    BY <1>0, <1>1, <1>2, ReturnAside, AsideUnseeing, UnseeingGuarded DEF Outcomes, Ended
  <1>3. CASE ~Return(p, "failed")
    <2>1. proc' = [proc EXCEPT ![p].pc = "commit",
                               ![p].seenSpend = [d \in Counters |-> 0],
                               ![p].due = Crossed(p) \ alerts]
      BY <1>3 DEF FinalizePlan
    <2>2. \A q \in Procs : q # p => proc'[q] = proc[q]
      BY <2>1 DEF TypeOK
    <2>3. ASSUME NEW r \in OpenOn(c), NEW q \in Procs, Watches(q, c, r)
          PROVE  Watches(q, c, r)'
      <3>1. CASE q = p
        BY <1>3, <2>3, <3>1, PlanWatches
      <3>2. CASE q # p
        BY <1>0, <1>1, <2>2, <2>3, <3>2, WatchesOn DEF Calm, OpenOn
      <3> QED
        BY <3>1, <3>2
    <2> QED
      BY <1>0, <1>1, <2>3, CalmGuarded
  <1> QED
    BY <1>2, <1>3

\* The settlement of the witness itself leaves the counter warned; that of
\* another reservation only refunds, for above its estimate it would count as
\* overrun.
LEMMA CommitGuarded ==
    ASSUME TypeOK, TypeOK', LocalInv, Guarded, NEW p \in Procs, FinalizeCommit(p)
    PROVE  Guarded'
  <1> SUFFICES ASSUME NEW c \in QuotaCounters, overrun'[c] = 0, direct'[c] = 0
               PROVE  Warned(c)' \/ \E r \in Requests : Witness(c, r)'
    BY DEF Guarded, GuardedAt
  <1> DEFINE s == proc[p].req
  <1>0. /\ c \in Counters /\ GuardedAt(c) /\ s \in Requests
        /\ Unseeing(p)
    <2>1. ASSUME NEW label \in {"reply", "checkCommit"}, Goto(p, label)
          PROVE  Unseeing(p)
      BY <2>1 DEF Goto, Unseeing, TypeOK, Locals
    <2> QED
      BY <2>1, RequestsAssumption, SettlementFacts DEF FinalizeCommit, Guarded
  <1>1. /\ proc[p].pc = "commit"
        /\ spend'[c] = IF c \in Current(p) THEN spend[c] + Delta(p) ELSE spend[c]
        /\ overrun'[c] = IF c \in Current(p) /\ epoch[c] = marker[s].epochs[c] /\ Delta(p) > 0
                         THEN overrun[c] + Delta(p) ELSE overrun[c]
        /\ alerts' = alerts \cup proc[p].due
        /\ UNCHANGED <<epoch, direct>>
        /\ Delta(p) # 0 => \A d \in Current(p) : epoch[d] = marker[s].epochs[d]
        /\ \A r \in Requests : r # s => marker'[r] = marker[r]
    BY <1>0 DEF FinalizeCommit, Settleable, TypeOK
  <1>2. /\ overrun[c] \in Nat /\ spend[c] \in Int /\ spend'[c] \in Int /\ Delta(p) \in Int
    BY <1>0, SettlementFacts DEF TypeOK
  <1>3. ~(c \in Current(p) /\ Delta(p) > 0)
    BY <1>1, <1>2
  <1>4. overrun[c] = 0 /\ direct[c] = 0 /\ spend'[c] <= spend[c]
    BY <1>1, <1>2, <1>3
  <1>5. CASE Warned(c)
    BY <1>0, <1>1, <1>4, <1>5, WarnedOn
  <1>6. ASSUME NEW r \in Requests, Witness(c, r), r # s
        PROVE  Witness(c, r)'
    <2>1. r \in OpenOn(c) /\ c \in CountersOf[r]
      BY <1>6 DEF Witness, OpenOn
    <2>2. r \in OpenOn(c)'
      BY <1>1, <1>6, <2>1 DEF OpenOn
    <2>3. ASSUME NEW q \in Procs PROVE Watches(q, c, r)'
      <3>1. CASE q = p
        BY <1>0, <2>1, <3>1, UnseeingWatches
      <3>2. CASE q # p
        BY <1>0, <1>1, <1>4, <1>6, <3>2, WatchesOn DEF Unseeing, Witness
      <3> QED
        BY <3>1, <3>2
    <2> QED
      BY <2>2, <2>3 DEF Witness
  <1>7. ASSUME Witness(c, s)
        PROVE  Warned(c)'
    <2>1. /\ c \in CountersOf[s] /\ marker[s].epochs[c] = epoch[c]
          /\ \A t \in At(c, spend[c] + Delta(p)) : <<c, epoch[c], t>> \in alerts \cup proc[p].due
      BY <1>1, <1>7 DEF Witness, OpenOn, Watches
    <2>2. c \in Current(p)
      <3>1. /\ marker[s].epochs[c] <= proc[p].seenEpoch[c]
            /\ proc[p].seenEpoch[c] <= epoch[c]
        BY <1>0, <1>1, <2>1 DEF LocalInv, LocalOK
      <3>2. proc[p].seenEpoch[c] \in Nat /\ epoch[c] \in Nat
        BY <1>0, SettlementFacts DEF Locals, TypeOK
      <3>3. proc[p].seenEpoch[c] = marker[s].epochs[c]
        BY <2>1, <3>1, <3>2
      <3> QED
        BY <2>1, <3>3 DEF Current
    <2>3. spend'[c] = spend[c] + Delta(p)
      BY <1>1, <2>2
    <2>4. \A t \in At(c, spend'[c]) : <<c, epoch'[c], t>> \in alerts'
      BY <1>1, <2>1, <2>3
    <2> QED
      BY <2>4 DEF Warned, At
  <1> QED
    BY <1>0, <1>4, <1>5, <1>6, <1>7 DEF GuardedAt

LEMMA ResetGuarded ==
    ASSUME TypeOK, TypeOK', Guarded, NEW group \in ResetGroups, ResetSpend(group)
    PROVE  Guarded'
  <1> SUFFICES ASSUME NEW c \in QuotaCounters PROVE GuardedAt(c)'
    BY DEF Guarded
  <1>0. c \in Counters /\ GuardedAt(c)
    BY RequestsAssumption DEF Guarded
  <1>1. CASE c \in group
    <2>1. spend'[c] = 0
      BY <1>0, <1>1 DEF ResetSpend
    <2>2. At(c, spend'[c]) = {}
      BY <1>0, <2>1, AtNothing
    <2>3. Warned(c)'
      BY <2>2 DEF Warned, At
    <2> QED
      BY <2>3 DEF GuardedAt
  <1>2. CASE c \notin group
    <2>1. /\ spend'[c] = spend[c] /\ epoch'[c] = epoch[c]
          /\ overrun'[c] = overrun[c] /\ direct'[c] = direct[c]
          /\ UNCHANGED <<marker, alerts, proc>>
      BY <1>0, <1>2 DEF ResetSpend
    <2>2. spend[c] \in Int
      BY <1>0 DEF TypeOK
    <2>3. Calm(c)
      BY <2>1, <2>2 DEF Calm, OpenOn
    <2> QED
      BY <1>0, <2>1, <2>3, IdleGuarded
  <1> QED
    BY <1>1, <1>2

LEMMA AddGuarded ==
    ASSUME TypeOK, TypeOK', Guarded, NEW d \in Counters, NEW cost \in Costs,
           AddSpend(d, cost)
    PROVE  Guarded'
  <1> SUFFICES ASSUME NEW c \in QuotaCounters, direct'[c] = 0 PROVE GuardedAt(c)'
    BY DEF Guarded, GuardedAt
  <1>0. c \in Counters /\ GuardedAt(c) /\ cost \in Nat
    BY RequestsAssumption, CostsAreNaturals DEF Guarded
  <1>1. /\ UNCHANGED <<epoch, marker, alerts, proc, overrun>>
        /\ spend'[c] = IF c = d THEN spend[c] + cost ELSE spend[c]
        /\ direct'[c] = IF c = d THEN direct[c] + cost ELSE direct[c]
        /\ spend[c] \in Int /\ direct[c] \in Nat
    BY <1>0 DEF AddSpend, TypeOK
  <1>2. spend'[c] = spend[c] /\ direct[c] = 0
    BY <1>0, <1>1
  <1>3. Calm(c)
    BY <1>1, <1>2 DEF Calm, OpenOn
  <1> QED
    BY <1>0, <1>1, <1>2, <1>3, IdleGuarded

LEMMA GuardedStep ==
    ASSUME TypeOK, LocalInv, Guarded, [Next]_vars
    PROVE  Guarded'
  <1>0. TypeOK'
    BY TypeStep
  <1>1. ASSUME NEW p \in Procs, Unseeing(p), UNCHANGED <<spend, epoch, alerts, overrun, direct>>,
               \A r \in Requests : /\ marker'[r].state = marker[r].state
                                   /\ marker'[r].epochs = marker[r].epochs
        PROVE  Guarded'
    <2> SUFFICES ASSUME NEW c \in QuotaCounters PROVE GuardedAt(c)'
      BY DEF Guarded
    <2>1. Calm(c)
      BY <1>1, UntouchedCalm
    <2> QED
      BY <1>0, <1>1, <2>1, UnseeingGuarded DEF Guarded
  <1>2. ASSUME proc' = proc, UNCHANGED <<spend, epoch, alerts, overrun, direct>>,
               \A r \in Requests : /\ marker'[r].state = marker[r].state
                                   /\ marker'[r].epochs = marker[r].epochs
        PROVE  Guarded'
    <2> SUFFICES ASSUME NEW c \in QuotaCounters PROVE GuardedAt(c)'
      BY DEF Guarded
    <2>1. Calm(c)
      BY <1>2, UntouchedCalm
    <2> QED
      BY <1>0, <1>2, <2>1, IdleGuarded DEF Guarded
  <1>3. ASSUME NEW r \in Requests, Reserve(r) PROVE Guarded'
    <2>1. CASE ReserveCommit(r)
      BY <1>0, <2>1, ReserveGuarded
    <2>2. CASE ~ReserveCommit(r)
      <3>1. UNCHANGED <<spend, epoch, marker, alerts, overrun, direct>>
        BY <1>3, <2>2 DEF Reserve, BeginReserve, ReserveRead, ReserveRefused, ReserveCheck,
                          items, history
      <3> QED
        BY <1>1, <1>3, <3>1, ReserveAside, AsideUnseeing DEF Procs
    <2> QED
      BY <2>1, <2>2
  <1>4. ASSUME NEW p \in Procs, Finalize(p) PROVE Guarded'
    <2>1. CASE FinalizeRead(p)
      BY <1>0, <2>1, ReadGuarded
    <2>2. CASE FinalizePlan(p)
      BY <1>0, <2>2, PlanGuarded
    <2>3. CASE FinalizeCommit(p)
      BY <1>0, <2>3, CommitGuarded
    <2>4. CASE RecordIntent(p)
      <3>1. /\ UNCHANGED <<spend, epoch, alerts, overrun, direct>>
            /\ \A r \in Requests : /\ marker'[r].state = marker[r].state
                                   /\ marker'[r].epochs = marker[r].epochs
        BY <2>4 DEF RecordIntent, TypeOK, Markers, history
      <3>2. ~FinalizeRead(p) /\ ~FinalizePlan(p) /\ ~FinalizeCommit(p)
        BY <2>4 DEF RecordIntent, FinalizeRead, FinalizePlan, FinalizeCommit
      <3> QED
        BY <1>1, <1>4, <3>1, <3>2, FinalizeAside, AsideUnseeing
    <2>5. CASE ~FinalizeRead(p) /\ ~FinalizePlan(p) /\ ~FinalizeCommit(p) /\ ~RecordIntent(p)
      <3>1. UNCHANGED <<spend, epoch, marker, alerts, overrun, direct>>
        BY <1>4, <2>5 DEF Finalize, FinalizeReadMarker, IntentRefused, IntentCheck,
                          FinalizeRefused, FinalizeCheck, FinalizeReply, items, history
      <3> QED
        BY <1>1, <1>4, <2>5, <3>1, FinalizeAside, AsideUnseeing
    <2> QED
      BY <2>1, <2>2, <2>3, <2>4, <2>5
  <1>5. ASSUME NEW p \in Procs,
               \/ p \in Requests /\ \E cost \in Costs : BeginFinalize(p, cost)
               \/ p \in Cleaners /\ \E c \in Counters : BeginSweep(p, c)
               \/ p \in Cleaners /\ SweepNext(p)
               \/ CallRaises(p)
               \/ Crash(p)
        PROVE  Guarded'
    <2>1. UNCHANGED <<spend, epoch, marker, alerts, overrun, direct>>
      BY <1>5 DEF BeginFinalize, BeginSweep, SweepNext, CallRaises, Crash, items, history
    <2> QED
      BY <1>1, <1>5, <2>1, OtherAside, AsideUnseeing
  <1>6. ASSUME NEW q \in Requests, LeaseExpires(q) PROVE Guarded'
    <2>1. /\ proc' = proc /\ UNCHANGED <<spend, epoch, alerts, overrun, direct>>
          /\ \A r \in Requests : /\ marker'[r].state = marker[r].state
                                 /\ marker'[r].epochs = marker[r].epochs
      BY <1>6 DEF LeaseExpires, TypeOK, Markers, history
    <2> QED
      BY <1>2, <2>1
  <1>7. ASSUME NEW c \in Counters, NEW cost \in Costs, AddSpend(c, cost) PROVE Guarded'
    BY <1>0, <1>7, AddGuarded
  <1>8. ASSUME NEW group \in ResetGroups, ResetSpend(group) PROVE Guarded'
    BY <1>0, <1>8, ResetGuarded
  <1>9. ASSUME UNCHANGED vars PROVE Guarded'
    BY <1>2, <1>9 DEF vars, items, history
  <1> QED
    BY <1>3, <1>4, <1>5, <1>6, <1>7, <1>8, <1>9 DEF Next, Procs

\* When the last reservation of a cycle is settled, every threshold the total has
\* reached has its alert recorded, provided that nothing was settled above its
\* estimate and nothing spent without a reservation in that cycle: although each
\* settlement judged the thresholds by a total it had read some steps earlier,
\* and retries, sweeps, crashes, lost answers and resets came in between.
THEOREM AlertsRecorded == Spec => []NoMissedAlert
  <1>1. Init => Guarded
    <2> SUFFICES ASSUME Init, NEW c \in QuotaCounters PROVE Warned(c)
      BY DEF Guarded, GuardedAt
    <2>1. c \in Counters /\ spend[c] = 0
      BY RequestsAssumption DEF Init
    <2> QED
      BY <2>1, AtNothing DEF Warned
  <1>2. TypeOK /\ LocalInv /\ Guarded /\ [Next]_vars => Guarded'
    BY GuardedStep
  <1>3. Guarded => NoMissedAlert
    <2> SUFFICES ASSUME Guarded, NEW c \in QuotaCounters, OpenOn(c) = {},
                        overrun[c] = 0, direct[c] = 0
                 PROVE  \A t \in Reached(c) : <<c, epoch[c], t>> \in alerts
      BY DEF NoMissedAlert
    <2>1. Warned(c)
      BY DEF Guarded, GuardedAt, Witness
    <2>2. Reached(c) = At(c, spend[c])
      BY DEF Reached, At
    <2> QED
      BY <2>1, <2>2 DEF Warned
  <1> QED
    BY <1>1, <1>2, <1>3, TypeCorrect, AlwaysLocal, PTL DEF Spec
=============================================================================
