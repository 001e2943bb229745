--------------------------- MODULE QuotaFleetProofs ---------------------------
(***************************************************************************)
(* Proofs about QuotaFleet, for any instances, requests, costs, limits,    *)
(* thresholds, and any number of resets, restarts and failures.            *)
(***************************************************************************)
EXTENDS QuotaFleet, AmountLemmas, WellFoundedInduction

Views == [known : Cycles, spend : Nat, alerted : Requests \cup {NoSet}, unshared : Nat]

Items == [pc : Labels, ok : BOOLEAN, total : Nat, cycle : Cycles, mark : Cycles,
          cost : Nat, crossed : SUBSET Thresholds, set : Requests \cup {NoSet}]

-----------------------------------------------------------------------------
(* The invariants                                                          *)

Reserving == {"reserved", "holding", "calling", "planning", "planned"}

\* Which calls take which steps.
KindOK(p) ==
    /\ call[p].pc \in {"admitted", "settled", "answered", "alerting"} \cup Reserving
          => p \in Requests
    /\ call[p].pc = "added" => p \in Bills
    /\ call[p].pc \in {"resetting", "reset", "clearing"} => p \in Resets
    /\ call[p].pc \in {"reading", "read"} => p \notin Bills
    /\ call[p].pc = "alerting" => call[p].set \in Requests
    /\ call[p].mark <= cycle

\* The reservations of this cycle that nobody has settled.
Holds == {p \in Requests : call[p].pc \in Reserving /\ call[p].mark = cycle}

\* The counter covers what they hold, so settling one for less does not take it
\* below zero.
HeldCovered ==
    /\ IsFiniteSet(Units(Estimate, Holds))
    /\ Total(Estimate, Holds) <= total

\* Each reset makes one cycle at most.
ResetsDone == {x \in Resets : call[x].pc \in {"reset", "clearing"} \cup Ended}

CyclesCounted == cycle <= Cardinality(ResetsDone)

Core ==
    /\ TypeOK
    /\ \A p \in Calls : KindOK(p)
    /\ HeldCovered
    /\ CyclesCounted

\* At some time since cycle c began the counter was at n or more, but for slack.
Backed(n, c, slack) == c <= cycle /\ \E d \in c..cycle : n <= peak[d] + slack

\* Answers that are on their way.
Answered(p) ==
    \/ call[p].pc \in {"read", "added", "clearing"} /\ call[p].ok
    \/ call[p].pc \in {"holding", "answered"}

Figures ==
    /\ total <= peak[cycle]
    /\ \A p \in Calls : Answered(p) => Backed(call[p].total, call[p].cycle, 0)
    /\ \A i \in Instances : Backed(view[i].spend, view[i].known, view[i].unshared)

\* p is to announce the crossing of t in cycle c.
Pending(p, c, t) ==
    /\ call[p].mark = c /\ t \in call[p].crossed
    /\ \/ call[p].pc \in {"settled", "answered"}
       \/ call[p].pc = "alerting" /\ t \notin sets[call[p].set]

\* r has made its set, if it was to make one.
Made(r) == call[r].pc = "alerting" \/ call[r].pc \in Ended

\* A crossing is recorded once, by the call that is to announce it.
Crossed(c, t) ==
    /\ announced[<<c, t>>] <= 1
    /\ \A p \in Requests : Pending(p, c, t) =>
          /\ <<c, t>> \in crossings
          /\ announced[<<c, t>>] = 0
          /\ \A o \in Requests : Pending(o, c, t) => o = p
    /\ <<c, t>> \notin crossings => announced[<<c, t>>] = 0

Alerts ==
    /\ \A c \in Cycles, t \in Thresholds : Crossed(c, t)
    /\ \A i \in Instances : view[i].alerted # NoSet => Made(view[i].alerted)
    /\ \A p \in Requests : call[p].pc = "alerting" => Made(call[p].set)

-----------------------------------------------------------------------------
(* What a step does to the local state of its call                         *)

\* No other call changes.
Turn(p) ==
    /\ call' \in [Calls -> Items]
    /\ \A o \in Calls : o # p => call'[o] = call[o]

LEMMA TurnTo ==
    ASSUME call \in [Calls -> Items], NEW p \in Calls, NEW x \in Items,
           call' = [call EXCEPT ![p] = x]
    PROVE  Turn(p) /\ call'[p] = x
  BY DEF Turn

LEMMA ItemOf ==
    ASSUME call \in [Calls -> Items], NEW p \in Calls
    PROVE  /\ call[p] \in Items
           /\ call[p].pc \in Labels
           /\ call[p].ok \in BOOLEAN
           /\ call[p].total \in Nat
           /\ call[p].cycle \in Cycles
           /\ call[p].mark \in Cycles
           /\ call[p].cost \in Nat
           /\ call[p].crossed \subseteq Thresholds
           /\ call[p].set \in Requests \cup {NoSet}
  BY DEF Items

LEMMA CyclesType == /\ Cardinality(Resets) \in Nat
                    /\ 0 \in Cycles
                    /\ Cycles \subseteq Nat
  BY QuotaAssumption, FS_CardinalityType DEF Cycles

\* Goto, and answers that are recorded.
LEMMA TurnGoto ==
    ASSUME call \in [Calls -> Items], NEW p \in Calls, NEW label \in Labels,
           Goto(p, label)
    PROVE  /\ Turn(p)
           /\ call'[p].pc = label
           /\ call'[p].ok = call[p].ok
           /\ call'[p].total = call[p].total
           /\ call'[p].cycle = call[p].cycle
           /\ call'[p].mark = call[p].mark
           /\ call'[p].cost = call[p].cost
           /\ call'[p].crossed = call[p].crossed
           /\ call'[p].set = call[p].set
  <1> DEFINE x == [call[p] EXCEPT !.pc = label]
  <1>1. call[p] \in Items
    BY ItemOf
  <1>2. /\ x \in Items /\ x.pc = label /\ x.ok = call[p].ok
        /\ x.total = call[p].total /\ x.cycle = call[p].cycle
        /\ x.mark = call[p].mark /\ x.cost = call[p].cost
        /\ x.crossed = call[p].crossed /\ x.set = call[p].set
    BY <1>1 DEF Items
  <1>3. call' = [call EXCEPT ![p] = x]
    BY DEF Goto
  <1> HIDE DEF x
  <1> QED
    BY <1>2, <1>3, TurnTo

LEMMA TurnNoAnswer ==
    ASSUME call \in [Calls -> Items], NEW p \in Calls, NEW label \in Labels,
           NoAnswer(p, label)
    PROVE  /\ Turn(p)
           /\ call'[p].pc = label
           /\ call'[p].ok = FALSE
           /\ call'[p].mark = call[p].mark
           /\ call'[p].crossed = call[p].crossed
  <1> DEFINE x == [call[p] EXCEPT !.pc = label, !.ok = FALSE]
  <1>1. call[p] \in Items
    BY ItemOf
  <1>2. /\ x \in Items /\ x.pc = label /\ x.ok = FALSE
        /\ x.mark = call[p].mark /\ x.crossed = call[p].crossed
    BY <1>1 DEF Items
  <1>3. call' = [call EXCEPT ![p] = x]
    BY DEF NoAnswer
  <1> HIDE DEF x
  <1> QED
    BY <1>2, <1>3, TurnTo

\* The figures n and c are recorded.
LEMMA TurnFigures ==
    ASSUME call \in [Calls -> Items], NEW p \in Calls, NEW label \in Labels,
           NEW n \in Nat, NEW c \in Cycles,
           call' = [call EXCEPT ![p].pc = label, ![p].ok = TRUE,
                                ![p].total = n, ![p].cycle = c]
    PROVE  /\ Turn(p)
           /\ call'[p].pc = label
           /\ call'[p].ok = TRUE
           /\ call'[p].total = n
           /\ call'[p].cycle = c
           /\ call'[p].mark = call[p].mark
           /\ call'[p].crossed = call[p].crossed
  <1> DEFINE x == [call[p] EXCEPT !.pc = label, !.ok = TRUE, !.total = n, !.cycle = c]
  <1>1. call[p] \in Items
    BY ItemOf
  <1>2. /\ x \in Items /\ x.pc = label /\ x.ok = TRUE /\ x.total = n /\ x.cycle = c
        /\ x.mark = call[p].mark /\ x.crossed = call[p].crossed
    BY <1>1 DEF Items
  <1>3. call' = [call EXCEPT ![p] = x]
    OBVIOUS
  <1> HIDE DEF x
  <1> QED
    BY <1>2, <1>3, TurnTo

LEMMA TurnAnswer ==
    ASSUME call \in [Calls -> Items], total \in Nat, cycle \in Cycles,
           NEW p \in Calls, NEW label \in Labels, Answer(p, label)
    PROVE  /\ Turn(p)
           /\ call'[p].pc = label
           /\ call'[p].ok = TRUE
           /\ call'[p].total = total
           /\ call'[p].cycle = cycle
           /\ call'[p].mark = call[p].mark
           /\ call'[p].crossed = call[p].crossed
  BY TurnFigures DEF Answer

LEMMA NewCallType ==
    ASSUME NEW label \in Labels
    PROVE  /\ [NewCall EXCEPT !.pc = label] \in Items
           /\ [NewCall EXCEPT !.pc = label].pc = label
           /\ [NewCall EXCEPT !.pc = label].ok = FALSE
           /\ [NewCall EXCEPT !.pc = label].mark = 0
           /\ [NewCall EXCEPT !.pc = label].crossed = {}
           /\ [NewCall EXCEPT !.pc = label].set = NoSet
  <1>1. 0 \in Cycles
    BY CyclesType
  <1> QED
    BY <1>1 DEF NewCall, Items

LEMMA TurnEnd ==
    ASSUME call \in [Calls -> Items], NEW p \in Calls, NEW label \in Labels,
           End(p, label)
    PROVE  /\ Turn(p)
           /\ call'[p].pc = label
           /\ call'[p].ok = FALSE
           /\ call'[p].mark = 0
           /\ call'[p].crossed = {}
  <1> DEFINE x == [NewCall EXCEPT !.pc = label]
  <1>1. /\ x \in Items /\ x.pc = label /\ x.ok = FALSE /\ x.mark = 0 /\ x.crossed = {}
    BY NewCallType
  <1>2. call' = [call EXCEPT ![p] = x]
    BY DEF End
  <1> HIDE DEF x
  <1> QED
    BY <1>1, <1>2, TurnTo

\* The steps of a reservation.
LEMMA TurnReserved ==
    ASSUME call \in [Calls -> Items], NEW p \in Calls, NEW c \in Cycles,
           call' = [call EXCEPT ![p].pc = "reserved", ![p].mark = c]
    PROVE  /\ Turn(p)
           /\ call'[p].pc = "reserved"
           /\ call'[p].mark = c
  <1> DEFINE x == [call[p] EXCEPT !.pc = "reserved", !.mark = c]
  <1>1. call[p] \in Items
    BY ItemOf
  <1>2. x \in Items /\ x.pc = "reserved" /\ x.mark = c
    BY <1>1 DEF Items, Labels
  <1>3. call' = [call EXCEPT ![p] = x]
    OBVIOUS
  <1> HIDE DEF x
  <1> QED
    BY <1>2, <1>3, TurnTo

LEMMA TurnHolding ==
    ASSUME call \in [Calls -> Items], NEW p \in Calls, NEW n \in Nat, NEW c \in Cycles,
           call' = [call EXCEPT ![p].pc = "holding", ![p].total = n, ![p].cycle = c]
    PROVE  /\ Turn(p)
           /\ call'[p].pc = "holding"
           /\ call'[p].total = n
           /\ call'[p].cycle = c
           /\ call'[p].mark = call[p].mark
  <1> DEFINE x == [call[p] EXCEPT !.pc = "holding", !.total = n, !.cycle = c]
  <1>1. call[p] \in Items
    BY ItemOf
  <1>2. /\ x \in Items /\ x.pc = "holding" /\ x.total = n /\ x.cycle = c
        /\ x.mark = call[p].mark
    BY <1>1 DEF Items, Labels
  <1>3. call' = [call EXCEPT ![p] = x]
    OBVIOUS
  <1> HIDE DEF x
  <1> QED
    BY <1>2, <1>3, TurnTo

LEMMA TurnCalling ==
    ASSUME call \in [Calls -> Items], NEW p \in Calls, NEW c \in Cycles,
           call' = [call EXCEPT ![p] = [NewCall EXCEPT !.pc = "calling", !.mark = c]]
    PROVE  /\ Turn(p)
           /\ call'[p].pc = "calling"
           /\ call'[p].mark = c
  <1> DEFINE x == [NewCall EXCEPT !.pc = "calling", !.mark = c]
  <1>1. 0 \in Cycles
    BY CyclesType
  <1>2. x \in Items /\ x.pc = "calling" /\ x.mark = c
    BY <1>1 DEF NewCall, Items, Labels
  <1>3. call' = [call EXCEPT ![p] = x]
    OBVIOUS
  <1> HIDE DEF x
  <1> QED
    BY <1>2, <1>3, TurnTo

LEMMA TurnPlanned ==
    ASSUME call \in [Calls -> Items], NEW p \in Calls, NEW n \in Nat, NEW c \in Cycles,
           NEW due \in SUBSET Thresholds,
           call' = [call EXCEPT ![p].pc = "planned", ![p].cost = n,
                                ![p].cycle = c, ![p].crossed = due]
    PROVE  /\ Turn(p)
           /\ call'[p].pc = "planned"
           /\ call'[p].mark = call[p].mark
           /\ call'[p].crossed = due
  <1> DEFINE x == [call[p] EXCEPT !.pc = "planned", !.cost = n, !.cycle = c,
                                  !.crossed = due]
  <1>1. call[p] \in Items
    BY ItemOf
  <1>2. /\ x \in Items /\ x.pc = "planned" /\ x.mark = call[p].mark
        /\ x.crossed = due
    BY <1>1 DEF Items, Labels
  <1>3. call' = [call EXCEPT ![p] = x]
    OBVIOUS
  <1> HIDE DEF x
  <1> QED
    BY <1>2, <1>3, TurnTo

LEMMA TurnUnheard ==
    ASSUME call \in [Calls -> Items], NEW p \in Calls,
           call' = [call EXCEPT ![p].pc = "settled", ![p].crossed = {}]
    PROVE  /\ Turn(p)
           /\ call'[p].pc = "settled"
           /\ call'[p].mark = call[p].mark
           /\ call'[p].crossed = {}
  <1> DEFINE x == [call[p] EXCEPT !.pc = "settled", !.crossed = {}]
  <1>1. call[p] \in Items
    BY ItemOf
  <1>2. x \in Items /\ x.pc = "settled" /\ x.mark = call[p].mark /\ x.crossed = {}
    BY <1>1 DEF Items, Labels
  <1>3. call' = [call EXCEPT ![p] = x]
    OBVIOUS
  <1> HIDE DEF x
  <1> QED
    BY <1>2, <1>3, TurnTo

LEMMA TurnAlerting ==
    ASSUME call \in [Calls -> Items], NEW p \in Calls, NEW set \in Requests,
           call' = [call EXCEPT ![p].pc = "alerting", ![p].set = set]
    PROVE  /\ Turn(p)
           /\ call'[p].pc = "alerting"
           /\ call'[p].set = set
           /\ call'[p].mark = call[p].mark
           /\ call'[p].crossed = call[p].crossed
  <1> DEFINE x == [call[p] EXCEPT !.pc = "alerting", !.set = set]
  <1>1. call[p] \in Items
    BY ItemOf
  <1>2. /\ x \in Items /\ x.pc = "alerting" /\ x.set = set
        /\ x.mark = call[p].mark /\ x.crossed = call[p].crossed
    BY <1>1 DEF Items, Labels
  <1>3. call' = [call EXCEPT ![p] = x]
    OBVIOUS
  <1> HIDE DEF x
  <1> QED
    BY <1>2, <1>3, TurnTo

-----------------------------------------------------------------------------
(* Reservations and resets are counted                                     *)

Done == {"reset", "clearing"} \cup Ended

\* Calls a step leaves alone stay what they are.
LEMMA OthersOK ==
    ASSUME Core, NEW p \in Calls, Turn(p), cycle' \in Nat, cycle' >= cycle,
           NEW o \in Calls, o # p
    PROVE  KindOK(o)'
  <1>1. call'[o] = call[o]
    BY DEF Turn
  <1>2. KindOK(o)
    BY DEF Core
  <1>3. call[o].mark \in Nat /\ cycle \in Nat
    BY ItemOf, CyclesType DEF Core, TypeOK, Items
  <1>4. call[o].mark <= cycle'
    BY <1>2, <1>3 DEF KindOK
  <1> QED
    BY <1>1, <1>2, <1>4 DEF KindOK

LEMMA DoneKept ==
    ASSUME Core, NEW p \in Calls, Turn(p), UNCHANGED cycle,
           call[p].pc \in Done => call'[p].pc \in Done
    PROVE  CyclesCounted'
  <1>1. ResetsDone \subseteq ResetsDone'
    <2>1. Resets \subseteq Calls
      BY DEF Calls
    <2> QED
      BY <2>1 DEF ResetsDone, Turn, Done
  <1>2. IsFiniteSet(ResetsDone')
    BY QuotaAssumption, FS_Subset DEF ResetsDone
  <1>3. Cardinality(ResetsDone) <= Cardinality(ResetsDone')
    BY <1>1, <1>2, FS_Subset
  <1>4. Cardinality(ResetsDone) \in Nat /\ Cardinality(ResetsDone') \in Nat
    BY <1>1, <1>2, FS_Subset, FS_CardinalityType
  <1>5. cycle <= Cardinality(ResetsDone) /\ cycle \in Nat
    BY DEF Core, TypeOK, CyclesCounted
  <1>6. cycle' <= Cardinality(ResetsDone')
    BY <1>3, <1>4, <1>5
  <1> QED
    BY <1>6 DEF CyclesCounted

LEMMA CycleType ==
    ASSUME cycle \in Nat, CyclesCounted
    PROVE  cycle \in Cycles
  <1>1. Cardinality(ResetsDone) <= Cardinality(Resets) /\ IsFiniteSet(ResetsDone)
    BY QuotaAssumption, FS_Subset DEF ResetsDone
  <1>2. Cardinality(ResetsDone) \in Nat /\ Cardinality(Resets) \in Nat
    BY <1>1, QuotaAssumption, FS_CardinalityType
  <1> QED
    BY <1>1, <1>2 DEF CyclesCounted, Cycles

LEMMA CycleTypeNext ==
    ASSUME cycle' \in Nat, CyclesCounted'
    PROVE  cycle' \in Cycles
  <1>1. Cardinality(ResetsDone') <= Cardinality(Resets) /\ IsFiniteSet(ResetsDone')
    BY QuotaAssumption, FS_Subset DEF ResetsDone
  <1>2. Cardinality(ResetsDone') \in Nat /\ Cardinality(Resets) \in Nat
    BY <1>1, QuotaAssumption, FS_CardinalityType
  <1>3. cycle' <= Cardinality(ResetsDone')
    BY DEF CyclesCounted
  <1> QED
    BY <1>1, <1>2, <1>3 DEF Cycles

LEMMA HeldType ==
    ASSUME Core
    PROVE  Total(Estimate, Holds) \in Nat
  BY FS_CardinalityType DEF Core, HeldCovered, Total

\* Whose reservations count does not change but for p's.
LEMMA HoldsBut ==
    ASSUME Core, NEW p \in Calls, Turn(p), UNCHANGED cycle
    PROVE  Holds' \ {p} = Holds \ {p}
  <1>1. Requests \subseteq Calls
    BY DEF Calls
  <1> QED
    BY <1>1 DEF Holds, Turn

\* No reservation is made.
LEMMA HeldFewer ==
    ASSUME Core, Holds' \subseteq Holds, total' \in Nat, total' >= total
    PROVE  HeldCovered'
  <1>1. /\ IsFiniteSet(Units(Estimate, Holds'))
        /\ Total(Estimate, Holds') <= Total(Estimate, Holds)
    BY TotalOfSome DEF Core, HeldCovered
  <1>2. Total(Estimate, Holds') \in Nat
    BY <1>1, FS_CardinalityType DEF Total
  <1>3. Total(Estimate, Holds') <= total'
    BY <1>1, <1>2, HeldType DEF Core, TypeOK, HeldCovered
  <1>4. Units(Estimate, Holds)' = Units(Estimate, Holds')
    OBVIOUS
  <1>5. Total(Estimate, Holds)' = Total(Estimate, Holds')
    OBVIOUS
  <1> QED
    BY <1>1, <1>3, <1>4, <1>5 DEF HeldCovered

LEMMA HeldKept ==
    ASSUME Core, NEW p \in Calls, Turn(p), UNCHANGED cycle,
           total' \in Nat, total' >= total,
           p \in Holds' => p \in Holds
    PROVE  HeldCovered'
  <1>1. Holds' \subseteq Holds
    BY HoldsBut
  <1> QED
    BY <1>1, HeldFewer

\* A reservation is made.
LEMMA HeldMore ==
    ASSUME Core, NEW p \in Requests, Turn(p), UNCHANGED cycle, p \notin Holds,
           p \in Holds', total' = total + Estimate[p]
    PROVE  HeldCovered'
  <1>1. p \in Calls /\ Estimate[p] \in Nat
    BY QuotaAssumption DEF Calls
  <1>2. Holds' = Holds \cup {p}
    BY <1>1, HoldsBut
  <1>3. /\ IsFiniteSet(Units(Estimate, Holds \cup {p}))
        /\ Total(Estimate, Holds \cup {p}) = Total(Estimate, Holds) + Estimate[p]
    BY <1>1, TotalWith DEF Core, HeldCovered
  <1>4. Total(Estimate, Holds \cup {p}) <= total'
    BY <1>1, <1>3, HeldType DEF Core, TypeOK, HeldCovered
  <1> QED
    BY <1>2, <1>3, <1>4 DEF HeldCovered

\* A reservation is settled.
LEMMA HeldLess ==
    ASSUME Core, NEW p \in Holds, Turn(p), UNCHANGED cycle, p \notin Holds',
           NEW cost \in Nat, total' = total + cost - Estimate[p]
    PROVE  total' \in Nat /\ HeldCovered'
  <1>1. p \in Calls /\ Estimate[p] \in Nat
    BY QuotaAssumption DEF Calls, Holds
  <1>2. Holds' = Holds \ {p}
    BY <1>1, HoldsBut
  <1>3. /\ IsFiniteSet(Units(Estimate, Holds \ {p}))
        /\ Total(Estimate, Holds \ {p}) \in Nat
        /\ Total(Estimate, Holds) = Total(Estimate, Holds \ {p}) + Estimate[p]
    BY <1>1, TotalWithout DEF Core, HeldCovered
  <1>4. Total(Estimate, Holds) <= total /\ total \in Nat
    BY DEF Core, TypeOK, HeldCovered
  <1>5. Total(Estimate, Holds \ {p}) <= total' /\ total' \in Nat
    BY <1>1, <1>3, <1>4
  <1> QED
    BY <1>2, <1>3, <1>5 DEF HeldCovered

\* A step of one call that makes no reservation.
LEMMA QuietTurn ==
    ASSUME Core, NEW p \in Calls, Turn(p), UNCHANGED cycle,
           total' \in Nat, total' >= total, KindOK(p)',
           call[p].pc \in Done => call'[p].pc \in Done,
           p \in Holds' => p \in Holds
    PROVE  (\A o \in Calls : KindOK(o)') /\ HeldCovered' /\ CyclesCounted'
  <1>1. \A o \in Calls : KindOK(o)'
    BY OthersOK DEF Core, TypeOK
  <1> QED
    BY <1>1, HeldKept, DoneKept

-----------------------------------------------------------------------------
(* Types, and what keeps them                                              *)

\* What changes besides calls has its type.
RestTyped ==
    /\ crossings \subseteq Keys
    /\ view \in [Instances -> Views]
    /\ fresh \in [Instances -> BOOLEAN]
    /\ sets \in [Requests -> SUBSET Thresholds]
    /\ peak \in [Cycles -> Nat]
    /\ announced \in [Keys -> Nat]
    /\ faults \in Nat

LEMMA CoreParts ==
    Core <=> /\ total \in Nat
             /\ cycle \in Nat
             /\ RestTyped
             /\ call \in [Calls -> Items]
             /\ \A o \in Calls : KindOK(o)
             /\ HeldCovered
             /\ CyclesCounted
  BY DEF Core, TypeOK, RestTyped, Views, Items

LEMMA CoreNext ==
    ASSUME total' \in Nat, cycle' \in Nat, RestTyped', call' \in [Calls -> Items],
           \A o \in Calls : KindOK(o)', HeldCovered', CyclesCounted'
    PROVE  Core'
  BY DEF Core, TypeOK, RestTyped, Views, Items

LEMMA QuietCore ==
    ASSUME Core, NEW p \in Calls, Turn(p), UNCHANGED cycle,
           total' \in Nat, total' >= total, KindOK(p)', RestTyped',
           call[p].pc \in Done => call'[p].pc \in Done,
           p \in Holds' => p \in Holds
    PROVE  Core'
  <1>1. (\A o \in Calls : KindOK(o)') /\ HeldCovered' /\ CyclesCounted'
    BY QuietTurn
  <1>2. cycle' \in Nat
    BY CoreParts
  <1>3. call' \in [Calls -> Items]
    BY DEF Turn
  <1> QED
    BY <1>1, <1>2, <1>3, CoreNext

\* A step that changes nothing but calls, and no reservation.
LEMMA StillCore ==
    ASSUME Core, NEW p \in Calls, Turn(p), UNCHANGED <<total, cycle>>,
           KindOK(p)', RestTyped',
           call[p].pc \notin Done,
           p \in Holds' => p \in Holds
    PROVE  Core'
  <1>1. total' \in Nat /\ total' >= total
    BY CoreParts
  <1> QED
    BY <1>1, QuietCore

LEMMA FaultType == ASSUME Core, Fault \/ UNCHANGED faults PROVE faults' \in Nat
  BY DEF Core, TypeOK, Fault

LEMMA MovedType ==
    ASSUME Core, NEW n \in Nat, Moved(n)
    PROVE  /\ total' = n
           /\ UNCHANGED cycle
           /\ peak' = [peak EXCEPT ![cycle] = Larger(@, n)]
           /\ peak' \in [Cycles -> Nat]
  BY DEF Core, TypeOK, Moved, Larger

LEMMA NewViewType ==
    /\ NewView \in Views
    /\ \A c \in Cycles : Cleared(NewView, c) \in Views
  <1>1. 0 \in Cycles
    BY CyclesType
  <1> QED
    BY <1>1 DEF NewView, Cleared, Views

LEMMA SeededType ==
    ASSUME NEW n \in Nat, NEW c \in Cycles
    PROVE  /\ [NewView EXCEPT !.known = c, !.spend = n] \in Views
           /\ [NewView EXCEPT !.known = c, !.spend = n].alerted = NoSet
           /\ [NewView EXCEPT !.known = c, !.spend = n].known = c
           /\ [NewView EXCEPT !.known = c, !.spend = n].spend = n
  <1>1. NewView \in Views /\ NewView.alerted = NoSet
    BY NewViewType DEF NewView
  <1> QED
    BY <1>1 DEF Views

LEMMA AdoptedType ==
    ASSUME NEW v \in Views, NEW n \in Nat, NEW c \in Cycles
    PROVE  /\ Adopted(v, n, c) \in Views
           /\ Adopted(v, n, c).alerted \in {v.alerted, NoSet}
           /\ Adopted(v, n, c).known >= c
           /\ \/ Adopted(v, n, c) = v
              \/ /\ Adopted(v, n, c).known = c
                 /\ Adopted(v, n, c).spend = n
              \/ /\ Adopted(v, n, c).known = v.known
                 /\ Adopted(v, n, c).spend = v.spend
                 /\ Adopted(v, n, c).unshared = v.unshared
  <1>1. c \in Nat /\ v.known \in Nat /\ v.known \in Cycles
    BY CyclesType DEF Views
  <1>2. CASE c < v.known
    <2>1. Adopted(v, n, c) = v
      BY <1>1, <1>2 DEF Adopted
    <2> QED
      BY <1>1, <1>2, <2>1
  <1>3. CASE c = v.known
    <2>1. Adopted(v, n, c) = [v EXCEPT !.spend = Larger(n, v.spend)]
      BY <1>1, <1>3 DEF Adopted
    <2>2. Larger(n, v.spend) \in {n, v.spend}
      BY DEF Larger
    <2>3. /\ Adopted(v, n, c) \in Views
          /\ Adopted(v, n, c).alerted = v.alerted
          /\ Adopted(v, n, c).known = v.known
          /\ Adopted(v, n, c).unshared = v.unshared
          /\ Adopted(v, n, c).spend = Larger(n, v.spend)
      BY <2>1, <2>2 DEF Views
    <2> QED
      BY <1>1, <1>3, <2>2, <2>3
  <1>4. CASE c > v.known
    <2>1. Adopted(v, n, c) = [NewView EXCEPT !.known = c, !.spend = n]
      BY <1>1, <1>4 DEF Adopted
    <2>2. /\ Adopted(v, n, c) \in Views
          /\ Adopted(v, n, c).alerted = NoSet
          /\ Adopted(v, n, c).known = c
          /\ Adopted(v, n, c).spend = n
      <3> DEFINE w == [NewView EXCEPT !.known = c, !.spend = n]
      <3>1. w \in Views /\ w.alerted = NoSet /\ w.known = c /\ w.spend = n
        BY SeededType
      <3>2. Adopted(v, n, c) = w
        BY <2>1
      <3> HIDE DEF w
      <3> QED
        BY <3>1, <3>2
    <2> QED
      BY <1>1, <2>2
  <1> QED
    BY <1>1, <1>2, <1>3, <1>4

-----------------------------------------------------------------------------
(* Each action keeps the core                                              *)

LEMMA CheckedIs ==
    ASSUME NEW p \in Requests \cup Probes, NEW v
    PROVE  /\ Checked(p, v) \in {"idle", "denied", "admitted"}
           /\ Checked(p, v) # "idle" => p \in Requests
  BY DEF Checked

LEMMA BeginCore == ASSUME Core, NEW p \in Calls, Begin(p) PROVE Core'
  <1> DEFINE i == At[p]
  <1>1. i \in Instances /\ call \in [Calls -> Items]
    BY QuotaAssumption, CoreParts
  <1>2. /\ p \in Requests \cup Probes /\ p \notin Bills
        /\ call[p].pc = "idle" /\ UNCHANGED counter
    BY QuotaAssumption DEF Begin, Open
  <1>3. /\ fresh' \in [Instances -> BOOLEAN]
        /\ RestTyped'
    BY CoreParts DEF Begin, RestTyped, counter
  <1>4. PICK label \in {"idle", "denied", "admitted", "reading"} :
          /\ Goto(p, label)
          /\ label \in {"denied", "admitted"} => p \in Requests
    BY <1>2, CheckedIs DEF Begin
  <1>5. Turn(p) /\ call'[p].pc = label /\ call'[p].mark = call[p].mark
    BY <1>1, <1>4, TurnGoto DEF Labels, Ended
  <1>6. KindOK(p)'
    BY <1>2, <1>4, <1>5, CoreParts DEF KindOK, counter, Reserving
  <1>7. p \notin Holds' /\ call[p].pc \notin Done
    BY <1>2, <1>4, <1>5 DEF Holds, Reserving, Done, Ended
  <1> QED
    BY <1>2, <1>3, <1>5, <1>6, <1>7, StillCore DEF counter

LEMMA ReadCore == ASSUME Core, NEW p \in Calls, Read(p) PROVE Core'
  <1>1. /\ call \in [Calls -> Items] /\ total \in Nat /\ cycle \in Cycles
        /\ call[p].pc = "reading"
    BY CoreParts, CycleType DEF Read
  <1>2. RestTyped' /\ UNCHANGED <<total, cycle>>
    BY CoreParts, FaultType DEF Read, RestTyped, counter
  <1>3. Turn(p) /\ call'[p].pc = "read" /\ call'[p].mark = call[p].mark
    <2>1. CASE Answer(p, "read")
      BY <1>1, <2>1, TurnAnswer DEF Labels
    <2>2. CASE NoAnswer(p, "read")
      BY <1>1, <2>2, TurnNoAnswer DEF Labels
    <2> QED
      BY <2>1, <2>2 DEF Read
  <1>4. KindOK(p)'
    BY <1>1, <1>2, <1>3, CoreParts DEF KindOK, Reserving
  <1>5. p \notin Holds' /\ call[p].pc \notin Done
    BY <1>1, <1>3 DEF Holds, Reserving, Done, Ended
  <1> QED
    BY <1>2, <1>3, <1>4, <1>5, StillCore

LEMMA AdoptReadCore == ASSUME Core, NEW p \in Calls, AdoptRead(p) PROVE Core'
  <1> DEFINE i == At[p]
             v == IF call[p].ok THEN Adopted(view[i], call[p].total, call[p].cycle)
                  ELSE view[i]
             label == IF p \in Resets THEN "resetting" ELSE Checked(p, v)
  <1>1. i \in Instances /\ call \in [Calls -> Items] /\ view \in [Instances -> Views]
    BY QuotaAssumption, CoreParts DEF RestTyped
  <1>2. v \in Views
    BY <1>1, AdoptedType, ItemOf
  <1>3. RestTyped' /\ UNCHANGED <<total, cycle>> /\ call[p].pc = "read"
    BY <1>1, <1>2, CoreParts DEF AdoptRead, RestTyped, counter
  <1>4. p \notin Bills
    BY <1>3, CoreParts DEF KindOK
  <1>5. /\ label \in {"resetting", "idle", "denied", "admitted"}
        /\ label = "resetting" => p \in Resets
        /\ label = "admitted" => p \in Requests
    BY <1>4, CheckedIs DEF Calls
  <1>6. Turn(p) /\ call'[p].pc = label /\ call'[p].mark = 0
    BY <1>1, <1>5, TurnEnd DEF AdoptRead, Labels, Ended
  <1> HIDE DEF label
  <1>7. KindOK(p)'
    BY <1>3, <1>5, <1>6, CoreParts DEF KindOK, Reserving
  <1>8. p \notin Holds' /\ call[p].pc \notin Done
    BY <1>3, <1>5, <1>6 DEF Holds, Reserving, Done, Ended
  <1> QED
    BY <1>3, <1>6, <1>7, <1>8, StillCore

LEMMA ElapseCore == ASSUME Core, NEW i \in Instances, Elapse(i) PROVE Core'
  <1>1. /\ UNCHANGED <<total, cycle, call>>
        /\ RestTyped'
    BY CoreParts DEF Elapse, Stale, counter, RestTyped
  <1>2. (\A o \in Calls : KindOK(o)') /\ HeldCovered' /\ CyclesCounted'
    BY <1>1, CoreParts DEF KindOK, HeldCovered, Holds, CyclesCounted, ResetsDone
  <1> QED
    BY <1>1, <1>2, CoreParts, CoreNext

LEMMA ReserveCore == ASSUME Core, NEW p \in Calls, Reserve(p) PROVE Core'
  <1>1. /\ call \in [Calls -> Items] /\ total \in Nat /\ cycle \in Nat
        /\ cycle \in Cycles /\ call[p].pc = "admitted" /\ p \in Requests
    BY CoreParts, CycleType DEF Reserve, KindOK
  <1>2. Estimate[p] \in Nat /\ total + Estimate[p] \in Nat
    BY <1>1, QuotaAssumption
  <1>3. faults' \in Nat
    BY FaultType DEF Reserve
  <1>4. /\ \/ UNCHANGED <<total, cycle, peak>>
           \/ Moved(total + Estimate[p])
        /\ UNCHANGED <<crossings, view, fresh, sets, announced>>
    BY DEF Reserve
  <1>5. /\ UNCHANGED cycle /\ total' \in Nat /\ total' >= total
        /\ peak' \in [Cycles -> Nat]
    BY <1>1, <1>2, <1>4, CoreParts, MovedType DEF RestTyped
  <1>6. RestTyped'
    BY <1>3, <1>4, <1>5, CoreParts DEF RestTyped
  <1>7. call[p].pc \notin Reserving \cup Done /\ p \notin Holds
    BY <1>1 DEF Reserving, Done, Ended, Holds
  <1>8. CASE /\ Moved(total + Estimate[p])
             /\ call' = [call EXCEPT ![p].pc = "reserved", ![p].mark = cycle]
    <2>1. Turn(p) /\ call'[p].pc = "reserved" /\ call'[p].mark = cycle
      BY <1>1, <1>8, TurnReserved
    <2>2. KindOK(p)'
      BY <1>1, <1>5, <2>1 DEF KindOK, Reserving
    <2>3. p \in Holds'
      BY <1>1, <1>5, <2>1 DEF Holds, Reserving
    <2>4. total' = total + Estimate[p]
      BY <1>8 DEF Moved
    <2>5. HeldCovered'
      BY <1>1, <1>5, <1>7, <2>1, <2>3, <2>4, HeldMore
    <2>6. CyclesCounted'
      BY <1>5, <1>7, <2>1, DoneKept
    <2>7. \A o \in Calls : KindOK(o)'
      BY <1>1, <1>5, <2>1, <2>2, OthersOK
    <2> QED
      BY <1>1, <1>5, <1>6, <2>1, <2>5, <2>6, <2>7, CoreNext DEF Turn
  <1>9. CASE Goto(p, "denied") \/ Goto(p, "failed")
    <2>1. PICK label \in {"denied", "failed"} : Goto(p, label)
      BY <1>9
    <2>2. Turn(p) /\ call'[p].pc = label /\ call'[p].mark = call[p].mark
      BY <1>1, <2>1, TurnGoto DEF Labels, Ended
    <2>3. KindOK(p)' /\ p \notin Holds'
      BY <1>5, <2>2, CoreParts DEF KindOK, Holds, Reserving
    <2> QED
      BY <1>5, <1>6, <1>7, <2>2, <2>3, QuietCore
  <1> QED
    BY <1>8, <1>9 DEF Reserve

LEMMA TurnReadReserved ==
    ASSUME Core, NEW p \in Calls, ReadReserved(p)
    PROVE  /\ Turn(p)
           /\ call'[p].pc = "holding"
           /\ call'[p].total = total
           /\ call'[p].cycle = call[p].mark
           /\ call'[p].mark = call[p].mark
  BY CoreParts, ItemOf, TurnHolding DEF ReadReserved

LEMMA ReadReservedCore == ASSUME Core, NEW p \in Calls, ReadReserved(p) PROVE Core'
  <1>1. /\ call \in [Calls -> Items] /\ total \in Nat
        /\ call[p].mark \in Cycles /\ call[p].pc = "reserved"
    BY CoreParts, ItemOf DEF ReadReserved
  <1>2. RestTyped' /\ UNCHANGED <<total, cycle>>
    BY CoreParts DEF ReadReserved, RestTyped, counter
  <1>3. Turn(p) /\ call'[p].pc = "holding" /\ call'[p].mark = call[p].mark
    BY TurnReadReserved
  <1>4. KindOK(p)' /\ (p \in Holds' => p \in Holds)
    BY <1>1, <1>2, <1>3, CoreParts DEF KindOK, Reserving, Holds
  <1>5. call[p].pc \notin Done
    BY <1>1 DEF Done, Ended
  <1> QED
    BY <1>2, <1>3, <1>4, <1>5, StillCore

LEMMA AdoptReservedCore == ASSUME Core, NEW p \in Calls, AdoptReserved(p) PROVE Core'
  <1>1. /\ call \in [Calls -> Items] /\ view \in [Instances -> Views]
        /\ call[p].mark \in Cycles /\ call[p].pc = "holding" /\ At[p] \in Instances
    BY CoreParts, ItemOf, QuotaAssumption DEF AdoptReserved, RestTyped
  <1>2. Adopted(view[At[p]], call[p].total, call[p].cycle) \in Views
    BY <1>1, AdoptedType, ItemOf
  <1>3. RestTyped' /\ UNCHANGED <<total, cycle>>
    BY <1>1, <1>2, CoreParts DEF AdoptReserved, RestTyped, counter
  <1>4. Turn(p) /\ call'[p].pc = "calling" /\ call'[p].mark = call[p].mark
    BY <1>1, TurnCalling DEF AdoptReserved
  <1>5. KindOK(p)' /\ (p \in Holds' => p \in Holds)
    BY <1>1, <1>3, <1>4, CoreParts DEF KindOK, Reserving, Holds
  <1>6. call[p].pc \notin Done
    BY <1>1 DEF Done, Ended
  <1> QED
    BY <1>3, <1>4, <1>5, <1>6, StillCore

LEMMA PlanCore == ASSUME Core, NEW p \in Calls, Plan(p) PROVE Core'
  <1>1. /\ call \in [Calls -> Items] /\ cycle \in Cycles /\ call[p].cost \in Nat
        /\ call[p].pc \in {"calling", "planning"} /\ p \in Requests
    BY CoreParts, ItemOf, CycleType DEF Plan, KindOK, Reserving
  <1>2. PICK cost \in IF call[p].pc = "calling" THEN Costs[p] ELSE {call[p].cost} :
          call' = [call EXCEPT ![p].pc = "planned", ![p].cost = cost,
                               ![p].cycle = cycle, ![p].crossed = Due(p, cost)]
    BY DEF Plan
  <1>3. cost \in Nat /\ Due(p, cost) \subseteq Thresholds
    BY <1>1, QuotaAssumption DEF Due
  <1>4. Turn(p) /\ call'[p].pc = "planned" /\ call'[p].mark = call[p].mark
    BY <1>1, <1>2, <1>3, TurnPlanned
  <1>5. RestTyped' /\ UNCHANGED <<total, cycle>>
    BY CoreParts DEF Plan, RestTyped, counter
  <1>6. KindOK(p)' /\ (p \in Holds' => p \in Holds)
    BY <1>1, <1>4, <1>5, CoreParts DEF KindOK, Reserving, Holds
  <1>7. call[p].pc \notin Done
    BY <1>1 DEF Done, Ended
  <1> QED
    BY <1>4, <1>5, <1>6, <1>7, StillCore

\* What a settlement does to the counter.
LEMMA SettleKeeps ==
    ASSUME Core, NEW p \in Calls, call[p].pc = "planned", Settle(p),
           Turn(p), call'[p].pc \notin Reserving
    PROVE  /\ UNCHANGED cycle
           /\ total' \in Nat
           /\ HeldCovered'
           /\ peak' \in [Cycles -> Nat]
           /\ crossings' \subseteq Keys
  <1>1. /\ p \in Requests /\ call[p].cost \in Nat /\ call[p].mark \in Cycles
        /\ call[p].crossed \subseteq Thresholds /\ total \in Nat
    BY CoreParts, ItemOf DEF KindOK, Reserving
  <1>2. crossings' \subseteq Keys
    BY <1>1, CoreParts DEF Settle, RestTyped, Keys
  <1>3. p \notin Holds'
    BY DEF Holds
  <1>4. CASE Adjusts(p)
    <2>1. cycle = call[p].mark /\ Moved(total + Delta(p, call[p].cost))
      BY <1>4 DEF Settle, Conditions
    <2>2. p \in Holds
      BY <1>1, <2>1 DEF Holds, Reserving
    <2>3. Estimate[p] \in Nat
      BY <1>1, QuotaAssumption
    <2>4. UNCHANGED cycle /\ total' = total + call[p].cost - Estimate[p]
      BY <1>1, <2>1, <2>3 DEF Moved, Delta
    <2>5. total' \in Nat /\ HeldCovered'
      BY <1>1, <1>3, <2>2, <2>4, HeldLess
    <2>6. total + Delta(p, call[p].cost) \in Nat
      BY <1>1, <2>3, <2>4, <2>5 DEF Delta
    <2>7. peak' \in [Cycles -> Nat]
      BY <2>1, <2>6, MovedType
    <2> QED
      BY <1>2, <2>4, <2>5, <2>7
  <1>5. CASE ~ Adjusts(p)
    <2>1. UNCHANGED <<total, cycle, peak>>
      BY <1>5 DEF Settle
    <2>2. total' >= total /\ UNCHANGED cycle
      BY <1>1, <2>1
    <2>3. HeldCovered'
      BY <1>1, <1>3, <2>1, <2>2, HeldKept
    <2> QED
      BY <1>1, <1>2, <2>1, <2>3, CoreParts DEF RestTyped
  <1> QED
    BY <1>4, <1>5

\* Where a commit leaves its call.
LEMMA TurnCommit ==
    ASSUME call \in [Calls -> Items], NEW p \in Calls, Commit(p)
    PROVE  /\ Turn(p)
           /\ call[p].pc = "planned"
           /\ \/ /\ call'[p].pc = "settled" /\ call'[p].mark = call[p].mark
                 /\ call'[p].crossed \in {call[p].crossed, {}}
                 /\ Settle(p)
              \/ /\ call'[p].pc = "planning" /\ call'[p].mark = call[p].mark
                 /\ UNCHANGED counter
              \/ /\ call'[p].pc = "failed" /\ call'[p].mark = 0
                 /\ Settle(p) \/ UNCHANGED counter
  <1>1. CASE Settle(p) /\ Goto(p, "settled")
    BY <1>1, TurnGoto DEF Commit, Labels
  <1>2. CASE Goto(p, "planning") /\ UNCHANGED counter
    BY <1>2, TurnGoto DEF Commit, Labels
  <1>3. CASE /\ Settle(p)
             /\ call' = [call EXCEPT ![p].pc = "settled", ![p].crossed = {}]
    BY <1>3, TurnUnheard DEF Commit
  <1>4. CASE End(p, "failed") /\ (Settle(p) \/ UNCHANGED counter)
    BY <1>4, TurnEnd DEF Commit, Labels, Ended
  <1> QED
    BY <1>1, <1>2, <1>3, <1>4 DEF Commit

LEMMA CommitCore == ASSUME Core, NEW p \in Calls, Commit(p) PROVE Core'
  <1>1. call \in [Calls -> Items] /\ p \in Requests /\ total \in Nat /\ cycle \in Nat
    BY CoreParts DEF Commit, KindOK, Reserving
  <1>2. /\ Turn(p) /\ call[p].pc = "planned"
        /\ call'[p].pc \in {"settled", "planning", "failed"}
        /\ call'[p].mark \in {call[p].mark, 0}
    BY <1>1, TurnCommit
  <1>3. faults' \in Nat /\ UNCHANGED <<view, fresh, sets, announced>>
    BY FaultType DEF Commit
  <1>4. call[p].pc \notin Done
    BY <1>2 DEF Done, Ended
  <1>5. CASE Settle(p) /\ call'[p].pc \notin Reserving
    <2>1. /\ UNCHANGED cycle /\ total' \in Nat /\ HeldCovered'
          /\ peak' \in [Cycles -> Nat] /\ crossings' \subseteq Keys
      BY <1>2, <1>5, SettleKeeps
    <2>2. KindOK(p)'
      BY <1>1, <1>2, <2>1, CoreParts DEF KindOK, Reserving
    <2>3. \A o \in Calls : KindOK(o)'
      BY <1>1, <1>2, <2>1, <2>2, OthersOK
    <2>4. CyclesCounted'
      BY <1>2, <1>4, <2>1, DoneKept
    <2>5. RestTyped'
      BY <1>3, <2>1, CoreParts DEF RestTyped
    <2> QED
      BY <1>1, <1>2, <2>1, <2>3, <2>4, <2>5, CoreNext DEF Turn
  <1>6. CASE UNCHANGED counter
    <2>1. RestTyped' /\ UNCHANGED <<total, cycle>>
      BY <1>3, <1>6, CoreParts DEF RestTyped, counter
    <2>2. KindOK(p)'
      BY <1>1, <1>2, <2>1, CoreParts DEF KindOK, Reserving
    <2>3. p \in Holds' => p \in Holds
      <3>1. call'[p].pc = "planning" => call'[p].mark = call[p].mark
        BY <1>1, TurnCommit
      <3> QED
        BY <1>1, <1>2, <2>1, <3>1 DEF Holds, Reserving
    <2> QED
      BY <1>2, <1>4, <2>1, <2>2, <2>3, StillCore
  <1> QED
    BY <1>1, <1>5, <1>6, TurnCommit DEF Reserving

LEMMA ReadSettledCore == ASSUME Core, NEW p \in Calls, ReadSettled(p) PROVE Core'
  <1>1. /\ call \in [Calls -> Items] /\ total \in Nat /\ cycle \in Cycles
        /\ call[p].pc = "settled" /\ p \in Requests
    BY CoreParts, CycleType DEF ReadSettled, KindOK
  <1>2. Turn(p) /\ call'[p].pc = "answered" /\ call'[p].mark = call[p].mark
    BY <1>1, TurnAnswer DEF ReadSettled, Labels
  <1>3. RestTyped' /\ UNCHANGED <<total, cycle>>
    BY CoreParts DEF ReadSettled, RestTyped, counter
  <1>4. KindOK(p)' /\ p \notin Holds'
    BY <1>1, <1>2, <1>3, CoreParts DEF KindOK, Reserving, Holds
  <1>5. call[p].pc \notin Done
    BY <1>1 DEF Done, Ended
  <1> QED
    BY <1>2, <1>3, <1>4, <1>5, StillCore

LEMMA LeastExists ==
    ASSUME NEW S \in SUBSET Nat, S # {}
    PROVE  \E t \in S : \A o \in S : t <= o
  <1> DEFINE R == OpToRel(<, Nat)
  <1>1. IsWellFoundedOn(R, Nat)
    BY NatLessThanWellFounded
  <1>2. \A x, y \in Nat : x < y => <<x, y>> \in R
    BY DEF OpToRel
  <1> HIDE DEF R
  <1>3. PICK t \in S : \A o \in S : ~ (<<o, t>> \in R)
    BY <1>1, WFMin
  <1>4. \A o \in S : t <= o
    <2> TAKE o \in S
    <2>1. t \in Nat /\ o \in Nat
      OBVIOUS
    <2>2. ~ (o < t)
      BY <1>2, <1>3, <2>1
    <2> QED
      BY <2>1, <2>2
  <1> QED
    BY <1>4

LEMMA WithAlertedType ==
    ASSUME NEW v \in Views, NEW set \in Requests
    PROVE  /\ [v EXCEPT !.alerted = set] \in Views
           /\ [v EXCEPT !.alerted = set].alerted = set
           /\ [v EXCEPT !.alerted = set].known = v.known
           /\ [v EXCEPT !.alerted = set].spend = v.spend
           /\ [v EXCEPT !.alerted = set].unshared = v.unshared
  BY DEF Views

\* t is held and announced.
Announces(p, set, held, t) ==
    /\ sets' = [sets EXCEPT ![set] = held \cup {t}]
    /\ announced' = [announced EXCEPT ![<<call[p].mark, t>>] = @ + 1]

\* The last of p's thresholds has been dealt with, or one more is announced.
LEMMA AnnounceIs ==
    ASSUME call \in [Calls -> Items], NEW p \in Calls, NEW v \in Views,
           NEW set \in Requests, NEW held, NEW due \in SUBSET Thresholds,
           Announce(p, v, set, held, due)
    PROVE  /\ Turn(p)
           /\ \E w \in Views :
                 /\ view' = [view EXCEPT ![At[p]] = w]
                 /\ w.known = v.known /\ w.spend = v.spend
                 /\ w.unshared = v.unshared
                 /\ w.alerted \in {v.alerted, set}
                 /\ w.alerted # v.alerted => call'[p].pc = "done"
           /\ \/ /\ call'[p].pc = "done" /\ call'[p].mark = 0
                 /\ due = {}
                 /\ sets' = [sets EXCEPT ![set] = held]
                 /\ UNCHANGED announced
              \/ /\ call'[p].pc = "alerting" /\ call'[p].set = set
                 /\ call'[p].mark = call[p].mark
                 /\ call'[p].crossed = call[p].crossed
                 /\ \E t \in due : Announces(p, set, held, t)
  <1>1. CASE due = {}
    <2> DEFINE w == [v EXCEPT !.alerted = set]
    <2>1. Turn(p) /\ call'[p].pc = "done" /\ call'[p].mark = 0
      BY <1>1, TurnEnd DEF Announce, Labels, Ended
    <2>2. /\ w \in Views /\ w.alerted = set /\ w.known = v.known
          /\ w.spend = v.spend /\ w.unshared = v.unshared
      BY WithAlertedType
    <2>3. /\ view' = [view EXCEPT ![At[p]] = w]
          /\ sets' = [sets EXCEPT ![set] = held]
          /\ UNCHANGED announced
      BY <1>1 DEF Announce
    <2> HIDE DEF w
    <2> QED
      BY <1>1, <2>1, <2>2, <2>3
  <1>2. CASE due # {}
    <2> DEFINE next == CHOOSE t \in due : \A o \in due : t <= o
    <2>1. due \in SUBSET Nat
      BY QuotaAssumption
    <2>2. next \in due
      BY <1>2, <2>1, LeastExists
    <2>3. /\ view' = [view EXCEPT ![At[p]] = v]
          /\ call' = [call EXCEPT ![p].pc = "alerting", ![p].set = set]
          /\ sets' = [sets EXCEPT ![set] = held \cup {next}]
          /\ announced' = [announced EXCEPT ![<<call[p].mark, next>>] = @ + 1]
      BY <1>2 DEF Announce
    <2> HIDE DEF next
    <2>4. /\ Turn(p) /\ call'[p].pc = "alerting" /\ call'[p].set = set
          /\ call'[p].mark = call[p].mark /\ call'[p].crossed = call[p].crossed
      BY <2>3, TurnAlerting
    <2> QED
      BY <2>2, <2>3, <2>4 DEF Announces
  <1> QED
    BY <1>1, <1>2

LEMMA AnnounceCore ==
    ASSUME Core, NEW p \in Requests, NEW v \in Views, NEW set \in Requests,
           NEW held \in SUBSET Thresholds,
           call[p].pc \in {"answered", "alerting"},
           Announce(p, v, set, held, call[p].crossed \ held),
           UNCHANGED <<counter, fresh, faults>>
    PROVE  Core'
  <1>1. /\ p \in Calls /\ call \in [Calls -> Items] /\ call[p].mark \in Cycles
        /\ call[p].crossed \ held \in SUBSET Thresholds
    BY CoreParts, ItemOf DEF Calls
  <1>2. /\ Turn(p)
        /\ call'[p].pc \in {"done", "alerting"}
        /\ call'[p].mark \in {0, call[p].mark}
        /\ call'[p].pc = "alerting" => call'[p].set = set
    BY <1>1, AnnounceIs
  <1>3. PICK w \in Views : view' = [view EXCEPT ![At[p]] = w]
    BY <1>1, AnnounceIs
  <1>4. /\ sets' \in [Requests -> SUBSET Thresholds]
        /\ announced' \in [Keys -> Nat]
    <2>1. CASE /\ sets' = [sets EXCEPT ![set] = held]
               /\ UNCHANGED announced
      BY <2>1, CoreParts DEF RestTyped
    <2>2. CASE \E t \in call[p].crossed \ held : Announces(p, set, held, t)
      <3>1. PICK t \in Thresholds :
                 /\ sets' = [sets EXCEPT ![set] = held \cup {t}]
                 /\ announced' = [announced EXCEPT ![<<call[p].mark, t>>] = @ + 1]
        BY <1>1, <2>2 DEF Announces
      <3>2. <<call[p].mark, t>> \in Keys
        BY <1>1 DEF Keys
      <3> DEFINE k == <<call[p].mark, t>>
      <3>3. announced' = [announced EXCEPT ![k] = @ + 1] /\ k \in Keys
        BY <3>1, <3>2
      <3> HIDE DEF k
      <3>4. announced' \in [Keys -> Nat]
        BY <3>3, CoreParts DEF RestTyped
      <3> QED
        BY <3>1, <3>4, CoreParts DEF RestTyped
    <2> QED
      BY <1>1, <2>1, <2>2, AnnounceIs
  <1>5. RestTyped' /\ UNCHANGED <<total, cycle>>
    BY <1>3, <1>4, CoreParts DEF RestTyped, counter
  <1>6. KindOK(p)' /\ p \notin Holds' /\ call[p].pc \notin Done
    BY <1>1, <1>2, <1>5, CoreParts DEF KindOK, Reserving, Holds, Done, Ended
  <1> QED
    BY <1>1, <1>2, <1>5, <1>6, StillCore

\* Which set an answered settlement holds its thresholds against.
SetFor(p, v) == IF v.alerted = NoSet THEN p ELSE v.alerted
HeldIn(v) == IF v.alerted = NoSet THEN {} ELSE sets[v.alerted]

LEMMA AdoptSettledIs ==
    ASSUME Core, NEW p \in Calls, AdoptSettled(p)
    PROVE  \E v \in Views :
              /\ v = Adopted(view[At[p]], call[p].total, call[p].cycle)
              /\ SetFor(p, v) \in Requests
              /\ HeldIn(v) \in SUBSET Thresholds
              /\ \/ /\ call[p].crossed = {}
                    /\ view' = [view EXCEPT ![At[p]] = v]
                    /\ End(p, "done")
                    /\ UNCHANGED <<sets, announced>>
                 \/ Announce(p, v, SetFor(p, v), HeldIn(v), call[p].crossed \ HeldIn(v))
  <1> DEFINE v == Adopted(view[At[p]], call[p].total, call[p].cycle)
  <1>1. p \in Requests /\ view[At[p]] \in Views
    BY CoreParts, QuotaAssumption DEF AdoptSettled, KindOK, RestTyped
  <1>2. v \in Views
    BY <1>1, AdoptedType, ItemOf, CoreParts
  <1>3. \/ /\ call[p].crossed = {}
           /\ view' = [view EXCEPT ![At[p]] = v]
           /\ End(p, "done")
           /\ UNCHANGED <<sets, announced>>
        \/ Announce(p, v, SetFor(p, v), HeldIn(v), call[p].crossed \ HeldIn(v))
    <2>1. CASE call[p].crossed = {}
      BY <2>1 DEF AdoptSettled
    <2>2. CASE call[p].crossed # {} /\ v.alerted = NoSet
      BY <2>2 DEF AdoptSettled, SetFor, HeldIn
    <2>3. CASE call[p].crossed # {} /\ v.alerted # NoSet
      BY <2>3 DEF AdoptSettled, SetFor, HeldIn
    <2> QED
      BY <2>1, <2>2, <2>3
  <1> HIDE DEF v
  <1>4. SetFor(p, v) \in Requests /\ HeldIn(v) \in SUBSET Thresholds
    BY <1>1, <1>2, CoreParts DEF SetFor, HeldIn, Views, RestTyped
  <1> QED
    BY <1>2, <1>3, <1>4 DEF v

LEMMA AdoptSettledCore == ASSUME Core, NEW p \in Calls, AdoptSettled(p) PROVE Core'
  <1>1. /\ call \in [Calls -> Items] /\ call[p].pc = "answered" /\ p \in Requests
        /\ UNCHANGED <<counter, fresh, faults>>
    BY CoreParts DEF AdoptSettled, KindOK
  <1>2. PICK v \in Views :
          /\ SetFor(p, v) \in Requests
          /\ HeldIn(v) \in SUBSET Thresholds
          /\ \/ /\ view' = [view EXCEPT ![At[p]] = v]
                /\ End(p, "done")
                /\ UNCHANGED <<sets, announced>>
             \/ Announce(p, v, SetFor(p, v), HeldIn(v), call[p].crossed \ HeldIn(v))
    BY AdoptSettledIs
  <1>3. CASE /\ view' = [view EXCEPT ![At[p]] = v]
             /\ End(p, "done")
             /\ UNCHANGED <<sets, announced>>
    <2>1. RestTyped' /\ UNCHANGED <<total, cycle>>
      BY <1>1, <1>3, CoreParts DEF RestTyped, counter
    <2>2. Turn(p) /\ call'[p].pc = "done" /\ call'[p].mark = 0
      BY <1>1, <1>3, TurnEnd DEF Labels, Ended
    <2>3. KindOK(p)' /\ p \notin Holds' /\ call[p].pc \notin Done
      BY <1>1, <2>1, <2>2, CoreParts DEF KindOK, Reserving, Holds, Done, Ended
    <2> QED
      BY <2>1, <2>2, <2>3, StillCore
  <1>4. CASE Announce(p, v, SetFor(p, v), HeldIn(v), call[p].crossed \ HeldIn(v))
    BY <1>1, <1>2, <1>4, AnnounceCore
  <1> QED
    BY <1>2, <1>3, <1>4

LEMMA AlertedCore == ASSUME Core, NEW p \in Calls, Alerted(p) PROVE Core'
  <1>1. /\ call[p].pc = "alerting" /\ p \in Requests /\ call[p].set \in Requests
        /\ view[At[p]] \in Views /\ sets[call[p].set] \in SUBSET Thresholds
        /\ UNCHANGED <<counter, fresh, faults>>
    BY CoreParts, QuotaAssumption DEF Alerted, KindOK, RestTyped
  <1>2. Announce(p, view[At[p]], call[p].set, sets[call[p].set],
                 call[p].crossed \ sets[call[p].set])
    BY DEF Alerted
  <1> QED
    BY <1>1, <1>2, AnnounceCore

LEMMA AddSpendCore == ASSUME Core, NEW p \in Calls, AddSpend(p) PROVE Core'
  <1>1. /\ call \in [Calls -> Items] /\ total \in Nat /\ cycle \in Cycles
        /\ call[p].pc = "idle" /\ p \in Bills /\ p \notin Requests
        /\ total + BillCost \in Nat /\ total + BillCost >= total
    BY CoreParts, CycleType, QuotaAssumption DEF AddSpend, Open
  <1>2. \/ UNCHANGED <<total, cycle, peak>>
        \/ Moved(total + BillCost)
    BY DEF AddSpend
  <1>3. /\ UNCHANGED cycle /\ total' \in Nat /\ total' >= total
        /\ peak' \in [Cycles -> Nat]
    BY <1>1, <1>2, CoreParts, MovedType DEF RestTyped
  <1>4. faults' \in Nat
    BY FaultType DEF AddSpend
  <1>5. RestTyped'
    BY <1>3, <1>4, CoreParts DEF AddSpend, RestTyped
  <1>6. Turn(p) /\ call'[p].pc = "added" /\ call'[p].mark = call[p].mark
    <2>1. CASE call' = [call EXCEPT ![p].pc = "added", ![p].ok = TRUE,
                                    ![p].total = total + BillCost, ![p].cycle = cycle]
      BY <1>1, <2>1, TurnFigures DEF Labels
    <2>2. CASE NoAnswer(p, "added")
      BY <1>1, <2>2, TurnNoAnswer DEF Labels
    <2> QED
      BY <2>1, <2>2 DEF AddSpend
  <1>7. KindOK(p)' /\ p \notin Holds' /\ call[p].pc \notin Done
    BY <1>1, <1>3, <1>6, CoreParts DEF KindOK, Reserving, Holds, Done, Ended
  <1> QED
    BY <1>3, <1>5, <1>6, <1>7, QuietCore

\* The view of an instance that a bill came to, without an answer.
LEMMA ChargedType ==
    ASSUME NEW v \in Views
    PROVE  /\ Charged(v) \in Views
           /\ Charged(v).known = v.known
           /\ Charged(v).alerted = v.alerted
           /\ Charged(v).spend = v.spend + BillCost
           /\ Charged(v).unshared = v.unshared + BillCost
  <1>1. v.spend \in Nat /\ v.unshared \in Nat /\ BillCost \in Nat
    BY QuotaAssumption DEF Views
  <1>2. v.spend + BillCost \in Nat /\ v.unshared + BillCost \in Nat
    BY <1>1
  <1> QED
    BY <1>2 DEF Views, Charged

LEMMA AdoptAddedIs ==
    ASSUME Core, NEW p \in Calls, AdoptAdded(p)
    PROVE  /\ At[p] \in Instances /\ view[At[p]] \in Views
           /\ \E v \in Views :
                 /\ view' = [view EXCEPT ![At[p]] = v]
                 /\ \/ /\ call[p].ok
                       /\ v = Adopted(view[At[p]], call[p].total, call[p].cycle)
                    \/ /\ v.known = view[At[p]].known
                       /\ v.alerted = view[At[p]].alerted
                       /\ v.spend = view[At[p]].spend + BillCost
                       /\ v.unshared = view[At[p]].unshared + BillCost
  <1>1. At[p] \in Instances /\ view[At[p]] \in Views
    BY CoreParts, QuotaAssumption DEF RestTyped
  <1>2. CASE call[p].ok
    <2> DEFINE v == Adopted(view[At[p]], call[p].total, call[p].cycle)
    <2>1. v \in Views
      BY <1>1, AdoptedType, ItemOf, CoreParts
    <2>2. view' = [view EXCEPT ![At[p]] = v]
      BY <1>2 DEF AdoptAdded
    <2> QED
      BY <1>1, <1>2, <2>1, <2>2
  <1>3. CASE ~ call[p].ok
    <2>1. view' = [view EXCEPT ![At[p]] = Charged(view[At[p]])]
      BY <1>3 DEF AdoptAdded
    <2> QED
      BY <1>1, <2>1, ChargedType
  <1> QED
    BY <1>2, <1>3

LEMMA AdoptAddedCore == ASSUME Core, NEW p \in Calls, AdoptAdded(p) PROVE Core'
  <1>1. PICK v \in Views : view' = [view EXCEPT ![At[p]] = v]
    BY AdoptAddedIs
  <1>2. call \in [Calls -> Items] /\ call[p].pc = "added"
    BY CoreParts DEF AdoptAdded
  <1>3. RestTyped' /\ UNCHANGED <<total, cycle>>
    BY <1>1, CoreParts DEF AdoptAdded, RestTyped, counter
  <1>4. Turn(p) /\ call'[p].pc = "done" /\ call'[p].mark = 0
    BY <1>2, TurnEnd DEF AdoptAdded, Labels, Ended
  <1>5. KindOK(p)' /\ p \notin Holds' /\ call[p].pc \notin Done
    BY <1>2, <1>3, <1>4, CoreParts DEF KindOK, Reserving, Holds, Done, Ended
  <1> QED
    BY <1>3, <1>4, <1>5, StillCore

LEMMA BeginResetCore == ASSUME Core, NEW p \in Calls, BeginReset(p) PROVE Core'
  <1>1. /\ call \in [Calls -> Items] /\ call[p].pc = "idle" /\ p \in Resets
    BY CoreParts DEF BeginReset, Open
  <1>2. RestTyped' /\ UNCHANGED <<total, cycle>>
    BY CoreParts DEF BeginReset, RestTyped, counter
  <1>3. Turn(p) /\ call'[p].pc = "reading" /\ call'[p].mark = call[p].mark
    BY <1>1, TurnGoto DEF BeginReset, Labels
  <1>4. p \notin Bills
    BY <1>1, QuotaAssumption
  <1>5. KindOK(p)' /\ p \notin Holds' /\ call[p].pc \notin Done
    BY <1>1, <1>2, <1>3, <1>4, CoreParts DEF KindOK, Reserving, Holds, Done, Ended
  <1> QED
    BY <1>2, <1>3, <1>5, StillCore

\* One more reset has made a cycle.
LEMMA ZeroCore ==
    ASSUME Core, NEW p \in Resets, Zero, Turn(p), call[p].pc \notin Done,
           call'[p].pc \in {"reset", "clearing"}, call'[p].mark = call[p].mark,
           UNCHANGED <<view, fresh, sets, announced>>, faults' \in Nat
    PROVE  Core'
  <1>1. /\ p \in Calls /\ p \notin Requests /\ cycle \in Nat
        /\ total' = 0 /\ cycle' = cycle + 1 /\ cycle' \in Nat
        /\ call[p].mark \in Nat /\ call[p].mark <= cycle
    <2>1. p \in Calls /\ p \notin Requests
      BY QuotaAssumption DEF Calls
    <2>2. cycle \in Nat /\ total' = 0 /\ cycle' = cycle + 1
      BY CoreParts DEF Zero
    <2>3. call[p].mark \in Nat /\ call[p].mark <= cycle
      BY <2>1, CoreParts, ItemOf, CyclesType DEF KindOK
    <2> QED
      BY <2>1, <2>2, <2>3
  <1>2. RestTyped'
    BY CoreParts DEF Zero, RestTyped
  <1>3. KindOK(p)'
    BY <1>1 DEF KindOK, Reserving
  <1>4. \A o \in Calls : KindOK(o)'
    BY <1>1, <1>3, OthersOK
  <1>5. Holds' = {}
    <2>1. \A o \in Requests : o \in Calls /\ call'[o] = call[o]
      BY <1>1 DEF Turn, Calls
    <2>2. \A o \in Requests : call[o].mark \in Nat /\ call[o].mark <= cycle
      BY <2>1, CoreParts, ItemOf, CyclesType DEF KindOK
    <2>3. \A o \in Requests : call'[o].mark # cycle'
      BY <1>1, <2>1, <2>2
    <2> QED
      BY <2>3 DEF Holds
  <1>6. HeldCovered'
    BY <1>1, <1>5, TotalOfNone DEF HeldCovered
  <1>7. CyclesCounted'
    <2>1. ResetsDone' = ResetsDone \cup {p}
      <3>1. Resets \subseteq Calls
        BY DEF Calls
      <3> QED
        BY <3>1 DEF ResetsDone, Turn, Done
    <2>2. p \notin ResetsDone
      BY DEF ResetsDone, Done
    <2>3. IsFiniteSet(ResetsDone)
      BY QuotaAssumption, FS_Subset DEF ResetsDone
    <2>4. Cardinality(ResetsDone') = Cardinality(ResetsDone) + 1
      BY <2>1, <2>2, <2>3, FS_AddElement
    <2>5. Cardinality(ResetsDone) \in Nat /\ cycle <= Cardinality(ResetsDone)
      BY <2>3, FS_CardinalityType, CoreParts DEF CyclesCounted
    <2>6. cycle' <= Cardinality(ResetsDone')
      BY <1>1, <2>4, <2>5
    <2> QED
      BY <2>6 DEF CyclesCounted
  <1> QED
    BY <1>1, <1>2, <1>4, <1>6, <1>7, CoreNext DEF Turn

LEMMA ResetCore == ASSUME Core, NEW p \in Calls, Reset(p) PROVE Core'
  <1>1. /\ call \in [Calls -> Items] /\ call[p].pc = "resetting" /\ p \in Resets
        /\ call[p].pc \notin Done /\ faults' \in Nat
        /\ UNCHANGED <<view, fresh, sets, announced>>
    BY CoreParts, FaultType DEF Reset, KindOK, Done, Ended
  <1>2. /\ Turn(p) /\ call'[p].pc \in {"reset", "clearing"}
        /\ call'[p].mark = call[p].mark
    BY <1>1, TurnGoto, TurnNoAnswer DEF Reset, Labels
  <1>3. CASE Zero
    BY <1>1, <1>2, <1>3, ZeroCore
  <1>4. CASE UNCHANGED counter
    <2>1. RestTyped' /\ UNCHANGED <<total, cycle>>
      BY <1>1, <1>4, CoreParts DEF RestTyped, counter
    <2>2. p \notin Requests
      BY <1>1, QuotaAssumption
    <2>3. KindOK(p)' /\ p \notin Holds'
      BY <1>1, <1>2, <2>1, <2>2, CoreParts DEF KindOK, Reserving, Holds
    <2> QED
      BY <1>1, <1>2, <2>1, <2>3, StillCore
  <1> QED
    BY <1>3, <1>4 DEF Reset

LEMMA ReadResetCore == ASSUME Core, NEW p \in Calls, ReadReset(p) PROVE Core'
  <1>1. /\ call \in [Calls -> Items] /\ call[p].pc = "reset" /\ p \in Resets
        /\ total \in Nat /\ cycle \in Cycles /\ p \notin Requests
    BY CoreParts, CycleType, QuotaAssumption DEF ReadReset, KindOK
  <1>2. Turn(p) /\ call'[p].pc = "clearing" /\ call'[p].mark = call[p].mark
    BY <1>1, TurnAnswer DEF ReadReset, Labels
  <1>3. RestTyped' /\ UNCHANGED <<total, cycle>> /\ total' \in Nat /\ total' >= total
    BY CoreParts DEF ReadReset, RestTyped, counter
  <1>4. KindOK(p)' /\ p \notin Holds' /\ call'[p].pc \in Done
    BY <1>1, <1>2, <1>3, CoreParts DEF KindOK, Reserving, Holds, Done
  <1> QED
    BY <1>2, <1>3, <1>4, QuietCore

LEMMA ClearedType ==
    ASSUME NEW v \in Views, NEW c \in Cycles
    PROVE  /\ Cleared(v, c) \in Views
           /\ Cleared(v, c).known = c
           /\ Cleared(v, c).spend = 0
           /\ Cleared(v, c).alerted = NoSet
  <1>1. NewView \in Views /\ NewView.spend = 0 /\ NewView.alerted = NoSet
    BY NewViewType DEF NewView
  <1> QED
    BY <1>1 DEF Views, Cleared

LEMMA ClearCore == ASSUME Core, NEW p \in Calls, Clear(p) PROVE Core'
  <1> DEFINE i == At[p]
             c == IF call[p].ok THEN call[p].cycle ELSE view[i].known
  <1>1. /\ call \in [Calls -> Items] /\ call[p].pc = "clearing" /\ p \in Resets
        /\ p \notin Requests /\ i \in Instances /\ view[i] \in Views
    BY CoreParts, QuotaAssumption DEF Clear, KindOK, RestTyped
  <1>2. c \in Cycles
    BY <1>1, ItemOf DEF Views
  <1>3. Cleared(view[i], c) \in Views
    BY <1>1, <1>2, ClearedType
  <1>4. /\ view' = [view EXCEPT ![i] = Cleared(view[i], c)]
        /\ fresh' = [fresh EXCEPT ![i] = FALSE]
        /\ UNCHANGED <<counter, sets, announced, faults>>
    BY DEF Clear
  <1> HIDE DEF c
  <1>5. /\ RestTyped' /\ UNCHANGED <<total, cycle>> /\ total' \in Nat
        /\ total' >= total
    <2>1. /\ view' \in [Instances -> Views]
          /\ fresh' \in [Instances -> BOOLEAN]
      BY <1>1, <1>3, <1>4, CoreParts DEF RestTyped
    <2> QED
      BY <1>4, <2>1, CoreParts DEF RestTyped, counter
  <1>6. Turn(p) /\ call'[p].pc = "done" /\ call'[p].mark = 0
    BY <1>1, TurnEnd DEF Clear, Labels, Ended
  <1>7. KindOK(p)' /\ p \notin Holds' /\ call'[p].pc \in Done
    BY <1>1, <1>5, <1>6, CoreParts DEF KindOK, Reserving, Holds, Done, Ended
  <1> QED
    BY <1>5, <1>6, <1>7, QuietCore

\* A call of an instance that dies.
Killed(p) ==
    \/ call'[p] = call[p]
    \/ p \in Probes /\ call'[p] = NewCall
    \/ /\ call'[p].pc = "failed" /\ call'[p].mark = 0 /\ call'[p] \in Items
       /\ ~ call'[p].ok

LEMMA RestartIs ==
    ASSUME Core, NEW i \in Instances, Restart(i)
    PROVE  /\ call' \in [Calls -> Items]
           /\ \A p \in Calls : Killed(p)
           /\ view' \in {[view EXCEPT ![i] = NewView],
                        [view EXCEPT ![i] = Adopted(NewView, total, cycle)]}
           /\ NewView \in Views
           /\ Adopted(NewView, total, cycle) \in Views
  <1> DEFINE x == [NewCall EXCEPT !.pc = "failed"]
  <1>1. x \in Items /\ x.pc = "failed" /\ x.mark = 0 /\ x.ok = FALSE
    BY NewCallType DEF Labels, Ended
  <1>2. NewCall \in Items
    BY CyclesType DEF NewCall, Items, Labels
  <1>3. call' = [p \in Calls |->
                   IF At[p] # i \/ call[p].pc = "idle" THEN call[p]
                   ELSE IF p \in Probes THEN NewCall ELSE x]
    BY DEF Restart
  <1> HIDE DEF x
  <1>4. call' \in [Calls -> Items]
    BY <1>1, <1>2, <1>3, ItemOf, CoreParts
  <1>5. \A p \in Calls : Killed(p)
    BY <1>1, <1>3 DEF Killed
  <1>6. NewView \in Views /\ Adopted(NewView, total, cycle) \in Views
    BY NewViewType, AdoptedType, CycleType, CoreParts
  <1> QED
    BY <1>4, <1>5, <1>6 DEF Restart

LEMMA RestartCore == ASSUME Core, NEW i \in Instances, Restart(i) PROVE Core'
  <1>1. /\ call' \in [Calls -> Items]
        /\ \A p \in Calls : Killed(p)
        /\ view' \in [Instances -> Views]
    BY RestartIs, CoreParts DEF RestTyped
  <1>2. /\ UNCHANGED <<counter, sets, announced>>
        /\ fresh' = [fresh EXCEPT ![i] = FALSE]
        /\ faults' \in Nat
    BY FaultType DEF Restart
  <1>3. RestTyped' /\ total' \in Nat /\ cycle' \in Nat /\ UNCHANGED <<total, cycle>>
    BY <1>1, <1>2, CoreParts DEF RestTyped, counter
  <1>4. \A p \in Calls : KindOK(p)'
    <2> SUFFICES ASSUME NEW p \in Calls PROVE KindOK(p)'
      OBVIOUS
    <2>1. KindOK(p) /\ Killed(p) /\ cycle \in Nat
      BY <1>1, CoreParts
    <2>2. CASE call'[p] = call[p]
      BY <1>3, <2>1, <2>2 DEF KindOK
    <2>3. CASE p \in Probes /\ call'[p] = NewCall
      <3>1. call'[p].pc = "idle" /\ call'[p].mark = 0
        BY <2>3 DEF NewCall
      <3> QED
        BY <1>3, <2>1, <3>1 DEF KindOK, Reserving
    <2>4. CASE call'[p].pc = "failed" /\ call'[p].mark = 0
      BY <1>3, <2>1, <2>4 DEF KindOK, Reserving
    <2> QED
      BY <2>1, <2>2, <2>3, <2>4 DEF Killed
  <1>5. HeldCovered'
    <2>1. Holds' \subseteq Holds
      <3> SUFFICES ASSUME NEW p \in Holds' PROVE p \in Holds
        OBVIOUS
      <3>1. p \in Requests /\ p \in Calls /\ p \notin Probes
        BY QuotaAssumption DEF Holds, Calls
      <3>2. call'[p].pc \in Reserving
        BY DEF Holds
      <3>3. call'[p] = call[p]
        BY <1>1, <3>1, <3>2 DEF Killed, Reserving
      <3> QED
        BY <1>3, <3>3 DEF Holds
    <2>2. total' >= total
      BY <1>3, CoreParts
    <2> QED
      BY <1>3, <2>1, <2>2, HeldFewer
  <1>6. CyclesCounted'
    <2>1. ResetsDone \subseteq ResetsDone'
      <3> SUFFICES ASSUME NEW p \in ResetsDone PROVE p \in ResetsDone'
        OBVIOUS
      <3>1. p \in Resets /\ p \in Calls /\ p \notin Probes
        BY QuotaAssumption DEF ResetsDone, Calls
      <3> QED
        BY <1>1, <3>1 DEF ResetsDone, Killed, Ended
    <2>2. IsFiniteSet(ResetsDone')
      BY QuotaAssumption, FS_Subset DEF ResetsDone
    <2>3. Cardinality(ResetsDone) <= Cardinality(ResetsDone')
      BY <2>1, <2>2, FS_Subset
    <2>4. Cardinality(ResetsDone) \in Nat /\ Cardinality(ResetsDone') \in Nat
      BY <2>1, <2>2, FS_Subset, FS_CardinalityType
    <2>5. cycle' <= Cardinality(ResetsDone')
      BY <1>3, <2>3, <2>4, CoreParts DEF CyclesCounted
    <2> QED
      BY <2>5 DEF CyclesCounted
  <1> QED
    BY <1>1, <1>3, <1>4, <1>5, <1>6, CoreNext

LEMMA InitCore == Init => Core
  <1> SUFFICES ASSUME Init PROVE Core
    OBVIOUS
  <1>1. NewCall \in Items /\ NewCall.pc = "idle" /\ NewCall.mark = 0
    BY CyclesType DEF NewCall, Items, Labels
  <1>2. call = [p \in Calls |-> NewCall]
    BY DEF Init
  <1>3. \A p \in Calls : call[p].pc = "idle" /\ call[p].mark = 0
    BY <1>1, <1>2
  <1>4. call \in [Calls -> Items]
    BY <1>1, <1>2
  <1>5. RestTyped
    BY NewViewType DEF Init, RestTyped
  <1>6. \A p \in Calls : KindOK(p)
    BY <1>3 DEF KindOK, Reserving, Init
  <1>7. Holds = {}
    <2>1. Requests \subseteq Calls
      BY DEF Calls
    <2> QED
      BY <1>3, <2>1 DEF Holds, Reserving
  <1>8. HeldCovered
    BY <1>7, TotalOfNone DEF HeldCovered, Init
  <1>9. CyclesCounted
    <2>1. IsFiniteSet(ResetsDone)
      BY QuotaAssumption, FS_Subset DEF ResetsDone
    <2>2. Cardinality(ResetsDone) \in Nat
      BY <2>1, FS_CardinalityType
    <2> QED
      BY <2>2 DEF CyclesCounted, Init
  <1> QED
    BY <1>4, <1>5, <1>6, <1>8, <1>9, CoreParts DEF Init

LEMMA StutterCore == ASSUME Core, UNCHANGED vars PROVE Core'
  <1>1. UNCHANGED <<total, cycle, call>> /\ RestTyped'
    BY CoreParts DEF vars, counter, RestTyped
  <1>2. (\A o \in Calls : KindOK(o)') /\ HeldCovered' /\ CyclesCounted'
    BY <1>1, CoreParts DEF KindOK, HeldCovered, Holds, CyclesCounted, ResetsDone
  <1> QED
    BY <1>1, <1>2, CoreParts, CoreNext

LEMMA NextCore == Core /\ [Next]_vars => Core'
  <1> SUFFICES ASSUME Core, [Next]_vars PROVE Core'
    OBVIOUS
  <1>1. ASSUME NEW p \in Calls, Enforce(p) PROVE Core'
    BY <1>1, BeginCore, ReadCore, AdoptReadCore DEF Enforce
  <1>2. ASSUME NEW p \in Calls, Spend(p) PROVE Core'
    BY <1>2, ReserveCore, ReadReservedCore, AdoptReservedCore, PlanCore, CommitCore,
       ReadSettledCore, AdoptSettledCore, AlertedCore, AddSpendCore, AdoptAddedCore
       DEF Spend
  <1>3. ASSUME NEW p \in Calls, StartOver(p) PROVE Core'
    BY <1>3, BeginResetCore, ResetCore, ReadResetCore, ClearCore DEF StartOver
  <1>4. ASSUME NEW i \in Instances, Elapse(i) \/ Restart(i) PROVE Core'
    BY <1>4, ElapseCore, RestartCore
  <1>5. CASE UNCHANGED vars
    BY <1>5, StutterCore
  <1> QED
    BY <1>1, <1>2, <1>3, <1>4, <1>5 DEF Next, Step

LEMMA CoreAlways == Spec => []Core
  BY InitCore, NextCore, PTL DEF Spec

\* Every variable keeps its type: in particular the counter stays a natural number
\* when finalize_budget returns what a reservation was too high by, and no more
\* cycles begin than there are resets.
THEOREM TypeCorrect == Spec => []TypeOK
  <1>1. Core => TypeOK
    BY DEF Core
  <1> QED
    BY <1>1, CoreAlways, PTL

-----------------------------------------------------------------------------
(* What instances take for the spend                                       *)

\* Backed, after a step, for the same figures.
BackedNext(n, c, slack) ==
    c <= cycle' /\ \E d \in c..cycle' : n <= peak'[d] + slack

\* Neither the cycle nor what its counters came to goes back.
Grown ==
    /\ cycle' >= cycle
    /\ \A c \in Cycles : peak'[c] >= peak[c]

Counted == Grown /\ total' <= peak'[cycle']

LEMMA PeakType ==
    ASSUME Core
    PROVE  /\ total \in Nat
           /\ cycle \in Nat
           /\ cycle \in Cycles
           /\ peak \in [Cycles -> Nat]
           /\ \A c \in Cycles : \A d \in c..cycle : d \in Cycles /\ peak[d] \in Nat
  <1>1. total \in Nat /\ cycle \in Nat /\ cycle \in Cycles /\ peak \in [Cycles -> Nat]
    BY CoreParts, CycleType DEF RestTyped
  <1>2. \A c \in Cycles : \A d \in c..cycle : d \in Cycles
    BY <1>1, CyclesType DEF Cycles
  <1> QED
    BY <1>1, <1>2

LEMMA BackedKept ==
    ASSUME Core, Core', Grown, NEW n \in Nat, NEW c \in Cycles, NEW slack \in Nat,
           Backed(n, c, slack)
    PROVE  BackedNext(n, c, slack)
  <1>1. PICK d \in c..cycle : n <= peak[d] + slack
    BY DEF Backed
  <1>2. /\ d \in Cycles /\ peak[d] \in Nat /\ cycle \in Nat
        /\ c \in Nat /\ d \in Nat /\ c <= d /\ d <= cycle
    BY PeakType, CyclesType
  <1>3. cycle' \in Nat /\ peak' \in [Cycles -> Nat]
    BY CoreParts DEF Core, TypeOK
  <1>4. peak'[d] \in Nat /\ peak'[d] >= peak[d] /\ cycle' >= cycle
    BY <1>2, <1>3 DEF Grown
  <1>5. d \in c..cycle' /\ c <= cycle'
    BY <1>2, <1>3, <1>4
  <1>6. n <= peak'[d] + slack
    BY <1>1, <1>2, <1>4
  <1> QED
    BY <1>5, <1>6 DEF BackedNext

\* What the counter is now backs any earlier cycle, and nothing needs no backing.
LEMMA BackedByTotal ==
    ASSUME Core, total <= peak[cycle], NEW c \in Cycles, c <= cycle
    PROVE  Backed(total, c, 0)
  <1>1. /\ total \in Nat /\ cycle \in Nat /\ peak[cycle] \in Nat /\ c \in Nat
    BY PeakType, CyclesType
  <1>2. cycle \in c..cycle /\ total <= peak[cycle] + 0
    BY <1>1
  <1> QED
    BY <1>2 DEF Backed

LEMMA BackedByTotalNext ==
    ASSUME Core', total' <= peak'[cycle'], NEW c \in Cycles, c <= cycle'
    PROVE  BackedNext(total', c, 0)
  <1>1. /\ total' \in Nat /\ cycle' \in Nat /\ cycle' \in Cycles
        /\ peak' \in [Cycles -> Nat] /\ c \in Nat
    <2>1. total' \in Nat /\ cycle' \in Nat /\ peak' \in [Cycles -> Nat]
      BY DEF Core, TypeOK
    <2>2. cycle' \in Cycles
      BY <2>1, CycleTypeNext DEF Core
    <2> QED
      BY <2>1, <2>2, CyclesType
  <1>2. cycle' \in c..cycle' /\ total' <= peak'[cycle'] + 0
    BY <1>1
  <1> QED
    BY <1>2 DEF BackedNext

LEMMA NothingBacked ==
    ASSUME Core, NEW c \in Cycles, c <= cycle, NEW slack \in Nat
    PROVE  Backed(0, c, slack)
  <1>1. cycle \in Nat /\ c \in Nat /\ c \in c..cycle /\ peak[c] \in Nat
    BY PeakType, CyclesType
  <1>2. 0 <= peak[c] + slack
    BY <1>1
  <1> QED
    BY <1>1, <1>2 DEF Backed

LEMMA CounterGrows ==
    ASSUME Core, Core', total <= peak[cycle],
           \/ UNCHANGED <<total, cycle, peak>>
           \/ \E n \in Nat : Moved(n)
           \/ Zero
    PROVE  Counted
  <1>1. /\ total \in Nat /\ cycle \in Nat /\ cycle \in Cycles
        /\ peak \in [Cycles -> Nat] /\ peak[cycle] \in Nat
        /\ \A c \in Cycles : peak[c] \in Nat
    BY PeakType
  <1>2. cycle' \in Cycles
    BY CycleTypeNext DEF Core, TypeOK
  <1>3. CASE UNCHANGED <<total, cycle, peak>>
    BY <1>1, <1>3 DEF Counted, Grown
  <1>4. CASE \E n \in Nat : Moved(n)
    <2>1. PICK n \in Nat : Moved(n)
      BY <1>4
    <2>2. /\ total' = n /\ cycle' = cycle
          /\ peak' = [peak EXCEPT ![cycle] = Larger(peak[cycle], n)]
      BY <2>1 DEF Moved
    <2>3. Larger(peak[cycle], n) >= n /\ Larger(peak[cycle], n) >= peak[cycle]
      BY <1>1 DEF Larger
    <2>4. \A c \in Cycles : peak'[c] >= peak[c]
      BY <1>1, <2>2, <2>3
    <2>5. peak'[cycle] >= n /\ peak'[cycle] \in Nat
      BY <1>1, <2>2, <2>3 DEF Larger
    <2>6. total' <= peak'[cycle'] /\ cycle' >= cycle
      BY <1>1, <2>2, <2>5
    <2> QED
      BY <2>4, <2>6 DEF Counted, Grown
  <1>5. CASE Zero
    <2>1. total' = 0 /\ cycle' = cycle + 1 /\ peak' = peak
      BY <1>5 DEF Zero
    <2>2. peak'[cycle'] \in Nat
      BY <1>1, <1>2, <2>1
    <2>3. cycle' >= cycle /\ total' <= peak'[cycle'] /\ \A c \in Cycles : peak'[c] >= peak[c]
      BY <1>1, <2>1, <2>2
    <2> QED
      BY <2>3 DEF Counted, Grown
  <1> QED
    BY <1>3, <1>4, <1>5

\* What an instance makes of an answer.
LEMMA AdoptedBacked ==
    ASSUME Core, NEW v \in Views, NEW n \in Nat, NEW c \in Cycles,
           Backed(v.spend, v.known, v.unshared), Backed(n, c, 0)
    PROVE  LET w == Adopted(v, n, c) IN
           w \in Views /\ Backed(w.spend, w.known, w.unshared)
  <1> DEFINE w == Adopted(v, n, c)
  <1>1. /\ w \in Views
        /\ \/ w = v
           \/ w.known = c /\ w.spend = n
           \/ w.known = v.known /\ w.spend = v.spend /\ w.unshared = v.unshared
    BY AdoptedType
  <1> HIDE DEF w
  <1>2. Backed(w.spend, w.known, w.unshared)
    <2>1. CASE w = v
      BY <2>1 DEF Backed
    <2>2. CASE w.known = c /\ w.spend = n
      <3>1. PICK d \in c..cycle : n <= peak[d] + 0
        BY DEF Backed
      <3>2. d \in Cycles /\ peak[d] \in Nat /\ w.unshared \in Nat
        BY <1>1, PeakType DEF Views
      <3>3. n <= peak[d] + w.unshared
        BY <3>1, <3>2
      <3> QED
        BY <2>2, <3>1, <3>3 DEF Backed
    <2>3. CASE w.known = v.known /\ w.spend = v.spend /\ w.unshared = v.unshared
      BY <2>3 DEF Backed
    <2> QED
      BY <1>1, <2>1, <2>2, <2>3
  <1> QED
    BY <1>1, <1>2 DEF w

CounterSteps ==
    \/ UNCHANGED <<total, cycle, peak>>
    \/ \E n \in Nat : Moved(n)
    \/ Zero

LEMMA CounterCounted ==
    ASSUME Core, Core', Figures, CounterSteps
    PROVE  Counted
  BY CounterGrows DEF Figures, CounterSteps

LEMMA AnswerBacked ==
    ASSUME Core, Figures, NEW p \in Calls, Answered(p)
    PROVE  Backed(call[p].total, call[p].cycle, 0)
  BY DEF Figures

LEMMA ViewBacked ==
    ASSUME Core, Figures, NEW i \in Instances
    PROVE  view[i] \in Views /\ Backed(view[i].spend, view[i].known, view[i].unshared)
  BY CoreParts DEF Figures, RestTyped

LEMMA FiguresFrom ==
    ASSUME Core, Core', Figures, Counted,
           \A p \in Calls :
              \/ call'[p] = call[p]
              \/ ~ Answered(p)'
              \/ BackedNext(call'[p].total, call'[p].cycle, 0),
           \A i \in Instances :
              \/ view'[i] = view[i]
              \/ \E w \in Views : view'[i] = w /\ Backed(w.spend, w.known, w.unshared)
    PROVE  Figures'
  <1>1. \A p \in Calls : Answered(p)' => BackedNext(call'[p].total, call'[p].cycle, 0)
    <2> SUFFICES ASSUME NEW p \in Calls, Answered(p)'
                 PROVE  BackedNext(call'[p].total, call'[p].cycle, 0)
      OBVIOUS
    <2>1. CASE call'[p] = call[p]
      <3>1. Answered(p)
        BY <2>1 DEF Answered
      <3>2. Backed(call[p].total, call[p].cycle, 0)
        BY <3>1, AnswerBacked
      <3>3. BackedNext(call[p].total, call[p].cycle, 0)
        BY <3>2, BackedKept, ItemOf, CoreParts DEF Counted
      <3> QED
        BY <2>1, <3>3
    <2> QED
      BY <2>1
  <1>2. \A i \in Instances :
           BackedNext(view'[i].spend, view'[i].known, view'[i].unshared)
    <2> SUFFICES ASSUME NEW i \in Instances
                 PROVE  BackedNext(view'[i].spend, view'[i].known, view'[i].unshared)
      OBVIOUS
    <2>1. PICK w \in Views : view'[i] = w /\ Backed(w.spend, w.known, w.unshared)
      BY ViewBacked
    <2>2. w.spend \in Nat /\ w.known \in Cycles /\ w.unshared \in Nat
      BY DEF Views
    <2>3. BackedNext(w.spend, w.known, w.unshared)
      BY <2>1, <2>2, BackedKept DEF Counted
    <2> QED
      BY <2>1, <2>3
  <1> QED
    BY <1>1, <1>2 DEF Figures, Counted, Backed, BackedNext

\* A step of p that leaves what instances know alone.
LEMMA FiguresTurn ==
    ASSUME Core, Core', Figures, CounterSteps, NEW p \in Calls, Turn(p), UNCHANGED view,
           \/ call'[p].pc \notin {"read", "answered", "added", "clearing", "holding"}
           \/ call'[p].pc \notin {"holding", "answered"} /\ ~ call'[p].ok
           \/ BackedNext(call'[p].total, call'[p].cycle, 0)
    PROVE  Figures'
  <1>1. \A o \in Calls :
           \/ call'[o] = call[o]
           \/ ~ Answered(o)'
           \/ BackedNext(call'[o].total, call'[o].cycle, 0)
    <2> SUFFICES ASSUME NEW o \in Calls, call'[o] # call[o], Answered(o)'
                 PROVE  BackedNext(call'[o].total, call'[o].cycle, 0)
      OBVIOUS
    <2>1. o = p
      BY DEF Turn
    <2>2. /\ call'[p].pc \in {"read", "answered", "added", "clearing", "holding"}
          /\ call'[p].pc \in {"holding", "answered"} \/ call'[p].ok
      BY <2>1 DEF Answered
    <2> QED
      BY <2>1, <2>2
  <1> QED
    BY <1>1, CounterCounted, FiguresFrom

Answering == {"read", "answered", "added", "clearing", "holding"}

LEMMA FiguresQuiet ==
    ASSUME Core, Core', Figures, CounterSteps, NEW p \in Calls, Turn(p), UNCHANGED view,
           call'[p].pc \notin Answering
    PROVE  Figures'
  <1>1. call'[p].pc \notin {"read", "answered", "added", "clearing", "holding"}
    BY DEF Answering
  <1> QED
    BY <1>1, FiguresTurn

\* A step of p in which its instance gets to know w.
LEMMA FiguresView ==
    ASSUME Core, Core', Figures, NEW p \in Calls, Turn(p), UNCHANGED counter,
           call'[p].pc \notin {"read", "answered", "added", "clearing", "holding"},
           NEW w \in Views, Backed(w.spend, w.known, w.unshared),
           view' = [view EXCEPT ![At[p]] = w]
    PROVE  Figures'
  <1>1. \A o \in Calls : call'[o] = call[o] \/ ~ Answered(o)'
    BY DEF Turn, Answered
  <1>2. \A i \in Instances :
           \/ view'[i] = view[i]
           \/ \E u \in Views : view'[i] = u /\ Backed(u.spend, u.known, u.unshared)
    BY CoreParts DEF RestTyped
  <1>3. CounterSteps
    BY DEF CounterSteps, counter
  <1> QED
    BY <1>1, <1>2, <1>3, CounterCounted, FiguresFrom

\* The counter as it is now is answered to p.
LEMMA FiguresAnswer ==
    ASSUME Core, Core', Figures, NEW p \in Calls, Turn(p), UNCHANGED <<counter, view>>,
           call'[p].total = total, call'[p].cycle \in Cycles, call'[p].cycle <= cycle
    PROVE  Figures'
  <1>1. CounterSteps /\ total' = total /\ cycle' = cycle
    BY DEF CounterSteps, counter
  <1>2. total' <= peak'[cycle']
    BY <1>1, CounterCounted DEF Counted
  <1>3. BackedNext(total', call'[p].cycle, 0)
    BY <1>1, <1>2, BackedByTotalNext
  <1>4. BackedNext(call'[p].total, call'[p].cycle, 0)
    BY <1>1, <1>3
  <1> QED
    BY <1>1, <1>4, FiguresTurn

LEMMA EnforceFigures ==
    ASSUME Core, Core', Figures, NEW p \in Calls, Enforce(p)
    PROVE  Figures'
  <1>1. call \in [Calls -> Items] /\ total \in Nat /\ cycle \in Cycles /\ cycle \in Nat
    BY CoreParts, CycleType
  <1>2. UNCHANGED counter /\ CounterSteps
    BY DEF Enforce, Begin, Read, AdoptRead, CounterSteps, counter
  <1>3. CASE Begin(p)
    <2>1. PICK label \in {"idle", "denied", "admitted", "reading"} : Goto(p, label)
      BY <1>3, CheckedIs DEF Begin
    <2>2. Turn(p) /\ call'[p].pc = label
      BY <1>1, <2>1, TurnGoto DEF Labels, Ended
    <2> QED
      <3>1. call'[p].pc \notin Answering /\ UNCHANGED view
        BY <1>3, <2>2 DEF Begin, Answering
      <3> QED
        BY <1>2, <2>2, <3>1, FiguresQuiet
  <1>4. CASE Read(p) /\ Answer(p, "read")
    <2>1. Turn(p) /\ call'[p].total = total /\ call'[p].cycle = cycle
      BY <1>1, <1>4, TurnAnswer DEF Labels
    <2> QED
      BY <1>1, <1>2, <1>4, <2>1, FiguresAnswer DEF Read
  <1>5. CASE Read(p) /\ NoAnswer(p, "read")
    <2>1. Turn(p) /\ call'[p].pc = "read" /\ ~ call'[p].ok
      BY <1>1, <1>5, TurnNoAnswer DEF Labels
    <2> QED
      BY <1>2, <1>5, <2>1, FiguresTurn DEF Read
  <1>6. CASE AdoptRead(p)
    <2> DEFINE i == At[p]
               v == IF call[p].ok THEN Adopted(view[i], call[p].total, call[p].cycle)
                    ELSE view[i]
               label == IF p \in Resets THEN "resetting" ELSE Checked(p, v)
    <2>1. i \in Instances /\ view[i] \in Views /\ call[p].pc = "read" /\ p \notin Bills
      BY <1>6, QuotaAssumption, CoreParts DEF RestTyped, AdoptRead, KindOK
    <2>2. v \in Views /\ Backed(v.spend, v.known, v.unshared)
      <3>1. Backed(view[i].spend, view[i].known, view[i].unshared)
        BY <2>1, ViewBacked
      <3>2. CASE call[p].ok
        <4>1. Backed(call[p].total, call[p].cycle, 0)
          BY <2>1, <3>2, AnswerBacked DEF Answered
        <4>2. call[p].total \in Nat /\ call[p].cycle \in Cycles
          BY <1>1, ItemOf
        <4> DEFINE w == Adopted(view[i], call[p].total, call[p].cycle)
        <4>3. w \in Views /\ Backed(w.spend, w.known, w.unshared)
          BY <2>1, <3>1, <4>1, <4>2, AdoptedBacked
        <4>4. v = w
          BY <3>2
        <4> HIDE DEF w, v
        <4> QED
          BY <4>3, <4>4 DEF Backed
      <3>3. CASE ~ call[p].ok
        <4>1. v = view[i]
          BY <3>3
        <4> HIDE DEF v
        <4> QED
          BY <2>1, <3>1, <4>1 DEF Backed
      <3> QED
        BY <3>2, <3>3
    <2>3. label \in {"resetting", "idle", "denied", "admitted"}
      BY <2>1, CheckedIs DEF Calls
    <2>4. Turn(p) /\ call'[p].pc = label
      BY <1>1, <1>6, <2>3, TurnEnd DEF AdoptRead, Labels, Ended
    <2>5. view' = [view EXCEPT ![At[p]] = v]
      BY <1>6 DEF AdoptRead
    <2> HIDE DEF v, label
    <2> QED
      BY <1>2, <2>2, <2>3, <2>4, <2>5, FiguresView
  <1> QED
    BY <1>3, <1>4, <1>5, <1>6 DEF Enforce, Read

LEMMA ReserveFigures ==
    ASSUME Core, Core', Figures, NEW p \in Calls,
           Reserve(p) \/ ReadReserved(p) \/ AdoptReserved(p)
    PROVE  Figures'
  <1>1. /\ call \in [Calls -> Items] /\ total \in Nat /\ cycle \in Cycles
        /\ cycle \in Nat /\ call[p].mark <= cycle /\ call[p].mark \in Cycles
    BY CoreParts, CycleType, ItemOf DEF KindOK
  <1>2. CASE Reserve(p)
    <2>1. p \in Requests
      BY <1>2, CoreParts DEF Reserve, KindOK
    <2>2. total + Estimate[p] \in Nat
      BY <1>1, <2>1, QuotaAssumption
    <2>3. UNCHANGED <<total, cycle, peak>> \/ Moved(total + Estimate[p])
      BY <1>2 DEF Reserve
    <2>4. CounterSteps
      BY <2>2, <2>3 DEF CounterSteps
    <2>5. Turn(p) /\ call'[p].pc \in {"reserved", "denied", "failed"}
      <3>1. CASE call' = [call EXCEPT ![p].pc = "reserved", ![p].mark = cycle]
        BY <1>1, <3>1, TurnReserved
      <3>2. CASE Goto(p, "denied")
        BY <1>1, <3>2, TurnGoto DEF Labels, Ended
      <3>3. CASE Goto(p, "failed")
        BY <1>1, <3>3, TurnGoto DEF Labels, Ended
      <3> QED
        BY <1>2, <3>1, <3>2, <3>3 DEF Reserve
    <2> QED
      <3>1. call'[p].pc \notin Answering /\ UNCHANGED view
        BY <1>2, <2>5 DEF Reserve, Answering
      <3> QED
        BY <2>4, <2>5, <3>1, FiguresQuiet
  <1>3. CASE ReadReserved(p)
    <2>1. Turn(p) /\ call'[p].total = total /\ call'[p].cycle = call[p].mark
      BY <1>3, TurnReadReserved
    <2> QED
      BY <1>1, <1>3, <2>1, FiguresAnswer DEF ReadReserved
  <1>4. CASE AdoptReserved(p)
    <2> DEFINE v == Adopted(view[At[p]], call[p].total, call[p].cycle)
    <2>1. At[p] \in Instances /\ call[p].pc = "holding"
      BY <1>4, QuotaAssumption DEF AdoptReserved
    <2>2. /\ view[At[p]] \in Views
          /\ Backed(view[At[p]].spend, view[At[p]].known, view[At[p]].unshared)
      BY <2>1, ViewBacked
    <2>3. /\ Backed(call[p].total, call[p].cycle, 0)
          /\ call[p].total \in Nat /\ call[p].cycle \in Cycles
      BY <1>1, <2>1, AnswerBacked, ItemOf DEF Answered
    <2>4. v \in Views /\ Backed(v.spend, v.known, v.unshared)
      BY <2>2, <2>3, AdoptedBacked
    <2>5. Turn(p) /\ call'[p].pc = "calling"
      BY <1>1, <1>4, TurnCalling DEF AdoptReserved
    <2>6. view' = [view EXCEPT ![At[p]] = v] /\ UNCHANGED counter
      BY <1>4 DEF AdoptReserved
    <2> HIDE DEF v
    <2> QED
      BY <2>4, <2>5, <2>6, FiguresView
  <1> QED
    BY <1>2, <1>3, <1>4

LEMMA SettleMoves ==
    ASSUME Core, Core', NEW p \in Calls, call[p].pc = "planned", Settle(p)
    PROVE  CounterSteps
  <1>1. CASE Adjusts(p)
    <2>1. Moved(total + Delta(p, call[p].cost)) /\ total' \in Nat
      BY <1>1, CoreParts DEF Settle, Core, TypeOK
    <2>2. total' = total + Delta(p, call[p].cost)
      BY <2>1 DEF Moved
    <2>3. \E n \in Nat : Moved(n)
      BY <2>1, <2>2
    <2> QED
      BY <2>3 DEF CounterSteps
  <1>2. CASE ~ Adjusts(p)
    BY <1>2 DEF Settle, CounterSteps
  <1> QED
    BY <1>1, <1>2

LEMMA SettleFigures ==
    ASSUME Core, Core', Figures, NEW p \in Calls, Plan(p) \/ Commit(p) \/ ReadSettled(p)
    PROVE  Figures'
  <1>1. /\ call \in [Calls -> Items] /\ total \in Nat /\ cycle \in Cycles
        /\ cycle \in Nat
    BY CoreParts, CycleType
  <1>2. CASE Plan(p)
    <2>1. PICK cost \in IF call[p].pc = "calling" THEN Costs[p] ELSE {call[p].cost} :
            call' = [call EXCEPT ![p].pc = "planned", ![p].cost = cost,
                                 ![p].cycle = cycle, ![p].crossed = Due(p, cost)]
      BY <1>2 DEF Plan
    <2>2. call[p].pc \in {"calling", "planning"} /\ p \in Requests
      BY <1>2, CoreParts DEF Plan, KindOK, Reserving
    <2>3. cost \in Nat /\ Due(p, cost) \subseteq Thresholds
      BY <1>1, <2>1, <2>2, QuotaAssumption, ItemOf DEF Due
    <2>4. Turn(p) /\ call'[p].pc = "planned"
      BY <1>1, <2>1, <2>3, TurnPlanned
    <2>5. UNCHANGED view /\ CounterSteps
      BY <1>2 DEF Plan, CounterSteps, counter
    <2> QED
      <3>1. call'[p].pc \notin Answering
        BY <2>4 DEF Answering
      <3> QED
        BY <2>4, <2>5, <3>1, FiguresQuiet
  <1>3. CASE Commit(p)
    <2>1. Turn(p) /\ call[p].pc = "planned" /\ (Settle(p) \/ UNCHANGED counter)
      BY <1>1, <1>3, TurnCommit
    <2>2. call'[p].pc \in {"settled", "planning", "failed"}
      BY <1>1, <1>3, TurnCommit
    <2>3. CounterSteps
      BY <2>1, SettleMoves DEF CounterSteps, counter
    <2>4. UNCHANGED view
      BY <1>3 DEF Commit
    <2> QED
      <3>1. call'[p].pc \notin Answering
        BY <2>2 DEF Answering
      <3> QED
        BY <2>1, <2>3, <2>4, <3>1, FiguresQuiet
  <1>4. CASE ReadSettled(p)
    <2>1. Turn(p) /\ call'[p].total = total /\ call'[p].cycle = cycle
      BY <1>1, <1>4, TurnAnswer DEF ReadSettled, Labels
    <2> QED
      BY <1>1, <1>4, <2>1, FiguresAnswer DEF ReadSettled
  <1> QED
    BY <1>2, <1>3, <1>4

LEMMA AnnounceFigures ==
    ASSUME Core, Core', Figures, NEW p \in Requests, NEW v \in Views,
           NEW set \in Requests, NEW held,
           Backed(v.spend, v.known, v.unshared),
           Announce(p, v, set, held, call[p].crossed \ held), UNCHANGED counter
    PROVE  Figures'
  <1>1. /\ p \in Calls /\ call \in [Calls -> Items]
        /\ call[p].crossed \ held \in SUBSET Thresholds
    BY CoreParts, ItemOf DEF Calls
  <1>2. Turn(p) /\ call'[p].pc \in {"done", "alerting"}
    BY <1>1, AnnounceIs
  <1>3. PICK w \in Views :
          /\ view' = [view EXCEPT ![At[p]] = w]
          /\ w.known = v.known
          /\ w.spend = v.spend
          /\ w.unshared = v.unshared
    BY <1>1, AnnounceIs
  <1>4. Backed(w.spend, w.known, w.unshared)
    BY <1>3 DEF Backed
  <1> QED
    BY <1>1, <1>2, <1>3, <1>4, FiguresView

LEMMA AlertFigures ==
    ASSUME Core, Core', Figures, NEW p \in Calls, AdoptSettled(p) \/ Alerted(p)
    PROVE  Figures'
  <1>1. /\ call \in [Calls -> Items] /\ p \in Requests /\ UNCHANGED counter
        /\ view[At[p]] \in Views
        /\ Backed(view[At[p]].spend, view[At[p]].known, view[At[p]].unshared)
    BY CoreParts, QuotaAssumption, ViewBacked DEF AdoptSettled, Alerted, KindOK
  <1>2. CASE AdoptSettled(p)
    <2>1. PICK v \in Views :
            /\ v = Adopted(view[At[p]], call[p].total, call[p].cycle)
            /\ SetFor(p, v) \in Requests
            /\ \/ /\ view' = [view EXCEPT ![At[p]] = v]
                  /\ End(p, "done")
               \/ Announce(p, v, SetFor(p, v), HeldIn(v), call[p].crossed \ HeldIn(v))
      BY <1>2, AdoptSettledIs
    <2>2. /\ Backed(call[p].total, call[p].cycle, 0)
          /\ call[p].total \in Nat /\ call[p].cycle \in Cycles
      <3>1. Answered(p)
        BY <1>2, CoreParts DEF Answered, AdoptSettled
      <3> QED
        BY <1>1, <3>1, AnswerBacked, ItemOf
    <2>3. Backed(v.spend, v.known, v.unshared)
      BY <1>1, <2>1, <2>2, AdoptedBacked DEF Backed
    <2>4. CASE view' = [view EXCEPT ![At[p]] = v] /\ End(p, "done")
      <3>1. Turn(p) /\ call'[p].pc = "done"
        BY <1>1, <2>4, TurnEnd DEF Labels, Ended
      <3> QED
        BY <1>1, <2>3, <2>4, <3>1, FiguresView
    <2>5. CASE Announce(p, v, SetFor(p, v), HeldIn(v), call[p].crossed \ HeldIn(v))
      BY <1>1, <2>1, <2>3, <2>5, AnnounceFigures
    <2> QED
      BY <2>1, <2>4, <2>5
  <1>3. CASE Alerted(p)
    <2>1. /\ call[p].set \in Requests
          /\ Announce(p, view[At[p]], call[p].set, sets[call[p].set],
                      call[p].crossed \ sets[call[p].set])
      BY <1>3, CoreParts DEF Alerted, KindOK
    <2> QED
      BY <1>1, <2>1, AnnounceFigures
  <1> QED
    BY <1>2, <1>3

LEMMA TurnAdded ==
    ASSUME Core, NEW p \in Calls,
           call' = [call EXCEPT ![p].pc = "added", ![p].ok = TRUE,
                                ![p].total = total + BillCost, ![p].cycle = cycle]
    PROVE  Turn(p) /\ call'[p].total = total + BillCost /\ call'[p].cycle = cycle
  <1>1. /\ call \in [Calls -> Items] /\ total + BillCost \in Nat /\ cycle \in Cycles
        /\ "added" \in Labels
    BY CoreParts, CycleType, QuotaAssumption DEF Labels
  <1> DEFINE n == total + BillCost
             x == [call[p] EXCEPT !.pc = "added", !.ok = TRUE, !.total = n, !.cycle = cycle]
  <1>2. call' = [call EXCEPT ![p] = x]
    OBVIOUS
  <1>3. n \in Nat /\ call[p] \in Items
    BY <1>1, ItemOf
  <1> HIDE DEF n
  <1>4. x \in Items /\ x.total = n /\ x.cycle = cycle
    BY <1>1, <1>3 DEF Items
  <1> HIDE DEF x
  <1>5. Turn(p) /\ call'[p] = x
    BY <1>1, <1>2, <1>4, TurnTo
  <1> QED
    BY <1>4, <1>5 DEF n

LEMMA BillFigures ==
    ASSUME Core, Core', Figures, NEW p \in Calls, AddSpend(p) \/ AdoptAdded(p)
    PROVE  Figures'
  <1>1. /\ call \in [Calls -> Items] /\ total \in Nat /\ cycle \in Cycles
        /\ cycle \in Nat /\ total + BillCost \in Nat
    BY CoreParts, CycleType, QuotaAssumption
  <1>2. CASE AddSpend(p)
    <2>1. UNCHANGED view /\ CounterSteps
      <3>1. UNCHANGED <<total, cycle, peak>> \/ Moved(total + BillCost)
        BY <1>2 DEF AddSpend
      <3> QED
        BY <1>1, <1>2, <3>1 DEF AddSpend, CounterSteps
    <2>2. CASE /\ Moved(total + BillCost)
               /\ call' = [call EXCEPT ![p].pc = "added", ![p].ok = TRUE,
                                       ![p].total = total + BillCost,
                                       ![p].cycle = cycle]
      <3>1. Turn(p) /\ call'[p].total = total + BillCost /\ call'[p].cycle = cycle
        BY <2>2, TurnAdded
      <3>2. total' = total + BillCost /\ cycle' = cycle
        BY <2>2 DEF Moved
      <3>3. total' <= peak'[cycle'] /\ cycle <= cycle'
        BY <1>1, <2>1, <3>2, CounterCounted DEF Counted
      <3>4. BackedNext(total', cycle, 0)
        BY <1>1, <3>3, BackedByTotalNext
      <3>5. BackedNext(call'[p].total, call'[p].cycle, 0)
        BY <3>1, <3>2, <3>4
      <3> QED
        BY <2>1, <3>1, <3>5, FiguresTurn
    <2>3. CASE NoAnswer(p, "added")
      <3>1. Turn(p) /\ call'[p].pc = "added" /\ ~ call'[p].ok
        BY <1>1, <2>3, TurnNoAnswer DEF Labels
      <3> QED
        BY <2>1, <3>1, FiguresTurn
    <2> QED
      BY <1>2, <2>2, <2>3 DEF AddSpend
  <1>3. CASE AdoptAdded(p)
    <2> DEFINE u == view[At[p]]
    <2>1. u \in Views /\ Backed(u.spend, u.known, u.unshared)
      BY <1>3, AdoptAddedIs, ViewBacked
    <2>2. PICK v \in Views :
             /\ view' = [view EXCEPT ![At[p]] = v]
             /\ \/ call[p].ok /\ v = Adopted(u, call[p].total, call[p].cycle)
                \/ /\ v.known = u.known
                   /\ v.spend = u.spend + BillCost
                   /\ v.unshared = u.unshared + BillCost
      BY <1>3, AdoptAddedIs
    <2> HIDE DEF u
    <2>3. Backed(v.spend, v.known, v.unshared)
      <3>1. CASE call[p].ok /\ v = Adopted(u, call[p].total, call[p].cycle)
        <4>1. Answered(p)
          BY <1>3, <3>1 DEF AdoptAdded, Answered
        <4>2. /\ Backed(call[p].total, call[p].cycle, 0)
              /\ call[p].total \in Nat /\ call[p].cycle \in Cycles
          BY <1>1, <4>1, AnswerBacked, ItemOf
        <4> QED
          BY <2>1, <3>1, <4>2, AdoptedBacked DEF Backed
      <3>2. CASE /\ v.known = u.known
                 /\ v.spend = u.spend + BillCost
                 /\ v.unshared = u.unshared + BillCost
        <4>1. PICK d \in u.known..cycle : u.spend <= peak[d] + u.unshared
          BY <2>1 DEF Backed
        <4>2. u.spend \in Nat /\ u.unshared \in Nat /\ BillCost \in Nat /\ u.known \in Cycles
          BY <2>1, QuotaAssumption DEF Views
        <4>3. peak[d] \in Nat
          BY <4>2, PeakType
        <4>4. v.spend <= peak[d] + v.unshared
          BY <3>2, <4>1, <4>2, <4>3
        <4> QED
          BY <2>1, <3>2, <4>1, <4>4 DEF Backed
      <3> QED
        BY <2>2, <3>1, <3>2
    <2>4. Turn(p) /\ call'[p].pc = "done" /\ UNCHANGED counter
      BY <1>1, <1>3, TurnEnd DEF AdoptAdded, Labels, Ended
    <2> QED
      BY <2>2, <2>3, <2>4, FiguresView
  <1> QED
    BY <1>2, <1>3

LEMMA StartOverFigures ==
    ASSUME Core, Core', Figures, NEW p \in Calls, StartOver(p)
    PROVE  Figures'
  <1>1. /\ call \in [Calls -> Items] /\ total \in Nat /\ cycle \in Cycles
        /\ cycle \in Nat
    BY CoreParts, CycleType
  <1>2. CASE BeginReset(p)
    <2>1. UNCHANGED view /\ CounterSteps
      BY <1>2 DEF BeginReset, CounterSteps, counter
    <2>2. Turn(p) /\ call'[p].pc \notin Answering
      BY <1>1, <1>2, TurnGoto DEF BeginReset, Labels, Answering
    <2> QED
      BY <2>1, <2>2, FiguresQuiet
  <1>3. CASE Reset(p)
    <2>1. UNCHANGED view /\ CounterSteps
      BY <1>3 DEF Reset, CounterSteps, counter
    <2>2. CASE Goto(p, "reset")
      <3>1. Turn(p) /\ call'[p].pc \notin Answering
        BY <1>1, <2>2, TurnGoto DEF Labels, Answering
      <3> QED
        BY <2>1, <3>1, FiguresQuiet
    <2>3. CASE NoAnswer(p, "clearing")
      <3>1. Turn(p) /\ call'[p].pc = "clearing" /\ ~ call'[p].ok
        BY <1>1, <2>3, TurnNoAnswer DEF Labels
      <3> QED
        BY <2>1, <3>1, FiguresTurn
    <2> QED
      BY <1>3, <2>2, <2>3 DEF Reset
  <1>4. CASE ReadReset(p)
    <2>1. Turn(p) /\ call'[p].total = total /\ call'[p].cycle = cycle
      BY <1>1, <1>4, TurnAnswer DEF ReadReset, Labels
    <2> QED
      BY <1>1, <1>4, <2>1, FiguresAnswer DEF ReadReset
  <1>5. CASE Clear(p)
    <2> DEFINE i == At[p]
               c == IF call[p].ok THEN call[p].cycle ELSE view[i].known
               w == Cleared(view[i], c)
    <2>1. call[p].pc = "clearing" /\ i \in Instances
      BY <1>5, QuotaAssumption DEF Clear
    <2>2. view[i] \in Views /\ Backed(view[i].spend, view[i].known, view[i].unshared)
      BY <2>1, ViewBacked
    <2>3. c \in Cycles /\ c <= cycle
      <3>1. CASE call[p].ok
        <4>1. Backed(call[p].total, call[p].cycle, 0)
          BY <2>1, <3>1, AnswerBacked DEF Answered
        <4> QED
          BY <1>1, <3>1, <4>1, ItemOf DEF Backed
      <3>2. CASE ~ call[p].ok
        BY <2>2, <3>2 DEF Backed, Views
      <3> QED
        BY <3>1, <3>2
    <2>4. view' = [view EXCEPT ![At[p]] = w] /\ UNCHANGED counter
      BY <1>5 DEF Clear
    <2> HIDE DEF c
    <2>5. w \in Views /\ w.known = c /\ w.spend = 0
      BY <2>2, <2>3, ClearedType
    <2> HIDE DEF w
    <2>6. Backed(w.spend, w.known, w.unshared)
      <3>1. w.unshared \in Nat
        BY <2>5 DEF Views
      <3>2. Backed(0, c, w.unshared)
        BY <2>3, <3>1, NothingBacked
      <3> QED
        BY <2>5, <3>2 DEF Backed
    <2>7. Turn(p) /\ call'[p].pc \notin Answering
      <3>1. End(p, "done") /\ "done" \in Labels
        BY <1>5 DEF Clear, Labels, Ended
      <3>2. Turn(p) /\ call'[p].pc = "done"
        BY <1>1, <3>1, TurnEnd
      <3> QED
        BY <3>2 DEF Answering
    <2> QED
      BY <2>4, <2>5, <2>6, <2>7, FiguresView DEF Answering
  <1> QED
    BY <1>2, <1>3, <1>4, <1>5 DEF StartOver

LEMMA RestartFigures ==
    ASSUME Core, Core', Figures, NEW i \in Instances, Restart(i)
    PROVE  Figures'
  <1>1. /\ total \in Nat /\ cycle \in Cycles /\ cycle \in Nat /\ 0 \in Cycles
        /\ 0 <= cycle
    BY CoreParts, CycleType, CyclesType
  <1>2. CounterSteps
    BY DEF Restart, CounterSteps, counter
  <1>3. \A p \in Calls : call'[p] = call[p] \/ ~ Answered(p)'
    <2> SUFFICES ASSUME NEW p \in Calls, call'[p] # call[p] PROVE ~ Answered(p)'
      OBVIOUS
    <2>1. call'[p].pc \in {"idle", "failed"}
      <3>1. NewCall.pc = "idle"
        BY DEF NewCall
      <3> QED
        BY <3>1, RestartIs DEF Killed
    <2> QED
      BY <2>1 DEF Answered
  <1>4. /\ NewView \in Views
        /\ Backed(NewView.spend, NewView.known, NewView.unshared)
    <2>1. NewView.spend = 0 /\ NewView.known = 0 /\ NewView.unshared = 0
      BY DEF NewView
    <2>2. Backed(0, 0, 0)
      BY <1>1, NothingBacked
    <2> QED
      BY <2>1, <2>2, NewViewType DEF Backed
  <1> DEFINE w == Adopted(NewView, total, cycle)
  <1>5. w \in Views /\ Backed(w.spend, w.known, w.unshared)
    <2>1. Backed(total, cycle, 0)
      BY <1>1, BackedByTotal DEF Figures
    <2> QED
      BY <1>1, <1>4, <2>1, AdoptedBacked
  <1>6. view' = [view EXCEPT ![i] = NewView] \/ view' = [view EXCEPT ![i] = w]
    BY RestartIs
  <1> HIDE DEF w
  <1>7. \A o \in Instances :
           \/ view'[o] = view[o]
           \/ \E u \in Views : view'[o] = u /\ Backed(u.spend, u.known, u.unshared)
    BY <1>4, <1>5, <1>6, CoreParts DEF RestTyped
  <1> QED
    BY <1>2, <1>3, <1>7, CounterCounted, FiguresFrom

LEMMA InitFigures == Init => Figures
  <1> SUFFICES ASSUME Init PROVE Figures
    OBVIOUS
  <1>1. Core
    BY InitCore
  <1>2. total = 0 /\ cycle = 0 /\ 0 \in Cycles
    BY CyclesType DEF Init
  <1>3. total <= peak[cycle]
    BY <1>2, PeakType, <1>1 DEF Init
  <1>4. \A p \in Calls : ~ Answered(p)
    BY DEF Init, Answered, NewCall
  <1>5. \A i \in Instances : Backed(view[i].spend, view[i].known, view[i].unshared)
    <2> SUFFICES ASSUME NEW i \in Instances
                 PROVE  Backed(view[i].spend, view[i].known, view[i].unshared)
      OBVIOUS
    <2>1. view[i].spend = 0 /\ view[i].known = 0 /\ view[i].unshared = 0
      BY DEF Init, NewView
    <2>2. Backed(0, 0, 0)
      BY <1>1, <1>2, NothingBacked
    <2> QED
      BY <2>1, <2>2 DEF Backed
  <1> QED
    BY <1>3, <1>4, <1>5 DEF Figures

LEMMA NextFigures == Core /\ Figures /\ [Next]_vars => Figures'
  <1> SUFFICES ASSUME Core, Figures, [Next]_vars PROVE Figures'
    OBVIOUS
  <1>1. Core'
    BY NextCore
  <1>2. ASSUME NEW p \in Calls, Enforce(p) PROVE Figures'
    BY <1>1, <1>2, EnforceFigures
  <1>3. ASSUME NEW p \in Calls, Spend(p) PROVE Figures'
    BY <1>1, <1>3, ReserveFigures, SettleFigures, AlertFigures, BillFigures DEF Spend
  <1>4. ASSUME NEW p \in Calls, StartOver(p) PROVE Figures'
    BY <1>1, <1>4, StartOverFigures
  <1>5. ASSUME NEW i \in Instances, Restart(i) PROVE Figures'
    BY <1>1, <1>5, RestartFigures
  <1>6. ASSUME UNCHANGED <<total, cycle, peak, view, call>> PROVE Figures'
    BY <1>6 DEF Figures, Backed, Answered
  <1>7. ASSUME NEW i \in Instances, Elapse(i) PROVE Figures'
    BY <1>6, <1>7 DEF Elapse, counter
  <1>8. CASE UNCHANGED vars
    BY <1>6, <1>8 DEF vars, counter
  <1> QED
    BY <1>2, <1>3, <1>4, <1>5, <1>7, <1>8 DEF Next, Step

\* At every moment, what an instance takes for the spend is no more than the shared
\* counter came to at some time since the cycle it knows of began, but for bills
\* whose answers it did not get: no answer that comes late, or from a cycle gone by
\* (_adopt_shared_spend), and no reset or restart makes it refuse for more.
THEOREM SpendBacked == Spec => []CopyBacked
  <1>1. Core /\ Figures => CopyBacked
    <2> SUFFICES ASSUME Core, Figures PROVE CopyBacked
      OBVIOUS
    <2> QED
      BY DEF Figures, Backed, CopyBacked
  <1>2. Spec => []Figures
    BY InitFigures, NextFigures, CoreAlways, PTL DEF Spec
  <1> QED
    BY <1>1, <1>2, CoreAlways, PTL

-----------------------------------------------------------------------------
(* Crossings are announced once                                            *)

\* Made and Pending after a step, for the same call.
MadeNext(r) == call'[r].pc = "alerting" \/ call'[r].pc \in Ended

PendingNext(p, c, t) ==
    /\ call'[p].mark = c /\ t \in call'[p].crossed
    /\ \/ call'[p].pc \in {"settled", "answered"}
       \/ call'[p].pc = "alerting" /\ t \notin sets'[call'[p].set]

CrossedNext(c, t) ==
    /\ announced'[<<c, t>>] <= 1
    /\ \A p \in Requests : PendingNext(p, c, t) =>
          /\ <<c, t>> \in crossings'
          /\ announced'[<<c, t>>] = 0
          /\ \A o \in Requests : PendingNext(o, c, t) => o = p
    /\ <<c, t>> \notin crossings' => announced'[<<c, t>>] = 0

LEMMA AlertsNext ==
    ASSUME \A c \in Cycles, t \in Thresholds : CrossedNext(c, t),
           \A i \in Instances : view'[i].alerted # NoSet => MadeNext(view'[i].alerted),
           \A p \in Requests : call'[p].pc = "alerting" => MadeNext(call'[p].set)
    PROVE  Alerts'
  BY DEF Alerts, Crossed, CrossedNext, Pending, PendingNext, Made, MadeNext

\* A step after which nobody is to announce more than before.
LEMMA CrossedKept ==
    ASSUME Alerts, NEW c \in Cycles, NEW t \in Thresholds,
           UNCHANGED <<crossings, announced>>,
           \A p \in Requests : PendingNext(p, c, t) => Pending(p, c, t)
    PROVE  CrossedNext(c, t)
  <1>1. Crossed(c, t)
    BY DEF Alerts
  <1> QED
    BY <1>1 DEF Crossed, CrossedNext

LEMMA AlertsKept ==
    ASSUME Core, Alerts, UNCHANGED <<crossings, announced, sets>>,
           \A r \in Requests :
              \/ call'[r] = call[r]
              \/ /\ call'[r].pc # "alerting"
                 /\ Made(r) => MadeNext(r)
                 /\ \A c \in Cycles, t \in Thresholds :
                       PendingNext(r, c, t) => Pending(r, c, t),
           \A i \in Instances : view'[i].alerted \in {view[i].alerted, NoSet}
    PROVE  Alerts'
  <1>1. \A r \in Requests : Made(r) => MadeNext(r)
    BY DEF Made, MadeNext
  <1>2. \A c \in Cycles, t \in Thresholds : CrossedNext(c, t)
    <2> SUFFICES ASSUME NEW c \in Cycles, NEW t \in Thresholds PROVE CrossedNext(c, t)
      OBVIOUS
    <2>1. \A p \in Requests : PendingNext(p, c, t) => Pending(p, c, t)
      BY DEF Pending, PendingNext
    <2> QED
      BY <2>1, CrossedKept
  <1>3. \A i \in Instances : view'[i].alerted # NoSet => MadeNext(view'[i].alerted)
    <2> SUFFICES ASSUME NEW i \in Instances, view'[i].alerted # NoSet
                 PROVE  MadeNext(view'[i].alerted)
      OBVIOUS
    <2>1. view'[i].alerted = view[i].alerted /\ view[i].alerted \in Requests
      BY CoreParts DEF RestTyped, Views
    <2>2. Made(view[i].alerted)
      BY <2>1 DEF Alerts
    <2>3. MadeNext(view[i].alerted)
      BY <1>1, <2>1, <2>2
    <2> QED
      BY <2>1, <2>3
  <1>4. \A p \in Requests : call'[p].pc = "alerting" => MadeNext(call'[p].set)
    <2> SUFFICES ASSUME NEW p \in Requests, call'[p].pc = "alerting"
                 PROVE  MadeNext(call'[p].set)
      OBVIOUS
    <2>1. call'[p] = call[p] /\ call[p].pc = "alerting"
      BY DEF Calls
    <2>2. Made(call[p].set)
      BY <2>1 DEF Alerts
    <2>3. call[p].set \in Requests
      BY <2>1, CoreParts DEF KindOK, Calls
    <2>4. MadeNext(call[p].set)
      BY <1>1, <2>2, <2>3
    <2> QED
      BY <2>1, <2>4
  <1> QED
    BY <1>2, <1>3, <1>4, AlertsNext

\* A step of one call, away from the thresholds.
LEMMA AlertsTurn ==
    ASSUME Core, Alerts, UNCHANGED <<crossings, announced, sets>>,
           NEW p \in Calls, Turn(p), call[p].pc \notin {"alerting"} \cup Ended,
           \/ p \notin Requests
           \/ call'[p].pc \notin {"settled", "answered", "alerting"}
           \/ /\ call[p].pc = "settled" /\ call'[p].pc = "answered"
              /\ call'[p].mark = call[p].mark /\ call'[p].crossed = call[p].crossed,
           \A i \in Instances : view'[i].alerted \in {view[i].alerted, NoSet}
    PROVE  Alerts'
  <1> SUFFICES ASSUME NEW r \in Requests, call'[r] # call[r]
               PROVE  /\ call'[r].pc # "alerting"
                      /\ Made(r) => MadeNext(r)
                      /\ \A c \in Cycles, t \in Thresholds :
                            PendingNext(r, c, t) => Pending(r, c, t)
    BY AlertsKept
  <1>1. r = p
    BY DEF Turn, Calls
  <1>2. ~ Made(r) /\ call'[r].pc # "alerting"
    BY <1>1 DEF Made
  <1>3. \A c \in Cycles, t \in Thresholds : PendingNext(r, c, t) => Pending(r, c, t)
    BY <1>1 DEF Pending, PendingNext
  <1> QED
    BY <1>2, <1>3

Alerting == {"settled", "answered", "alerting"}

LEMMA AlertsQuiet ==
    ASSUME Core, Alerts, UNCHANGED <<crossings, announced, sets>>,
           NEW p \in Calls, Turn(p), call[p].pc \notin {"alerting"} \cup Ended,
           p \notin Requests \/ call'[p].pc \notin Alerting,
           \A i \in Instances : view'[i].alerted \in {view[i].alerted, NoSet}
    PROVE  Alerts'
  BY AlertsTurn DEF Alerting

\* What an instance learns may make it forget its set, and no more.
LEMMA ForgetsAtMost ==
    ASSUME Core, NEW i \in Instances, NEW w \in Views,
           w.alerted \in {view[i].alerted, NoSet}, view' = [view EXCEPT ![i] = w]
    PROVE  \A o \in Instances : view'[o].alerted \in {view[o].alerted, NoSet}
  BY CoreParts DEF RestTyped

LEMMA EnforceAlerts ==
    ASSUME Core, Alerts, NEW p \in Calls, Enforce(p)
    PROVE  Alerts'
  <1>1. call \in [Calls -> Items] /\ total \in Nat /\ cycle \in Cycles
    BY CoreParts, CycleType
  <1>2. /\ UNCHANGED <<crossings, announced, sets>>
        /\ call[p].pc \notin {"alerting"} \cup Ended
    BY DEF Enforce, Begin, Read, AdoptRead, Open, counter, Ended
  <1>3. CASE Begin(p)
    <2>1. PICK label \in {"idle", "denied", "admitted", "reading"} : Goto(p, label)
      BY <1>3, CheckedIs DEF Begin
    <2>2. Turn(p) /\ call'[p].pc = label
      BY <1>1, <2>1, TurnGoto DEF Labels, Ended
    <2>3. /\ call'[p].pc \notin Alerting
          /\ \A i \in Instances : view'[i].alerted \in {view[i].alerted, NoSet}
      BY <1>3, <2>2 DEF Begin, Alerting
    <2> QED
      BY <1>2, <2>2, <2>3, AlertsQuiet
  <1>4. CASE Read(p)
    <2>1. Turn(p) /\ call'[p].pc = "read"
      <3>1. CASE Answer(p, "read")
        BY <1>1, <3>1, TurnAnswer DEF Labels
      <3>2. CASE NoAnswer(p, "read")
        BY <1>1, <3>2, TurnNoAnswer DEF Labels
      <3> QED
        BY <1>4, <3>1, <3>2 DEF Read
    <2>2. /\ call'[p].pc \notin Alerting
          /\ \A i \in Instances : view'[i].alerted \in {view[i].alerted, NoSet}
      BY <1>4, <2>1 DEF Read, Alerting
    <2> QED
      BY <1>2, <2>1, <2>2, AlertsQuiet
  <1>5. CASE AdoptRead(p)
    <2> DEFINE i == At[p]
               v == IF call[p].ok THEN Adopted(view[i], call[p].total, call[p].cycle)
                    ELSE view[i]
               label == IF p \in Resets THEN "resetting" ELSE Checked(p, v)
    <2>1. i \in Instances /\ view[i] \in Views /\ p \notin Bills
      BY <1>5, QuotaAssumption, CoreParts DEF RestTyped, AdoptRead, KindOK
    <2>2. v \in Views /\ v.alerted \in {view[i].alerted, NoSet}
      BY <1>1, <2>1, AdoptedType, ItemOf
    <2>3. label \in {"resetting", "idle", "denied", "admitted"}
      BY <2>1, CheckedIs DEF Calls
    <2>4. Turn(p) /\ call'[p].pc = label
      BY <1>1, <1>5, <2>3, TurnEnd DEF AdoptRead, Labels, Ended
    <2>5. view' = [view EXCEPT ![i] = v]
      BY <1>5 DEF AdoptRead
    <2> HIDE DEF v, label
    <2>6. \A o \in Instances : view'[o].alerted \in {view[o].alerted, NoSet}
      BY <2>1, <2>2, <2>5, ForgetsAtMost
    <2>7. call'[p].pc \notin Alerting
      BY <2>3, <2>4 DEF Alerting
    <2> QED
      BY <1>2, <2>4, <2>6, <2>7, AlertsQuiet
  <1> QED
    BY <1>3, <1>4, <1>5 DEF Enforce

LEMMA ReserveAlerts ==
    ASSUME Core, Alerts, NEW p \in Calls,
           Reserve(p) \/ ReadReserved(p) \/ AdoptReserved(p) \/ Plan(p)
    PROVE  Alerts'
  <1>1. /\ call \in [Calls -> Items] /\ total \in Nat /\ cycle \in Cycles
        /\ call[p].mark \in Cycles
    BY CoreParts, CycleType, ItemOf
  <1>2. /\ UNCHANGED <<crossings, announced, sets>>
        /\ call[p].pc \notin {"alerting"} \cup Ended
    BY DEF Reserve, ReadReserved, AdoptReserved, Plan, counter, Ended
  <1>3. CASE Reserve(p)
    <2>1. Turn(p) /\ call'[p].pc \in {"reserved", "denied", "failed"}
      <3>1. CASE call' = [call EXCEPT ![p].pc = "reserved", ![p].mark = cycle]
        BY <1>1, <3>1, TurnReserved
      <3>2. CASE Goto(p, "denied")
        BY <1>1, <3>2, TurnGoto DEF Labels, Ended
      <3>3. CASE Goto(p, "failed")
        BY <1>1, <3>3, TurnGoto DEF Labels, Ended
      <3> QED
        BY <1>3, <3>1, <3>2, <3>3 DEF Reserve
    <2>2. /\ call'[p].pc \notin Alerting
          /\ \A i \in Instances : view'[i].alerted \in {view[i].alerted, NoSet}
      BY <1>3, <2>1 DEF Reserve, Alerting
    <2> QED
      BY <1>2, <2>1, <2>2, AlertsQuiet
  <1>4. CASE ReadReserved(p)
    <2>1. Turn(p) /\ call'[p].pc = "holding"
      BY <1>4, TurnReadReserved
    <2>2. /\ call'[p].pc \notin Alerting
          /\ \A i \in Instances : view'[i].alerted \in {view[i].alerted, NoSet}
      BY <1>4, <2>1 DEF ReadReserved, Alerting
    <2> QED
      BY <1>2, <2>1, <2>2, AlertsQuiet
  <1>5. CASE AdoptReserved(p)
    <2> DEFINE v == Adopted(view[At[p]], call[p].total, call[p].cycle)
    <2>1. At[p] \in Instances /\ view[At[p]] \in Views
      BY QuotaAssumption, CoreParts DEF RestTyped
    <2>2. v \in Views /\ v.alerted \in {view[At[p]].alerted, NoSet}
      BY <1>1, <2>1, AdoptedType, ItemOf
    <2>3. view' = [view EXCEPT ![At[p]] = v]
      BY <1>5 DEF AdoptReserved
    <2> HIDE DEF v
    <2>4. \A o \in Instances : view'[o].alerted \in {view[o].alerted, NoSet}
      BY <2>1, <2>2, <2>3, ForgetsAtMost
    <2>5. Turn(p) /\ call'[p].pc = "calling"
      BY <1>1, <1>5, TurnCalling DEF AdoptReserved
    <2>6. call'[p].pc \notin Alerting
      BY <2>5 DEF Alerting
    <2> QED
      BY <1>2, <2>4, <2>5, <2>6, AlertsQuiet
  <1>6. CASE Plan(p)
    <2>1. PICK cost \in IF call[p].pc = "calling" THEN Costs[p] ELSE {call[p].cost} :
            call' = [call EXCEPT ![p].pc = "planned", ![p].cost = cost,
                                 ![p].cycle = cycle, ![p].crossed = Due(p, cost)]
      BY <1>6 DEF Plan
    <2>2. call[p].pc \in {"calling", "planning"} /\ p \in Requests
      BY <1>6, CoreParts DEF Plan, KindOK, Reserving
    <2>3. cost \in Nat /\ Due(p, cost) \subseteq Thresholds
      BY <1>1, <2>1, <2>2, QuotaAssumption, ItemOf DEF Due
    <2>4. Turn(p) /\ call'[p].pc = "planned"
      BY <1>1, <2>1, <2>3, TurnPlanned
    <2>5. /\ call'[p].pc \notin Alerting
          /\ \A i \in Instances : view'[i].alerted \in {view[i].alerted, NoSet}
      BY <1>6, <2>4 DEF Plan, Alerting
    <2> QED
      BY <1>2, <2>4, <2>5, AlertsQuiet
  <1> QED
    BY <1>3, <1>4, <1>5, <1>6

\* A settlement records only what nobody has recorded.
LEMMA CommitAlerts ==
    ASSUME Core, Alerts, NEW p \in Calls, Commit(p)
    PROVE  Alerts'
  <1>1. /\ call \in [Calls -> Items] /\ p \in Requests
        /\ UNCHANGED <<announced, sets, view>>
    BY CoreParts DEF Commit, KindOK, Reserving
  <1>2. Turn(p) /\ call[p].pc = "planned"
    BY <1>1, TurnCommit
  <1>3. CASE UNCHANGED counter /\ call'[p].pc \in {"planning", "failed"}
    BY <1>1, <1>2, <1>3, AlertsQuiet DEF counter, Ended, Alerting
  <1>4. CASE Settle(p) /\ call'[p].pc \in {"settled", "failed"}
    <2> DEFINE m == call[p].mark
               due == call[p].crossed
    <2>1. /\ crossings' = crossings \cup ({m} \X due)
          /\ \A t \in due : <<m, t>> \notin crossings
      BY <1>4 DEF Settle, Conditions, AlertsNew
    <2>2. call'[p].pc = "settled" => call'[p].mark = m /\ call'[p].crossed \in {due, {}}
      BY <1>1, TurnCommit
    <2>3. \A o \in Requests : o # p => call'[o] = call[o]
      BY <1>2 DEF Turn, Calls
    <2> HIDE DEF m, due
    <2>4. \A c \in Cycles, t \in Thresholds : CrossedNext(c, t)
      <3> SUFFICES ASSUME NEW c \in Cycles, NEW t \in Thresholds PROVE CrossedNext(c, t)
        OBVIOUS
      <3>1. Crossed(c, t)
        BY DEF Alerts
      <3>2. \A o \in Requests : o # p /\ PendingNext(o, c, t) => Pending(o, c, t)
        BY <1>1, <2>3 DEF Pending, PendingNext
      <3>3. PendingNext(p, c, t) => c = m /\ t \in due
        BY <1>4, <2>2 DEF PendingNext
      <3>4. CASE c = m /\ t \in due
        <4>1. <<c, t>> \notin crossings /\ <<c, t>> \in crossings'
          BY <2>1, <3>4
        <4>2. announced'[<<c, t>>] = 0
          BY <1>1, <3>1, <4>1 DEF Crossed
        <4>3. \A o \in Requests : ~ Pending(o, c, t)
          BY <3>1, <4>1 DEF Crossed
        <4> QED
          BY <3>2, <4>1, <4>2, <4>3 DEF CrossedNext
      <3>5. CASE ~ (c = m /\ t \in due)
        <4>1. <<c, t>> \in crossings' <=> <<c, t>> \in crossings
          BY <2>1, <3>5
        <4>2. \A o \in Requests : PendingNext(o, c, t) => Pending(o, c, t)
          BY <3>2, <3>3, <3>5
        <4> QED
          BY <1>1, <3>1, <4>1, <4>2 DEF Crossed, CrossedNext
      <3> QED
        BY <3>4, <3>5
    <2>5. \A r \in Requests : Made(r) => MadeNext(r)
      BY <1>2, <2>3 DEF Made, MadeNext, Ended
    <2>6. \A i \in Instances : view'[i].alerted # NoSet => MadeNext(view'[i].alerted)
      BY <1>1, <2>5, CoreParts DEF Alerts, RestTyped, Views
    <2>7. \A o \in Requests : call'[o].pc = "alerting" => MadeNext(call'[o].set)
      <3> SUFFICES ASSUME NEW o \in Requests, call'[o].pc = "alerting"
                   PROVE  MadeNext(call'[o].set)
        OBVIOUS
      <3>1. call'[o] = call[o]
        BY <1>4, <2>3
      <3>2. Made(call[o].set) /\ call[o].set \in Requests
        BY <3>1, CoreParts DEF Alerts, KindOK, Calls
      <3> QED
        BY <2>5, <3>1, <3>2
    <2> QED
      BY <2>4, <2>6, <2>7, AlertsNext
  <1> QED
    BY <1>1, <1>3, <1>4, TurnCommit

\* What is announced was pending, and no longer is.  A set that p makes is used by
\* nobody else yet, and one that it finds only grows.
LEMMA AnnounceAlerts ==
    ASSUME Core, Alerts, NEW p \in Requests, NEW v \in Views, NEW set \in Requests,
           NEW held \in SUBSET Thresholds,
           call[p].pc \in {"answered", "alerting"},
           v.alerted \in {view[At[p]].alerted, NoSet},
           set = p \/ Made(set),
           \A o \in Requests : call[o].pc = "alerting" /\ call[o].set = set
                                => sets[set] \subseteq held,
           call[p].pc = "alerting" => set = call[p].set /\ held = sets[set],
           Announce(p, v, set, held, call[p].crossed \ held), UNCHANGED counter
    PROVE  Alerts'
  <1> DEFINE due == call[p].crossed \ held
             m == call[p].mark
  <1>1. /\ p \in Calls /\ call \in [Calls -> Items] /\ due \in SUBSET Thresholds
        /\ m \in Cycles /\ sets \in [Requests -> SUBSET Thresholds]
        /\ announced \in [Keys -> Nat]
    BY CoreParts, ItemOf DEF Calls, RestTyped
  <1>2. Turn(p) /\ call'[p].pc \in {"done", "alerting"}
    BY <1>1, AnnounceIs
  <1>3. PICK w \in Views :
          /\ view' = [view EXCEPT ![At[p]] = w]
          /\ w.alerted \in {v.alerted, set}
          /\ w.alerted # v.alerted => call'[p].pc = "done"
    BY <1>1, AnnounceIs
  <1>4. \A o \in Requests : o # p => call'[o] = call[o]
    BY <1>2 DEF Turn, Calls
  <1>5. MadeNext(p) /\ \A r \in Requests : Made(r) => MadeNext(r)
    BY <1>2, <1>4 DEF Made, MadeNext, Ended
  <1>6. MadeNext(set)
    BY <1>5
  <1>7. \A i \in Instances : view'[i].alerted # NoSet => MadeNext(view'[i].alerted)
    <2> SUFFICES ASSUME NEW i \in Instances, view'[i].alerted # NoSet
                 PROVE  MadeNext(view'[i].alerted)
      OBVIOUS
    <2>1. view'[i].alerted \in {view[i].alerted, set}
      <3>1. view'[i] = view[i] \/ (i = At[p] /\ view'[i] = w)
        BY <1>3, CoreParts DEF RestTyped
      <3> QED
        BY <1>3, <3>1
    <2>2. CASE view'[i].alerted = set
      BY <1>6, <2>2
    <2>3. CASE view'[i].alerted = view[i].alerted
      <3>1. view[i].alerted \in Requests
        BY <2>3, CoreParts DEF RestTyped, Views
      <3>2. Made(view[i].alerted)
        BY <2>3 DEF Alerts
      <3>3. MadeNext(view[i].alerted)
        BY <1>5, <3>1, <3>2
      <3> QED
        BY <2>3, <3>3
    <2> QED
      BY <2>1, <2>2, <2>3
  <1>8. \A o \in Requests : call'[o].pc = "alerting" => MadeNext(call'[o].set)
    <2> SUFFICES ASSUME NEW o \in Requests, call'[o].pc = "alerting"
                 PROVE  MadeNext(call'[o].set)
      OBVIOUS
    <2>1. CASE o = p
      <3>1. call'[p].set = set
        BY <1>1, <2>1, AnnounceIs
      <3> QED
        BY <1>6, <2>1, <3>1
    <2>2. CASE o # p
      <3>1. call'[o] = call[o]
        BY <1>4, <2>2
      <3>2. Made(call[o].set) /\ call[o].set \in Requests
        BY <3>1, CoreParts DEF Alerts, KindOK, Calls
      <3>3. MadeNext(call[o].set)
        BY <1>5, <3>2
      <3> QED
        BY <3>1, <3>3
    <2> QED
      BY <2>1, <2>2
  <1>9. ASSUME NEW more \in SUBSET Thresholds, held \subseteq more,
               sets' = [sets EXCEPT ![set] = more],
               NEW o \in Requests, o # p, NEW c, NEW t, PendingNext(o, c, t)
        PROVE  Pending(o, c, t)
    <2>1. call'[o] = call[o]
      BY <1>4, <1>9
    <2>2. CASE call[o].pc # "alerting"
      BY <1>9, <2>1, <2>2 DEF Pending, PendingNext
    <2>3. CASE call[o].pc = "alerting"
      <3>1. call[o].set \in Requests /\ t \notin sets'[call[o].set]
        BY <1>9, <2>1, <2>3, CoreParts DEF PendingNext, KindOK, Calls
      <3>2. t \notin sets[call[o].set]
        <4>1. CASE call[o].set = set
          <5>1. sets'[set] = more /\ sets[set] \subseteq held
            BY <1>1, <1>9, <2>3, <4>1
          <5> QED
            BY <1>9, <3>1, <4>1, <5>1
        <4>2. CASE call[o].set # set
          BY <1>1, <1>9, <3>1, <4>2
        <4> QED
          BY <4>1, <4>2
      <3> QED
        BY <1>9, <2>1, <2>3, <3>2 DEF Pending, PendingNext
    <2> QED
      BY <2>2, <2>3
  <1>10. CASE /\ call'[p].pc = "done"
              /\ sets' = [sets EXCEPT ![set] = held]
              /\ UNCHANGED announced
    <2> SUFFICES ASSUME NEW c \in Cycles, NEW t \in Thresholds PROVE CrossedNext(c, t)
      BY <1>7, <1>8, AlertsNext
    <2>1. \A o \in Requests : PendingNext(o, c, t) => Pending(o, c, t)
      BY <1>9, <1>10 DEF PendingNext
    <2> QED
      BY <1>10, <2>1, CrossedKept DEF counter
  <1>11. CASE /\ call'[p].pc = "alerting" /\ call'[p].set = set
              /\ call'[p].mark = m
              /\ call'[p].crossed = call[p].crossed
              /\ \E t \in due : Announces(p, set, held, t)
    <2>1. PICK n \in due : Announces(p, set, held, n)
      BY <1>11
    <2>2. /\ n \in Thresholds /\ n \in call[p].crossed /\ n \notin held
          /\ sets' = [sets EXCEPT ![set] = held \cup {n}]
          /\ sets'[set] = held \cup {n}
      BY <1>1, <2>1 DEF Announces
    <2>3. Pending(p, m, n)
      BY <2>2 DEF Pending
    <2>4. \A c, t : PendingNext(p, c, t) => Pending(p, c, t) /\ t # n
      <3> SUFFICES ASSUME NEW c, NEW t, PendingNext(p, c, t)
                   PROVE  Pending(p, c, t) /\ t # n
        OBVIOUS
      <3>1. call[p].mark = c /\ t \in call[p].crossed /\ t \notin held /\ t # n
        BY <1>11, <2>2 DEF PendingNext
      <3>2. call[p].pc = "alerting" => t \notin sets[call[p].set]
        BY <3>1
      <3> QED
        BY <3>1, <3>2 DEF Pending
    <2>5. \A o \in Requests : \A c, t : PendingNext(o, c, t) => Pending(o, c, t)
      <3>1. held \cup {n} \in SUBSET Thresholds
        BY <2>2
      <3>2. held \subseteq held \cup {n}
        OBVIOUS
      <3>3. \A o \in Requests : o # p => \A c, t : PendingNext(o, c, t) => Pending(o, c, t)
        BY <1>9, <2>2, <3>1, <3>2
      <3> QED
        BY <2>4, <3>3
    <2> SUFFICES ASSUME NEW c \in Cycles, NEW t \in Thresholds PROVE CrossedNext(c, t)
      BY <1>7, <1>8, AlertsNext
    <2>6. <<m, n>> \in Keys /\ <<c, t>> \in Keys
      BY <1>1, <2>2 DEF Keys
    <2>7. announced' = [announced EXCEPT ![<<m, n>>] = announced[<<m, n>>] + 1]
      BY <2>1 DEF Announces
    <2>8. crossings' = crossings /\ Crossed(c, t)
      BY DEF counter, Alerts
    <2>9. CASE c = m /\ t = n
      <3>1. <<c, t>> \in crossings /\ announced[<<c, t>>] = 0
        BY <2>3, <2>8, <2>9 DEF Crossed
      <3>2. announced'[<<c, t>>] = 1
        BY <1>1, <2>6, <2>7, <2>9, <3>1
      <3>3. \A o \in Requests : ~ PendingNext(o, c, t)
        <4> SUFFICES ASSUME NEW o \in Requests, PendingNext(o, c, t) PROVE FALSE
          OBVIOUS
        <4>1. Pending(o, c, t) /\ Pending(p, c, t)
          BY <2>3, <2>5, <2>9
        <4>2. o = p
          BY <2>8, <4>1 DEF Crossed
        <4> QED
          BY <2>4, <2>9, <4>2
      <3> QED
        BY <2>8, <3>1, <3>2, <3>3 DEF CrossedNext
    <2>10. CASE ~ (c = m /\ t = n)
      <3>1. announced'[<<c, t>>] = announced[<<c, t>>]
        BY <1>1, <2>6, <2>7, <2>10
      <3> QED
        BY <2>5, <2>8, <3>1 DEF Crossed, CrossedNext
    <2> QED
      BY <2>9, <2>10
  <1> QED
    BY <1>1, <1>10, <1>11, AnnounceIs

LEMMA ReadSettledAlerts ==
    ASSUME Core, Alerts, NEW p \in Calls, ReadSettled(p)
    PROVE  Alerts'
  <1>1. /\ call \in [Calls -> Items] /\ total \in Nat /\ cycle \in Cycles
        /\ call[p].pc = "settled"
    BY CoreParts, CycleType DEF ReadSettled
  <1>2. /\ Turn(p) /\ call'[p].pc = "answered" /\ call'[p].mark = call[p].mark
        /\ call'[p].crossed = call[p].crossed
    BY <1>1, TurnAnswer DEF ReadSettled, Labels
  <1>3. /\ UNCHANGED <<crossings, announced, sets>>
        /\ call[p].pc \notin {"alerting"} \cup Ended
        /\ \A i \in Instances : view'[i].alerted \in {view[i].alerted, NoSet}
    BY <1>1 DEF ReadSettled, counter, Ended
  <1> QED
    BY <1>1, <1>2, <1>3, AlertsTurn

LEMMA AdoptSettledAlerts ==
    ASSUME Core, Alerts, NEW p \in Calls, AdoptSettled(p)
    PROVE  Alerts'
  <1> DEFINE i == At[p]
  <1>1. /\ call \in [Calls -> Items] /\ call[p].pc = "answered" /\ p \in Requests
        /\ UNCHANGED counter /\ i \in Instances /\ view[i] \in Views
    BY CoreParts, QuotaAssumption DEF AdoptSettled, KindOK, RestTyped
  <1>2. PICK v \in Views :
          /\ v = Adopted(view[i], call[p].total, call[p].cycle)
          /\ SetFor(p, v) \in Requests
          /\ HeldIn(v) \in SUBSET Thresholds
          /\ \/ /\ view' = [view EXCEPT ![i] = v]
                /\ End(p, "done")
                /\ UNCHANGED <<sets, announced>>
             \/ Announce(p, v, SetFor(p, v), HeldIn(v), call[p].crossed \ HeldIn(v))
    BY AdoptSettledIs
  <1>3. v.alerted \in {view[i].alerted, NoSet}
    BY <1>1, <1>2, AdoptedType, ItemOf
  <1>4. CASE /\ view' = [view EXCEPT ![i] = v]
             /\ End(p, "done")
             /\ UNCHANGED <<sets, announced>>
    <2>1. Turn(p) /\ call'[p].pc = "done"
      BY <1>1, <1>4, TurnEnd DEF Labels, Ended
    <2>2. \A o \in Instances : view'[o].alerted \in {view[o].alerted, NoSet}
      BY <1>1, <1>3, <1>4, ForgetsAtMost
    <2>3. /\ UNCHANGED <<crossings, announced, sets>>
          /\ call[p].pc \notin {"alerting"} \cup Ended
          /\ call'[p].pc \notin Alerting
      BY <1>1, <1>4, <2>1 DEF counter, Ended, Alerting
    <2> QED
      BY <2>1, <2>2, <2>3, AlertsQuiet
  <1>5. CASE Announce(p, v, SetFor(p, v), HeldIn(v), call[p].crossed \ HeldIn(v))
    <2> DEFINE set == SetFor(p, v)
               held == HeldIn(v)
    <2>1. set = p \/ Made(set)
      <3>1. CASE v.alerted = NoSet
        BY <3>1 DEF SetFor
      <3>2. CASE v.alerted # NoSet
        <4>1. set = view[i].alerted /\ view[i].alerted # NoSet
          BY <1>3, <3>2 DEF SetFor
        <4>2. Made(view[i].alerted)
          BY <1>1, <4>1 DEF Alerts
        <4> QED
          BY <4>1, <4>2 DEF Made
      <3> QED
        BY <3>1, <3>2
    <2>2. \A o \in Requests : call[o].pc = "alerting" /\ call[o].set = set
                             => sets[set] \subseteq held
      <3>1. CASE v.alerted = NoSet
        <4>1. set = p /\ ~ Made(p)
          BY <1>1, <3>1 DEF SetFor, Made, Ended
        <4>2. \A o \in Requests : call[o].pc = "alerting" => call[o].set # set
          BY <4>1 DEF Alerts, Made
        <4> QED
          BY <4>2
      <3>2. CASE v.alerted # NoSet
        BY <3>2 DEF SetFor, HeldIn
      <3> QED
        BY <3>1, <3>2
    <2>3. call[p].pc \in {"answered", "alerting"} /\ call[p].pc # "alerting"
      BY <1>1
    <2>4. /\ set \in Requests /\ held \in SUBSET Thresholds
          /\ Announce(p, v, set, held, call[p].crossed \ held)
          /\ v.alerted \in {view[At[p]].alerted, NoSet}
      BY <1>2, <1>3, <1>5
    <2> HIDE DEF set, held
    <2> QED
      BY <1>1, <2>1, <2>2, <2>3, <2>4, AnnounceAlerts
  <1> QED
    BY <1>2, <1>4, <1>5

LEMMA AlertedAlerts ==
    ASSUME Core, Alerts, NEW p \in Calls, Alerted(p)
    PROVE  Alerts'
  <1> DEFINE set == call[p].set
             held == sets[set]
             v == view[At[p]]
  <1>1. /\ call[p].pc = "alerting" /\ p \in Requests /\ set \in Requests
        /\ v \in Views /\ held \in SUBSET Thresholds /\ UNCHANGED counter
    BY CoreParts, QuotaAssumption DEF Alerted, KindOK, RestTyped
  <1>2. Made(set)
    BY <1>1 DEF Alerts
  <1>3. /\ Announce(p, v, set, held, call[p].crossed \ held)
        /\ v.alerted \in {view[At[p]].alerted, NoSet}
        /\ set = call[p].set /\ held = sets[set]
    BY DEF Alerted
  <1> HIDE DEF set, held, v
  <1> QED
    BY <1>1, <1>2, <1>3, AnnounceAlerts

LEMMA BillAlerts ==
    ASSUME Core, Alerts, NEW p \in Calls, AddSpend(p) \/ AdoptAdded(p)
    PROVE  Alerts'
  <1>1. /\ call \in [Calls -> Items] /\ total \in Nat /\ cycle \in Cycles
        /\ UNCHANGED <<crossings, announced, sets>>
        /\ call[p].pc \notin {"alerting"} \cup Ended
    BY CoreParts, CycleType DEF AddSpend, AdoptAdded, Open, counter, Ended
  <1>2. CASE AddSpend(p)
    <2>1. Turn(p)
      BY <1>1, <1>2, TurnAdded, TurnNoAnswer DEF AddSpend, Labels
    <2>2. p \notin Requests
      BY <1>2, QuotaAssumption DEF AddSpend
    <2>3. \A i \in Instances : view'[i].alerted \in {view[i].alerted, NoSet}
      BY <1>2 DEF AddSpend
    <2> QED
      BY <1>1, <2>1, <2>2, <2>3, AlertsQuiet
  <1>3. CASE AdoptAdded(p)
    <2> DEFINE u == view[At[p]]
    <2>1. At[p] \in Instances /\ u \in Views
      BY <1>3, AdoptAddedIs
    <2>2. PICK v \in Views :
             /\ view' = [view EXCEPT ![At[p]] = v]
             /\ \/ v = Adopted(u, call[p].total, call[p].cycle)
                \/ v.alerted = u.alerted
      BY <1>3, AdoptAddedIs
    <2>3. v.alerted \in {u.alerted, NoSet}
      BY <1>1, <2>1, <2>2, AdoptedType, ItemOf
    <2>4. \A i \in Instances : view'[i].alerted \in {view[i].alerted, NoSet}
      BY <2>1, <2>2, <2>3, ForgetsAtMost
    <2>5. Turn(p) /\ call'[p].pc = "done"
      BY <1>1, <1>3, TurnEnd DEF AdoptAdded, Labels, Ended
    <2>6. call'[p].pc \notin Alerting
      BY <2>5 DEF Alerting
    <2> QED
      BY <1>1, <2>4, <2>5, <2>6, AlertsQuiet
  <1> QED
    BY <1>2, <1>3

LEMMA StartOverAlerts ==
    ASSUME Core, Alerts, NEW p \in Calls, StartOver(p)
    PROVE  Alerts'
  <1>1. /\ call \in [Calls -> Items] /\ total \in Nat /\ cycle \in Cycles
        /\ p \notin Requests
    BY CoreParts, CycleType, QuotaAssumption
       DEF StartOver, BeginReset, Reset, ReadReset, Clear, KindOK
  <1>2. /\ UNCHANGED <<crossings, announced, sets>>
        /\ call[p].pc \notin {"alerting"} \cup Ended
    BY DEF StartOver, BeginReset, Reset, Zero, ReadReset, Clear, Open, counter, Ended
  <1>3. Turn(p)
    <2>1. CASE BeginReset(p)
      BY <1>1, <2>1, TurnGoto DEF BeginReset, Labels
    <2>2. CASE Reset(p)
      BY <1>1, <2>2, TurnGoto, TurnNoAnswer DEF Reset, Labels
    <2>3. CASE ReadReset(p)
      BY <1>1, <2>3, TurnAnswer DEF ReadReset, Labels
    <2>4. CASE Clear(p)
      <3>1. End(p, "done") /\ "done" \in Labels
        BY <2>4 DEF Clear, Labels, Ended
      <3> QED
        BY <1>1, <3>1, TurnEnd
    <2> QED
      BY <2>1, <2>2, <2>3, <2>4 DEF StartOver
  <1>4. \A i \in Instances : view'[i].alerted \in {view[i].alerted, NoSet}
    <2>1. CASE UNCHANGED view
      BY <2>1
    <2>2. CASE Clear(p)
      <3> DEFINE c == IF call[p].ok THEN call[p].cycle ELSE view[At[p]].known
                 w == Cleared(view[At[p]], c)
      <3>1. At[p] \in Instances /\ view[At[p]] \in Views
        BY QuotaAssumption, CoreParts DEF RestTyped
      <3>2. c \in Cycles
        BY <1>1, <3>1, ItemOf DEF Views
      <3>3. view' = [view EXCEPT ![At[p]] = w]
        BY <2>2 DEF Clear
      <3> HIDE DEF c
      <3>4. w \in Views /\ w.alerted \in {view[At[p]].alerted, NoSet}
        BY <3>1, <3>2, ClearedType
      <3> HIDE DEF w
      <3> QED
        BY <3>1, <3>3, <3>4, ForgetsAtMost
    <2> QED
      BY <2>1, <2>2 DEF StartOver, BeginReset, Reset, ReadReset
  <1> QED
    BY <1>1, <1>2, <1>3, <1>4, AlertsQuiet

LEMMA RestartAlerts ==
    ASSUME Core, Alerts, NEW i \in Instances, Restart(i)
    PROVE  Alerts'
  <1>1. UNCHANGED <<crossings, announced, sets>>
    BY DEF Restart, counter
  <1>2. \A r \in Requests :
           \/ call'[r] = call[r]
           \/ /\ call'[r].pc # "alerting"
              /\ Made(r) => MadeNext(r)
              /\ \A c \in Cycles, t \in Thresholds :
                    PendingNext(r, c, t) => Pending(r, c, t)
    <2> SUFFICES ASSUME NEW r \in Requests, call'[r] # call[r]
                 PROVE  call'[r].pc = "failed"
      BY DEF MadeNext, PendingNext, Ended
    <2> QED
      BY RestartIs, QuotaAssumption DEF Killed, Calls
  <1>3. \A o \in Instances : view'[o].alerted \in {view[o].alerted, NoSet}
    <2> DEFINE w == Adopted(NewView, total, cycle)
    <2>1. NewView \in Views /\ NewView.alerted = NoSet
      BY NewViewType DEF NewView
    <2>2. w \in Views /\ w.alerted = NoSet
      BY <2>1, AdoptedType, CycleType, CoreParts
    <2>3. view' = [view EXCEPT ![i] = NewView] \/ view' = [view EXCEPT ![i] = w]
      BY RestartIs
    <2> HIDE DEF w
    <2> QED
      BY <2>1, <2>2, <2>3, ForgetsAtMost
  <1> QED
    BY <1>1, <1>2, <1>3, AlertsKept

LEMMA InitAlerts == Init => Alerts
  <1> SUFFICES ASSUME Init PROVE Alerts
    OBVIOUS
  <1>1. \A p \in Requests : call[p].pc = "idle"
    BY DEF Init, NewCall, Calls
  <1>2. \A c \in Cycles, t \in Thresholds : Crossed(c, t)
    BY <1>1 DEF Init, Crossed, Pending, Keys
  <1>3. \A i \in Instances : view[i].alerted = NoSet
    BY DEF Init, NewView
  <1> QED
    BY <1>1, <1>2, <1>3 DEF Alerts

LEMMA NextAlerts == Core /\ Alerts /\ [Next]_vars => Alerts'
  <1> SUFFICES ASSUME Core, Alerts, [Next]_vars PROVE Alerts'
    OBVIOUS
  <1>1. ASSUME NEW p \in Calls, Enforce(p) PROVE Alerts'
    BY <1>1, EnforceAlerts
  <1>2. ASSUME NEW p \in Calls, Spend(p) PROVE Alerts'
    BY <1>2, ReserveAlerts, CommitAlerts, ReadSettledAlerts, AdoptSettledAlerts,
       AlertedAlerts, BillAlerts DEF Spend
  <1>3. ASSUME NEW p \in Calls, StartOver(p) PROVE Alerts'
    BY <1>3, StartOverAlerts
  <1>4. ASSUME NEW i \in Instances, Restart(i) PROVE Alerts'
    BY <1>4, RestartAlerts
  <1>5. ASSUME UNCHANGED <<crossings, announced, sets, view, call>> PROVE Alerts'
    BY <1>5 DEF Alerts, Crossed, Pending, Made
  <1>6. ASSUME NEW i \in Instances, Elapse(i) PROVE Alerts'
    BY <1>5, <1>6 DEF Elapse, counter
  <1>7. CASE UNCHANGED vars
    BY <1>5, <1>7 DEF vars, counter
  <1> QED
    BY <1>1, <1>2, <1>3, <1>4, <1>6, <1>7 DEF Next, Step

\* A threshold that a cycle's spend crosses is announced at most once in the fleet,
\* although each instance holds its own set of what is announced and forgets it at a
\* restart, a reset or a new cycle (_fire_budget_alerts): the alert item that the
\* settlement puts makes it the only one that may announce it.
THEOREM CrossingAnnouncedOnce == Spec => []AnnouncedOnce
  <1>1. Alerts => AnnouncedOnce
    BY DEF Alerts, Crossed, AnnouncedOnce, Keys
  <1>2. Spec => []Alerts
    BY InitAlerts, NextAlerts, CoreAlways, PTL DEF Spec
  <1> QED
    BY <1>1, <1>2, PTL
=============================================================================
