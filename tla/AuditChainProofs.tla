-------------------------- MODULE AuditChainProofs --------------------------
(***************************************************************************)
(* Proofs about AuditChain, for any instances, records, clocks, numbers of *)
(* attempts and faults.                                                    *)
(***************************************************************************)
EXTENDS AuditChain, SequenceTheorems, TLAPS

Ids == Records \cup {Genesis}

Calls == [pc : Labels, prev : Ids, time : Int, conflicts : Nat, since : Nat]

-----------------------------------------------------------------------------
(* What one step does to a record and to the chain                         *)

Relabel(r, label) == rec'[r] = [rec[r] EXCEPT !.pc = label]

\* A new attempt of r, after it got the lock, the head or a new head.
Stamped(r) ==
    /\ rec[r].pc \in {"waiting", "loading", "reloading"}
    /\ rec'[r].pc = "appending"
    /\ rec'[r].prev \in {head, cached[At[r]]}
    /\ rec[r].pc # "waiting" => rec'[r].prev = head
    /\ rec'[r].time = now + Skew[At[r]]
    /\ rec'[r].conflicts = rec[r].conflicts
    /\ rec'[r].since = IF rec[r].pc = "waiting" THEN Len(chain)
                                                ELSE rec[r].since
    /\ now' = now + 1

Begun(r) ==
    /\ rec[r].pc = "waiting"
    /\ rec'[r] = [rec[r] EXCEPT !.pc = "loading", !.since = Len(chain)]

Committed(r) ==
    /\ rec[r].pc \in {"appending", "late"}
    /\ Commit(r)
    /\ Relabel(r, IF rec[r].pc = "appending" THEN "committed" ELSE "failed")

\* Mutually exclusive except where a state repeats; every step of the module
\* does one of these to each record.
Moved(r) ==
    \/ rec'[r] = rec[r]
    \/ Begun(r) /\ UNCHANGED store
    \/ Stamped(r) /\ UNCHANGED store
    \/ rec[r].pc \in InProgress /\ Relabel(r, "failed") /\ UNCHANGED store
    \/ rec[r].pc = "appending" /\ Relabel(r, "late") /\ UNCHANGED store
    \/ rec[r].pc = "late" /\ Relabel(r, "failed") /\ UNCHANGED store
    \/ Committed(r)
    \/ rec[r].pc = "committed" /\ Relabel(r, "recorded") /\ UNCHANGED store
    \/ /\ rec[r].pc = "appending" /\ ~HeadMatches(r) /\ UNCHANGED store
       /\ rec'[r] = [rec[r] EXCEPT !.pc = "reloading",
                                   !.conflicts = rec[r].conflicts + 1]

Stored == UNCHANGED store \/ \E r \in Records : Committed(r)

Heads ==
    \A i \in Instances :
        \/ cached'[i] \in {cached[i], head, Genesis}
        \/ /\ cached'[i] \in Records
           /\ rec[cached'[i]].pc = "committed"

Passed == now' \in {now, now + 1}

\* No step tells one caller of a success and another one of a failure.
Told ==
    \/ \E r \in Records : \A o \in Records : o # r => rec'[o] = rec[o]
    \/ \A r \in Records : rec'[r].pc = "recorded" => rec[r].pc = "recorded"

-----------------------------------------------------------------------------
(* Types                                                                   *)

LEMMA RecType ==
    ASSUME TypeOK, NEW r \in Records, NEW item \in Calls,
           rec' = [rec EXCEPT ![r] = item]
    PROVE  /\ rec' \in [Records -> Calls]
           /\ rec'[r] = item
           /\ \A o \in Records : o # r => rec'[o] = rec[o]
  BY DEF TypeOK, Calls, Ids

LEMMA RelabelType ==
    ASSUME TypeOK, NEW r \in Records, NEW label \in Labels,
           rec' = [rec EXCEPT ![r].pc = label]
    PROVE  /\ rec' \in [Records -> Calls]
           /\ Relabel(r, label)
           /\ \A o \in Records : o # r => rec'[o] = rec[o]
  <1> DEFINE item == [rec[r] EXCEPT !.pc = label]
  <1>1. rec[r] \in Calls
    BY DEF TypeOK, Calls, Ids
  <1>2. item \in Calls
    BY <1>1 DEF Calls
  <1>3. rec' = [rec EXCEPT ![r] = item]
    OBVIOUS
  <1> QED
    BY <1>2, <1>3, RecType DEF Relabel

LEMMA AttemptType ==
    ASSUME TypeOK, NEW item \in Calls, NEW i \in Instances,
           NEW prev \in Ids
    PROVE  /\ Attempt(item, i, prev) \in Calls
           /\ Attempt(item, i, prev).pc = "appending"
           /\ Attempt(item, i, prev).prev = prev
           /\ Attempt(item, i, prev).time = now + Skew[i]
           /\ Attempt(item, i, prev).conflicts = item.conflicts
           /\ Attempt(item, i, prev).since = item.since
  <1>1. now + Skew[i] \in Int
    BY AuditAssumption DEF TypeOK
  <1> QED
    BY <1>1 DEF Attempt, Calls, Labels, InProgress

LEMMA LeaveType ==
    ASSUME TypeOK, NEW r \in Records, NEW label \in Labels,
           Leave(r, label)
    PROVE  /\ rec' \in [Records -> Calls]
           /\ Relabel(r, label)
           /\ \A o \in Records : o # r => rec'[o] = rec[o]
           /\ holder' \in [Instances -> Records \cup {NoOne}]
  <1>1. holder' \in [Instances -> Records \cup {NoOne}]
    BY DEF Leave, TypeOK
  <1> QED
    BY <1>1, RelabelType DEF Leave

LEMMA RowType ==
    ASSUME TypeOK, NEW r \in Records
    PROVE  /\ Row(r) \in Rows
           /\ Row(r).id = r /\ Row(r).prev = rec[r].prev
           /\ Row(r).time = rec[r].time
  BY DEF TypeOK, Row, Rows

\* A commit adds one row at the end.
LEMMA CommitType ==
    ASSUME TypeOK, NEW r \in Records, Commit(r)
    PROVE  /\ chain' \in Seq(Rows) /\ head' \in Ids /\ head' = r
           /\ Len(chain) \in Nat /\ Len(chain') = Len(chain) + 1
           /\ \A k \in 1..Len(chain) : chain'[k] = chain[k]
           /\ chain'[Len(chain) + 1] = Row(r)
           /\ chain' # <<>>
  <1>1. chain \in Seq(Rows) /\ Row(r) \in Rows
    BY RowType DEF TypeOK
  <1>2. /\ chain' \in Seq(Rows) /\ chain' # <<>>
        /\ Len(chain') = Len(chain) + 1
        /\ \A k \in 1..Len(chain) : chain'[k] = chain[k]
        /\ chain'[Len(chain) + 1] = Row(r)
    BY <1>1, AppendProperties DEF Commit
  <1>3. Len(chain) \in Nat
    BY <1>1, LenProperties
  <1> QED
    BY <1>2, <1>3 DEF Commit, Ids

LEMMA BufferedType ==
    ASSUME NEW rows \in Seq(Rows), NEW row \in Rows
    PROVE  /\ Buffered(rows, row) \in Seq(Rows)
           /\ \E d \in Nat :
                 /\ d <= Len(rows) + 1
                 /\ Len(Buffered(rows, row)) = Len(rows) + 1 - d
                 /\ \A k \in 1..Len(Buffered(rows, row)) :
                       Buffered(rows, row)[k] =
                          IF k + d = Len(rows) + 1 THEN row ELSE rows[k + d]
  <1> DEFINE all == Append(rows, row)
             first == IF Len(all) > BufferSize
                      THEN Len(all) - BufferSize + 1 ELSE 1
             kept == SubSeq(all, first, Len(all))
  <1>1. /\ all \in Seq(Rows)
        /\ Len(all) = Len(rows) + 1
        /\ Len(rows) \in Nat
        /\ \A k \in 1..Len(rows) : all[k] = rows[k]
        /\ all[Len(rows) + 1] = row
    BY AppendProperties, LenProperties
  <1>2. BufferSize \in Nat
    BY AuditAssumption
  <1> HIDE DEF all
  <1>3. first \in 1..(Len(all) + 1)
    BY <1>1, <1>2
  <1> HIDE DEF first
  <1>4. \A k \in first..Len(all) : all[k] \in Rows
    BY <1>1, <1>3, ElementOfSeq
  <1>5. /\ kept \in Seq(Rows)
        /\ Len(kept) = IF first <= Len(all) THEN Len(all) - first + 1 ELSE 0
        /\ \A k \in 1..(Len(all) - first + 1) : kept[k] = all[first + k - 1]
    BY <1>1, <1>3, <1>4, SubSeqProperties
  <1>6. Buffered(rows, row) = kept
    BY DEF Buffered, all, first
  <1> HIDE DEF kept
  <1>7. first - 1 \in Nat /\ first - 1 <= Len(rows) + 1
    BY <1>1, <1>3
  <1>8. Len(kept) = Len(rows) + 1 - (first - 1)
    BY <1>1, <1>3, <1>5
  <1>9. ASSUME NEW k \in 1..Len(kept)
        PROVE  kept[k] = IF k + (first - 1) = Len(rows) + 1 THEN row
                         ELSE rows[k + (first - 1)]
    <2>1. k \in 1..(Len(all) - first + 1) /\ k \in Nat
      BY <1>1, <1>3, <1>8
    <2>2. kept[k] = all[first + k - 1]
      BY <1>5, <2>1
    <2>3. first + k - 1 = k + (first - 1) /\ k + (first - 1) \in 1..(Len(rows) + 1)
      BY <1>1, <1>3, <2>1
    <2> QED
      BY <1>1, <2>2, <2>3
  <1> QED
    BY <1>5, <1>6, <1>7, <1>8, <1>9

LEMMA FaultType ==
    ASSUME TypeOK, Fault \/ UNCHANGED faults
    PROVE  faults' \in Nat
  BY DEF TypeOK, Fault

\* What an action owes: it keeps the types and is one of the moves above.
Effect ==
    /\ TypeOK'
    /\ \A r \in Records : Moved(r)
    /\ Stored /\ Heads /\ Passed /\ Told

\* A step that leaves alone the table, the records and the cached heads.
LEMMA QuietEffect ==
    ASSUME TypeOK, UNCHANGED <<store, memory, holder, rec, now>>,
           TypeOK'
    PROVE  Effect
  BY DEF Effect, Moved, Stored, Heads, Passed, Told, memory

LEMMA EnterEffect ==
    ASSUME TypeOK, NEW r \in Records, Enter(r)
    PROVE  Effect
  <1> DEFINE i == At[r]
             begun == [rec[r] EXCEPT !.since = Len(chain)]
  <1>1. /\ i \in Instances
        /\ rec[r] \in Calls /\ Len(chain) \in Nat
        /\ cached[i] \in Ids /\ rec[r].pc = "waiting"
    BY AuditAssumption, LenProperties DEF TypeOK, Calls, Ids, Enter
  <1>2. /\ begun \in Calls /\ begun.conflicts = rec[r].conflicts
        /\ begun.since = Len(chain)
    BY <1>1 DEF Calls
  <1>3. holder' \in [Instances -> Records \cup {NoOne}]
    BY <1>1 DEF Enter, TypeOK
  <1>4. UNCHANGED <<store, memory, reader, faults>>
    BY DEF Enter
  <1>5. CASE ready[i]
    <2> DEFINE item == Attempt(begun, i, cached[i])
    <2>1. rec' = [rec EXCEPT ![r] = item] /\ now' = now + 1
      BY <1>5 DEF Enter
    <2>2. /\ item \in Calls
          /\ item.pc = "appending" /\ item.prev = cached[i]
          /\ item.time = now + Skew[i]
          /\ item.conflicts = rec[r].conflicts /\ item.since = Len(chain)
      <3> HIDE DEF begun
      <3> QED
        BY <1>1, <1>2, AttemptType
    <2> HIDE DEF item
    <2>3. /\ rec' \in [Records -> Calls]
          /\ rec'[r] = item
          /\ \A o \in Records : o # r => rec'[o] = rec[o]
      BY <2>1, <2>2, RecType
    <2>4. now' \in Nat
      BY <2>1 DEF TypeOK
    <2>5. TypeOK'
      BY <1>3, <1>4, <2>3, <2>4 DEF TypeOK, store, memory, Calls, Ids
    <2>6. Stamped(r)
      BY <1>1, <2>1, <2>2, <2>3 DEF Stamped
    <2> QED
      BY <1>4, <2>1, <2>3, <2>5, <2>6
         DEF Effect, Moved, Stored, Heads, Passed, Told, memory
  <1>6. CASE ~ready[i]
    <2> DEFINE item == [begun EXCEPT !.pc = "loading"]
    <2>1. rec' = [rec EXCEPT ![r] = item] /\ now' = now
      BY <1>6 DEF Enter
    <2>2. /\ item \in Calls
          /\ item = [rec[r] EXCEPT !.pc = "loading", !.since = Len(chain)]
      BY <1>1, <1>2 DEF Calls, Labels, InProgress
    <2>3. /\ rec' \in [Records -> Calls]
          /\ rec'[r] = item
          /\ \A o \in Records : o # r => rec'[o] = rec[o]
      BY <2>1, <2>2, RecType
    <2>4. TypeOK'
      BY <1>3, <1>4, <2>1, <2>3 DEF TypeOK, store, memory, Calls, Ids
    <2>5. Begun(r)
      BY <1>1, <2>2, <2>3 DEF Begun
    <2> QED
      BY <1>4, <2>1, <2>3, <2>4, <2>5
         DEF Effect, Moved, Stored, Heads, Passed, Told, memory
  <1> QED
    BY <1>5, <1>6

\* Leaving early, from any of the places where a call may fail.
LEMMA LeaveEffect ==
    ASSUME TypeOK, NEW r \in Records, NEW label \in {"failed", "late"},
           Leave(r, label), rec[r].pc \in InProgress,
           label = "late" => rec[r].pc = "appending",
           UNCHANGED <<store, ready, buffer, now, reader>>,
           faults' \in Nat,
           cached' \in [Instances -> Ids],
           \A i \in Instances : cached'[i] \in {cached[i], head}
    PROVE  Effect
  <1>1. /\ rec' \in [Records -> Calls]
        /\ Relabel(r, label)
        /\ \A o \in Records : o # r => rec'[o] = rec[o]
        /\ holder' \in [Instances -> Records \cup {NoOne}]
    <2>1. label \in Labels
      BY DEF Labels
    <2> QED
      BY <2>1, LeaveType
  <1>2. TypeOK'
    BY <1>1 DEF TypeOK, store, Calls, Ids
  <1>3. Moved(r)
    BY <1>1 DEF Moved
  <1>4. \A o \in Records : Moved(o)
    BY <1>1, <1>3 DEF Moved
  <1> QED
    BY <1>1, <1>2, <1>4 DEF Effect, Stored, Heads, Passed, Told

LEMMA LoadEffect ==
    ASSUME TypeOK, NEW r \in Records, Load(r)
    PROVE  Effect
  <1> DEFINE i == At[r]
  <1>1. /\ i \in Instances
        /\ rec[r] \in Calls /\ head \in Ids /\ rec[r].pc = "loading"
        /\ UNCHANGED <<store, buffer, reader>>
    BY AuditAssumption DEF TypeOK, Calls, Ids, Load
  <1>2. CASE /\ cached' = [cached EXCEPT ![i] = head]
             /\ ready' = [ready EXCEPT ![i] = TRUE]
             /\ rec' = [rec EXCEPT ![r] = Attempt(rec[r], i, head)]
             /\ now' = now + 1
             /\ UNCHANGED <<holder, faults>>
    <2> DEFINE item == Attempt(rec[r], i, head)
    <2>1. /\ item \in Calls
          /\ item.pc = "appending" /\ item.prev = head
          /\ item.time = now + Skew[i]
          /\ item.conflicts = rec[r].conflicts /\ item.since = rec[r].since
      BY <1>1, AttemptType
    <2>2. rec' = [rec EXCEPT ![r] = item]
      BY <1>2
    <2> HIDE DEF item
    <2>3. /\ rec' \in [Records -> Calls]
          /\ rec'[r] = item
          /\ \A o \in Records : o # r => rec'[o] = rec[o]
      BY <2>1, <2>2, RecType
    <2>4. TypeOK'
      BY <1>1, <1>2, <2>3 DEF TypeOK, store, Calls, Ids
    <2>5. Stamped(r)
      BY <1>1, <1>2, <2>1, <2>3 DEF Stamped
    <2>6. Heads
      BY <1>1, <1>2 DEF Heads, TypeOK
    <2> QED
      BY <1>1, <1>2, <2>3, <2>4, <2>5, <2>6 DEF Effect, Moved, Stored, Passed, Told
  <1>3. CASE Fault /\ Leave(r, "failed") /\ UNCHANGED <<cached, ready, now>>
    <2>1. faults' \in Nat /\ cached' \in [Instances -> Ids]
      BY <1>3, FaultType DEF TypeOK, Ids
    <2> QED
      BY <1>1, <1>3, <2>1, LeaveEffect DEF InProgress
  <1> QED
    BY <1>2, <1>3 DEF Load

LEMMA AppendEffect ==
    ASSUME TypeOK, NEW r \in Records, AppendRecord(r)
    PROVE  Effect
  <1>1. rec[r].pc = "appending" /\ UNCHANGED <<memory, now, reader>>
    BY DEF AppendRecord
  <1>2. CASE /\ Commit(r)
             /\ rec' = [rec EXCEPT ![r].pc = "committed"]
             /\ UNCHANGED <<holder, faults>>
    <2>1. /\ rec' \in [Records -> Calls]
          /\ Relabel(r, "committed")
          /\ \A o \in Records : o # r => rec'[o] = rec[o]
      BY <1>2, RelabelType DEF Labels, InProgress
    <2>2. chain' \in Seq(Rows) /\ head' \in Ids
      BY <1>2, CommitType
    <2>3. TypeOK'
      BY <1>1, <1>2, <2>1, <2>2 DEF TypeOK, memory, Calls, Ids
    <2>4. Committed(r)
      BY <1>1, <1>2, <2>1 DEF Committed
    <2> QED
      BY <1>1, <2>1, <2>3, <2>4 DEF Effect, Moved, Stored, Heads, Passed, Told, memory
  <1>3. CASE /\ ~HeadMatches(r)
             /\ rec' = [rec EXCEPT ![r].pc = "reloading", ![r].conflicts = @ + 1]
             /\ UNCHANGED <<store, holder, faults>>
    <2> DEFINE item == [rec[r] EXCEPT !.pc = "reloading",
                                      !.conflicts = rec[r].conflicts + 1]
    <2>1. rec[r] \in Calls /\ rec[r].conflicts + 1 \in Nat
      BY DEF TypeOK, Calls, Ids
    <2> DEFINE more == rec[r].conflicts + 1
    <2>2. item \in Calls
      <3> HIDE DEF more
      <3>1. more \in Nat /\ item = [rec[r] EXCEPT !.pc = "reloading",
                                                 !.conflicts = more]
        BY <2>1 DEF more
      <3> QED
        BY <2>1, <3>1 DEF Calls, Labels, InProgress
    <2>3. rec' = [rec EXCEPT ![r] = item]
      BY <1>3
    <2>4. /\ rec' \in [Records -> Calls]
          /\ rec'[r] = item
          /\ \A o \in Records : o # r => rec'[o] = rec[o]
      BY <2>2, <2>3, RecType
    <2>5. TypeOK'
      BY <1>1, <1>3, <2>4 DEF TypeOK, store, memory, Calls, Ids
    <2> QED
      BY <1>1, <1>3, <2>4, <2>5 DEF Effect, Moved, Stored, Heads, Passed, Told, memory
  <1>4. CASE Fault /\ Leave(r, "late") /\ UNCHANGED store
    <2>1. faults' \in Nat /\ cached' \in [Instances -> Ids]
      BY <1>1, <1>4, FaultType DEF TypeOK, Ids, memory
    <2> QED
      BY <1>1, <1>4, <2>1, LeaveEffect DEF InProgress, memory
  <1> QED
    BY <1>2, <1>3, <1>4 DEF AppendRecord

LEMMA AcknowledgeEffect ==
    ASSUME TypeOK, NEW r \in Records, Acknowledge(r)
    PROVE  Effect
  <1> DEFINE i == At[r]
  <1>1. /\ i \in Instances /\ r \in Ids
        /\ rec[r].pc = "committed"
        /\ cached' = [cached EXCEPT ![i] = r]
        /\ buffer' = [buffer EXCEPT ![i] = Buffered(buffer[i], Row(r))]
        /\ Leave(r, "recorded")
        /\ UNCHANGED <<store, ready, now, reader, faults>>
    BY AuditAssumption DEF Acknowledge, Ids
  <1>2. /\ rec' \in [Records -> Calls]
        /\ Relabel(r, "recorded")
        /\ \A o \in Records : o # r => rec'[o] = rec[o]
        /\ holder' \in [Instances -> Records \cup {NoOne}]
    <2>1. "recorded" \in Labels
      BY DEF Labels
    <2> QED
      BY <1>1, <2>1, LeaveType
  <1>3. Buffered(buffer[i], Row(r)) \in Seq(Rows)
    <2>1. buffer[i] \in Seq(Rows) /\ Row(r) \in Rows
      BY <1>1, RowType DEF TypeOK
    <2> QED
      BY <2>1, BufferedType
  <1>4. cached' \in [Instances -> Ids] /\ buffer' \in [Instances -> Seq(Rows)]
    BY <1>1, <1>3 DEF TypeOK, Ids
  <1>5. TypeOK'
    BY <1>1, <1>2, <1>4 DEF TypeOK, store, Calls, Ids
  <1>6. Heads
    BY <1>1 DEF Heads, TypeOK
  <1> QED
    BY <1>1, <1>2, <1>5, <1>6 DEF Effect, Moved, Stored, Passed, Told

LEMMA ReloadEffect ==
    ASSUME TypeOK, NEW r \in Records, Reload(r)
    PROVE  Effect
  <1> DEFINE i == At[r]
  <1>1. /\ i \in Instances
        /\ rec[r] \in Calls /\ head \in Ids /\ rec[r].pc = "reloading"
        /\ UNCHANGED <<store, ready, buffer, reader>>
    BY AuditAssumption DEF TypeOK, Calls, Ids, Reload
  <1>2. CASE /\ cached' = [cached EXCEPT ![i] = head]
             /\ UNCHANGED faults
    <2>1. /\ cached' \in [Instances -> Ids]
          /\ \A j \in Instances : cached'[j] \in {cached[j], head}
      BY <1>1, <1>2 DEF TypeOK, Ids
    <2>2. CASE /\ rec' = [rec EXCEPT ![r] = Attempt(rec[r], i, head)]
               /\ now' = now + 1
               /\ UNCHANGED holder
      <3> DEFINE item == Attempt(rec[r], i, head)
      <3>1. /\ item \in Calls
            /\ item.pc = "appending" /\ item.prev = head
            /\ item.time = now + Skew[i]
            /\ item.conflicts = rec[r].conflicts
            /\ item.since = rec[r].since
        BY <1>1, AttemptType
      <3>2. rec' = [rec EXCEPT ![r] = item]
        BY <2>2
      <3> HIDE DEF item
      <3>3. /\ rec' \in [Records -> Calls]
            /\ rec'[r] = item
            /\ \A o \in Records : o # r => rec'[o] = rec[o]
        BY <3>1, <3>2, RecType
      <3>4. TypeOK'
        BY <1>1, <1>2, <2>1, <2>2, <3>3 DEF TypeOK, store, Calls, Ids
      <3>5. Stamped(r)
        BY <1>1, <2>2, <3>1, <3>3 DEF Stamped
      <3>6. Heads
        BY <2>1 DEF Heads
      <3> QED
        BY <1>1, <2>2, <3>3, <3>4, <3>5, <3>6 DEF Effect, Moved, Stored, Passed, Told
    <2>3. CASE Leave(r, "failed") /\ UNCHANGED now
      <3>1. faults' \in Nat
        BY <1>2, FaultType
      <3> QED
        BY <1>1, <2>1, <2>3, <3>1, LeaveEffect DEF InProgress
    <2> QED
      BY <1>2, <2>2, <2>3 DEF Reload, Fresh
  <1>3. CASE Fault /\ Leave(r, "failed") /\ UNCHANGED <<cached, now>>
    <2>1. faults' \in Nat /\ cached' \in [Instances -> Ids]
      BY <1>3, FaultType DEF TypeOK, Ids
    <2> QED
      BY <1>1, <1>3, <2>1, LeaveEffect DEF InProgress
  <1> QED
    BY <1>2, <1>3 DEF Reload, Fresh

LEMMA CancelEffect ==
    ASSUME TypeOK, NEW r \in Records, Cancel(r)
    PROVE  Effect
  <1>1. /\ rec[r].pc \in InProgress
        /\ UNCHANGED <<store, memory, now, reader>>
        /\ faults' \in Nat
        /\ cached' \in [Instances -> Ids]
    BY FaultType DEF Cancel, TypeOK, memory, Ids
  <1>2. CASE rec[r].pc = "appending"
    <2>1. Leave(r, "late")
      BY <1>2 DEF Cancel
    <2> QED
      BY <1>1, <1>2, <2>1, LeaveEffect DEF memory
  <1>3. CASE rec[r].pc # "appending"
    <2>1. Leave(r, "failed")
      BY <1>3 DEF Cancel
    <2> QED
      BY <1>1, <2>1, LeaveEffect DEF memory
  <1> QED
    BY <1>2, <1>3

LEMMA LandEffect ==
    ASSUME TypeOK, NEW r \in Records, Land(r)
    PROVE  Effect
  <1>1. /\ rec[r].pc = "late"
        /\ rec' = [rec EXCEPT ![r].pc = "failed"]
        /\ UNCHANGED <<memory, holder, now, reader, faults>>
    BY DEF Land
  <1>2. /\ rec' \in [Records -> Calls]
        /\ Relabel(r, "failed")
        /\ \A o \in Records : o # r => rec'[o] = rec[o]
    BY <1>1, RelabelType DEF Labels
  <1>3. CASE Commit(r)
    <2>1. chain' \in Seq(Rows) /\ head' \in Ids
      BY <1>3, CommitType
    <2>2. TypeOK'
      BY <1>1, <1>2, <2>1 DEF TypeOK, memory, Calls, Ids
    <2>3. Committed(r)
      BY <1>1, <1>2, <1>3 DEF Committed
    <2> QED
      BY <1>1, <1>2, <2>2, <2>3 DEF Effect, Moved, Stored, Heads, Passed, Told, memory
  <1>4. CASE UNCHANGED store
    <2>1. TypeOK'
      BY <1>1, <1>2, <1>4 DEF TypeOK, store, memory, Calls, Ids
    <2> QED
      BY <1>1, <1>2, <1>4, <2>1 DEF Effect, Moved, Stored, Heads, Passed, Told, memory
  <1> QED
    BY <1>3, <1>4 DEF Land

LEMMA CrashEffect ==
    ASSUME TypeOK, NEW i \in Instances, Crash(i)
    PROVE  Effect
  <1> DEFINE lost == {r \in Records : At[r] = i /\ rec[r].pc \in InProgress}
             next(r) == IF rec[r].pc = "appending" THEN "late" ELSE "failed"
  <1>1. /\ rec' = [r \in Records |->
                      IF r \in lost THEN [rec[r] EXCEPT !.pc = next(r)]
                                    ELSE rec[r]]
        /\ cached' = [cached EXCEPT ![i] = Genesis]
        /\ ready' = [ready EXCEPT ![i] = FALSE]
        /\ buffer' = [buffer EXCEPT ![i] = <<>>]
        /\ holder' = [holder EXCEPT ![i] = NoOne]
        /\ UNCHANGED <<store, now, reader>>
        /\ faults' \in Nat
    BY FaultType DEF Crash
  <1>2. ASSUME NEW r \in Records
        PROVE  rec'[r] \in Calls /\ Moved(r)
    <2>1. rec[r] \in Calls
      BY DEF TypeOK, Calls, Ids
    <2>2. CASE r \notin lost
      <3>1. rec'[r] = rec[r]
        BY <1>1, <2>2
      <3> QED
        BY <2>1, <3>1 DEF Moved
    <2>3. CASE r \in lost /\ rec[r].pc = "appending"
      <3>1. Relabel(r, "late")
        BY <1>1, <2>3 DEF Relabel
      <3>2. rec'[r] \in Calls
        BY <2>1, <3>1 DEF Relabel, Calls, Labels
      <3> QED
        BY <1>1, <2>3, <3>1, <3>2 DEF Moved
    <2>4. CASE r \in lost /\ rec[r].pc # "appending"
      <3>1. Relabel(r, "failed")
        BY <1>1, <2>4 DEF Relabel
      <3>2. rec'[r] \in Calls
        BY <2>1, <3>1 DEF Relabel, Calls, Labels
      <3> QED
        BY <1>1, <2>4, <3>1, <3>2 DEF Moved
    <2> QED
      BY <2>2, <2>3, <2>4
  <1>3. rec' \in [Records -> Calls]
    BY <1>1, <1>2
  <1>4. <<>> \in Seq(Rows)
    BY EmptySeq
  <1>5. /\ cached' \in [Instances -> Ids] /\ ready' \in [Instances -> BOOLEAN]
        /\ buffer' \in [Instances -> Seq(Rows)]
        /\ holder' \in [Instances -> Records \cup {NoOne}]
    BY <1>1, <1>4 DEF TypeOK, Ids
  <1>6. TypeOK'
    BY <1>1, <1>3, <1>5 DEF TypeOK, store, Calls, Ids
  <1>7. Heads
    BY <1>1 DEF Heads, TypeOK
  <1>8. ASSUME NEW r \in Records, rec'[r].pc = "recorded"
        PROVE  rec[r].pc = "recorded"
    BY <1>1, <1>2, <1>8 DEF TypeOK
  <1> QED
    BY <1>1, <1>2, <1>6, <1>7, <1>8 DEF Effect, Stored, Passed, Told

LEMMA VerifyEffect ==
    ASSUME TypeOK, Verify
    PROVE  Effect
  <1> DEFINE Readers == [pc : {"idle", "rows", "head", "done"},
                         seen : Seq(Rows), from : Nat, to : Nat,
                         verdict : {"none", "intact", "TAMPERED", "unavailable"}]
  <1>1. /\ reader \in Readers /\ Len(chain) \in Nat
        /\ UNCHANGED <<store, memory, holder, rec, now>>
        /\ faults' \in Nat
    BY LenProperties, FaultType
       DEF TypeOK, Verify, BeginVerify, ReadRow, EndRows, ReadHead
  <1> SUFFICES reader' \in Readers
    BY <1>1, QuietEffect DEF TypeOK, store, memory
  <1>3. CASE BeginVerify
    BY <1>1, <1>3 DEF BeginVerify
  <1>4. CASE ReadRow
    <2>1. PICK row \in Unread : reader' = [reader EXCEPT !.seen = Append(@, row)]
      BY <1>4 DEF ReadRow
    <2>2. row \in Rows
      BY <2>1, ElementOfSeq DEF Unread, TypeOK
    <2>3. Append(reader.seen, row) \in Seq(Rows)
      BY <1>1, <2>2, AppendProperties
    <2> QED
      BY <1>1, <2>1, <2>3
  <1>5. CASE EndRows
    BY <1>1, <1>5 DEF EndRows
  <1>6. CASE ReadHead
    BY <1>1, <1>6 DEF ReadHead
  <1> QED
    BY <1>3, <1>4, <1>5, <1>6 DEF Verify

LEMMA StepEffect ==
    ASSUME TypeOK, [Next]_vars
    PROVE  Effect
  <1>1. CASE UNCHANGED vars
    <2>1. TypeOK'
      BY <1>1 DEF vars, store, memory, TypeOK
    <2> QED
      BY <1>1, <2>1, QuietEffect DEF vars
  <1>2. ASSUME NEW r \in Records, Work(r) \/ Cancel(r) \/ Land(r)
        PROVE  Effect
    BY <1>2, EnterEffect, LoadEffect, AppendEffect, AcknowledgeEffect,
       ReloadEffect, CancelEffect, LandEffect DEF Work
  <1> QED
    BY <1>1, <1>2, CrashEffect, VerifyEffect DEF Next

LEMMA InitType ==
    Init => TypeOK
  <1> SUFFICES ASSUME Init PROVE TypeOK
    OBVIOUS
  <1>1. <<>> \in Seq(Rows)
    BY EmptySeq
  <1>2. NotBegun \in Calls
    BY DEF NotBegun, Calls, Labels, Ids
  <1> QED
    BY <1>1, <1>2 DEF Init, TypeOK, Calls, Ids, NoOne

\* The types hold, for any constants.
THEOREM TypeCorrect ==
    Spec => []TypeOK
  <1>1. TypeOK /\ [Next]_vars => TypeOK'
    BY StepEffect DEF Effect
  <1> QED
    BY InitType, <1>1, PTL DEF Spec

-----------------------------------------------------------------------------
(* A row is what its record was when it was committed, and there is only   *)
(* one of each record.                                                     *)

Done == {"committed", "recorded", "failed"}

RowsKept ==
    \A k \in 1..Len(chain) :
        /\ rec[chain[k].id].pc \in Done
        /\ chain[k].time = rec[chain[k].id].time
        /\ chain[k].prev = rec[chain[k].id].prev

Unique ==
    \A k, l \in 1..Len(chain) : chain[k].id = chain[l].id => k = l

Found ==
    \A r \in Records :
        rec[r].pc \in {"committed", "recorded"}
            => \E k \in 1..Len(chain) : chain[k].id = r

Placed == RowsKept /\ Unique /\ Found

\* A record that is done with is not changed any more.
LEMMA DoneKept ==
    ASSUME TypeOK, NEW r \in Records, Moved(r), rec[r].pc \in Done
    PROVE  /\ rec'[r].pc \in Done
           /\ rec'[r].prev = rec[r].prev /\ rec'[r].time = rec[r].time
  <1>1. rec[r] \in Calls
    BY DEF TypeOK, Calls, Ids
  <1>2. CASE rec'[r] = rec[r]
    BY <1>2
  <1>3. CASE Relabel(r, "failed") \/ Relabel(r, "recorded")
    BY <1>1, <1>3 DEF Relabel, Calls, Done
  <1> QED
    BY <1>1, <1>2, <1>3 DEF Moved, Begun, Stamped, Committed, Done, InProgress

\* When a record is committed the others stay where they are.
LEMMA OthersWait ==
    ASSUME TypeOK, Effect, NEW r \in Records, Committed(r),
           NEW o \in Records, o # r
    PROVE  rec'[o] = rec[o]
  <1>1. chain' # chain /\ head' = r
    BY CommitType DEF Committed
  <1>2. ~Committed(o)
    BY <1>1 DEF Committed, Commit
  <1> QED
    BY <1>1, <1>2 DEF Effect, Moved, store

LEMMA RowIds ==
    ASSUME TypeOK, NEW k \in 1..Len(chain)
    PROVE  /\ chain[k] \in Rows /\ chain[k].id \in Records
           /\ Len(chain) \in Nat /\ k \in Nat
  <1>1. chain[k] \in Rows
    BY ElementOfSeq DEF TypeOK
  <1> QED
    BY <1>1, LenProperties DEF TypeOK, Rows

LEMMA PlacedKept ==
    ASSUME TypeOK, Effect, Placed
    PROVE  Placed'
  <1>1. CASE UNCHANGED store
    <2>1. ASSUME NEW k \in 1..Len(chain)
          PROVE  /\ rec'[chain[k].id].pc \in Done
                 /\ chain[k].time = rec'[chain[k].id].time
                 /\ chain[k].prev = rec'[chain[k].id].prev
      <3>1. chain[k].id \in Records /\ Moved(chain[k].id)
        BY RowIds DEF Effect
      <3> QED
        BY <3>1, DoneKept DEF Placed, RowsKept
    <2>2. ASSUME NEW r \in Records, rec'[r].pc \in {"committed", "recorded"}
          PROVE  \E k \in 1..Len(chain) : chain[k].id = r
      <3>1. rec[r] \in Calls /\ Moved(r)
        BY DEF Effect, TypeOK, Calls, Ids
      <3>2. ~Committed(r)
        BY <1>1, CommitType DEF Committed, store
      <3>3. rec[r].pc \in {"committed", "recorded"}
        BY <2>2, <3>1, <3>2 DEF Moved, Begun, Stamped, Relabel, Calls, InProgress
      <3> QED
        BY <3>3 DEF Placed, Found
    <2> QED
      BY <1>1, <2>1, <2>2 DEF Placed, RowsKept, Unique, Found, store
  <1>2. ASSUME NEW r \in Records, Committed(r)
        PROVE  Placed'
    <2>1. /\ Len(chain) \in Nat /\ Len(chain') = Len(chain) + 1
          /\ \A k \in 1..Len(chain) : chain'[k] = chain[k]
          /\ chain'[Len(chain) + 1] = Row(r)
          /\ Row(r).id = r /\ Row(r).time = rec[r].time
          /\ Row(r).prev = rec[r].prev
      BY <1>2, CommitType, RowType DEF Committed
    <2>2. /\ rec'[r].pc \in Done
          /\ rec'[r].time = rec[r].time /\ rec'[r].prev = rec[r].prev
      <3>1. rec[r] \in Calls
        BY DEF TypeOK, Calls, Ids
      <3> QED
        BY <1>2, <3>1 DEF Committed, Relabel, Calls, Done
    <2>3. ASSUME NEW k \in 1..Len(chain)
          PROVE  /\ rec'[chain[k].id].pc \in Done
                 /\ chain[k].time = rec'[chain[k].id].time
                 /\ chain[k].prev = rec'[chain[k].id].prev
                 /\ chain[k].id # r
      <3>1. chain[k].id \in Records /\ Moved(chain[k].id)
        BY RowIds DEF Effect
      <3>2. rec[chain[k].id].pc \in Done
        BY DEF Placed, RowsKept
      <3>3. chain[k].id # r
        BY <1>2, <3>2 DEF Committed, Done
      <3> QED
        BY <3>1, <3>2, <3>3, DoneKept DEF Placed, RowsKept
    <2>4. \A k \in 1..Len(chain') : k \in 1..Len(chain) \/ k = Len(chain) + 1
      BY <2>1
    <2>5. RowsKept'
      <3> SUFFICES ASSUME NEW k \in 1..Len(chain')
                   PROVE  /\ rec'[chain'[k].id].pc \in Done
                          /\ chain'[k].time = rec'[chain'[k].id].time
                          /\ chain'[k].prev = rec'[chain'[k].id].prev
        BY DEF RowsKept
      <3>1. CASE k \in 1..Len(chain)
        BY <2>1, <2>3, <3>1
      <3>2. CASE k = Len(chain) + 1
        BY <2>1, <2>2, <3>2
      <3> QED
        BY <2>4, <3>1, <3>2
    <2>6. Unique'
      <3> SUFFICES ASSUME NEW k \in 1..Len(chain'), NEW l \in 1..Len(chain'),
                          chain'[k].id = chain'[l].id
                   PROVE  k = l
        BY DEF Unique
      <3> QED
        BY <2>1, <2>3, <2>4 DEF Placed, Unique
    <2>7. Found'
      <3> SUFFICES ASSUME NEW o \in Records,
                          rec'[o].pc \in {"committed", "recorded"}
                   PROVE  \E k \in 1..Len(chain') : chain'[k].id = o
        BY DEF Found
      <3>1. CASE o = r
        BY <2>1, <3>1
      <3>2. CASE o # r
        <4>1. rec'[o] = rec[o]
          BY <1>2, <3>2, OthersWait
        <4>2. PICK k \in 1..Len(chain) : chain[k].id = o
          BY <4>1 DEF Placed, Found
        <4> QED
          BY <2>1, <4>2
      <3> QED
        BY <3>1, <3>2
    <2> QED
      BY <2>5, <2>6, <2>7 DEF Placed
  <1> QED
    BY <1>1, <1>2 DEF Effect, Stored

\* A commit is linked to the head, which is the end of the rows.
LEMMA OneChainKept ==
    ASSUME TypeOK, Effect, OneChain
    PROVE  OneChain'
  <1>1. CASE UNCHANGED store
    BY <1>1 DEF OneChain, LinkedRows, EndOf, LastOf, store
  <1>2. ASSUME NEW r \in Records, Committed(r)
        PROVE  OneChain'
    <2>1. /\ Len(chain) \in Nat /\ Len(chain') = Len(chain) + 1
          /\ \A k \in 1..Len(chain) : chain'[k] = chain[k]
          /\ chain'[Len(chain) + 1] = Row(r)
          /\ Row(r).id = r /\ Row(r).prev = rec[r].prev
          /\ chain' # <<>> /\ head' = r /\ head = rec[r].prev
      BY <1>2, CommitType, RowType DEF Committed, Commit, HeadMatches
    <2>2. head' = EndOf(chain')
      BY <2>1 DEF EndOf, LastOf
    <2>3. chain = <<>> <=> Len(chain) = 0
      BY EmptySeq DEF TypeOK
    <2>4. LinkedRows(chain')
      <3> SUFFICES ASSUME NEW k \in 1..Len(chain')
                   PROVE  chain'[k].prev = IF k = 1 THEN Genesis
                                           ELSE chain'[k - 1].id
        BY DEF LinkedRows
      <3>1. CASE k \in 1..Len(chain)
        BY <2>1, <3>1 DEF OneChain, LinkedRows
      <3>2. CASE k = Len(chain) + 1
        <4>1. chain'[k].prev = EndOf(chain)
          BY <2>1, <3>2 DEF OneChain
        <4>2. CASE k = 1
          BY <2>1, <2>3, <3>2, <4>1, <4>2 DEF EndOf
        <4>3. CASE k # 1
          <5>1. chain # <<>> /\ k - 1 = Len(chain) /\ k - 1 \in 1..Len(chain)
            BY <2>1, <2>3, <3>2, <4>3
          <5> QED
            BY <2>1, <4>1, <4>3, <5>1 DEF EndOf, LastOf
        <4> QED
          BY <4>2, <4>3
      <3> QED
        BY <2>1, <3>1, <3>2
    <2> QED
      BY <2>2, <2>4 DEF OneChain
  <1> QED
    BY <1>1, <1>2 DEF Effect, Stored

Core == TypeOK /\ Placed /\ OneChain

LEMMA CoreInvariant ==
    Spec => []Core
  <1>1. Init => Core
    <2> SUFFICES ASSUME Init PROVE Core
      OBVIOUS
    <2>1. Len(chain) = 0
      BY EmptySeq DEF Init
    <2> QED
      BY <2>1, InitType
         DEF Init, Core, Placed, RowsKept, Unique, Found, OneChain, LinkedRows,
             EndOf, NotBegun
  <1>2. Core /\ [Next]_vars => Core'
    BY StepEffect, PlacedKept, OneChainKept DEF Core, Effect
  <1> QED
    BY <1>1, <1>2, PTL DEF Spec

\* The rows of a tenant are one chain from genesis to the head, however many
\* instances append to it (append_tenant_audit_record and its callers).
THEOREM ChainUnbroken ==
    Spec => []OneChain
  <1>1. Core => OneChain
    BY DEF Core
  <1> QED
    BY <1>1, CoreInvariant, PTL

-----------------------------------------------------------------------------
(* Conflicts                                                               *)

\* Commits since the call of r began.
Passing(r) == Len(chain) - rec[r].since

\* An attempt that will find another head than its own was overtaken by a commit
\* that no conflict accounts for yet.
Contended ==
    \A r \in Records :
        /\ rec[r].since <= Len(chain)
        /\ rec[r].pc = "waiting" => rec[r].conflicts = 0
        /\ \/ rec[r].conflicts = 0
           \/ /\ rec[r].conflicts <= 1 + Passing(r)
              /\ rec[r].pc = "appending" /\ ~HeadMatches(r)
                    => rec[r].conflicts <= Passing(r)

LEMMA ContendedKept ==
    ASSUME TypeOK, Effect, Contended
    PROVE  Contended'
  <1>1. /\ Len(chain) \in Nat /\ Len(chain') \in Nat
        /\ UNCHANGED store \/ Len(chain') = Len(chain) + 1
    BY CommitType, LenProperties DEF Effect, Stored, Committed, TypeOK, store
  <1>2. ASSUME NEW r \in Records
        PROVE  /\ rec'[r].since <= Len(chain')
               /\ rec'[r].pc = "waiting" => rec'[r].conflicts = 0
               /\ \/ rec'[r].conflicts = 0
                  \/ /\ rec'[r].conflicts <= 1 + (Len(chain') - rec'[r].since)
                     /\ rec'[r].pc = "appending" /\ head' # rec'[r].prev
                           => rec'[r].conflicts <= Len(chain') - rec'[r].since
    <2> DEFINE c == rec[r].conflicts
               s == rec[r].since
    <2>1. /\ rec[r] \in Calls /\ Moved(r)
          /\ c \in Nat /\ s \in Nat /\ s <= Len(chain)
          /\ rec[r].pc = "waiting" => c = 0
          /\ \/ c = 0
             \/ /\ c <= 1 + (Len(chain) - s)
                /\ rec[r].pc = "appending" /\ head # rec[r].prev
                      => c <= Len(chain) - s
      BY DEF Effect, TypeOK, Calls, Ids, Contended, Passing, HeadMatches
    <2>2. CASE rec'[r] = rec[r]
      <3>1. CASE UNCHANGED store
        BY <2>1, <2>2, <3>1 DEF store
      <3>2. CASE Len(chain') = Len(chain) + 1
        BY <1>1, <2>1, <2>2, <3>2
      <3> QED
        BY <1>1, <3>1, <3>2
    <2>3. CASE Begun(r) /\ UNCHANGED store
      <3>1. /\ rec'[r].conflicts = 0 /\ rec'[r].since = Len(chain)
            /\ rec'[r].pc = "loading"
        BY <2>1, <2>3 DEF Begun, Calls
      <3> QED
        BY <1>1, <2>3, <3>1 DEF store
    <2>4. CASE Stamped(r) /\ UNCHANGED store
      <3>1. /\ rec'[r].conflicts = c /\ rec'[r].pc = "appending"
            /\ rec[r].pc = "waiting" => rec'[r].since = Len(chain)
            /\ rec[r].pc # "waiting" => rec'[r].since = s /\ rec'[r].prev = head
        BY <2>4 DEF Stamped
      <3> QED
        BY <1>1, <2>1, <2>4, <3>1 DEF store
    <2>5. CASE \E label \in Labels :
                  /\ Relabel(r, label) /\ label \notin {"waiting", "appending"}
                  /\ UNCHANGED store \/ Len(chain') = Len(chain) + 1
      <3>1. /\ rec'[r].conflicts = c /\ rec'[r].since = s
            /\ rec'[r].pc \notin {"waiting", "appending"}
            /\ UNCHANGED chain \/ Len(chain') = Len(chain) + 1
        BY <2>1, <2>5 DEF Relabel, Calls, store
      <3> QED
        BY <1>1, <2>1, <3>1
    <2>6. CASE /\ rec[r].pc = "appending" /\ ~HeadMatches(r) /\ UNCHANGED store
               /\ rec'[r] = [rec[r] EXCEPT !.pc = "reloading",
                                           !.conflicts = rec[r].conflicts + 1]
      <3>1. /\ rec'[r].conflicts = c + 1 /\ rec'[r].since = s
            /\ rec'[r].pc = "reloading"
            /\ head # rec[r].prev /\ UNCHANGED store
        BY <2>1, <2>6 DEF Calls, HeadMatches
      <3> QED
        BY <1>1, <2>1, <2>6, <3>1 DEF store
    <2>7. \A label \in {"failed", "late", "committed", "recorded"} :
              label \in Labels /\ label \notin {"waiting", "appending"}
      BY DEF Labels, InProgress
    <2>8. Committed(r) => \/ Relabel(r, "failed") \/ Relabel(r, "committed")
      BY DEF Committed
    <2>9. UNCHANGED store \/ Len(chain') = Len(chain) + 1
      BY <1>1
    <2> QED
      BY <2>1, <2>2, <2>3, <2>4, <2>5, <2>6, <2>7, <2>8, <2>9 DEF Moved
  <1> QED
    BY <1>2 DEF Contended, Passing, HeadMatches

\* A call of record only loses to commits of others (_append's retry loop).
THEOREM ConflictsExplained ==
    Spec => []ConflictsCaused
  <1>1. Init => Contended
    <2> SUFFICES ASSUME Init PROVE Contended
      OBVIOUS
    <2>1. Len(chain) = 0
      BY EmptySeq DEF Init
    <2> QED
      BY <2>1 DEF Init, Contended, NotBegun
  <1>2. TypeOK /\ Contended /\ [Next]_vars => Contended'
    BY StepEffect, ContendedKept
  <1>3. TypeOK /\ Contended => ConflictsCaused
    <2> SUFFICES ASSUME TypeOK, Contended, NEW r \in Records,
                        rec[r].conflicts > 0
                 PROVE  rec[r].conflicts <= 1 + Len(chain) - rec[r].since
      BY DEF ConflictsCaused
    <2>1. /\ rec[r].conflicts \in Nat /\ rec[r].since \in Nat
          /\ Len(chain) \in Nat
      BY LenProperties DEF TypeOK
    <2> QED
      BY <2>1 DEF Contended, Passing
  <1> QED
    BY <1>1, <1>2, <1>3, TypeCorrect, PTL DEF Spec

-----------------------------------------------------------------------------
(* The order of times                                                      *)

\* r has a transaction that may still be committed.
Pending(r) == rec[r].pc \in {"appending", "late"}

RowsPast == \A k \in 1..Len(chain) : \A i \in Instances :
                chain[k].time < now + Skew[i]

\* A pending record has a past time, and a later one than the row it links to.
PendingAfter ==
    \A r \in Records :
        Pending(r) =>
            /\ \A i \in Instances : rec[r].time < now + Skew[i]
            /\ \/ rec[r].prev = Genesis
               \/ \E k \in 1..Len(chain) : /\ chain[k].id = rec[r].prev
                                           /\ chain[k].time < rec[r].time

CachedRows ==
    \A i \in Instances :
        \/ cached[i] = Genesis
        \/ \E k \in 1..Len(chain) : chain[k].id = cached[i]

Increasing == \A k, l \in 1..Len(chain) : k < l => chain[k].time < chain[l].time

Timely == RowsPast /\ PendingAfter /\ CachedRows /\ Increasing

\* The head is the last row or there is none.
LEMMA HeadIsRow ==
    ASSUME TypeOK, OneChain
    PROVE  head = Genesis \/ \E k \in 1..Len(chain) : chain[k].id = head
  <1>1. chain # <<>> => Len(chain) \in 1..Len(chain)
    BY EmptySeq, LenProperties DEF TypeOK
  <1> QED
    BY <1>1 DEF OneChain, EndOf, LastOf

\* Rows stay where they are, and time does not run backwards.
LEMMA RowsStay ==
    ASSUME TypeOK, Effect
    PROVE  /\ \A k \in 1..Len(chain) : k \in 1..Len(chain') /\ chain'[k] = chain[k]
           /\ now \in Nat /\ now' \in Nat /\ now <= now'
           /\ Len(chain) \in Nat
  <1>1. now \in Nat /\ now' \in Nat /\ now <= now' /\ Len(chain) \in Nat
    BY LenProperties DEF Effect, Passed, TypeOK
  <1>2. CASE UNCHANGED store
    BY <1>1, <1>2 DEF store
  <1>3. ASSUME NEW r \in Records, Committed(r)
        PROVE  \A k \in 1..Len(chain) : k \in 1..Len(chain') /\ chain'[k] = chain[k]
    BY <1>1, <1>3, CommitType DEF Committed
  <1> QED
    BY <1>1, <1>2, <1>3 DEF Effect, Stored

LEMMA CachedRowsKept ==
    ASSUME Core, Effect, CachedRows
    PROVE  CachedRows'
  <1> SUFFICES ASSUME NEW i \in Instances
               PROVE  \/ cached'[i] = Genesis
                      \/ \E k \in 1..Len(chain') : chain'[k].id = cached'[i]
    BY DEF CachedRows
  <1>1. \/ cached'[i] = Genesis
        \/ \E k \in 1..Len(chain) : chain[k].id = cached'[i]
    BY HeadIsRow DEF Core, Effect, Heads, CachedRows, Placed, Found
  <1> QED
    BY <1>1, RowsStay DEF Core

LEMMA PendingAfterKept ==
    ASSUME Core, Effect, RowsPast, CachedRows, PendingAfter, ClocksAgree
    PROVE  PendingAfter'
  <1> SUFFICES ASSUME NEW r \in Records, rec'[r].pc \in {"appending", "late"}
               PROVE  /\ \A i \in Instances : rec'[r].time < now' + Skew[i]
                      /\ \/ rec'[r].prev = Genesis
                         \/ \E k \in 1..Len(chain') :
                               /\ chain'[k].id = rec'[r].prev
                               /\ chain'[k].time < rec'[r].time
    BY DEF PendingAfter, Pending
  <1>1. /\ rec[r] \in Calls /\ Moved(r) /\ At[r] \in Instances
        /\ rec[r].time \in Int
        /\ \A i \in Instances : Skew[i] \in Int /\ Skew[i] = Skew[At[r]]
    BY AuditAssumption DEF Core, Effect, TypeOK, Calls, Ids, ClocksAgree
  <1>2. CASE Stamped(r)
    <2>1. /\ rec'[r].time = now + Skew[At[r]] /\ now' = now + 1
          /\ rec'[r].prev \in {head, cached[At[r]]}
      BY <1>2 DEF Stamped
    <2>2. \/ rec'[r].prev = Genesis
          \/ \E k \in 1..Len(chain) : chain[k].id = rec'[r].prev
      BY <1>1, <2>1, HeadIsRow DEF Core, CachedRows
    <2>3. \A k \in 1..Len(chain) : chain[k].time < rec'[r].time
      BY <1>1, <2>1 DEF RowsPast
    <2>4. \A i \in Instances : rec'[r].time < now' + Skew[i]
      BY <1>1, <2>1, RowsStay DEF Core
    <2> QED
      BY <2>2, <2>3, <2>4, RowsStay DEF Core
  <1>3. CASE rec'[r].time = rec[r].time /\ rec'[r].prev = rec[r].prev /\ Pending(r)
    <2>1. /\ \A i \in Instances : rec[r].time < now + Skew[i]
          /\ \/ rec[r].prev = Genesis
             \/ \E k \in 1..Len(chain) : /\ chain[k].id = rec[r].prev
                                         /\ chain[k].time < rec[r].time
      BY <1>3 DEF PendingAfter
    <2>2. \A i \in Instances : rec[r].time < now' + Skew[i]
      BY <1>1, <2>1, RowsStay DEF Core
    <2> QED
      BY <1>3, <2>1, <2>2, RowsStay DEF Core
  <1>4. \/ Stamped(r)
        \/ rec'[r].time = rec[r].time /\ rec'[r].prev = rec[r].prev /\ Pending(r)
    <2>1. CASE rec'[r] = rec[r]
      BY <2>1 DEF Pending
    <2>2. CASE rec[r].pc = "appending" /\ Relabel(r, "late")
      BY <1>1, <2>2 DEF Relabel, Calls, Pending
    <2> QED
      BY <1>1, <2>1, <2>2 DEF Moved, Begun, Committed, Relabel, Calls
  <1> QED
    BY <1>2, <1>3, <1>4

LEMMA RowsPastKept ==
    ASSUME Core, Effect, RowsPast, PendingAfter
    PROVE  RowsPast'
  <1>1. ASSUME NEW k \in 1..Len(chain), NEW i \in Instances
        PROVE  chain[k].time < now' + Skew[i]
    <2>1. chain[k].time \in Int /\ Skew[i] \in Int
      BY RowIds, AuditAssumption DEF Core, Rows
    <2> QED
      BY <2>1, RowsStay DEF RowsPast, Core
  <1>2. CASE UNCHANGED store
    BY <1>1, <1>2 DEF RowsPast, store
  <1>3. ASSUME NEW r \in Records, Committed(r)
        PROVE  RowsPast'
    <2>1. /\ Len(chain) \in Nat /\ Len(chain') = Len(chain) + 1
          /\ \A k \in 1..Len(chain) : chain'[k] = chain[k]
          /\ chain'[Len(chain) + 1].time = rec[r].time
      BY <1>3, CommitType, RowType DEF Committed, Core
    <2>2. ASSUME NEW i \in Instances
          PROVE  rec[r].time < now' + Skew[i]
      <3>1. rec[r].time < now + Skew[i]
        BY <1>3 DEF Committed, PendingAfter, Pending
      <3>2. rec[r].time \in Int /\ Skew[i] \in Int
        BY AuditAssumption DEF Core, TypeOK
      <3> QED
        BY <3>1, <3>2, RowsStay DEF Core
    <2>3. \A k \in 1..Len(chain') : k \in 1..Len(chain) \/ k = Len(chain) + 1
      BY <2>1
    <2> QED
      BY <1>1, <2>1, <2>2, <2>3 DEF RowsPast
  <1> QED
    BY <1>2, <1>3 DEF Effect, Stored

LEMMA OrderKept ==
    ASSUME Core, Effect, PendingAfter, Increasing
    PROVE  Increasing'
  <1>1. CASE UNCHANGED store
    BY <1>1 DEF Increasing, store
  <1>2. ASSUME NEW r \in Records, Committed(r)
        PROVE  Increasing'
    <2>1. /\ Len(chain) \in Nat /\ Len(chain') = Len(chain) + 1
          /\ \A k \in 1..Len(chain) : chain'[k] = chain[k] /\ chain[k].time \in Int
          /\ chain'[Len(chain) + 1].time = rec[r].time /\ rec[r].time \in Int
          /\ head = rec[r].prev
      <3>1. \A k \in 1..Len(chain) : chain[k].time \in Int
        BY RowIds DEF Core, Rows
      <3>2. rec[r].time \in Int
        BY DEF Core, TypeOK
      <3> QED
        BY <1>2, <3>1, <3>2, CommitType, RowType DEF Committed, Commit, HeadMatches, Core
    <2>2. ASSUME Len(chain) \in 1..Len(chain)
          PROVE  chain[Len(chain)].time < rec[r].time
      <3>1. chain # <<>> /\ head = chain[Len(chain)].id
        BY <2>2, EmptySeq DEF Core, OneChain, EndOf, LastOf
      <3>2. head # Genesis
        BY <2>2, <3>1, RowIds, AuditAssumption DEF Core, Genesis
      <3>3. PICK k \in 1..Len(chain) : /\ chain[k].id = rec[r].prev
                                       /\ chain[k].time < rec[r].time
        BY <1>2, <2>1, <3>2 DEF PendingAfter, Pending, Committed
      <3>4. k = Len(chain)
        BY <2>1, <2>2, <3>1, <3>3 DEF Core, Placed, Unique
      <3> QED
        BY <3>3, <3>4
    <2> SUFFICES ASSUME NEW k \in 1..Len(chain'), NEW l \in 1..Len(chain'), k < l
                 PROVE  chain'[k].time < chain'[l].time
      BY DEF Increasing
    <2>3. k \in 1..Len(chain)
      BY <2>1
    <2>4. CASE l \in 1..Len(chain)
      BY <2>1, <2>3, <2>4 DEF Increasing
    <2>5. CASE l = Len(chain) + 1
      <3>1. Len(chain) \in 1..Len(chain)
        BY <2>1, <2>3
      <3>2. k = Len(chain) \/ chain[k].time < chain[Len(chain)].time
        BY <2>1, <2>3, <3>1 DEF Increasing
      <3> QED
        BY <2>1, <2>2, <2>3, <2>5, <3>1, <3>2
    <2>6. l \in 1..Len(chain) \/ l = Len(chain) + 1
      BY <2>1
    <2> QED
      BY <2>1, <2>4, <2>5, <2>6
  <1> QED
    BY <1>1, <1>2 DEF Effect, Stored

LEMMA TimelyInvariant ==
    Spec => [](ClocksAgree => Timely)
  <1>1. Init => Timely
    <2> SUFFICES ASSUME Init PROVE Timely
      OBVIOUS
    <2>1. Len(chain) = 0
      BY EmptySeq DEF Init
    <2> QED
      BY <2>1 DEF Init, Timely, RowsPast, PendingAfter, Pending, CachedRows,
                  Increasing, NotBegun
  <1>2. Core /\ (ClocksAgree => Timely) /\ [Next]_vars => (ClocksAgree => Timely)'
    <2> SUFFICES ASSUME Core, ClocksAgree, Timely, [Next]_vars
                 PROVE  Timely'
      BY DEF ClocksAgree
    <2>1. Effect
      BY StepEffect DEF Core
    <2> QED
      BY <2>1, CachedRowsKept, PendingAfterKept, RowsPastKept, OrderKept DEF Timely
  <1> QED
    BY <1>1, <1>2, CoreInvariant, PTL DEF Spec

\* Between clocks that agree the rows are sorted by their keys as they are
\* linked (record takes the time after it has the head it links to).
THEOREM OrderedWhenClocksAgree ==
    Spec => []InOrder
  <1>1. TypeOK /\ (ClocksAgree => Timely) => InOrder
    <2> SUFFICES ASSUME TypeOK, Timely, NEW k \in 1..(Len(chain) - 1)
                 PROVE  Before(chain[k], chain[k + 1])
      BY DEF InOrder, LoadedInOrder
    <2>1. k \in 1..Len(chain) /\ k + 1 \in 1..Len(chain) /\ k < k + 1
      BY LenProperties DEF TypeOK
    <2> QED
      BY <2>1 DEF Timely, Increasing, Before
  <1> QED
    BY <1>1, TypeCorrect, TimelyInvariant, PTL

-----------------------------------------------------------------------------
(* The rows in memory                                                      *)

\* A call under way holds the lock of its instance, so there is one at most.
Locked == \A r \in Records : rec[r].pc \in InProgress => holder[At[r]] = r

\* The rows instance i has in memory are rows of the chain before its n-th.
Behind(i, n) ==
    \A k \in 1..Len(buffer[i]) :
        \E m \in 1..Len(chain) : m < n /\ chain[m] = buffer[i][k]

\* ... and after a step.
BehindNext(i, n) ==
    \A k \in 1..Len(buffer'[i]) :
        \E m \in 1..Len(chain') : m < n /\ chain'[m] = buffer'[i][k]

InOrderNext(i) ==
    \A k, l \in 1..Len(buffer'[i]) :
        k < l => \E m, n \in 1..Len(chain') :
            m < n /\ chain'[m] = buffer'[i][k] /\ chain'[n] = buffer'[i][l]

\* A record that is committed, and not noted in memory yet, comes after all that
\* are.
Remembered ==
    /\ \A i \in Instances : Behind(i, Len(chain) + 1)
    /\ \A r \in Records : rec[r].pc = "committed" =>
          \E n \in 1..Len(chain) : chain[n] = Row(r) /\ Behind(At[r], n)
    /\ BufferInOrder

LEMMA LockedKept ==
    ASSUME TypeOK, Locked, [Next]_vars
    PROVE  Locked'
  <1>0. /\ \A r \in Records : rec[r] \in Calls /\ At[r] \in Instances
        /\ \A r \in Records : r # NoOne
    BY AuditAssumption DEF TypeOK, Calls, Ids, NoOne
  \* One record moves; its lock is kept or given back, the other locks stay.
  <1>1. ASSUME NEW r \in Records,
               \A o \in Records : o # r => rec'[o] = rec[o],
               \A i \in Instances : i # At[r] => holder'[i] = holder[i],
               rec'[r].pc \in InProgress => holder'[At[r]] = r,
               \/ UNCHANGED holder
               \/ rec[r].pc \in InProgress
               \/ Free(At[r])
        PROVE  Locked'
    <2> SUFFICES ASSUME NEW o \in Records, rec'[o].pc \in InProgress
                 PROVE  holder'[At[o]] = o
      BY DEF Locked
    <2>1. CASE o = r
      BY <1>1, <2>1
    <2>2. CASE o # r
      <3>1. holder[At[o]] = o
        BY <1>1, <2>2 DEF Locked
      <3>2. CASE At[o] # At[r] \/ UNCHANGED holder
        BY <1>0, <1>1, <3>1, <3>2
      <3>3. CASE At[o] = At[r] /\ rec[r].pc \in InProgress
        BY <2>2, <3>1, <3>3 DEF Locked
      <3>4. CASE At[o] = At[r] /\ Free(At[r])
        BY <1>0, <3>1, <3>4 DEF Free
      <3> QED
        BY <1>1, <3>2, <3>3, <3>4
    <2> QED
      BY <2>1, <2>2
  <1>2. ASSUME NEW r \in Records, NEW label \in {"failed", "late", "recorded"},
               Leave(r, label), rec[r].pc \in InProgress
        PROVE  Locked'
    <2>1. /\ Relabel(r, label)
          /\ \A o \in Records : o # r => rec'[o] = rec[o]
      BY <1>2, LeaveType DEF Labels
    <2>2. rec'[r].pc = label
      BY <1>0, <2>1 DEF Relabel, Calls
    <2>3. \A i \in Instances : i # At[r] => holder'[i] = holder[i]
      BY <1>2 DEF Leave, TypeOK
    <2> QED
      BY <1>1, <1>2, <2>1, <2>2, <2>3 DEF InProgress
  <1>3. ASSUME NEW r \in Records, Enter(r) PROVE Locked'
    <2>1. /\ \A o \in Records : o # r => rec'[o] = rec[o]
          /\ \A i \in Instances : i # At[r] => holder'[i] = holder[i]
          /\ holder'[At[r]] = r
          /\ Free(At[r])
      BY <1>0, <1>3 DEF Enter, TypeOK
    <2> QED
      BY <1>1, <2>1
  <1>4. ASSUME NEW r \in Records, rec[r].pc \in InProgress, UNCHANGED holder,
               \A o \in Records : o # r => rec'[o] = rec[o]
        PROVE  Locked'
    <2>1. holder'[At[r]] = r
      BY <1>4 DEF Locked
    <2> QED
      BY <1>1, <1>4, <2>1
  <1>5. ASSUME NEW r \in Records, Load(r) \/ AppendRecord(r) \/ Reload(r) \/ Acknowledge(r)
        PROVE  Locked'
    <2>1. rec[r].pc \in InProgress
      BY <1>5 DEF Load, AppendRecord, Reload, Acknowledge, InProgress
    <2>2. (\E label \in {"failed", "late", "recorded"} : Leave(r, label))
          \/ (UNCHANGED holder /\ \A o \in Records : o # r => rec'[o] = rec[o])
      <3>1. CASE Load(r)
        BY <3>1 DEF Load, TypeOK
      <3>2. CASE AppendRecord(r)
        BY <3>2 DEF AppendRecord, TypeOK
      <3>3. CASE Reload(r)
        BY <3>3 DEF Reload, TypeOK
      <3>4. CASE Acknowledge(r)
        BY <3>4 DEF Acknowledge
      <3> QED
        BY <1>5, <3>1, <3>2, <3>3, <3>4
    <2> QED
      BY <1>2, <1>4, <2>1, <2>2
  <1>6. ASSUME NEW r \in Records, Cancel(r) PROVE Locked'
    <2>1. Leave(r, "late") \/ Leave(r, "failed")
      BY <1>6 DEF Cancel
    <2> QED
      BY <1>2, <1>6, <2>1 DEF Cancel
  <1>7. ASSUME NEW r \in Records, Land(r) PROVE Locked'
    <2>1. /\ \A o \in Records : o # r => rec'[o] = rec[o]
          /\ UNCHANGED holder
          /\ rec'[r].pc = "failed"
      BY <1>0, <1>7 DEF Land, TypeOK, Calls
    <2> QED
      BY <1>1, <2>1 DEF InProgress
  <1>8. ASSUME NEW i \in Instances, Crash(i) PROVE Locked'
    <2>1. /\ \A j \in Instances : j # i => holder'[j] = holder[j]
          /\ \A o \in Records : (At[o] # i) => rec'[o] = rec[o]
      BY <1>8 DEF Crash, TypeOK
    <2>2. ASSUME NEW o \in Records, At[o] = i PROVE rec'[o].pc \notin InProgress
      <3>1. CASE rec[o].pc \in InProgress
        <4>1. rec'[o] = [rec[o] EXCEPT !.pc = IF @ = "appending" THEN "late"
                                              ELSE "failed"]
          BY <1>8, <2>2, <3>1 DEF Crash
        <4>2. rec'[o].pc \in {"late", "failed"}
          BY <1>0, <4>1 DEF Calls
        <4> QED
          BY <4>2 DEF InProgress
      <3>2. CASE rec[o].pc \notin InProgress
        BY <1>8, <3>2 DEF Crash
      <3> QED
        BY <3>1, <3>2
    <2> QED
      BY <1>0, <2>1, <2>2 DEF Locked
  <1>9. CASE Verify \/ UNCHANGED vars
    BY <1>9 DEF Verify, BeginVerify, ReadRow, EndRows, ReadHead, vars, Locked
  <1> QED
    BY <1>3, <1>5, <1>6, <1>7, <1>8, <1>9 DEF Next, Work

\* The memory of an instance changes when it notes a record or dies.
LEMMA BufferMoves ==
    ASSUME TypeOK, [Next]_vars, UNCHANGED buffer => FALSE
    PROVE  (\E r \in Records : Acknowledge(r)) \/ (\E i \in Instances : Crash(i))
  BY DEF Next, Work, Enter, Load, AppendRecord, Reload, Cancel, Land, Verify, BeginVerify,
         ReadRow, EndRows, ReadHead, memory, vars

\* Rows that are behind a place of the chain stay behind it.
LEMMA BehindKept ==
    ASSUME TypeOK, Effect, NEW i \in Instances, NEW n \in Nat, Behind(i, n),
           NEW m \in Nat, n <= m, buffer'[i] = buffer[i]
    PROVE  BehindNext(i, m)
  <1> SUFFICES ASSUME NEW k \in 1..Len(buffer[i])
               PROVE  \E j \in 1..Len(chain') : j < m /\ chain'[j] = buffer[i][k]
    BY DEF BehindNext
  <1>1. PICK j \in 1..Len(chain) : j < n /\ chain[j] = buffer[i][k]
    BY DEF Behind
  <1>2. j \in 1..Len(chain') /\ chain'[j] = chain[j] /\ j < m
    BY <1>1, RowsStay
  <1> QED
    BY <1>1, <1>2

\* A record that is committed after a step was so before it, or is the new row.
LEMMA CommittedAfter ==
    ASSUME Core, Effect, Remembered, NEW r \in Records, rec'[r].pc = "committed",
           buffer'[At[r]] = buffer[At[r]]
    PROVE  \E n \in 1..Len(chain') : chain'[n] = Row(r)' /\ BehindNext(At[r], n)
  <1>0. /\ rec[r] \in Calls /\ Moved(r) /\ At[r] \in Instances /\ TypeOK
        /\ Len(chain) \in Nat
    BY AuditAssumption, LenProperties DEF Core, Effect, TypeOK, Calls, Ids
  <1>1. CASE Committed(r)
    <2>1. /\ Len(chain') = Len(chain) + 1 /\ chain'[Len(chain) + 1] = Row(r)
      BY <1>0, <1>1, CommitType DEF Committed
    <2>2. Row(r)' = Row(r)
      BY <1>0, <1>1 DEF Committed, Relabel, Row, Calls
    <2>3. BehindNext(At[r], Len(chain) + 1)
      <3>1. Behind(At[r], Len(chain) + 1) /\ Len(chain) + 1 \in Nat
        BY <1>0 DEF Remembered
      <3> QED
        BY <1>0, <3>1, BehindKept
    <2> QED
      BY <1>0, <2>1, <2>2, <2>3
  <1>2. CASE ~Committed(r)
    <2>1. rec'[r] = rec[r]
      BY <1>0, <1>2 DEF Moved, Begun, Stamped, Relabel, Calls
    <2>2. PICK n \in 1..Len(chain) : chain[n] = Row(r) /\ Behind(At[r], n)
      BY <2>1 DEF Remembered
    <2>3. n \in Nat /\ n \in 1..Len(chain') /\ chain'[n] = chain[n]
      BY <1>0, <2>2, RowsStay
    <2>4. BehindNext(At[r], n)
      BY <1>0, <2>2, <2>3, BehindKept
    <2> QED
      BY <2>1, <2>2, <2>3, <2>4 DEF Row
  <1> QED
    BY <1>1, <1>2

LEMMA RememberedKept ==
    ASSUME Core, Effect, Locked, Remembered, [Next]_vars
    PROVE  Remembered'
  <1>0. /\ TypeOK /\ Len(chain) \in Nat /\ Len(chain') \in Nat
        /\ Len(chain) + 1 <= Len(chain') + 1
    <2>1. TypeOK /\ TypeOK'
      BY DEF Core, Effect
    <2>2. Len(chain) <= Len(chain')
      <3>1. CASE UNCHANGED store
        BY <2>1, <3>1, LenProperties DEF store, TypeOK
      <3>2. ASSUME NEW r \in Records, Committed(r) PROVE Len(chain) <= Len(chain')
        BY <2>1, <3>2, CommitType DEF Committed
      <3> QED
        BY <3>1, <3>2 DEF Effect, Stored
    <2> QED
      BY <2>1, <2>2, LenProperties DEF TypeOK
  <1>1. ASSUME NEW i \in Instances, buffer'[i] = buffer[i]
        PROVE  BehindNext(i, Len(chain') + 1) /\ InOrderNext(i)
    <2>1. Behind(i, Len(chain) + 1)
      BY DEF Remembered
    <2>2. BehindNext(i, Len(chain') + 1)
      <3>1. Len(chain) + 1 \in Nat /\ Len(chain') + 1 \in Nat
        BY <1>0
      <3> QED
        BY <1>0, <1>1, <2>1, <3>1, BehindKept
    <2>3. InOrderNext(i)
      <3> SUFFICES ASSUME NEW k \in 1..Len(buffer[i]), NEW l \in 1..Len(buffer[i]), k < l
                   PROVE  \E m, n \in 1..Len(chain') :
                            m < n /\ chain'[m] = buffer[i][k] /\ chain'[n] = buffer[i][l]
        BY <1>1 DEF InOrderNext
      <3>1. PICK m \in 1..Len(chain), n \in 1..Len(chain) :
                m < n /\ chain[m] = buffer[i][k] /\ chain[n] = buffer[i][l]
        BY DEF Remembered, BufferInOrder
      <3> QED
        BY <1>0, <3>1, RowsStay
    <2> QED
      BY <2>2, <2>3
  <1>2. CASE UNCHANGED buffer
    <2>1. \A r \in Records : At[r] \in Instances
      BY AuditAssumption
    <2>2. BufferInOrder'
      BY <1>1, <1>2 DEF BufferInOrder, InOrderNext
    <2>3. \A i \in Instances : BehindNext(i, Len(chain') + 1)
      BY <1>1, <1>2
    <2>4. \A r \in Records : rec'[r].pc = "committed" =>
             \E n \in 1..Len(chain') : chain'[n] = Row(r)' /\ BehindNext(At[r], n)
      BY <1>2, <2>1, CommittedAfter
    <2> QED
      BY <2>2, <2>3, <2>4 DEF Remembered, Behind, BehindNext
  <1>3. ASSUME NEW d \in Instances, Crash(d)
        PROVE  Remembered'
    <2>1. /\ buffer'[d] = <<>> /\ \A i \in Instances : i # d => buffer'[i] = buffer[i]
          /\ \A r \in Records : At[r] = d => rec'[r].pc # "committed"
      <3>1. buffer'[d] = <<>> /\ \A i \in Instances : i # d => buffer'[i] = buffer[i]
        BY <1>0, <1>3 DEF Crash, TypeOK
      <3>2. ASSUME NEW r \in Records, At[r] = d PROVE rec'[r].pc # "committed"
        <4>1. rec[r] \in Calls
          BY <1>0 DEF TypeOK, Calls, Ids
        <4>2. \/ rec'[r] = rec[r] /\ rec[r].pc \notin InProgress
              \/ rec'[r] = [rec[r] EXCEPT !.pc = IF @ = "appending" THEN "late"
                                                 ELSE "failed"]
          BY <1>3, <3>2 DEF Crash
        <4> QED
          BY <4>1, <4>2 DEF Calls, InProgress
      <3> QED
        BY <3>1, <3>2
    <2>2. Len(buffer'[d]) = 0
      BY <2>1, EmptySeq
    <2>3. BufferInOrder'
      BY <1>1, <2>1, <2>2 DEF BufferInOrder, InOrderNext
    <2>4. \A i \in Instances : BehindNext(i, Len(chain') + 1)
      BY <1>1, <2>1, <2>2 DEF BehindNext
    <2>5. \A r \in Records : rec'[r].pc = "committed" => At[r] # d /\ At[r] \in Instances
      BY <2>1, AuditAssumption
    <2>6. \A r \in Records : rec'[r].pc = "committed" =>
             \E n \in 1..Len(chain') : chain'[n] = Row(r)' /\ BehindNext(At[r], n)
      BY <2>1, <2>5, CommittedAfter
    <2> QED
      BY <2>3, <2>4, <2>6 DEF Remembered, Behind, BehindNext
  <1>4. ASSUME NEW r \in Records, Acknowledge(r)
        PROVE  Remembered'
    <2> DEFINE i == At[r]
               old == buffer[i]
               new == Buffered(old, Row(r))
    <2>1. /\ i \in Instances /\ rec[r].pc = "committed"
          /\ buffer'[i] = new
          /\ \A j \in Instances : j # i => buffer'[j] = buffer[j]
          /\ UNCHANGED store /\ Leave(r, "recorded")
      BY <1>0, <1>4, AuditAssumption DEF Acknowledge, TypeOK
    <2>2. ASSUME NEW o \in Records, At[o] = i PROVE rec'[o].pc # "committed"
      <3>1. CASE o = r
        <4>1. rec'[r] = [rec[r] EXCEPT !.pc = "recorded"] /\ rec[r] \in Calls
          BY <1>0, <2>1 DEF Leave, TypeOK, Calls, Ids
        <4> QED
          BY <3>1, <4>1 DEF Calls
      <3>2. CASE o # r
        <4>1. rec'[o] = rec[o]
          BY <1>0, <2>1, <3>2 DEF Leave, TypeOK
        <4>2. rec[o].pc \notin InProgress
          BY <2>1, <2>2, <3>2 DEF Locked, InProgress
        <4> QED
          BY <4>1, <4>2 DEF InProgress
      <3> QED
        BY <3>1, <3>2
    <2>3. PICK n \in 1..Len(chain) : chain[n] = Row(r) /\ Behind(i, n)
      BY <2>1 DEF Remembered
    <2>4. old \in Seq(Rows) /\ Row(r) \in Rows /\ Len(old) \in Nat
      BY <1>0, <2>1, RowType, LenProperties DEF TypeOK
    <2>5. PICK d \in Nat :
             /\ d <= Len(old) + 1
             /\ Len(new) = Len(old) + 1 - d
             /\ \A k \in 1..Len(new) :
                   new[k] = IF k + d = Len(old) + 1 THEN Row(r) ELSE old[k + d]
      BY <2>4, BufferedType
    <2> HIDE DEF new, old
    <2>6. ASSUME NEW k \in 1..Len(new)
          PROVE  \/ k = Len(new) /\ new[k] = Row(r)
                 \/ k < Len(new) /\ k + d \in 1..Len(old) /\ new[k] = old[k + d]
      BY <2>4, <2>5
    <2>0. Len(new) \in Nat
      BY <2>4, <2>5
    <2>7. ASSUME NEW k \in 1..Len(new), NEW l \in 1..Len(new), k < l
          PROVE  \E m, o \in 1..Len(chain) :
                     m < o /\ chain[m] = new[k] /\ chain[o] = new[l]
      <3>1. k + d \in 1..Len(old) /\ new[k] = old[k + d]
        BY <2>4, <2>5, <2>6, <2>7
      <3>2. CASE l = Len(new)
        <4>1. PICK m \in 1..Len(chain) : m < n /\ chain[m] = old[k + d]
          BY <2>3, <3>1 DEF Behind, old
        <4>2. new[l] = Row(r)
          BY <2>6, <2>0, <3>2
        <4> QED
          BY <2>3, <3>1, <4>1, <4>2
      <3>3. CASE l < Len(new)
        <4>1. l + d \in 1..Len(old) /\ new[l] = old[l + d] /\ k + d < l + d
          BY <2>4, <2>5, <2>6, <2>7, <3>3
        <4>2. PICK m \in 1..Len(chain), o \in 1..Len(chain) :
                  m < o /\ chain[m] = old[k + d] /\ chain[o] = old[l + d]
          BY <2>1, <3>1, <4>1 DEF Remembered, BufferInOrder, old
        <4> QED
          BY <3>1, <4>1, <4>2
      <3> QED
        BY <2>0, <3>2, <3>3
    <2>8. ASSUME NEW k \in 1..Len(new)
          PROVE  \E m \in 1..Len(chain) : m < Len(chain) + 1 /\ chain[m] = new[k]
      <3>1. CASE new[k] = Row(r)
        BY <1>0, <2>3, <3>1
      <3>2. CASE k + d \in 1..Len(old) /\ new[k] = old[k + d]
        <4>1. PICK m \in 1..Len(chain) : m < n /\ chain[m] = old[k + d]
          BY <2>3, <3>2 DEF Behind, old
        <4> QED
          BY <1>0, <3>2, <4>1
      <3> QED
        BY <2>6, <3>1, <3>2
    <2>9. BufferInOrder'
      <3> SUFFICES ASSUME NEW j \in Instances,
                          NEW k \in 1..Len(buffer'[j]), NEW l \in 1..Len(buffer'[j]), k < l
                   PROVE  \E m, o \in 1..Len(chain') :
                            /\ m < o
                            /\ chain'[m] = buffer'[j][k] /\ chain'[o] = buffer'[j][l]
        BY DEF BufferInOrder
      <3>1. CASE j = i
        <4>1. chain' = chain
          BY <2>1 DEF store
        <4>2. buffer'[j] = new
          BY <2>1, <3>1
        <4>3. k \in 1..Len(new) /\ l \in 1..Len(new)
          BY <4>2
        <4>4. PICK m \in 1..Len(chain), o \in 1..Len(chain) :
                 m < o /\ chain[m] = new[k] /\ chain[o] = new[l]
          BY <2>7, <4>3
        <4> QED
          BY <4>1, <4>2, <4>4
      <3>2. CASE j # i
        BY <1>1, <2>1, <3>2 DEF InOrderNext
      <3> QED
        BY <3>1, <3>2
    <2>10. \A j \in Instances : BehindNext(j, Len(chain') + 1)
      <3>1. ASSUME NEW j \in Instances, j # i PROVE BehindNext(j, Len(chain') + 1)
        BY <1>1, <2>1, <3>1
      <3>2. \A k \in 1..Len(buffer'[i]) :
               \E m \in 1..Len(chain') : m < Len(chain') + 1 /\ chain'[m] = buffer'[i][k]
        BY <2>1, <2>8 DEF store
      <3> QED
        BY <3>1, <3>2 DEF BehindNext
    <2>11. \A o \in Records : rec'[o].pc = "committed" => At[o] # i /\ At[o] \in Instances
      BY <2>2, AuditAssumption
    <2>12. \A o \in Records : rec'[o].pc = "committed" =>
             \E m \in 1..Len(chain') : chain'[m] = Row(o)' /\ BehindNext(At[o], m)
      BY <2>1, <2>11, CommittedAfter
    <2> QED
      BY <2>9, <2>10, <2>12 DEF Remembered, Behind, BehindNext
  <1> QED
    BY <1>0, <1>2, <1>3, <1>4, BufferMoves

\* The rows an instance has in memory are in the order of the chain: a record is
\* noted before the next one of its instance is begun (the lock of the tenant).
THEOREM MemoryInOrder ==
    Spec => []BufferInOrder
  <1>1. Init => Locked /\ Remembered
    <2> SUFFICES ASSUME Init PROVE Locked /\ Remembered
      OBVIOUS
    <2>1. \A i \in Instances : Len(buffer[i]) = 0
      BY EmptySeq DEF Init
    <2>2. \A r \in Records : rec[r].pc = "waiting"
      BY DEF Init, NotBegun
    <2> QED
      BY <2>1, <2>2 DEF Locked, Remembered, Behind, BufferInOrder, InProgress
  <1>2. Core /\ Locked /\ Remembered /\ [Next]_vars => (Locked /\ Remembered)'
    BY StepEffect, LockedKept, RememberedKept DEF Core
  <1>3. Remembered => BufferInOrder
    BY DEF Remembered
  <1> QED
    BY <1>1, <1>2, <1>3, CoreInvariant, PTL DEF Spec

-----------------------------------------------------------------------------
(* The verification                                                        *)

\* The rows are the first ones of the chain.
Prefix(rows) ==
    /\ Len(rows) <= Len(chain)
    /\ \A k \in 1..Len(rows) : rows[k] = chain[k]

\* The rows read are rows of the chain.  As far as they are linked they are its
\* first ones; and so they are when none was committed since the verification began.
ReadOK ==
    /\ reader.pc = "idle" => reader.seen = <<>>
    /\ reader.pc # "done" => reader.verdict = "none"
    /\ reader.from <= Len(chain)
    /\ reader.pc = "done" => reader.from <= reader.to
    /\ LinkedRows(reader.seen) => Prefix(reader.seen)
    /\ reader.verdict = "intact" =>
          Prefix(reader.seen) /\ Len(reader.seen) = reader.to

Undisturbed ==
    /\ (reader.pc \in {"rows", "head"} /\ Len(chain) = reader.from)
          => Prefix(reader.seen)
    /\ (reader.pc = "head" /\ Len(chain) = reader.from)
          => Len(reader.seen) = Len(chain)
    /\ reader.verdict = "TAMPERED" => reader.to > reader.from

LEMMA PrefixStays ==
    ASSUME TypeOK, Effect, NEW rows \in Seq(Rows), Prefix(rows)
    PROVE  /\ Len(rows) <= Len(chain')
           /\ \A k \in 1..Len(rows) : rows[k] = chain'[k]
  <1>1. /\ Len(rows) \in Nat /\ Len(chain) \in Nat /\ Len(chain') \in Nat
        /\ Len(chain) <= Len(chain')
    <2>1. TypeOK'
      BY DEF Effect
    <2>2. CASE UNCHANGED store
      BY <2>2, LenProperties DEF store, TypeOK
    <2>3. ASSUME NEW r \in Records, Committed(r)
          PROVE  Len(chain) \in Nat /\ Len(chain') \in Nat /\ Len(chain) <= Len(chain')
      BY <2>3, CommitType DEF Committed
    <2> QED
      BY <2>2, <2>3, LenProperties DEF Effect, Stored
  <1> QED
    BY <1>1, RowsStay DEF Prefix

\* Without a commit the reader's rows are compared with the chain there was.
LEMMA LinkedIsPrefix ==
    ASSUME Core, NEW rows \in Seq(Rows), NEW m \in 1..Len(chain),
           LinkedRows(rows) => Prefix(rows), LinkedRows(Append(rows, chain[m]))
    PROVE  Prefix(Append(rows, chain[m]))
  <1> DEFINE n == Len(rows)
             longer == Append(rows, chain[m])
  <1>1. /\ n \in Nat /\ Len(chain) \in Nat /\ m \in Nat
        /\ chain[m] \in Rows
        /\ Len(longer) = n + 1
        /\ \A k \in 1..n : longer[k] = rows[k]
        /\ longer[n + 1] = chain[m]
    BY RowIds, LenProperties, AppendProperties DEF Core, TypeOK
  <1> HIDE DEF longer
  <1>2. \A k \in 1..(n + 1) :
            longer[k].prev = IF k = 1 THEN Genesis ELSE longer[k - 1].id
    BY <1>1 DEF LinkedRows, longer
  <1>3. Prefix(rows)
    <2> SUFFICES ASSUME NEW k \in 1..n
                 PROVE  rows[k].prev = IF k = 1 THEN Genesis ELSE rows[k - 1].id
      BY DEF LinkedRows
    <2>1. longer[k].prev = IF k = 1 THEN Genesis ELSE longer[k - 1].id
      BY <1>1, <1>2
    <2>2. k # 1 => k - 1 \in 1..n
      BY <1>1
    <2> QED
      BY <1>1, <2>1, <2>2
  <1>4. chain[m].prev = IF m = 1 THEN Genesis ELSE chain[m - 1].id
    BY DEF Core, OneChain, LinkedRows
  <1>5. chain[m].prev = IF n = 0 THEN Genesis ELSE rows[n].id
    <2>1. chain[m].prev = IF n + 1 = 1 THEN Genesis ELSE longer[n + 1 - 1].id
      BY <1>1, <1>2
    <2>2. n # 0 => n \in 1..n /\ n + 1 - 1 = n /\ n + 1 # 1
      BY <1>1
    <2> QED
      BY <1>1, <2>1, <2>2
  <1>6. \A k \in 1..Len(chain) : chain[k].id # Genesis
    BY RowIds, AuditAssumption DEF Core, Genesis
  <1>7. m = n + 1
    <2>1. CASE n = 0
      <3>1. m # 1 => m - 1 \in 1..Len(chain)
        BY <1>1
      <3> QED
        BY <1>4, <1>5, <1>6, <2>1, <3>1
    <2>2. CASE n # 0
      <3>1. n \in 1..Len(chain) /\ rows[n] = chain[n]
        BY <1>1, <1>3, <2>2 DEF Prefix
      <3>2. m # 1
        BY <1>4, <1>5, <1>6, <2>2, <3>1
      <3>3. m - 1 \in 1..Len(chain) /\ chain[m - 1].id = chain[n].id
        BY <1>1, <1>4, <1>5, <2>2, <3>1, <3>2
      <3>4. m - 1 = n
        BY <3>1, <3>3 DEF Core, Placed, Unique
      <3> QED
        BY <1>1, <3>4
    <2> QED
      BY <2>1, <2>2
  <1>8. Prefix(longer)
    <2>1. \A k \in 1..(n + 1) : k \in 1..n \/ k = n + 1
      BY <1>1
    <2> QED
      BY <1>1, <1>3, <1>7, <2>1 DEF Prefix
  <1> QED
    BY <1>8 DEF longer

\* A step of another actor.
LEMMA ReaderWaits ==
    ASSUME Core, Effect, ReadOK, UNCHANGED reader
    PROVE  ReadOK'
  <1>1. /\ reader.seen \in Seq(Rows) /\ reader.from \in Nat
        /\ Len(chain) \in Nat /\ Len(chain') \in Nat /\ Len(chain) <= Len(chain')
    <2>1. TypeOK /\ TypeOK'
      BY DEF Core, Effect
    <2>2. <<>> \in Seq(Rows) /\ Len(<<>>) = 0
      BY EmptySeq
    <2>3. Prefix(<<>>)
      BY <2>1, <2>2, LenProperties DEF Prefix, TypeOK
    <2>4. CASE UNCHANGED store
      BY <2>1, <2>4, LenProperties DEF store, TypeOK
    <2>5. ASSUME NEW r \in Records, Committed(r)
          PROVE  Len(chain) \in Nat /\ Len(chain') \in Nat /\ Len(chain) <= Len(chain')
      BY <2>1, <2>5, CommitType DEF Committed
    <2>6. reader.seen \in Seq(Rows) /\ reader.from \in Nat
      BY <2>1 DEF TypeOK
    <2> QED
      BY <2>1, <2>4, <2>5, <2>6, LenProperties DEF Effect, Stored, TypeOK
  <1>2. Prefix(reader.seen) => Prefix(reader.seen)'
    BY <1>1, PrefixStays DEF Core, Prefix
  <1>3. LinkedRows(reader.seen)' = LinkedRows(reader.seen)
    BY DEF LinkedRows
  <1> QED
    BY <1>1, <1>2, <1>3 DEF ReadOK

LEMMA EndOfPrefix ==
    ASSUME Core, NEW rows \in Seq(Rows), Prefix(rows), head = EndOf(rows)
    PROVE  Len(rows) = Len(chain)
  <1> DEFINE n == Len(rows)
             m == Len(chain)
  <1>1. n \in Nat /\ m \in Nat /\ n <= m
    BY LenProperties DEF Core, TypeOK, Prefix
  <1>2. rows = <<>> <=> n = 0
    BY EmptySeq
  <1>3. chain = <<>> <=> m = 0
    BY EmptySeq DEF Core, TypeOK
  <1>4. CASE m = 0
    BY <1>1, <1>4
  <1>5. CASE m # 0
    <2>1. m \in 1..m /\ head = chain[m].id
      BY <1>1, <1>3, <1>5 DEF Core, OneChain, EndOf, LastOf
    <2>2. head # Genesis
      BY <2>1, RowIds, AuditAssumption DEF Core, Genesis
    <2>3. n # 0
      BY <1>2, <2>2 DEF EndOf
    <2>4. n \in 1..n /\ n \in 1..m /\ head = rows[n].id
      BY <1>1, <1>2, <2>3 DEF EndOf, LastOf
    <2>5. rows[n] = chain[n]
      BY <2>4 DEF Prefix
    <2>6. chain[n].id = chain[m].id
      BY <2>1, <2>4, <2>5
    <2> QED
      BY <2>1, <2>4, <2>6 DEF Core, Placed, Unique
  <1> QED
    BY <1>4, <1>5

LEMMA ReadOKKept ==
    ASSUME Core, Effect, ReadOK, [Next]_vars
    PROVE  ReadOK'
  <1>0. /\ TypeOK /\ reader.seen \in Seq(Rows) /\ Len(chain) \in Nat
        /\ reader \in [pc : {"idle", "rows", "head", "done"}, seen : Seq(Rows),
                       from : Nat, to : Nat,
                       verdict : {"none", "intact", "TAMPERED", "unavailable"}]
    BY LenProperties DEF Core, TypeOK
  <1>1. CASE UNCHANGED reader
    BY <1>1, ReaderWaits
  <1>2. CASE BeginVerify
    <2>1. /\ reader' = [reader EXCEPT !.pc = "rows", !.from = Len(chain)]
          /\ UNCHANGED chain /\ reader.pc = "idle"
      BY <1>2 DEF BeginVerify, store
    <2>2. /\ reader'.pc = "rows" /\ reader'.from = Len(chain)
          /\ reader'.seen = reader.seen /\ reader'.verdict = reader.verdict
      BY <1>0, <2>1
    <2> QED
      BY <1>0, <2>1, <2>2 DEF ReadOK, LinkedRows, Prefix
  <1>3. CASE ReadRow
    <2>1. PICK row \in Unread : reader' = [reader EXCEPT !.seen = Append(@, row)]
      BY <1>3 DEF ReadRow
    <2>2. UNCHANGED chain /\ reader.pc = "rows"
      BY <1>3 DEF ReadRow, store
    <2>3. PICK m \in 1..Len(chain) : row = chain[m]
      BY DEF Unread
    <2>4. /\ reader'.pc = "rows" /\ reader'.from = reader.from
          /\ reader'.seen = Append(reader.seen, row) /\ reader'.verdict = reader.verdict
      BY <1>0, <2>1, <2>2
    <2>5. LinkedRows(Append(reader.seen, row)) => Prefix(Append(reader.seen, row))
      BY <1>0, <2>3, LinkedIsPrefix DEF ReadOK
    <2> QED
      BY <2>2, <2>4, <2>5 DEF ReadOK, LinkedRows, Prefix
  <1>4. CASE EndRows
    <2>1. /\ reader' = [reader EXCEPT !.pc = "head"]
          /\ UNCHANGED chain /\ reader.pc = "rows"
      BY <1>4 DEF EndRows, store
    <2>2. /\ reader'.pc = "head" /\ reader'.from = reader.from
          /\ reader'.seen = reader.seen /\ reader'.verdict = reader.verdict
      BY <1>0, <2>1
    <2> QED
      BY <2>1, <2>2 DEF ReadOK, LinkedRows, Prefix
  <1>5. CASE ReadHead
    <2>1. /\ reader'.pc = "done" /\ reader'.to = Len(chain)
          /\ reader'.seen = reader.seen /\ reader'.from = reader.from
          /\ reader'.verdict = "intact" =>
                LinkedRows(reader.seen) /\ head = EndOf(reader.seen)
          /\ UNCHANGED chain
      <3>1. CASE reader' = [reader EXCEPT !.pc = "done", !.to = Len(chain),
                                          !.verdict = "unavailable"]
        BY <1>0, <1>5, <3>1 DEF ReadHead, store
      <3>2. CASE reader' = [reader EXCEPT
                      !.pc = "done", !.to = Len(chain),
                      !.verdict = IF LinkedRows(reader.seen)
                                     /\ head = EndOf(reader.seen)
                                  THEN "intact" ELSE "TAMPERED"]
        BY <1>0, <1>5, <3>2 DEF ReadHead, store
      <3> QED
        BY <1>5, <3>1, <3>2 DEF ReadHead
    <2>2. reader'.verdict = "intact" =>
             Prefix(reader.seen) /\ Len(reader.seen) = Len(chain)
      BY <1>0, <2>1, EndOfPrefix DEF ReadOK
    <2> QED
      BY <1>0, <2>1, <2>2 DEF ReadOK, LinkedRows, Prefix
  <1>6. UNCHANGED reader \/ Verify
    BY DEF Next, Work, Enter, Load, AppendRecord, Acknowledge, Reload, Cancel, Land, Crash,
           vars
  <1> QED
    BY <1>1, <1>2, <1>3, <1>4, <1>5, <1>6 DEF Verify

\* Between clocks that agree the next row by key is the next row of the chain.
LEMMA NextIsNext ==
    ASSUME Core, Increasing, Prefix(reader.seen), NEW row, NextRow(row)
    PROVE  Prefix(Append(reader.seen, row))
  <1> DEFINE n == Len(reader.seen)
  <1>1. /\ reader.seen \in Seq(Rows) /\ n \in Nat /\ Len(chain) \in Nat /\ n <= Len(chain)
        /\ reader.seen = <<>> <=> n = 0
    BY LenProperties, EmptySeq DEF Core, TypeOK, Prefix
  <1>2. PICK m \in 1..Len(chain) :
            /\ row = chain[m]
            /\ reader.seen = <<>> \/ Before(LastOf(reader.seen), chain[m])
    BY DEF NextRow, Unread
  <1>3. \A k \in 1..Len(chain) : chain[k].time \in Int /\ chain[k] \in Rows
    BY RowIds DEF Core, Rows
  <1>4. n # 0 => n \in 1..Len(chain) /\ LastOf(reader.seen) = chain[n]
    BY <1>1 DEF Prefix, LastOf
  <1>5. m > n
    <2>1. CASE n = 0
      BY <1>1, <2>1
    <2>2. CASE n # 0
      <3>1. Before(chain[n], chain[m])
        BY <1>1, <1>2, <1>4, <2>2
      <3>2. m # n
        <4>1. ASSUME m = n PROVE FALSE
          <5>1. chain[n].time \in Int /\ chain[n].id \in Nat
            <6>1. chain[n].id \in Records
              BY <1>4, <2>2, RowIds DEF Core
            <6> QED
              BY <1>3, <1>4, <2>2, <6>1, AuditAssumption
          <5> QED
            BY <3>1, <4>1, <5>1 DEF Before
        <4> QED
          BY <4>1
      <3>3. ~(m < n)
        <4>1. m < n => chain[m].time < chain[n].time
          BY <1>4, <2>2 DEF Increasing
        <4> QED
          BY <1>3, <1>4, <2>2, <3>1, <4>1 DEF Before
      <3> QED
        BY <1>1, <3>2, <3>3
    <2> QED
      BY <2>1, <2>2
  <1>6. m = n + 1
    <2> SUFFICES ASSUME m > n + 1 PROVE FALSE
      BY <1>1, <1>5
    <2>1. n + 1 \in 1..Len(chain) /\ chain[n + 1].time < chain[m].time
      BY <1>1, <1>2 DEF Increasing
    <2>2. chain[n + 1] \in Unread
      <3>1. n = 0 \/ Before(chain[n], chain[n + 1])
        BY <1>1, <1>4, <2>1 DEF Increasing, Before
      <3> QED
        BY <1>1, <1>4, <2>1, <3>1 DEF Unread
    <2>3. Before(chain[n + 1], row)
      BY <1>2, <2>1 DEF Before
    <2> QED
      BY <2>2, <2>3 DEF NextRow
  <1>7. /\ Len(Append(reader.seen, row)) = n + 1
        /\ \A k \in 1..n : Append(reader.seen, row)[k] = reader.seen[k]
        /\ Append(reader.seen, row)[n + 1] = row
    BY <1>1, <1>2, <1>3, AppendProperties
  <1>8. \A k \in 1..(n + 1) : k \in 1..n \/ k = n + 1
    BY <1>1
  <1> QED
    BY <1>1, <1>2, <1>6, <1>7, <1>8 DEF Prefix

LEMMA NoneUnread ==
    ASSUME Core, Increasing, Prefix(reader.seen), Unread = {}
    PROVE  Len(reader.seen) = Len(chain)
  <1> DEFINE n == Len(reader.seen)
  <1>1. /\ reader.seen \in Seq(Rows) /\ n \in Nat /\ Len(chain) \in Nat /\ n <= Len(chain)
        /\ reader.seen = <<>> <=> n = 0
    BY LenProperties, EmptySeq DEF Core, TypeOK, Prefix
  <1> SUFFICES ASSUME n + 1 <= Len(chain) PROVE FALSE
    BY <1>1
  <1>2. n + 1 \in 1..Len(chain)
    BY <1>1
  <1>3. n # 0 => n \in 1..Len(chain) /\ LastOf(reader.seen) = chain[n]
    BY <1>1 DEF Prefix, LastOf
  <1>4. n = 0 \/ Before(chain[n], chain[n + 1])
    BY <1>1, <1>2, <1>3 DEF Increasing, Before
  <1>5. chain[n + 1] \in Unread
    BY <1>1, <1>2, <1>3, <1>4 DEF Unread
  <1> QED
    BY <1>5

LEMMA WholeIsIntact ==
    ASSUME Core, NEW rows \in Seq(Rows), Prefix(rows), Len(rows) = Len(chain)
    PROVE  LinkedRows(rows) /\ head = EndOf(rows)
  <1>1. rows = chain
    BY SeqEqual DEF Prefix, Core, TypeOK
  <1> QED
    BY <1>1 DEF Core, OneChain

LEMMA UndisturbedKept ==
    ASSUME Core, Effect, ReadOK, Increasing, Undisturbed, [Next]_vars
    PROVE  Undisturbed'
  <1>0. /\ TypeOK /\ reader.seen \in Seq(Rows) /\ Len(chain) \in Nat
        /\ reader.from <= Len(chain) /\ reader.from \in Nat
        /\ reader \in [pc : {"idle", "rows", "head", "done"}, seen : Seq(Rows),
                       from : Nat, to : Nat,
                       verdict : {"none", "intact", "TAMPERED", "unavailable"}]
    BY LenProperties DEF Core, TypeOK, ReadOK
  <1>1. CASE UNCHANGED reader
    <2>1. CASE UNCHANGED store
      BY <1>1, <2>1 DEF Undisturbed, Prefix, store
    <2>2. ASSUME NEW r \in Records, Committed(r) PROVE Undisturbed'
      <3>1. Len(chain') # reader.from
        BY <1>0, <2>2, CommitType DEF Committed
      <3> QED
        BY <1>1, <3>1 DEF Undisturbed
    <2> QED
      BY <2>1, <2>2 DEF Effect, Stored
  <1>2. CASE BeginVerify
    <2>1. /\ reader' = [reader EXCEPT !.pc = "rows", !.from = Len(chain)]
          /\ UNCHANGED chain /\ reader.pc = "idle"
      BY <1>2 DEF BeginVerify, store
    <2>2. /\ reader'.pc = "rows" /\ reader'.seen = <<>> /\ reader'.verdict = "none"
      BY <1>0, <2>1 DEF ReadOK
    <2>3. Prefix(<<>>)
      BY <1>0, EmptySeq DEF Prefix
    <2> QED
      BY <2>1, <2>2, <2>3 DEF Undisturbed, Prefix
  <1>3. CASE ReadRow
    <2>1. PICK row \in Unread :
             NextRow(row) /\ reader' = [reader EXCEPT !.seen = Append(@, row)]
      BY <1>3 DEF ReadRow
    <2>2. UNCHANGED chain /\ reader.pc = "rows" /\ reader.verdict = "none"
      BY <1>3 DEF ReadRow, store, ReadOK
    <2>3. /\ reader'.pc = "rows" /\ reader'.from = reader.from
          /\ reader'.seen = Append(reader.seen, row) /\ reader'.verdict = "none"
      BY <1>0, <2>1, <2>2
    <2>4. Len(chain) = reader.from => Prefix(Append(reader.seen, row))
      BY <2>1, <2>2, NextIsNext DEF Undisturbed
    <2> QED
      BY <2>2, <2>3, <2>4 DEF Undisturbed, Prefix
  <1>4. CASE EndRows
    <2>1. /\ reader' = [reader EXCEPT !.pc = "head"] /\ Unread = {}
          /\ UNCHANGED chain /\ reader.pc = "rows" /\ reader.verdict = "none"
      BY <1>4 DEF EndRows, store, ReadOK
    <2>2. /\ reader'.pc = "head" /\ reader'.from = reader.from
          /\ reader'.seen = reader.seen /\ reader'.verdict = "none"
      BY <1>0, <2>1
    <2>3. Len(chain) = reader.from =>
             Prefix(reader.seen) /\ Len(reader.seen) = Len(chain)
      BY <2>1, NoneUnread DEF Undisturbed
    <2> QED
      BY <2>1, <2>2, <2>3 DEF Undisturbed, Prefix
  <1>5. CASE ReadHead
    <2>1. UNCHANGED chain /\ reader.pc = "head"
      BY <1>5 DEF ReadHead, store
    <2>2. CASE reader' = [reader EXCEPT !.pc = "done", !.to = Len(chain),
                                        !.verdict = "unavailable"]
      BY <1>0, <2>2 DEF Undisturbed
    <2>3. CASE reader' = [reader EXCEPT
                    !.pc = "done", !.to = Len(chain),
                    !.verdict = IF LinkedRows(reader.seen)
                                   /\ head = EndOf(reader.seen)
                                THEN "intact" ELSE "TAMPERED"]
      <3>1. /\ reader'.pc = "done" /\ reader'.to = Len(chain)
            /\ reader'.from = reader.from
            /\ reader'.verdict = "TAMPERED" =>
                  ~(LinkedRows(reader.seen) /\ head = EndOf(reader.seen))
        BY <1>0, <2>3
      <3>2. Len(chain) = reader.from => LinkedRows(reader.seen) /\ head = EndOf(reader.seen)
        BY <1>0, <2>1, WholeIsIntact DEF Undisturbed
      <3> QED
        BY <1>0, <3>1, <3>2 DEF Undisturbed
    <2> QED
      BY <1>5, <2>2, <2>3 DEF ReadHead
  <1>6. UNCHANGED reader \/ Verify
    BY DEF Next, Work, Enter, Load, AppendRecord, Acknowledge, Reload, Cancel, Land, Crash,
           vars
  <1> QED
    BY <1>1, <1>2, <1>3, <1>4, <1>5, <1>6 DEF Verify

\* A verdict of verify_persisted_chain is right, although it reads the rows page by
\* page and the head after them: "intact" stands for all the rows there were, and
\* between clocks that agree only a commit between its reads raises an alarm.
THEOREM VerdictsRight ==
    Spec => []VerdictRight
  <1>1. Init => ReadOK /\ Undisturbed
    <2> SUFFICES ASSUME Init PROVE ReadOK /\ Undisturbed
      OBVIOUS
    <2>1. Len(chain) = 0 /\ reader.seen = <<>> /\ Len(reader.seen) = 0
      BY EmptySeq DEF Init
    <2> QED
      BY <2>1 DEF Init, ReadOK, Undisturbed, Prefix
  <1>2. Core /\ ReadOK /\ [Next]_vars => ReadOK'
    BY StepEffect, ReadOKKept DEF Core
  <1>3. /\ Core /\ ReadOK /\ (ClocksAgree => Timely) /\ (ClocksAgree => Undisturbed)
        /\ [Next]_vars
        => (ClocksAgree => Undisturbed)'
    <2> SUFFICES ASSUME Core, ReadOK, ClocksAgree, Timely, Undisturbed, [Next]_vars
                 PROVE  Undisturbed'
      BY DEF ClocksAgree
    <2>1. Effect
      BY StepEffect DEF Core
    <2> QED
      BY <2>1, UndisturbedKept DEF Timely
  <1>4. Core /\ ReadOK /\ (ClocksAgree => Undisturbed) => VerdictRight
    <2> SUFFICES ASSUME Core, ReadOK, reader.verdict = "intact"
                 PROVE  reader.seen = SubSeq(chain, 1, reader.to)
      BY DEF VerdictRight, Undisturbed
    <2> DEFINE n == Len(reader.seen)
               first == SubSeq(chain, 1, n)
    <2>1. /\ reader.seen \in Seq(Rows) /\ chain \in Seq(Rows)
          /\ n \in Nat /\ Len(chain) \in Nat /\ n <= Len(chain)
          /\ \A k \in 1..n : reader.seen[k] = chain[k]
          /\ reader.to = n
      BY LenProperties DEF Core, TypeOK, ReadOK, Prefix
    <2>2. \A k \in 1..n : chain[k] \in Rows
      BY <2>1, ElementOfSeq
    <2>3. /\ first \in Seq(Rows) /\ Len(first) = n
          /\ \A k \in 1..n : first[k] = chain[k]
      <3>1. /\ first \in Seq(Rows)
            /\ Len(first) = IF 1 <= n THEN n - 1 + 1 ELSE 0
            /\ \A k \in 1..(n - 1 + 1) : first[k] = chain[1 + k - 1]
        BY <2>1, <2>2, SubSeqProperties
      <3>2. /\ n - 1 + 1 = n /\ (~(1 <= n) => n = 0)
            /\ \A k \in 1..n : 1 + k - 1 = k
        BY <2>1
      <3> HIDE DEF first, n
      <3> QED
        BY <3>1, <3>2
    <2> HIDE DEF first
    <2>4. reader.seen = first
      BY <2>1, <2>3, SeqEqual
    <2> QED
      BY <2>1, <2>4 DEF first
  <1> QED
    BY <1>1, <1>2, <1>3, <1>4, CoreInvariant, TimelyInvariant, PTL DEF Spec

-----------------------------------------------------------------------------
(* The chain implements the log                                            *)

LogOf == [k \in 1..Len(chain) |-> chain[k].id]

AnswerOf == [r \in Records |->
                CASE rec[r].pc = "recorded" -> "ok"
                  [] rec[r].pc \in {"failed", "late"} -> "error"
                  [] OTHER -> "none"]

LEMMA LogInit ==
    Init => Log!Init
  <1> SUFFICES ASSUME Init PROVE Log!Init
    OBVIOUS
  <1>1. LogOf = <<>>
    <2>1. Len(chain) = 0
      BY EmptySeq DEF Init
    <2> QED
      BY <2>1 DEF LogOf
  <1>2. AnswerOf = [r \in Records |-> "none"]
    BY DEF Init, AnswerOf, NotBegun
  <1> QED
    BY <1>1, <1>2 DEF Log!Init, LogOf, AnswerOf

LEMMA LogType ==
    ASSUME TypeOK
    PROVE  /\ LogOf \in Seq(Records) /\ Len(LogOf) = Len(chain)
           /\ DOMAIN LogOf = 1..Len(chain)
           /\ \A k \in 1..Len(chain) : LogOf[k] = chain[k].id
  <1>1. Len(chain) \in Nat /\ \A k \in 1..Len(chain) : chain[k].id \in Records
    BY RowIds, LenProperties DEF TypeOK
  <1>2. LogOf \in [1..Len(chain) -> Records]
    BY <1>1 DEF LogOf
  <1>3. LogOf \in Seq(Records) /\ Len(LogOf) = Len(chain)
    BY <1>1, <1>2, SeqDef, LenProperties
  <1> QED
    BY <1>2, <1>3 DEF LogOf

\* Without a commit a caller is told nothing, or for the first time.
LEMMA AnswerStep ==
    ASSUME TypeOK, NEW r \in Records, Moved(r), UNCHANGED store
    PROVE  \/ AnswerOf'[r] = AnswerOf[r]
           \/ AnswerOf[r] = "none" /\ AnswerOf'[r] = "error"
           \/ /\ rec[r].pc = "committed" /\ rec'[r].pc = "recorded"
              /\ AnswerOf[r] = "none" /\ AnswerOf'[r] = "ok"
  <1>1. rec[r] \in Calls /\ ~Committed(r)
    BY CommitType DEF TypeOK, Calls, Ids, Committed, store
  <1>2. CASE rec'[r].pc = rec[r].pc
    BY <1>2 DEF AnswerOf
  <1>3. CASE rec[r].pc = "waiting" /\ rec'[r].pc \in {"loading", "appending"}
    BY <1>3 DEF AnswerOf
  <1>4. CASE rec[r].pc \in {"loading", "reloading"} /\ rec'[r].pc = "appending"
    BY <1>4 DEF AnswerOf
  <1>5. CASE rec[r].pc \in InProgress /\ rec'[r].pc \in {"failed", "late"}
    BY <1>5 DEF AnswerOf, InProgress
  <1>6. CASE rec[r].pc = "late" /\ rec'[r].pc = "failed"
    BY <1>6 DEF AnswerOf
  <1>7. CASE rec[r].pc = "committed" /\ rec'[r].pc = "recorded"
    BY <1>7 DEF AnswerOf
  <1>8. CASE rec[r].pc = "appending" /\ rec'[r].pc = "reloading"
    BY <1>8 DEF AnswerOf
  <1> QED
    BY <1>1, <1>2, <1>3, <1>4, <1>5, <1>6, <1>7, <1>8
       DEF Moved, Begun, Stamped, Relabel, Calls, InProgress

LEMMA ArriveStep ==
    ASSUME Core, Effect, NEW r \in Records, Committed(r)
    PROVE  Log!Arrive(r)
  <1>1. /\ Len(chain) \in Nat /\ Len(chain') = Len(chain) + 1
        /\ \A k \in 1..Len(chain) : chain'[k] = chain[k]
        /\ chain'[Len(chain) + 1].id = r
    BY CommitType, RowType DEF Committed, Core
  <1>2. LogOf' = Append(LogOf, r)
    <2>1. /\ LogOf \in Seq(Records) /\ Len(LogOf) = Len(chain)
          /\ \A k \in 1..Len(chain) : LogOf[k] = chain[k].id
      BY LogType DEF Core
    <2> DEFINE longer == Append(LogOf, r)
    <2>2. /\ longer \in Seq(Records) /\ Len(longer) = Len(chain) + 1
          /\ \A k \in 1..Len(chain) : longer[k] = chain[k].id
          /\ longer[Len(chain) + 1] = r
      <3> HIDE DEF LogOf
      <3> QED
        BY <2>1, AppendProperties
    <2>3. longer = [k \in 1..(Len(chain) + 1) |-> longer[k]]
      <3> HIDE DEF longer
      <3> QED
        BY <2>2, LenProperties
    <2> HIDE DEF longer
    <2>4. \A k \in 1..(Len(chain) + 1) : longer[k] = chain'[k].id
      BY <1>1, <2>2
    <2>5. LogOf' = [k \in 1..(Len(chain) + 1) |-> chain'[k].id]
      BY <1>1 DEF LogOf
    <2>6. longer = [k \in 1..(Len(chain) + 1) |-> chain'[k].id]
      BY <2>3, <2>4
    <2> QED
      BY <2>5, <2>6 DEF longer
  <1>3. AnswerOf' = AnswerOf
    <2>1. \A o \in Records : o # r => rec'[o] = rec[o]
      BY OthersWait DEF Core
    <2>2. \/ rec[r].pc = "appending" /\ rec'[r].pc = "committed"
          \/ rec[r].pc = "late" /\ rec'[r].pc = "failed"
      <3>1. rec[r] \in Calls
        BY DEF Core, TypeOK, Calls, Ids
      <3> QED
        BY <3>1 DEF Committed, Relabel, Calls
    <2> QED
      BY <2>1, <2>2 DEF AnswerOf
  <1>4. AnswerOf[r] # "ok"
    BY DEF AnswerOf, Committed
  <1>5. \A k \in DOMAIN LogOf : LogOf[k] # r
    BY LogType DEF Core, Placed, RowsKept, Done, Committed
  <1> QED
    BY <1>2, <1>3, <1>4, <1>5 DEF Log!Arrive, Log!Logged, LogOf, AnswerOf

LEMMA LogStep ==
    ASSUME Core, [Next]_vars
    PROVE  [Log!Next]_<<LogOf, AnswerOf>>
  <1>1. Effect
    BY StepEffect DEF Core
  <1>2. CASE \E r \in Records : Committed(r)
    BY <1>1, <1>2, ArriveStep DEF Log!Next
  <1>3. CASE UNCHANGED store
    <2>1. LogOf' = LogOf
      BY <1>3 DEF LogOf, store
    <2>2. \A r \in Records :
             \/ AnswerOf'[r] = AnswerOf[r]
             \/ AnswerOf[r] = "none" /\ AnswerOf'[r] = "error"
             \/ /\ rec[r].pc = "committed" /\ rec'[r].pc = "recorded"
                /\ AnswerOf[r] = "none" /\ AnswerOf'[r] = "ok"
      BY <1>1, <1>3, AnswerStep DEF Core, Effect
    <2>3. AnswerOf = [r \in Records |-> AnswerOf[r]]
          /\ AnswerOf' = [r \in Records |-> AnswerOf'[r]]
      BY DEF AnswerOf
    <2>4. ASSUME NEW r \in Records, rec[r].pc = "committed",
                 AnswerOf[r] = "none", AnswerOf'[r] = "ok",
                 \A o \in Records : o # r => rec'[o] = rec[o]
          PROVE  Log!Succeed(r)
      <3>1. \E k \in DOMAIN LogOf : LogOf[k] = r
        BY <2>4, LogType DEF Core, Placed, Found
      <3>2. \A o \in Records : o # r => AnswerOf'[o] = AnswerOf[o]
        BY <2>4 DEF AnswerOf
      <3>3. AnswerOf' = [AnswerOf EXCEPT ![r] = "ok"]
        <4> HIDE DEF AnswerOf
        <4> QED
          BY <2>3, <2>4, <3>2
      <3> QED
        BY <2>1, <2>4, <3>1, <3>3 DEF Log!Succeed, Log!Logged, LogOf, AnswerOf
    <2> DEFINE NoSuccess ==
                 \A r \in Records :
                     \/ AnswerOf'[r] = AnswerOf[r]
                     \/ AnswerOf[r] = "none" /\ AnswerOf'[r] = "error"
    <2>5. ASSUME NoSuccess PROVE Log!Next
      <3>0. PICK S \in SUBSET Records :
                 S = {r \in Records : AnswerOf'[r] # AnswerOf[r]}
        OBVIOUS
      <3>1. \A r \in S : AnswerOf[r] = "none"
        BY <2>5, <3>0
      <3>2. AnswerOf' = [r \in Records |-> IF r \in S THEN "error" ELSE AnswerOf[r]]
        <4> HIDE DEF AnswerOf
        <4> QED
          BY <2>3, <2>5, <3>0
      <3>3. Log!Fail(S)
        BY <2>1, <3>1, <3>2 DEF Log!Fail, LogOf, AnswerOf
      <3> QED
        BY <3>3 DEF Log!Next
    <2>6. CASE \E r \in Records : \A o \in Records : o # r => rec'[o] = rec[o]
      <3>1. PICK r \in Records : \A o \in Records : o # r => rec'[o] = rec[o]
        BY <2>6
      <3>2. \A o \in Records : o # r => AnswerOf'[o] = AnswerOf[o]
        BY <3>1 DEF AnswerOf
      <3>3. CASE rec[r].pc = "committed" /\ AnswerOf[r] = "none" /\ AnswerOf'[r] = "ok"
        BY <2>4, <3>1, <3>3 DEF Log!Next
      <3>4. CASE ~(rec[r].pc = "committed" /\ AnswerOf[r] = "none" /\ AnswerOf'[r] = "ok")
        <4>1. NoSuccess
          BY <2>2, <3>2, <3>4
        <4> HIDE DEF NoSuccess
        <4> QED
          BY <2>5, <4>1
      <3> QED
        BY <3>3, <3>4
    <2>7. CASE \A r \in Records : rec'[r].pc = "recorded" => rec[r].pc = "recorded"
      <3>1. NoSuccess
        BY <2>2, <2>7
      <3> HIDE DEF NoSuccess
      <3> QED
        BY <2>5, <3>1
    <2> QED
      BY <1>1, <2>6, <2>7 DEF Effect, Told
  <1> QED
    BY <1>1, <1>2, <1>3 DEF Effect, Stored

\* The chain of the instances is one append-only log: a record acknowledged is
\* in it, once, and before every record begun after that.
THEOREM ImplementsLog ==
    Spec => LogSpec
  <1>1. Init => Log!Init
    BY LogInit
  <1>2. Core /\ [Next]_vars => [Log!Next]_<<LogOf, AnswerOf>>
    BY LogStep
  <1>3. Core /\ [Next]_vars => [Log!Next]_Log!logVars
    BY <1>2 DEF Log!logVars, LogOf, AnswerOf
  <1> QED
    BY <1>1, <1>3, CoreInvariant, PTL DEF Spec, LogSpec, Log!Spec

=============================================================================
