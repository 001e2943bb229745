-------------------------- MODULE FleetConfigProofs --------------------------
(***************************************************************************)
(* Proofs about FleetConfig, for any fleet, any rows and limits, any       *)
(* number of operators at work and any bound on their writes.              *)
(***************************************************************************)
EXTENDS FleetConfig, TLAPS

LEMMA BlankType ==
    /\ Absent \in Entries
    /\ Empty \in [Rows -> Entries]
    /\ NoTask \in Tasks
    /\ AnyRow \in Rows
    /\ NoCall \in Calls
  <1>1. Absent \in Entries
    BY DEF Absent, Entries
  <1>2. Empty \in [Rows -> Entries]
    BY <1>1 DEF Empty
  <1>3. AnyRow \in Rows
    BY ConfigAssumption DEF AnyRow
  <1> QED
    BY <1>1, <1>2, <1>3 DEF NoTask, Tasks, NoCall, Calls

LEMMA LimitsAreNaturals == Limits \cup {NoLimit} \subseteq Nat
  BY ConfigAssumption DEF NoLimit

LEMMA RowKinds == Projects \subseteq Rows /\ Users \subseteq Rows
  BY DEF Rows

\* Arming keeps limits that are naturals.
LEMMA ArmedType ==
    ASSUME TypeOK, NEW i \in Instances, NEW adopted \in [Rows -> Entries]
    PROVE  /\ Armed(i, adopted) \in [Projects -> Nat]
           /\ Noded(i, adopted) \in [Projects -> Nat]
  BY LimitsAreNaturals, RowKinds DEF TypeOK, Armed, Noded, Entries

LEMMA MergedType ==
    ASSUME TypeOK, NEW i \in Instances
    PROVE  Merged(i) \in [Rows -> Entries]
  BY DEF TypeOK, Merged, Tasks

-----------------------------------------------------------------------------
(* Types                                                                   *)

LEMMA InitType == Init => TypeOK
  <1> SUFFICES ASSUME Init PROVE TypeOK
    OBVIOUS
  <1> DEFINE booting == [NoTask EXCEPT !.pc = "loading", !.unread = Rows]
  <1>1. booting \in Tasks
    BY BlankType DEF Tasks, Booting
  <1>2. task \in [Instances -> Tasks]
    BY <1>1, BlankType DEF Init
  <1>3. /\ version \in 0..MaxVersion
        /\ known \in [Instances -> Nat \cup {Unknown}]
        /\ armed \in [Instances -> [Projects -> Nat]]
        /\ node \in [Instances -> [Projects -> Nat]]
    BY ConfigAssumption DEF Init, Unknown, NoLimit
  <1> QED
    BY <1>2, <1>3, BlankType DEF Init, TypeOK

LEMMA RestartType ==
    ASSUME TypeOK, NEW i \in Instances, Restart(i) PROVE TypeOK'
  <1> DEFINE booting == [NoTask EXCEPT !.pc = "loading", !.unread = Rows]
  <1>1. booting \in Tasks
    BY BlankType DEF Tasks, Booting
  <1>2. task' \in [Instances -> Tasks] /\ call' \in [Handlers -> Calls]
    BY <1>1, BlankType DEF Restart, TypeOK
  <1> QED
    BY <1>2, BlankType DEF Restart, TypeOK, table, NoLimit

LEMMA LoadedUpToType ==
    ASSUME TypeOK, NEW i \in Instances, NEW done, LoadedUpTo(i, done)
    PROVE  task' \in [Instances -> Tasks]
  <1>1. task[i] \in Tasks
    BY DEF TypeOK
  <1>2. [task[i] EXCEPT !.unread = @ \ done,
                        !.pc = IF task[i].unread \subseteq done
                               THEN "noting" ELSE "loading"] \in Tasks
    BY <1>1 DEF Tasks, Booting
  <1> QED
    BY <1>2 DEF LoadedUpTo, TypeOK

LEMMA StartupType ==
    ASSUME TypeOK, NEW i \in Instances,
           \/ \E row \in Rows : LoadRow(i, row)
           \/ LoadFails(i) \/ NoteVersion(i) \/ NoteFails(i)
    PROVE  TypeOK'
  <1>1. ASSUME NEW row \in Rows, LoadRow(i, row) PROVE TypeOK'
    <2>1. live' \in [Instances -> [Rows -> Entries]]
      BY <1>1 DEF LoadRow, TypeOK
    <2>2. live'[i] \in [Rows -> Entries]
      BY <2>1
    <2>3. task' \in [Instances -> Tasks]
      BY <1>1, LoadedUpToType DEF LoadRow
    <2>4. /\ armed' \in [Instances -> [Projects -> Nat]]
          /\ node' \in [Instances -> [Projects -> Nat]]
      BY <1>1, <2>2, ArmedType DEF LoadRow, TypeOK
    <2> QED
      BY <1>1, <2>1, <2>3, <2>4 DEF LoadRow, TypeOK, table
  <1>2. CASE LoadFails(i)
    <2>1. task' \in [Instances -> Tasks]
      BY <1>2, LoadedUpToType DEF LoadFails
    <2>2. /\ live' \in [Instances -> [Rows -> Entries]]
          /\ armed' \in [Instances -> [Projects -> Nat]]
          /\ node' \in [Instances -> [Projects -> Nat]]
      BY <1>2, BlankType DEF LoadFails, TypeOK, NoLimit
    <2> QED
      BY <1>2, <2>1, <2>2 DEF LoadFails, TypeOK, table
  <1>3. CASE NoteVersion(i)
    BY <1>3, BlankType DEF NoteVersion, TypeOK, table
  <1>4. CASE NoteFails(i)
    BY <1>4, BlankType DEF NoteFails, TypeOK, table, config
  <1> QED
    BY <1>1, <1>2, <1>3, <1>4

LEMMA RefreshType ==
    ASSUME TypeOK, NEW i \in Instances,
           Refresh(i) \/ Expire(i) \/ RefreshFails(i)
    PROVE  TypeOK'
  <1> USE BlankType
  <1>0. task[i] \in Tasks
    BY DEF TypeOK
  <1>1. CASE Expire(i)
    BY <1>1 DEF Expire, TypeOK, table
  <1>2. CASE Poll(i)
    <2>1. [task[i] EXCEPT !.pc = "version", !.gen = generation[i]] \in Tasks
      BY <1>0 DEF Tasks, Refreshing, TypeOK
    <2> QED
      BY <1>2, <2>1 DEF Poll, TypeOK, table, config
  <1>3. CASE ReadVersion(i)
    <2>0. version \in Nat
      BY ConfigAssumption DEF TypeOK
    <2>1. [task[i] EXCEPT !.pc = "compare", !.ver = version] \in Tasks
      BY <1>0, <2>0 DEF Tasks, Refreshing
    <2> QED
      BY <1>3, <2>1 DEF ReadVersion, TypeOK, table, config
  <1>4. CASE Unmoved(i)
    BY <1>4 DEF Unmoved, TypeOK, table
  <1>5. CASE Moved(i)
    <2>1. [task[i] EXCEPT !.pc = "scan", !.unread = Rows] \in Tasks
      BY <1>0 DEF Tasks, Refreshing
    <2> QED
      BY <1>5, <2>1 DEF Moved, TypeOK, table, config
  <1>6. CASE Confirm(i)
    <2>1. [task[i] EXCEPT !.pc = "adopt"] \in Tasks
      BY <1>0 DEF Tasks, Refreshing
    <2> QED
      BY <1>6, <2>1 DEF Confirm, TypeOK, table, config
  <1>7. CASE Adopt(i)
    <2>1. task[i].seen \in [Rows -> Entries] /\ task[i].ver \in Nat
      BY <1>0 DEF Tasks
    <2>2. /\ live' \in [Instances -> [Rows -> Entries]]
          /\ armed' \in [Instances -> [Projects -> Nat]]
          /\ node' \in [Instances -> [Projects -> Nat]]
          /\ known' \in [Instances -> Nat \cup {Unknown}]
      <3>1. CASE SameGeneration(i)
        <4>1. /\ Armed(i, task[i].seen) \in [Projects -> Nat]
              /\ Noded(i, task[i].seen) \in [Projects -> Nat]
              /\ Merged(i) \in [Rows -> Entries]
          BY <2>1, ArmedType, MergedType
        <4> QED
          BY <1>7, <2>1, <3>1, <4>1 DEF Adopt, TypeOK
      <3>2. CASE ~SameGeneration(i)
        BY <1>7, <3>2 DEF Adopt, TypeOK
      <3> QED
        BY <3>1, <3>2
    <2> QED
      BY <1>7, <2>2 DEF Adopt, TypeOK, table
  <1>8. ASSUME NEW row \in Rows, ScanRow(i, row) PROVE TypeOK'
    <2>1. [task[i] EXCEPT !.unread = @ \ {row}, !.seen[row] = store[row],
                          !.pc = IF task[i].unread = {row} THEN "confirm" ELSE @]
            \in Tasks
      BY <1>0 DEF Tasks, Refreshing, TypeOK
    <2> QED
      BY <1>8, <2>1 DEF ScanRow, TypeOK, table, config
  <1>9. CASE RefreshFails(i)
    BY <1>9 DEF RefreshFails, TypeOK, table, config
  <1> QED
    BY <1>1, <1>2, <1>3, <1>4, <1>5, <1>6, <1>7, <1>8, <1>9 DEF Refresh

\* A call that starts or moves on is a call.
LEMMA CallTypes ==
    ASSUME TypeOK, NEW h \in Handlers
    PROVE  /\ \A pc \in {"publish", "install"}, entry \in Entries :
                [call[h] EXCEPT !.pc = pc, !.entry = entry] \in Calls
           /\ \A row \in Rows, miss \in BOOLEAN :
                [NoCall EXCEPT !.pc = "fetch", !.row = row, !.miss = miss] \in Calls
           /\ \A row \in Rows :
                [NoCall EXCEPT !.pc = "fetch", !.row = row] \in Calls
           /\ \A row \in Rows, base \in Nat, entry \in Entries :
                [NoCall EXCEPT !.pc = "save", !.row = row, !.base = base,
                               !.entry = entry] \in Calls
  BY BlankType DEF TypeOK, Calls

LEMMA HandlerType ==
    ASSUME TypeOK, NEW h \in Handlers,
           \/ \E row \in Rows, limit \in Limits \cup {NoLimit} : BeginWrite(h, row, limit)
           \/ \E row \in Rows : BeginFetch(h, row)
           \/ Serve(h) \/ CallFails(h)
    PROVE  TypeOK'
  <1> USE BlankType
  <1>0. /\ call[h] \in Calls
        /\ call[h].row \in Rows
        /\ call[h].entry \in Entries
        /\ call[h].entry.rev \in Nat
        /\ call[h].entry.limit \in Nat
        /\ HostOf[h] \in Instances
    BY ConfigAssumption, LimitsAreNaturals DEF TypeOK, Calls, Entries
  <1>1. ASSUME NEW row \in Rows, NEW limit \in Limits \cup {NoLimit},
               BeginWrite(h, row, limit)
        PROVE  TypeOK'
    <2>1. PICK base \in Expected(h, row) :
            call' = [call EXCEPT ![h] =
                       [NoCall EXCEPT !.pc = "save", !.row = row, !.base = base,
                                      !.entry = [rev |-> base + 1, limit |-> limit]]]
      BY <1>1 DEF BeginWrite
    <2>2. base \in Nat
      BY <1>0 DEF Expected, TypeOK, Entries
    <2>3. [rev |-> base + 1, limit |-> limit] \in Entries
      BY <2>2 DEF Entries
    <2>4. call' \in [Handlers -> Calls]
      BY <2>1, <2>2, <2>3, CallTypes DEF TypeOK
    <2> QED
      BY <1>1, <2>4 DEF BeginWrite, TypeOK, table, config
  <1>2. ASSUME NEW row \in Rows, BeginFetch(h, row) PROVE TypeOK'
    <2>0. PICK miss \in BOOLEAN :
            call' = [call EXCEPT ![h] = [NoCall EXCEPT !.pc = "fetch", !.row = row,
                                                       !.miss = miss]]
      BY <1>2 DEF BeginFetch
    <2>1. call' \in [Handlers -> Calls]
      BY <2>0, CallTypes DEF TypeOK
    <2> QED
      BY <1>2, <2>1 DEF BeginFetch, TypeOK, table, config
  <1>3. CASE Save(h)
    <2>1. store' \in [Rows -> Entries]
      BY <1>0, <1>3 DEF Save, TypeOK
    <2>2. /\ version' \in 0..MaxVersion
          /\ past' \in [0..MaxVersion -> [Rows -> Entries]]
      BY <1>3, <2>1, ConfigAssumption DEF Save, TypeOK
    <2>3. [call[h] EXCEPT !.pc = "publish"] \in Calls
      BY <1>0 DEF Calls
    <2>4. call' \in [Handlers -> Calls]
      BY <1>3, <2>3 DEF Save, TypeOK
    <2> QED
      BY <1>3, <2>1, <2>2, <2>4 DEF Save, TypeOK, config
  <1>4. CASE SaveConflict(h)
    <2>1. call' \in [Handlers -> Calls]
      BY <1>0, <1>4, CallTypes DEF SaveConflict, TypeOK
    <2> QED
      BY <1>4, <2>1 DEF SaveConflict, TypeOK, table, config
  <1>5. CASE Publish(h)
    <2>1. armed' \in [Instances -> [Projects -> Nat]]
      <3>1. CASE call[h].row \in Users
        BY <1>5, <3>1 DEF Publish, TypeOK
      <3>2. CASE call[h].row \notin Users
        <4>1. call[h].row \in Projects
          BY <1>0, <3>2 DEF Rows
        <4> QED
          BY <1>0, <1>5, <3>2, <4>1 DEF Publish, TypeOK
      <3> QED
        BY <3>1, <3>2
    <2> QED
      BY <1>0, <1>5, <2>1 DEF Publish, TypeOK, table
  <1>6. CASE Fetch(h)
    <2>1. store[call[h].row] \in Entries
      BY <1>0 DEF TypeOK
    <2>2. [call[h] EXCEPT !.pc = "install", !.entry = store[call[h].row]] \in Calls
      BY <2>1, CallTypes
    <2> QED
      BY <1>6, <2>2 DEF Fetch, TypeOK, table, config
  <1>7. CASE Install(h)
    <2>1. CASE call[h].entry.rev = 0 /\ call[h].row \in Projects
      BY <1>7, <2>1 DEF Install, TypeOK, table
    <2>2. CASE ~(call[h].entry.rev = 0 /\ call[h].row \in Projects)
      <3>0. live' = [live EXCEPT ![HostOf[h]][call[h].row] = call[h].entry]
        BY <1>7, <2>2, Zenon DEF Install
      <3>1. live' \in [Instances -> [Rows -> Entries]]
        BY <1>0, <3>0 DEF TypeOK
      <3>2. CASE call[h].row \in Users \/ call[h].miss
        <4>1. armed' = armed
          BY <1>7, <2>2, <3>2, Zenon DEF Install
        <4> QED
          BY <1>7, <3>1, <4>1 DEF Install, TypeOK, table
      <3>3. CASE ~(call[h].row \in Users \/ call[h].miss)
        <4>1. call[h].row \in Projects
          BY <1>0, <3>3 DEF Rows
        <4>2. armed' = [armed EXCEPT ![HostOf[h]][call[h].row] = call[h].entry.limit]
          BY <1>7, <2>2, <3>3, Zenon DEF Install
        <4>3. armed' \in [Instances -> [Projects -> Nat]]
          BY <1>0, <4>1, <4>2 DEF TypeOK
        <4> QED
          BY <1>7, <3>1, <4>3 DEF Install, TypeOK, table
      <3> QED
        BY <3>2, <3>3
    <2> QED
      BY <2>1, <2>2
  <1>8. CASE CallFails(h)
    BY <1>8 DEF CallFails, TypeOK, table, config
  <1> QED
    BY <1>1, <1>2, <1>3, <1>4, <1>5, <1>6, <1>7, <1>8 DEF Serve

\* Every table of the store and of every instance keeps its type, whatever is
\* written, refreshed, restarted and lost.
THEOREM TypeCorrect == Spec => []TypeOK
  <1>1. TypeOK /\ [Next]_vars => TypeOK'
    <2> SUFFICES ASSUME TypeOK, [Next]_vars PROVE TypeOK'
      OBVIOUS
    <2>1. ASSUME NEW i \in Instances,
                 \/ Boot(i) \/ Refresh(i) \/ Expire(i) \/ Restart(i)
                 \/ LoadFails(i) \/ NoteFails(i) \/ RefreshFails(i)
          PROVE  TypeOK'
      BY <2>1, RestartType, StartupType, RefreshType DEF Boot
    <2>2. ASSUME NEW h \in Handlers,
                 \/ \E row \in Rows, limit \in Limits \cup {NoLimit} :
                      BeginWrite(h, row, limit)
                 \/ \E row \in Rows : BeginFetch(h, row)
                 \/ Serve(h) \/ CallFails(h)
          PROVE  TypeOK'
      BY <2>2, HandlerType
    <2>3. ASSUME NEW i \in Instances, NEW p \in Projects, Request(i, p)
          PROVE  TypeOK'
      <3>1. live[i][p].limit \in Nat
        BY LimitsAreNaturals, RowKinds DEF TypeOK, Entries
      <3> QED
        BY <2>3, <3>1 DEF Request, TypeOK, table
    <2>4. CASE OutageEnds
      BY <2>4 DEF OutageEnds, TypeOK, table, config
    <2>5. CASE UNCHANGED vars
      BY <2>5 DEF vars, table, config, TypeOK
    <2> QED
      BY <2>1, <2>2, <2>3, <2>4, <2>5 DEF Next
  <1> QED
    BY <1>1, InitType, PTL DEF Spec

-----------------------------------------------------------------------------
(* The inductive invariant                                                 *)

\* The history ends in the present store; revisions only grow along it, and a row
\* without a revision is no row.
StoreOK ==
    /\ past[version] = store
    /\ \A v \in 0..version, w \in 0..version : \A row \in Rows :
         v <= w => past[v][row].rev <= past[w][row].rev
    /\ \A v \in 0..version : \A row \in Rows :
         past[v][row].rev = 0 => past[v][row] = Absent

\* A write makes the next revision, and has done so before it is published.
CallOK(h) ==
    /\ call[h].pc \in {"save", "publish"} => call[h].entry.rev = call[h].base + 1
    /\ call[h].pc = "publish" => call[h].entry.rev <= store[call[h].row].rev

\* What an instance has published is in the store, or a later revision is.
OwnOK(i) == \A row \in Rows : own[i][row] <= store[row].rev

\* What a refresh has read: the store, as long as the version has not moved; the
\* rows of its version, once that is confirmed; and nothing older than its own
\* instance's writes, as long as there was none.
ScanOK(i) ==
    /\ task[i].gen <= generation[i]
    /\ task[i].pc \in {"compare", "scan", "confirm", "adopt"} => task[i].ver <= version
    /\ task[i].pc \in {"confirm", "adopt"} => task[i].unread = {}
    /\ (task[i].pc \in {"scan", "confirm"} /\ task[i].ver = version) =>
         \A row \in Rows \ task[i].unread : task[i].seen[row] = store[row]
    /\ task[i].pc = "adopt" => task[i].seen = past[task[i].ver]
    /\ (task[i].pc \in {"scan", "confirm", "adopt"} /\ task[i].gen = generation[i]) =>
         \A row \in Rows \ task[i].unread : own[i][row] <= task[i].seen[row].rev

\* A follower is up and at the version it knows, no newer than the one it reads.
FollowOK(i) ==
    /\ task[i].pc \notin Booting
    /\ known[i] \in 0..version
    /\ live[i] = past[known[i]]
    /\ task[i].pc \in {"compare", "scan", "confirm", "adopt"} => known[i] <= task[i].ver

FleetInv ==
    /\ TypeOK
    /\ StoreOK
    /\ \A h \in Handlers : CallOK(h)
    /\ \A i \in Instances : OwnOK(i)
    /\ \A i \in Instances : ScanOK(i)
    /\ \A i \in Followers : FollowOK(i)

LEMMA InitInv == Init => FleetInv
  <1> SUFFICES ASSUME Init PROVE FleetInv
    OBVIOUS
  <1>1. TypeOK
    BY InitType
  <1>2. StoreOK
    BY ConfigAssumption DEF Init, StoreOK, Empty, Absent
  <1>3. \A h \in Handlers : CallOK(h)
    BY DEF Init, CallOK, NoCall
  <1>4. \A i \in Instances : OwnOK(i)
    BY DEF Init, OwnOK, Empty, Absent
  <1>5. \A i \in Instances : ScanOK(i)
    BY DEF Init, ScanOK, NoTask
  <1>6. \A i \in Followers : FollowOK(i)
    BY ConfigAssumption DEF Init, FollowOK, Followers, NoTask, Booting
  <1> QED
    BY <1>1, <1>2, <1>3, <1>4, <1>5, <1>6 DEF FleetInv

\* What a step does not touch keeps its part of the invariant.
LEMMA Frames ==
    ASSUME FleetInv, UNCHANGED table
    PROVE  /\ StoreOK'
           /\ \A h \in Handlers : call'[h] = call[h] => CallOK(h)'
           /\ \A i \in Instances : own'[i] = own[i] => OwnOK(i)'
           /\ \A i \in Instances :
                (task'[i] = task[i] /\ generation'[i] = generation[i] /\ own'[i] = own[i])
                    => ScanOK(i)'
           /\ \A i \in Followers :
                (task'[i] = task[i] /\ live'[i] = live[i] /\ known'[i] = known[i])
                    => FollowOK(i)'
  <1>1. StoreOK'
    BY DEF FleetInv, StoreOK, table
  <1>2. ASSUME NEW h \in Handlers, call'[h] = call[h] PROVE CallOK(h)'
    BY <1>2 DEF FleetInv, CallOK, table
  <1>3. ASSUME NEW i \in Instances, own'[i] = own[i] PROVE OwnOK(i)'
    BY <1>3 DEF FleetInv, OwnOK, table
  <1>4. ASSUME NEW i \in Instances, task'[i] = task[i], generation'[i] = generation[i],
               own'[i] = own[i]
        PROVE  ScanOK(i)'
    BY <1>4 DEF FleetInv, ScanOK, table
  <1>5. ASSUME NEW i \in Followers, task'[i] = task[i], live'[i] = live[i],
               known'[i] = known[i]
        PROVE  FollowOK(i)'
    BY <1>5 DEF FleetInv, FollowOK, table
  <1> QED
    BY <1>1, <1>2, <1>3, <1>4, <1>5

\* Steps of instance i's own task leave everything of the others alone.
LEMMA TaskFrame ==
    ASSUME FleetInv, NEW i \in Instances, UNCHANGED <<table, call, own, generation>>,
           \A j \in Instances \ {i} : /\ task'[j] = task[j]
                                     /\ live'[j] = live[j]
                                     /\ known'[j] = known[j],
           TypeOK', ScanOK(i)', i \in Followers => FollowOK(i)'
    PROVE  FleetInv'
  <1>1. \A j \in Instances : ScanOK(j)'
    BY Frames DEF FleetInv
  <1>2. \A j \in Followers : FollowOK(j)'
    BY Frames DEF Followers
  <1> QED
    BY <1>1, <1>2, Frames DEF FleetInv

-----------------------------------------------------------------------------
(* The refresh                                                             *)

\* A refresh that ends without adopting anything.
LEMMA GiveUpKeeps ==
    ASSUME FleetInv, NEW i \in Instances, UNCHANGED <<table, call, own, generation, live, known>>,
           task' = [task EXCEPT ![i] = NoTask], TypeOK'
    PROVE  FleetInv'
  <1>1. task'[i] = NoTask /\ \A j \in Instances \ {i} : task'[j] = task[j]
    BY DEF FleetInv, TypeOK
  <1>2. ScanOK(i)'
    BY <1>1 DEF ScanOK, NoTask, FleetInv, TypeOK
  <1>3. i \in Followers => FollowOK(i)'
    BY <1>1 DEF FollowOK, NoTask, Booting, FleetInv, table
  <1> QED
    BY <1>1, <1>2, <1>3, TaskFrame

LEMMA RefreshKeeps ==
    ASSUME FleetInv, NEW i \in Instances, Refresh(i) \/ Expire(i) \/ RefreshFails(i)
    PROVE  FleetInv'
  <1>t. TypeOK'
    BY RefreshType DEF FleetInv
  <1>0. task[i] \in Tasks /\ version \in Nat
    BY ConfigAssumption DEF FleetInv, TypeOK
  <1>1. CASE Expire(i)
    BY <1>1, <1>t, Frames DEF Expire, FleetInv, Followers
  <1>2. CASE Poll(i)
    <2>1. /\ task'[i] = [task[i] EXCEPT !.pc = "version", !.gen = generation[i]]
          /\ \A j \in Instances \ {i} : task'[j] = task[j]
          /\ UNCHANGED <<table, config, call>>
      BY <1>2 DEF Poll, FleetInv, TypeOK
    <2>2. task'[i].pc = "version" /\ task'[i].gen = generation[i]
      BY <1>0, <2>1 DEF Tasks
    <2>3. ScanOK(i)'
      BY <2>1, <2>2 DEF ScanOK, FleetInv, TypeOK, config
    <2>4. i \in Followers => FollowOK(i)'
      BY <2>1, <2>2 DEF FollowOK, Booting, FleetInv, table, config
    <2> QED
      BY <1>t, <2>1, <2>3, <2>4, TaskFrame DEF config
  <1>3. CASE ReadVersion(i)
    <2>1. /\ task'[i] = [task[i] EXCEPT !.pc = "compare", !.ver = version]
          /\ \A j \in Instances \ {i} : task'[j] = task[j]
          /\ UNCHANGED <<table, config, call>>
      BY <1>3 DEF ReadVersion, FleetInv, TypeOK
    <2>2. task'[i].pc = "compare" /\ task'[i].gen = task[i].gen /\ task'[i].ver = version
      BY <1>0, <2>1 DEF Tasks
    <2>3. ScanOK(i)'
      BY <1>0, <2>1, <2>2 DEF ScanOK, FleetInv, config, table
    <2>4. i \in Followers => FollowOK(i)'
      BY <1>0, <2>1, <2>2 DEF FollowOK, Booting, FleetInv, table, config
    <2> QED
      BY <1>t, <2>1, <2>3, <2>4, TaskFrame DEF config
  <1>4. CASE Unmoved(i)
    BY <1>4, <1>t, GiveUpKeeps DEF Unmoved
  <1>5. CASE Moved(i)
    <2>1. /\ task'[i] = [task[i] EXCEPT !.pc = "scan", !.unread = Rows]
          /\ \A j \in Instances \ {i} : task'[j] = task[j]
          /\ UNCHANGED <<table, config, call>>
      BY <1>5 DEF Moved, FleetInv, TypeOK
    <2>2. /\ task'[i].pc = "scan" /\ task'[i].gen = task[i].gen
          /\ task'[i].ver = task[i].ver /\ task'[i].unread = Rows
      BY <1>0, <2>1 DEF Tasks
    <2>3. ScanOK(i)'
      BY <1>5, <2>1, <2>2 DEF Moved, ScanOK, FleetInv, config, table
    <2>4. i \in Followers => FollowOK(i)'
      BY <1>5, <2>1, <2>2 DEF Moved, FollowOK, Booting, FleetInv, table, config
    <2> QED
      BY <1>t, <2>1, <2>3, <2>4, TaskFrame DEF config
  <1>6. CASE Confirm(i)
    <2>1. CASE ~ConfirmedVersion(i)
      BY <1>6, <1>t, <2>1, GiveUpKeeps DEF Confirm, config
    <2>2. CASE ConfirmedVersion(i)
      <3>1. /\ task'[i] = [task[i] EXCEPT !.pc = "adopt"]
            /\ \A j \in Instances \ {i} : task'[j] = task[j]
            /\ UNCHANGED <<table, config, call>>
        BY <1>6, <2>2 DEF Confirm, FleetInv, TypeOK
      <3>2. /\ task'[i].pc = "adopt" /\ task'[i].gen = task[i].gen
            /\ task'[i].ver = task[i].ver /\ task'[i].unread = task[i].unread
            /\ task'[i].seen = task[i].seen
        BY <1>0, <3>1 DEF Tasks
      <3>3. task[i].pc = "confirm" /\ task[i].ver = version /\ ScanOK(i)
        BY <1>6, <2>2 DEF Confirm, ConfirmedVersion, FleetInv
      <3>4. task[i].seen = store
        <4>1. \A row \in Rows : task[i].seen[row] = store[row]
          BY <3>3 DEF ScanOK
        <4> QED
          BY <1>0, <4>1 DEF Tasks, FleetInv, TypeOK
      <3>5. ScanOK(i)'
        BY <3>1, <3>2, <3>3, <3>4 DEF ScanOK, FleetInv, StoreOK, config, table
      <3>6. i \in Followers => FollowOK(i)'
        BY <3>1, <3>2, <3>3 DEF FollowOK, Booting, FleetInv, table, config
      <3> QED
        BY <1>t, <3>1, <3>5, <3>6, TaskFrame DEF config
    <2> QED
      BY <2>1, <2>2
  <1>7. ASSUME NEW row \in Rows, ScanRow(i, row) PROVE FleetInv'
    <2>1. /\ task'[i] = [task[i] EXCEPT !.unread = @ \ {row}, !.seen[row] = store[row],
                               !.pc = IF task[i].unread = {row} THEN "confirm" ELSE @]
          /\ \A j \in Instances \ {i} : task'[j] = task[j]
          /\ UNCHANGED <<table, config, call>>
      BY <1>7 DEF ScanRow, FleetInv, TypeOK
    <2>2. /\ task[i].pc = "scan"
          /\ task'[i].pc = (IF task[i].unread = {row} THEN "confirm" ELSE "scan")
          /\ task'[i].gen = task[i].gen /\ task'[i].ver = task[i].ver
          /\ task'[i].unread = task[i].unread \ {row}
          /\ task'[i].seen = [task[i].seen EXCEPT ![row] = store[row]]
      <3>1. task[i].pc = "scan"
        BY <1>7 DEF ScanRow
      <3>2. task'[i].pc = IF task[i].unread = {row} THEN "confirm" ELSE "scan"
        BY <1>0, <2>1, <3>1 DEF Tasks
      <3>3. /\ task'[i].gen = task[i].gen /\ task'[i].ver = task[i].ver
            /\ task'[i].unread = task[i].unread \ {row}
        BY <1>0, <2>1 DEF Tasks
      <3>4. task'[i].seen = [task[i].seen EXCEPT ![row] = store[row]]
        BY <1>0, <2>1 DEF Tasks
      <3> QED
        BY <3>1, <3>2, <3>3, <3>4
    <2>3. /\ task'[i].seen[row] = store[row]
          /\ \A other \in Rows \ {row} : task'[i].seen[other] = task[i].seen[other]
      BY <1>0, <2>2 DEF Tasks
    <2>4. ScanOK(i) /\ OwnOK(i)
      BY DEF FleetInv
    <2>5. ScanOK(i)'
      <3>1. \A other \in Rows \ task'[i].unread :
              other = row \/ other \in Rows \ task[i].unread
        BY <2>2
      <3>2. task'[i].pc = "confirm" => task'[i].unread = {}
        BY <2>2
      <3>3. task'[i].ver = version =>
              \A other \in Rows \ task'[i].unread : task'[i].seen[other] = store[other]
        BY <2>2, <2>3, <2>4, <3>1 DEF ScanOK
      <3>4. task'[i].gen = generation[i] =>
              \A other \in Rows \ task'[i].unread :
                own[i][other] <= task'[i].seen[other].rev
        BY <2>2, <2>3, <2>4, <3>1 DEF ScanOK, OwnOK
      <3> QED
        BY <2>1, <2>2, <2>4, <3>2, <3>3, <3>4 DEF ScanOK, table, config
    <2>6. i \in Followers => FollowOK(i)'
      BY <2>1, <2>2 DEF FollowOK, Booting, FleetInv, table, config
    <2> QED
      BY <1>t, <2>1, <2>5, <2>6, TaskFrame DEF config
  <1>8. CASE Adopt(i)
    <2>1. CASE ~SameGeneration(i)
      BY <1>8, <1>t, <2>1, GiveUpKeeps DEF Adopt
    <2>2. CASE SameGeneration(i)
      <3>1. /\ task'[i] = NoTask
            /\ live'[i] = Merged(i)
            /\ known'[i] = task[i].ver
            /\ \A j \in Instances \ {i} : /\ task'[j] = task[j]
                                         /\ live'[j] = live[j]
                                         /\ known'[j] = known[j]
        BY <1>8, <2>2 DEF Adopt, FleetInv, TypeOK
      <3>2. ScanOK(i)'
        BY <1>8, <3>1 DEF Adopt, ScanOK, NoTask, FleetInv, TypeOK
      <3>3. ASSUME i \in Followers PROVE FollowOK(i)'
        <4>1. /\ task[i].ver \in 0..version
              /\ task[i].seen = past[task[i].ver]
              /\ known[i] \in 0..version /\ known[i] <= task[i].ver
              /\ live[i] = past[known[i]]
          BY <1>0, <1>8, <3>3 DEF Adopt, FleetInv, ScanOK, FollowOK, Tasks
        <4>2. ASSUME NEW row \in Rows PROVE Merged(i)[row] = task[i].seen[row]
          <5>1. task[i].seen[row].rev = 0 => task[i].seen[row] = Absent
            BY <4>1 DEF FleetInv, StoreOK
          <5>2. live[i][row].rev <= task[i].seen[row].rev
            BY <4>1 DEF FleetInv, StoreOK
          <5>3. live[i][row].rev = 0 => live[i][row] = Absent
            BY <4>1 DEF FleetInv, StoreOK
          <5>4. live[i][row].rev \in Nat
            BY DEF FleetInv, TypeOK, Entries
          <5> QED
            BY <5>1, <5>2, <5>3, <5>4 DEF Merged
        <4>3. Merged(i) = task[i].seen
          BY <1>0, <4>2, MergedType DEF Tasks, FleetInv
        <4> QED
          BY <1>8, <3>1, <4>1, <4>3 DEF Adopt, FollowOK, NoTask, Booting, table
      <3> QED
        BY <1>8, <1>t, <3>1, <3>2, <3>3, TaskFrame DEF Adopt
    <2> QED
      BY <2>1, <2>2
  <1>9. CASE RefreshFails(i)
    BY <1>9, <1>t, GiveUpKeeps DEF RefreshFails, config
  <1> QED
    BY <1>1, <1>2, <1>3, <1>4, <1>5, <1>6, <1>7, <1>8, <1>9 DEF Refresh

-----------------------------------------------------------------------------
(* Startup: only instances that are no followers take these steps.         *)

LEMMA StartupKeeps ==
    ASSUME FleetInv, NEW i \in Instances,
           \/ \E row \in Rows : LoadRow(i, row)
           \/ LoadFails(i) \/ NoteVersion(i) \/ NoteFails(i)
    PROVE  FleetInv'
  <1>t. TypeOK'
    BY StartupType DEF FleetInv
  <1>0. task[i] \in Tasks /\ task[i].pc \in Booting
    BY DEF FleetInv, TypeOK, LoadRow, LoadFails, NoteVersion, NoteFails, Booting
  <1>1. i \notin Followers
    BY <1>0 DEF FleetInv, FollowOK
  <1>2. UNCHANGED <<table, call, own, generation>>
    BY DEF LoadRow, LoadFails, NoteVersion, NoteFails, config
  <1>3. \A j \in Instances \ {i} : /\ task'[j] = task[j]
                                  /\ live'[j] = live[j]
                                  /\ known'[j] = known[j]
    BY DEF LoadRow, LoadFails, NoteVersion, NoteFails, LoadedUpTo, config,
           FleetInv, TypeOK
  <1>4. ScanOK(i)'
    <2>1. CASE NoteVersion(i) \/ NoteFails(i)
      <3>1. task'[i] = NoTask
        BY <2>1 DEF NoteVersion, NoteFails, FleetInv, TypeOK
      <3> QED
        BY <1>2, <3>1 DEF ScanOK, NoTask, FleetInv, TypeOK
    <2>2. ASSUME NEW done, LoadedUpTo(i, done) PROVE ScanOK(i)'
      <3>1. task'[i].pc \in Booting /\ task'[i].gen = task[i].gen
        BY <1>0, <2>2 DEF LoadedUpTo, Tasks, Booting, FleetInv, TypeOK
      <3> QED
        BY <1>2, <3>1 DEF ScanOK, Booting, FleetInv
    <2> QED
      BY <2>1, <2>2 DEF LoadRow, LoadFails
  <1> QED
    BY <1>t, <1>1, <1>2, <1>3, <1>4, TaskFrame

LEMMA RestartKeeps ==
    ASSUME FleetInv, NEW i \in Instances, Restart(i)
    PROVE  FleetInv'
  <1>t. TypeOK'
    BY RestartType DEF FleetInv
  <1>1. i \notin Followers
    BY DEF Restart, Followers
  <1>2. /\ UNCHANGED table
        /\ \A j \in Instances \ {i} : /\ task'[j] = task[j]
                                     /\ live'[j] = live[j]
                                     /\ known'[j] = known[j]
                                     /\ own'[j] = own[j]
                                     /\ generation'[j] = generation[j]
    BY DEF Restart, FleetInv, TypeOK
  <1>3. \A h \in Handlers : CallOK(h)'
    <2>1. ASSUME NEW h \in Handlers, HostOf[h] = i PROVE CallOK(h)'
      <3>1. call'[h] = NoCall
        BY <2>1 DEF Restart
      <3> QED
        BY <3>1 DEF CallOK, NoCall
    <2>2. ASSUME NEW h \in Handlers, HostOf[h] # i PROVE CallOK(h)'
      <3>1. call'[h] = call[h]
        BY <2>2 DEF Restart
      <3> QED
        BY <1>2, <3>1, Frames
    <2> QED
      BY <2>1, <2>2
  <1>4. OwnOK(i)'
    <2>1. own'[i] = [row \in Rows |-> 0]
      BY DEF Restart, FleetInv, TypeOK
    <2>2. \A row \in Rows : store'[row].rev \in Nat
      BY <1>t DEF TypeOK, Entries
    <2> QED
      BY <2>1, <2>2 DEF OwnOK
  <1>5. ScanOK(i)'
    <2>1. /\ task'[i] = [NoTask EXCEPT !.pc = "loading", !.unread = Rows]
          /\ generation'[i] = 0
      BY DEF Restart, FleetInv, TypeOK
    <2>2. task'[i].pc = "loading" /\ task'[i].gen = 0
      BY <2>1 DEF NoTask
    <2> QED
      BY <2>1, <2>2 DEF ScanOK
  <1>6. \A j \in Instances : OwnOK(j)' /\ ScanOK(j)'
    BY <1>2, <1>4, <1>5, Frames
  <1>7. \A j \in Followers : FollowOK(j)'
    BY <1>1, <1>2, Frames DEF Followers
  <1> QED
    BY <1>t, <1>2, <1>3, <1>6, <1>7, Frames DEF FleetInv

-----------------------------------------------------------------------------
(* The handlers                                                            *)

\* A step that only moves a call on.
LEMMA CallFrame ==
    ASSUME FleetInv, NEW h \in Handlers, TypeOK',
           UNCHANGED <<table, own, generation, task, known>>,
           \A i \in Followers : live'[i] = live[i],
           \A g \in Handlers \ {h} : call'[g] = call[g],
           CallOK(h)'
    PROVE  FleetInv'
  BY Frames DEF FleetInv, Followers

LEMMA HandlerKeeps ==
    ASSUME FleetInv, NEW h \in Handlers,
           \/ \E row \in Rows, limit \in Limits \cup {NoLimit} : BeginWrite(h, row, limit)
           \/ \E row \in Rows : BeginFetch(h, row)
           \/ SaveConflict(h) \/ Fetch(h) \/ Install(h) \/ CallFails(h)
    PROVE  FleetInv'
  <1>t. TypeOK'
    BY HandlerType DEF FleetInv, Serve
  <1>0. call[h] \in Calls /\ HostOf[h] \in Instances \ Followers
    BY ConfigAssumption DEF FleetInv, TypeOK, Followers
  <1>1. UNCHANGED <<table, own, generation, task, known>>
    BY DEF BeginWrite, BeginFetch, SaveConflict, Fetch, Install, CallFails, config
  <1>2. \A i \in Followers : live'[i] = live[i]
    BY <1>0 DEF BeginWrite, BeginFetch, SaveConflict, Fetch, Install, CallFails, config,
                Followers, FleetInv, TypeOK
  <1>3. \A g \in Handlers \ {h} : call'[g] = call[g]
    BY DEF BeginWrite, BeginFetch, SaveConflict, Fetch, Install, CallFails, FleetInv, TypeOK
  <1>4. CallOK(h)'
    <2>1. ASSUME NEW row \in Rows, NEW limit \in Limits \cup {NoLimit},
                 BeginWrite(h, row, limit)
          PROVE  CallOK(h)'
      <3>1. PICK base \in Expected(h, row) :
              call' = [call EXCEPT ![h] =
                         [NoCall EXCEPT !.pc = "save", !.row = row, !.base = base,
                                        !.entry = [rev |-> base + 1, limit |-> limit]]]
        BY <2>1 DEF BeginWrite
      <3>2. call'[h] = [NoCall EXCEPT !.pc = "save", !.row = row, !.base = base,
                                      !.entry = [rev |-> base + 1, limit |-> limit]]
        BY <3>1 DEF FleetInv, TypeOK
      <3>3. call'[h].pc = "save" /\ call'[h].base = base /\ call'[h].entry.rev = base + 1
        BY <3>2 DEF NoCall
      <3> QED
        BY <3>3 DEF CallOK
    <2>2. ASSUME call'[h].pc \notin {"save", "publish"} PROVE CallOK(h)'
      BY <2>2 DEF CallOK
    <2>3. ASSUME NEW row \in Rows, BeginFetch(h, row) PROVE call'[h].pc = "fetch"
      <3>1. PICK miss \in BOOLEAN :
              call' = [call EXCEPT ![h] = [NoCall EXCEPT !.pc = "fetch", !.row = row,
                                                         !.miss = miss]]
        BY <2>3 DEF BeginFetch
      <3> QED
        BY <3>1 DEF NoCall, FleetInv, TypeOK
    <2>4. CASE SaveConflict(h)
      BY <2>2, <2>4 DEF SaveConflict, NoCall, FleetInv, TypeOK
    <2>5. CASE Fetch(h)
      BY <1>0, <2>2, <2>5 DEF Fetch, Calls, FleetInv, TypeOK
    <2>6. CASE Install(h) \/ CallFails(h)
      BY <2>2, <2>6 DEF Install, CallFails, NoCall, FleetInv, TypeOK
    <2> QED
      BY <2>1, <2>2, <2>3, <2>4, <2>5, <2>6
  <1> QED
    BY <1>t, <1>1, <1>2, <1>3, <1>4, CallFrame

\* The store gets its next version.  A refresh that has read an earlier one is told
\* apart by the version; one that is confirmed keeps the rows of its version.
LEMMA SaveKeeps ==
    ASSUME FleetInv, NEW h \in Handlers, Save(h)
    PROVE  FleetInv'
  <1> DEFINE row == call[h].row
             next == version + 1
  <1>t. TypeOK'
    BY HandlerType DEF FleetInv, Serve
  <1>0. /\ version \in Nat /\ next \in 0..MaxVersion
        /\ call[h] \in Calls /\ row \in Rows /\ call[h].base \in Nat
    BY ConfigAssumption DEF Save, FleetInv, TypeOK, Calls
  <1>1. /\ UNCHANGED config /\ UNCHANGED task
        /\ version' = next
        /\ past'[next] = store'
        /\ \A v \in 0..version : past'[v] = past[v]
    BY <1>0 DEF Save, FleetInv, TypeOK
  <1>2. \A r \in Rows : store[r].rev \in Nat
    BY DEF FleetInv, TypeOK, Entries
  <1>3. call[h].entry.rev = store[row].rev + 1
    BY DEF Save, FleetInv, CallOK
  <1>4. /\ store'[row] = call[h].entry
        /\ \A r \in Rows \ {row} : store'[r] = store[r]
    BY <1>0 DEF Save, FleetInv, TypeOK
  <1>5. \A r \in Rows : store[r].rev <= store'[r].rev
    BY <1>2, <1>3, <1>4
  <1>6. StoreOK'
    <2>1. \A v \in 0..version : \A r \in Rows : past[v][r].rev <= store[r].rev
      BY <1>0 DEF FleetInv, StoreOK
    <2>2. \A v \in 0..next : v = next \/ v \in 0..version
      BY <1>0
    <2>3. ASSUME NEW v \in 0..next, NEW w \in 0..next, NEW r \in Rows, v <= w
          PROVE  past'[v][r].rev <= past'[w][r].rev
      <3>1. CASE w \in 0..version
        <4>1. v \in 0..version
          BY <1>0, <2>3, <3>1
        <4> QED
          BY <1>1, <2>3, <3>1, <4>1 DEF FleetInv, StoreOK
      <3>2. CASE w = next /\ v \in 0..version
        <4>0. v \in 0..MaxVersion
          BY <1>0, <3>2, ConfigAssumption
        <4>1. past[v][r].rev \in Nat /\ store'[r].rev \in Nat
          BY <1>t, <4>0 DEF FleetInv, TypeOK, Entries
        <4> QED
          BY <1>1, <1>2, <1>5, <2>1, <3>2, <4>1
      <3>3. CASE w = next /\ v = next
        <4>1. store'[r].rev \in Nat
          BY <1>t DEF TypeOK, Entries
        <4> QED
          BY <1>1, <3>3, <4>1
      <3> QED
        BY <2>2, <3>1, <3>2, <3>3
    <2>4. ASSUME NEW v \in 0..next, NEW r \in Rows, past'[v][r].rev = 0
          PROVE  past'[v][r] = Absent
      <3>1. CASE v \in 0..version
        BY <1>1, <2>4, <3>1 DEF FleetInv, StoreOK
      <3>2. CASE v = next
        <4>1. r # row
          BY <1>0, <1>1, <1>2, <1>3, <1>4, <2>4, <3>2
        <4>2. past'[v][r] = store[r] /\ store[r].rev = 0
          BY <1>1, <1>4, <2>4, <3>2, <4>1
        <4>3. past[version][r] = store[r] /\ version \in 0..version
          BY <1>0 DEF FleetInv, StoreOK
        <4> QED
          BY <4>2, <4>3 DEF FleetInv, StoreOK
      <3> QED
        BY <2>2, <3>1, <3>2
    <2> QED
      BY <1>1, <2>3, <2>4 DEF StoreOK
  <1>7. ASSUME NEW g \in Handlers PROVE CallOK(g)'
    <2>1. CASE g # h
      <3>1. call'[g] = call[g]
        BY <2>1 DEF Save, FleetInv, TypeOK
      <3>2. call[g].row \in Rows /\ call[g].entry.rev \in Nat /\ store'[call[g].row].rev \in Nat
        BY <1>t DEF FleetInv, TypeOK, Calls, Entries
      <3> QED
        BY <1>2, <1>5, <3>1, <3>2 DEF FleetInv, CallOK
    <2>2. CASE g = h
      <3>1. CASE call' = [call EXCEPT ![h] = NoCall]
        BY <2>2, <3>1 DEF CallOK, NoCall, FleetInv, TypeOK
      <3>2. CASE call' = [call EXCEPT ![h].pc = "publish"]
        <4>1. /\ call'[h].row = row /\ call'[h].entry = call[h].entry
              /\ call'[h].base = call[h].base
          BY <1>0, <3>2 DEF Calls, FleetInv, TypeOK
        <4>2. call[h].entry.rev \in Nat
          BY <1>0 DEF Calls, Entries
        <4> QED
          BY <1>4, <2>2, <4>1, <4>2 DEF CallOK, FleetInv, Save
      <3> QED
        BY <3>1, <3>2 DEF Save
    <2> QED
      BY <2>1, <2>2
  <1>8. ASSUME NEW i \in Instances PROVE OwnOK(i)'
    <2>1. \A r \in Rows : own[i][r] \in Nat /\ store'[r].rev \in Nat
      BY <1>t DEF FleetInv, TypeOK, Entries
    <2> QED
      BY <1>1, <1>2, <1>5, <2>1 DEF FleetInv, OwnOK, config
  <1>9. ASSUME NEW i \in Instances PROVE ScanOK(i)'
    <2>1. task[i] \in Tasks /\ ScanOK(i)
      BY DEF FleetInv, TypeOK
    <2>2. task[i].ver \in Nat
      BY <2>1 DEF Tasks
    <2>3. task[i].pc \in {"compare", "scan", "confirm", "adopt"} =>
            task[i].ver \in 0..version /\ task[i].ver <= next /\ task[i].ver # next
      BY <1>0, <2>1, <2>2 DEF ScanOK
    <2> QED
      BY <1>1, <2>1, <2>3 DEF ScanOK, config
  <1>10. ASSUME NEW i \in Followers PROVE FollowOK(i)'
    <2>1. FollowOK(i) /\ known[i] \in 0..next
      BY <1>0 DEF FleetInv, FollowOK
    <2> QED
      BY <1>1, <2>1 DEF FollowOK, config
  <1> QED
    BY <1>t, <1>6, <1>7, <1>8, <1>9, <1>10 DEF FleetInv

\* A published write makes a new generation, which is what a refresh under way
\* will notice.
LEMMA PublishKeeps ==
    ASSUME FleetInv, NEW h \in Handlers, Publish(h)
    PROVE  FleetInv'
  <1> DEFINE i == HostOf[h]
             row == call[h].row
  <1>t. TypeOK'
    BY HandlerType DEF FleetInv, Serve
  <1>0. call[h] \in Calls /\ row \in Rows /\ i \in Instances \ Followers
    BY ConfigAssumption DEF FleetInv, TypeOK, Calls, Followers
  <1>1. UNCHANGED <<table, known, task>>
    BY DEF Publish
  <1>2. \A j \in Instances \ {i} : /\ own'[j] = own[j]
                                  /\ generation'[j] = generation[j]
                                  /\ live'[j] = live[j]
    BY DEF Publish, FleetInv, TypeOK
  <1>3. \A g \in Handlers : CallOK(g)'
    <2>1. \A g \in Handlers : call'[g] = IF g = h THEN NoCall ELSE call[g]
      BY DEF Publish, FleetInv, TypeOK
    <2>2. CallOK(h)'
      BY <2>1 DEF CallOK, NoCall
    <2> QED
      BY <1>1, <2>1, <2>2, Frames
  <1>4. OwnOK(i)'
    <2>1. /\ own'[i][row] = call[h].entry.rev
          /\ \A r \in Rows \ {row} : own'[i][r] = own[i][r]
      BY <1>0 DEF Publish, FleetInv, TypeOK
    <2>2. call[h].entry.rev <= store[row].rev
      BY DEF Publish, FleetInv, CallOK
    <2> QED
      BY <1>0, <1>1, <2>1, <2>2 DEF FleetInv, OwnOK, table
  <1>5. ScanOK(i)'
    <2>1. /\ generation'[i] = generation[i] + 1
          /\ generation[i] \in Nat /\ task[i].gen \in Nat /\ ScanOK(i)
      BY <1>0 DEF Publish, FleetInv, TypeOK, Tasks
    <2>2. task[i].gen <= generation'[i] /\ task[i].gen # generation'[i]
      BY <2>1 DEF ScanOK
    <2> QED
      BY <1>1, <2>1, <2>2 DEF ScanOK, table
  <1>6. \A j \in Instances : OwnOK(j)' /\ ScanOK(j)'
    BY <1>1, <1>2, <1>4, <1>5, Frames
  <1>7. \A j \in Followers : FollowOK(j)'
    BY <1>0, <1>1, <1>2, Frames DEF Followers
  <1> QED
    BY <1>t, <1>1, <1>3, <1>6, <1>7, Frames DEF FleetInv

-----------------------------------------------------------------------------
(* The theorems                                                            *)

LEMMA StepInv == FleetInv /\ [Next]_vars => FleetInv'
  <1> SUFFICES ASSUME FleetInv, [Next]_vars PROVE FleetInv'
    OBVIOUS
  <1>1. ASSUME NEW i \in Instances,
               \/ Boot(i) \/ Refresh(i) \/ Expire(i) \/ Restart(i)
               \/ LoadFails(i) \/ NoteFails(i) \/ RefreshFails(i)
        PROVE  FleetInv'
    BY <1>1, RestartKeeps, StartupKeeps, RefreshKeeps DEF Boot
  <1>2. ASSUME NEW h \in Handlers,
               \/ \E row \in Rows, limit \in Limits \cup {NoLimit} :
                    BeginWrite(h, row, limit)
               \/ \E row \in Rows : BeginFetch(h, row)
               \/ Serve(h) \/ CallFails(h)
        PROVE  FleetInv'
    BY <1>2, HandlerKeeps, SaveKeeps, PublishKeeps DEF Serve
  <1>3. ASSUME NEW i \in Instances, NEW p \in Projects, Request(i, p) PROVE FleetInv'
    <2>1. TypeOK'
      <3>1. live[i][p].limit \in Nat
        BY LimitsAreNaturals, RowKinds DEF FleetInv, TypeOK, Entries
      <3> QED
        BY <1>3, <3>1 DEF Request, FleetInv, TypeOK, table
    <2> QED
      BY <1>3, <2>1, Frames DEF Request, FleetInv, Followers
  <1>4. CASE OutageEnds
    <2>1. TypeOK'
      BY <1>4 DEF OutageEnds, FleetInv, TypeOK, table, config
    <2> QED
      BY <1>4, <2>1, Frames DEF OutageEnds, config, FleetInv, Followers
  <1>5. CASE UNCHANGED vars
    <2>1. TypeOK'
      BY <1>5 DEF vars, table, config, FleetInv, TypeOK
    <2> QED
      BY <1>5, <2>1, Frames DEF vars, config, FleetInv, Followers
  <1> QED
    BY <1>1, <1>2, <1>3, <1>4, <1>5 DEF Next

LEMMA Invariant == Spec => []FleetInv
  BY InitInv, StepInv, PTL DEF Spec

\* An instance that only follows always enforces a configuration that existed: the
\* rows of the version it acknowledges, although it reads them one by one.
THEOREM FollowersReal == Spec => []ConfigReal
  <1>1. FleetInv => ConfigReal
    <2> SUFFICES ASSUME FleetInv, NEW i \in Followers
                 PROVE  known[i] # Unknown /\ live[i] = past[known[i]]
      BY DEF ConfigReal
    <2>1. FollowOK(i)
      BY DEF FleetInv
    <2> QED
      BY <2>1 DEF FollowOK, Unknown
  <1> QED
    BY <1>1, Invariant, PTL

\* The step that ends a refresh changes a row of its instance only for a revision
\* at least as new as the last one the instance has committed.
THEOREM OwnWritesSafe == Spec => OwnWritesKept
  <1> DEFINE Kept ==
        \A i \in Instances, row \in Rows :
          (task[i].pc = "adopt" /\ task'[i].pc = "idle" /\ live'[i][row] # live[i][row])
              => live'[i][row].rev >= own[i][row]
  <1>1. FleetInv /\ [Next]_vars => [Kept]_vars
    <2> SUFFICES ASSUME FleetInv, Next, NEW i \in Instances, NEW row \in Rows,
                        task[i].pc = "adopt", task'[i].pc = "idle",
                        live'[i][row] # live[i][row]
                 PROVE  live'[i][row].rev >= own[i][row]
      OBVIOUS
    <2>0. task[i] \in Tasks
      BY DEF FleetInv, TypeOK
    <2>1. ASSUME NEW j \in Instances, \/ Boot(j) \/ Refresh(j) \/ Expire(j) \/ Restart(j)
                                      \/ LoadFails(j) \/ NoteFails(j) \/ RefreshFails(j)
          PROVE  Adopt(i)
      <3>1. j = i
        BY <2>1 DEF Boot, Refresh, Expire, Restart, LoadFails, NoteFails, RefreshFails,
                    LoadRow, NoteVersion, LoadedUpTo, Poll, ReadVersion, Unmoved, Moved,
                    ScanRow, Confirm, Adopt, FleetInv, TypeOK
      <3>2. ~Restart(i)
        <4>1. Restart(i) => task'[i] = [NoTask EXCEPT !.pc = "loading", !.unread = Rows]
          BY DEF Restart, FleetInv, TypeOK
        <4>2. [NoTask EXCEPT !.pc = "loading", !.unread = Rows].pc = "loading"
          BY DEF NoTask
        <4> QED
          BY <4>1, <4>2
      <3>3. ~Expire(i)
        BY DEF Expire
      <3> QED
        BY <2>1, <3>1, <3>2, <3>3
           DEF Boot, Refresh, LoadFails, NoteFails, RefreshFails, LoadRow, NoteVersion,
               Poll, ReadVersion, Unmoved, Moved, ScanRow, Confirm
    <2>2. ASSUME NEW h \in Handlers,
                 \/ \E r \in Rows, limit \in Limits \cup {NoLimit} : BeginWrite(h, r, limit)
                 \/ \E r \in Rows : BeginFetch(h, r)
                 \/ Serve(h) \/ CallFails(h)
          PROVE  FALSE
      BY <2>2 DEF BeginWrite, BeginFetch, Serve, CallFails, Save, SaveConflict, Publish,
                  Fetch, Install
    <2>3. ASSUME NEW j \in Instances, NEW p \in Projects, Request(j, p) PROVE FALSE
      BY <2>3 DEF Request
    <2>4. ~OutageEnds
      BY DEF OutageEnds
    <2>5. Adopt(i)
      BY <2>1, <2>2, <2>3, <2>4 DEF Next
    <2>6. SameGeneration(i)
      BY <2>5 DEF Adopt
    <2>7. live'[i][row] = task[i].seen[row]
      <3>1. live'[i] = Merged(i)
        BY <2>5, <2>6 DEF Adopt, FleetInv, TypeOK
      <3> QED
        BY <3>1 DEF Merged
    <2>8. own[i][row] <= task[i].seen[row].rev
      BY <2>6 DEF SameGeneration, FleetInv, ScanOK
    <2>9. own[i][row] \in Nat /\ task[i].seen[row].rev \in Nat
      BY <2>0 DEF FleetInv, TypeOK, Tasks, Entries
    <2> QED
      BY <2>7, <2>8, <2>9
  <1>2. Spec => [][Kept]_vars
    BY <1>1, Invariant, PTL DEF Spec
  <1> QED
    BY <1>2 DEF OwnWritesKept

-----------------------------------------------------------------------------
(* What an acknowledged version is worth                                   *)

\* Each row is written by the requests of one operator, one after the other.  With
\* two, the answer of the earlier write may be published after the later one's.
SoleWriters ==
    \A g \in Handlers, h \in Handlers : g # h => RowsOf[g] \cap RowsOf[h] = {}

\* Instances that stay up: a startup notes a version it has not read all rows of.
Steady == Instances \ Late

\* A call holds a row of its own, and what it is about to publish is the stored row.
WriterOK(h) ==
    /\ call[h].pc # "idle" => call[h].row \in RowsOf[h]
    /\ call[h].pc \in {"publish", "install"} => call[h].entry = store[call[h].row]

\* An instance is never ahead of the store, and at the version it knows it has all
\* of it.
AdoptedOK(i) ==
    /\ task[i].pc \notin Booting
    /\ known[i] \in 0..version
    /\ \A row \in Rows : /\ live[i][row].rev <= store[row].rev
                         /\ live[i][row].rev = 0 => live[i][row] = Absent
    /\ known[i] = version => live[i] = store

AdoptedInv ==
    /\ \A h \in Handlers : WriterOK(h)
    /\ \A i \in Steady : AdoptedOK(i)

LEMMA AdoptedInit == Init => AdoptedInv
  <1> SUFFICES ASSUME Init PROVE AdoptedInv
    OBVIOUS
  <1>1. \A h \in Handlers : WriterOK(h)
    BY DEF Init, WriterOK, NoCall
  <1>2. \A i \in Steady : AdoptedOK(i)
    BY DEF Init, AdoptedOK, Steady, NoTask, Booting, Empty, Absent
  <1> QED
    BY <1>1, <1>2 DEF AdoptedInv

\* What a step does not touch keeps its part.
LEMMA AdoptedFrames ==
    ASSUME AdoptedInv, UNCHANGED table
    PROVE  /\ \A h \in Handlers : call'[h] = call[h] => WriterOK(h)'
           /\ \A h \in Handlers : call'[h] = NoCall => WriterOK(h)'
           /\ \A i \in Steady :
                (/\ task'[i].pc \notin Booting
                 /\ live'[i] = live[i]
                 /\ known'[i] = known[i]) => AdoptedOK(i)'
  <1>1. ASSUME NEW h \in Handlers, call'[h] = call[h] PROVE WriterOK(h)'
    BY <1>1 DEF AdoptedInv, WriterOK, table
  <1>2. ASSUME NEW h \in Handlers, call'[h] = NoCall PROVE WriterOK(h)'
    BY <1>2 DEF WriterOK, NoCall
  <1>3. ASSUME NEW i \in Steady, task'[i].pc \notin Booting, live'[i] = live[i],
               known'[i] = known[i]
        PROVE  AdoptedOK(i)'
    BY <1>3 DEF AdoptedInv, AdoptedOK, table
  <1> QED
    BY <1>1, <1>2, <1>3

\* The tasks of an instance: only a refresh that is adopted changes its rows.
LEMMA TaskAdopted ==
    ASSUME FleetInv, AdoptedInv, NEW i \in Instances,
           \/ Boot(i) \/ Refresh(i) \/ Expire(i)
           \/ LoadFails(i) \/ NoteFails(i) \/ RefreshFails(i)
    PROVE  AdoptedInv'
  <1>1. UNCHANGED <<table, call>>
    BY DEF Boot, Refresh, Expire, LoadFails, NoteFails, RefreshFails, LoadRow, NoteVersion,
           Poll, ReadVersion, Unmoved, Moved, ScanRow, Confirm, Adopt, config
  <1>2. \A j \in Instances \ {i} : /\ task'[j] = task[j]
                                  /\ live'[j] = live[j]
                                  /\ known'[j] = known[j]
    BY DEF Boot, Refresh, Expire, LoadFails, NoteFails, RefreshFails, LoadRow, NoteVersion,
           LoadedUpTo, Poll, ReadVersion, Unmoved, Moved, ScanRow, Confirm, Adopt, config,
           FleetInv, TypeOK
  <1>3. \A j \in Steady : task[j].pc \notin Booting
    BY DEF AdoptedInv, AdoptedOK
  <1>4. \A j \in Steady \ {i} : AdoptedOK(j)'
    BY <1>1, <1>2, <1>3, AdoptedFrames DEF Steady
  <1>5. ASSUME i \in Steady PROVE AdoptedOK(i)'
    <2>0. /\ task[i].pc \notin Booting /\ task[i] \in Tasks
          /\ ~Boot(i) /\ ~LoadFails(i) /\ ~NoteFails(i)
      BY <1>3, <1>5 DEF Boot, LoadRow, NoteVersion, LoadFails, NoteFails, Booting,
                        FleetInv, TypeOK
    <2>1. CASE Adopt(i) /\ SameGeneration(i)
      <3>1. /\ task'[i] = NoTask
            /\ live'[i] = Merged(i)
            /\ known'[i] = task[i].ver
        BY <2>1 DEF Adopt, FleetInv, TypeOK
      <3>2. /\ task[i].ver \in 0..version
            /\ task[i].seen = past[task[i].ver]
            /\ past[version] = store
            /\ version \in 0..version
        <4>1. task[i].pc = "adopt" /\ task[i].ver \in Nat /\ ScanOK(i) /\ StoreOK
          BY <2>0, <2>1 DEF Adopt, FleetInv, Tasks
        <4>2. version \in Nat
          BY ConfigAssumption DEF FleetInv, TypeOK
        <4> QED
          BY <4>1, <4>2 DEF ScanOK, StoreOK
      <3>3. ASSUME NEW row \in Rows
            PROVE  /\ Merged(i)[row].rev <= store[row].rev
                   /\ Merged(i)[row].rev = 0 => Merged(i)[row] = Absent
                   /\ task[i].ver = version => Merged(i)[row] = store[row]
        <4>1. task[i].seen[row].rev <= store[row].rev
          BY <3>2 DEF FleetInv, StoreOK
        <4>2. task[i].seen[row].rev = 0 => task[i].seen[row] = Absent
          BY <3>2 DEF FleetInv, StoreOK
        <4>3. /\ live[i][row].rev <= store[row].rev
              /\ live[i][row].rev = 0 => live[i][row] = Absent
          BY <1>5 DEF AdoptedInv, AdoptedOK
        <4>4. live[i][row].rev \in Nat /\ store[row].rev \in Nat
          BY DEF FleetInv, TypeOK, Entries
        <4>5. task[i].ver = version => task[i].seen[row] = store[row]
          BY <3>2
        <4>6. CASE task[i].seen[row].rev = 0
          <5>1. Merged(i)[row] = live[i][row]
            BY <4>6 DEF Merged
          <5> QED
            BY <4>2, <4>3, <4>4, <4>5, <4>6, <5>1
        <4>7. CASE task[i].seen[row].rev # 0
          <5>1. Merged(i)[row] = task[i].seen[row]
            BY <4>7 DEF Merged
          <5> QED
            BY <4>1, <4>5, <4>7, <5>1
        <4> QED
          BY <4>6, <4>7
      <3>4. task[i].ver = version => Merged(i) = store
        BY <3>3, MergedType DEF FleetInv, TypeOK
      <3> QED
        BY <1>1, <3>1, <3>2, <3>3, <3>4 DEF AdoptedOK, NoTask, Booting, table
    <2>2. CASE ~(Adopt(i) /\ SameGeneration(i))
      <3>1. live'[i] = live[i] /\ known'[i] = known[i]
        BY <2>0, <2>2 DEF Refresh, Expire, RefreshFails, Poll, ReadVersion, Unmoved, Moved,
                          ScanRow, Confirm, Adopt, config
      <3>2. task'[i].pc \notin Booting
        <4>1. CASE Expire(i)
          BY <2>0, <4>1 DEF Expire
        <4>2. CASE Poll(i) \/ ReadVersion(i) \/ Moved(i) \/ Confirm(i)
          BY <2>0, <4>2 DEF Poll, ReadVersion, Moved, Confirm, Tasks, NoTask, Booting,
                            FleetInv, TypeOK
        <4>3. CASE Unmoved(i) \/ Adopt(i) \/ RefreshFails(i)
          BY <4>3 DEF Unmoved, Adopt, RefreshFails, NoTask, Booting, FleetInv, TypeOK
        <4>4. ASSUME NEW row \in Rows, ScanRow(i, row) PROVE task'[i].pc \notin Booting
          <5>1. task'[i].pc = IF task[i].unread = {row} THEN "confirm" ELSE task[i].pc
            BY <2>0, <4>4 DEF ScanRow, Tasks, FleetInv, TypeOK
          <5> QED
            BY <2>0, <5>1 DEF Booting
        <4> QED
          BY <2>0, <4>1, <4>2, <4>3, <4>4 DEF Refresh
      <3> QED
        BY <1>1, <1>5, <3>1, <3>2, AdoptedFrames
    <2> QED
      BY <2>1, <2>2
  <1>6. \A h \in Handlers : WriterOK(h)'
    BY <1>1, AdoptedFrames
  <1> QED
    BY <1>4, <1>5, <1>6 DEF AdoptedInv

LEMMA RestartAdopted ==
    ASSUME FleetInv, AdoptedInv, NEW i \in Instances, Restart(i)
    PROVE  AdoptedInv'
  <1>1. UNCHANGED table /\ i \notin Steady
    BY DEF Restart, Steady
  <1>2. \A j \in Steady : /\ task'[j] = task[j]
                          /\ live'[j] = live[j]
                          /\ known'[j] = known[j]
    BY <1>1 DEF Restart, FleetInv, TypeOK, Steady
  <1>3. \A h \in Handlers : call'[h] = NoCall \/ call'[h] = call[h]
    BY DEF Restart
  <1>4. \A j \in Steady : task[j].pc \notin Booting
    BY DEF AdoptedInv, AdoptedOK
  <1> QED
    BY <1>1, <1>2, <1>3, <1>4, AdoptedFrames DEF AdoptedInv

\* The requests: what is published or installed is the stored row, since nobody
\* else writes it meanwhile.
LEMMA ServeAdopted ==
    ASSUME SoleWriters, FleetInv, AdoptedInv, NEW h \in Handlers,
           \/ \E row \in Rows, limit \in Limits \cup {NoLimit} : BeginWrite(h, row, limit)
           \/ \E row \in Rows : BeginFetch(h, row)
           \/ Serve(h) \/ CallFails(h)
    PROVE  AdoptedInv'
  <1>0. /\ call[h] \in Calls /\ call[h].row \in Rows /\ HostOf[h] \in Instances
        /\ WriterOK(h)
    BY ConfigAssumption DEF FleetInv, TypeOK, Calls, AdoptedInv
  <1>1. UNCHANGED <<task, known>>
    BY DEF BeginWrite, BeginFetch, Serve, CallFails, Save, SaveConflict, Publish, Fetch,
           Install, config
  <1>2. \A g \in Handlers \ {h} : call'[g] = call[g]
    BY DEF BeginWrite, BeginFetch, Serve, CallFails, Save, SaveConflict, Publish, Fetch,
           Install, FleetInv, TypeOK
  <1>3. \A i \in Steady : task'[i].pc \notin Booting
    BY <1>1 DEF AdoptedInv, AdoptedOK
  <1>4. CASE Save(h)
    <2> DEFINE row == call[h].row
    <2>1. /\ version \in Nat /\ version' = version + 1
          /\ UNCHANGED config
          /\ row \in RowsOf[h]
          /\ store'[row] = call[h].entry
          /\ \A r \in Rows \ {row} : store'[r] = store[r]
      BY <1>0, <1>4, ConfigAssumption DEF Save, FleetInv, TypeOK, WriterOK
    <2>2. store[row].rev <= store'[row].rev
      <3>1. call[h].entry.rev = store[row].rev + 1 /\ store[row].rev \in Nat
        BY <1>0, <1>4 DEF Save, FleetInv, CallOK, TypeOK, Entries
      <3> QED
        BY <2>1, <3>1
    <2>3. ASSUME NEW g \in Handlers \ {h} PROVE WriterOK(g)'
      <3>1. call[g].pc # "idle" => call[g].row \in RowsOf[g] /\ call[g].row # row
        BY <2>1 DEF AdoptedInv, WriterOK, SoleWriters
      <3>2. call[g].row \in Rows
        BY DEF FleetInv, TypeOK, Calls
      <3> QED
        BY <1>2, <2>1, <3>1, <3>2 DEF AdoptedInv, WriterOK
    <2>4. WriterOK(h)'
      <3>1. CASE call' = [call EXCEPT ![h] = NoCall]
        BY <3>1 DEF WriterOK, NoCall, FleetInv, TypeOK
      <3>2. CASE call' = [call EXCEPT ![h].pc = "publish"]
        <4>1. call'[h].row = row /\ call'[h].entry = call[h].entry
          BY <1>0, <3>2 DEF Calls, FleetInv, TypeOK
        <4> QED
          BY <2>1, <4>1 DEF WriterOK
      <3> QED
        BY <1>4, <3>1, <3>2 DEF Save
    <2>5. ASSUME NEW i \in Steady PROVE AdoptedOK(i)'
      <3>1. AdoptedOK(i) /\ live'[i] = live[i] /\ known'[i] = known[i]
        BY <2>1 DEF AdoptedInv, config
      <3>2. known[i] \in 0..version' /\ known[i] # version'
        BY <2>1, <3>1 DEF AdoptedOK
      <3>3. ASSUME NEW r \in Rows PROVE live[i][r].rev <= store'[r].rev
        <4>1. live[i][r].rev \in Nat /\ store[r].rev \in Nat /\ store'[r].rev \in Nat
          <5>1. TypeOK'
            BY <1>4, HandlerType DEF FleetInv, Serve
          <5> QED
            BY <5>1 DEF FleetInv, TypeOK, Entries, Steady
        <4>2. live[i][r].rev <= store[r].rev
          BY <3>1 DEF AdoptedOK
        <4>3. store[r].rev <= store'[r].rev
          BY <2>1, <2>2, <4>1
        <4> QED
          BY <4>1, <4>2, <4>3
      <3> QED
        BY <1>1, <3>1, <3>2, <3>3 DEF AdoptedOK
    <2> QED
      BY <2>3, <2>4, <2>5 DEF AdoptedInv
  <1>5. CASE Publish(h) \/ Install(h)
    <2> DEFINE host == HostOf[h]
               row == call[h].row
    <2>1. /\ UNCHANGED table
          /\ call'[h] = NoCall
          /\ call[h].entry = store[row]
          /\ \A i \in Instances \ {host} : live'[i] = live[i]
          /\ \/ live'[host] = live[host]
             \/ live'[host] = [live[host] EXCEPT ![row] = store[row]]
      <3>1. call[h].entry = store[row]
        BY <1>0, <1>5 DEF Publish, Install, WriterOK
      <3>2. CASE Publish(h)
        BY <1>0, <3>1, <3>2 DEF Publish, FleetInv, TypeOK
      <3>3. CASE Install(h)
        BY <1>0, <3>1, <3>3 DEF Install, FleetInv, TypeOK
      <3> QED
        BY <1>5, <3>1, <3>2, <3>3
    <2>2. \A i \in Steady \ {host} : AdoptedOK(i)'
      BY <1>1, <1>3, <2>1, AdoptedFrames DEF Steady
    <2>3. ASSUME host \in Steady PROVE AdoptedOK(host)'
      <3>1. CASE live'[host] = live[host]
        BY <1>1, <1>3, <2>1, <2>3, <3>1, AdoptedFrames
      <3>2. CASE live'[host] = [live[host] EXCEPT ![row] = store[row]]
        <4>1. /\ live'[host][row] = store[row]
              /\ \A r \in Rows \ {row} : live'[host][r] = live[host][r]
          BY <1>0, <3>2 DEF FleetInv, TypeOK
        <4>2. store[row].rev \in Nat /\ (store[row].rev = 0 => store[row] = Absent)
          <5>1. past[version] = store /\ version \in 0..version
            BY ConfigAssumption DEF FleetInv, TypeOK, StoreOK
          <5> QED
            BY <1>0, <5>1 DEF FleetInv, TypeOK, StoreOK, Entries
        <4>3. AdoptedOK(host)
          BY <2>3 DEF AdoptedInv
        <4>4. known[host] = version => live'[host] = store
          BY <1>0, <3>2, <4>3 DEF AdoptedOK, FleetInv, TypeOK
        <4> QED
          BY <1>1, <1>3, <2>1, <2>3, <4>1, <4>2, <4>3, <4>4 DEF AdoptedOK, table
      <3> QED
        BY <2>1, <3>1, <3>2
    <2>4. \A g \in Handlers : WriterOK(g)'
      BY <1>2, <2>1, AdoptedFrames
    <2> QED
      BY <2>2, <2>3, <2>4 DEF AdoptedInv
  <1>6. CASE ~Save(h) /\ ~Publish(h) /\ ~Install(h)
    <2>1. UNCHANGED <<table, live>>
      BY <1>6 DEF BeginWrite, BeginFetch, Serve, CallFails, SaveConflict, Fetch, config
    <2>2. WriterOK(h)'
      <3>1. ASSUME NEW row \in Rows, NEW limit \in Limits \cup {NoLimit},
                   BeginWrite(h, row, limit)
            PROVE  WriterOK(h)'
        <4>1. PICK base \in Expected(h, row) :
                call' = [call EXCEPT ![h] =
                           [NoCall EXCEPT !.pc = "save", !.row = row, !.base = base,
                                          !.entry = [rev |-> base + 1, limit |-> limit]]]
          BY <3>1 DEF BeginWrite
        <4>2. call'[h].pc = "save" /\ call'[h].row = row
          BY <4>1 DEF NoCall, FleetInv, TypeOK
        <4>3. row \in RowsOf[h]
          BY <3>1 DEF BeginWrite
        <4> QED
          BY <4>2, <4>3 DEF WriterOK
      <3>2. ASSUME NEW row \in Rows, BeginFetch(h, row) PROVE WriterOK(h)'
        <4>1. PICK miss \in BOOLEAN :
                call' = [call EXCEPT ![h] = [NoCall EXCEPT !.pc = "fetch", !.row = row,
                                                           !.miss = miss]]
          BY <3>2 DEF BeginFetch
        <4>2. call'[h].pc = "fetch" /\ call'[h].row = row
          BY <4>1 DEF NoCall, FleetInv, TypeOK
        <4>3. row \in RowsOf[h]
          BY <3>2 DEF BeginFetch
        <4> QED
          BY <4>2, <4>3 DEF WriterOK
      <3>3. CASE SaveConflict(h)
        <4>1. call'[h].pc = "fetch" /\ call'[h].row = call[h].row
          BY <3>3 DEF SaveConflict, NoCall, FleetInv, TypeOK
        <4>2. call[h].row \in RowsOf[h]
          BY <1>0, <3>3 DEF SaveConflict, WriterOK
        <4> QED
          BY <4>1, <4>2 DEF WriterOK
      <3>4. CASE Fetch(h)
        <4>1. /\ call'[h].pc = "install" /\ call'[h].row = call[h].row
              /\ call'[h].entry = store[call[h].row]
          BY <1>0, <3>4 DEF Fetch, Calls, FleetInv, TypeOK
        <4>2. call[h].row \in RowsOf[h]
          BY <1>0, <3>4 DEF Fetch, WriterOK
        <4> QED
          BY <2>1, <4>1, <4>2 DEF WriterOK, table
      <3>5. CASE CallFails(h)
        <4>1. call'[h] = NoCall
          BY <3>5 DEF CallFails, FleetInv, TypeOK
        <4> QED
          BY <2>1, <4>1, AdoptedFrames
      <3> QED
        BY <1>6, <3>1, <3>2, <3>3, <3>4, <3>5 DEF Serve
    <2> QED
      BY <1>1, <1>2, <1>3, <2>1, <2>2, AdoptedFrames DEF AdoptedInv
  <1> QED
    BY <1>4, <1>5, <1>6

LEMMA AdoptedStep ==
    ASSUME SoleWriters, FleetInv, AdoptedInv, [Next]_vars
    PROVE  AdoptedInv'
  <1>0. \A i \in Steady : task[i].pc \notin Booting
    BY DEF AdoptedInv, AdoptedOK
  <1>1. ASSUME NEW i \in Instances,
               \/ Boot(i) \/ Refresh(i) \/ Expire(i) \/ Restart(i)
               \/ LoadFails(i) \/ NoteFails(i) \/ RefreshFails(i)
        PROVE  AdoptedInv'
    BY <1>1, TaskAdopted, RestartAdopted
  <1>2. ASSUME NEW h \in Handlers,
               \/ \E row \in Rows, limit \in Limits \cup {NoLimit} :
                    BeginWrite(h, row, limit)
               \/ \E row \in Rows : BeginFetch(h, row)
               \/ Serve(h) \/ CallFails(h)
        PROVE  AdoptedInv'
    BY <1>2, ServeAdopted
  <1>3. CASE UNCHANGED <<table, live, known, task, call>>
    BY <1>0, <1>3, AdoptedFrames DEF AdoptedInv
  <1>4. ASSUME NEW i \in Instances, NEW p \in Projects, Request(i, p) PROVE AdoptedInv'
    BY <1>3, <1>4 DEF Request
  <1>5. CASE OutageEnds \/ UNCHANGED vars
    BY <1>3, <1>5 DEF OutageEnds, vars, config
  <1> QED
    BY <1>1, <1>2, <1>4, <1>5 DEF Next

\* Where every row has one operator at a time, the version an instance acknowledges
\* stands for the rows at every instance that is not replaced, whatever the others
\* do: once at the current version it holds exactly what is stored, although other
\* instances restart, load the table and answer requests meanwhile.
THEOREM SteadyAdopted ==
    ASSUME SoleWriters
    PROVE  Spec => [](\A i \in Steady :
                        (Quiet(i) /\ known[i] = version) => live[i] = store)
  <1> DEFINE Adopted == \A i \in Steady :
                          (Quiet(i) /\ known[i] = version) => live[i] = store
  <1>1. AdoptedInv => Adopted
    BY DEF AdoptedInv, AdoptedOK
  <1>2. FleetInv /\ AdoptedInv /\ [Next]_vars => AdoptedInv'
    BY AdoptedStep
  <1> QED
    BY <1>1, <1>2, AdoptedInit, Invariant, PTL DEF Spec

\* Where moreover no instance is replaced, this is so at every instance: skipping the
\* scan of a version already acknowledged loses nothing.
THEOREM KnownAdopted ==
    ASSUME SoleWriters, Late = {}
    PROVE  Spec => []KnownIsAdopted
  <1>1. (\A i \in Steady : (Quiet(i) /\ known[i] = version) => live[i] = store)
          => KnownIsAdopted
    BY DEF KnownIsAdopted, Steady
  <1> QED
    BY <1>1, SteadyAdopted, PTL

=============================================================================
