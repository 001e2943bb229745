----------------------------- MODULE FleetConfig -----------------------------
(***************************************************************************)
(* How the projects and user configurations an operator writes on one      *)
(* gateway instance reach the others.                                      *)
(*                                                                         *)
(*   src/src/gateway/config_sync.py    ConfigSyncService: the refresh      *)
(*   src/src/gateway/admin/routes.py   the handlers that write a row and   *)
(*     publish it in their own instance                                    *)
(*   src/src/gateway/persistence.py    the rows, their revisions and the   *)
(*     shared version counter                                              *)
(*   src/src/gateway/bootstrap.py      startup                             *)
(*                                                                         *)
(* A row is its revision and its budget limit, the one field that is also  *)
(* copied elsewhere.  Every DynamoDB call is one step; a scan reads its    *)
(* rows one at a time, since DynamoDB scans are not snapshots.  Code       *)
(* between two awaits is one step of its instance.                         *)
(***************************************************************************)
EXTENDS Integers, FiniteSets

CONSTANTS
    Instances,
    Handlers,      \* admin requests that may be under way at once
    HostOf,        \* HostOf[h]: the instance that serves handler h
    RowsOf,        \* RowsOf[h]: the rows the requests of h are about
    Projects,
    Users,
    Limits,        \* budget limits an operator may set
    Late,          \* instances that start, or start again, during the run
    Faults,        \* subset of {"outage", "lost_reply"}
    MaxVersion     \* bound: configuration writes

NoLimit == 0       \* None
Unknown == -1      \* no version read yet

Rows == Projects \cup Users

ASSUME ConfigAssumption ==
    /\ HostOf \in [Handlers -> Instances]
    /\ RowsOf \in [Handlers -> SUBSET Rows]
    /\ Projects \cap Users = {}
    /\ Rows # {}
    /\ Limits \subseteq Nat \ {NoLimit}
    /\ Late \subseteq Instances
    /\ MaxVersion \in Nat

Entries == [rev : Nat, limit : Limits \cup {NoLimit}]

Absent == [rev |-> 0, limit |-> NoLimit]

Empty == [row \in Rows |-> Absent]

VARIABLES
    store,       \* the rows in DynamoDB
    version,     \* CONFIG#VERSION
    outage,      \* DynamoDB calls may fail
    live,        \* live[i]: projects and user_configs
    armed,       \* armed[i]: the project limits in cost_tracker._budgets
    node,        \* node[i]: the limits of flat policy nodes
    known,       \* _known_version
    fresh,       \* within CONFIG_SYNC_TTL_SECONDS of _last_version_check
    generation,  \* _local_generation
    task,        \* task[i]: startup, then the single-flighted refresh
    call,        \* call[h]: the admin request h is serving
    past,        \* history: the store at every version
    own          \* history: the last revision of a row i committed itself

table == <<store, version, past>>
config == <<live, armed, node, known, fresh, generation, own>>
vars == <<table, config, outage, task, call>>

Booting == {"loading", "noting"}
Refreshing == {"version", "compare", "scan", "confirm", "adopt"}

Tasks == [pc : {"idle"} \cup Booting \cup Refreshing,
          ver : Nat, gen : Nat, seen : [Rows -> Entries], unread : SUBSET Rows]

NoTask == [pc |-> "idle", ver |-> 0, gen |-> 0, seen |-> Empty, unread |-> {}]

Calls == [pc : {"idle", "save", "publish", "fetch", "install"},
          row : Rows, base : Nat, entry : Entries, miss : BOOLEAN]

AnyRow == CHOOSE row \in Rows : TRUE

NoCall == [pc |-> "idle", row |-> AnyRow, base |-> 0, entry |-> Absent, miss |-> FALSE]

Up(i) == task[i].pc \notin Booting

Init ==
    /\ store = Empty
    /\ version = 0
    /\ past = [v \in 0..MaxVersion |-> Empty]
    /\ outage = ("outage" \in Faults)
    /\ live = [i \in Instances |-> Empty]
    /\ armed = [i \in Instances |-> [p \in Projects |-> NoLimit]]
    /\ node = [i \in Instances |-> [p \in Projects |-> NoLimit]]
    /\ known = [i \in Instances |-> IF i \in Late THEN Unknown ELSE 0]
    /\ fresh = [i \in Instances |-> i \notin Late]
    /\ generation = [i \in Instances |-> 0]
    /\ task = [i \in Instances |->
                IF i \in Late THEN [NoTask EXCEPT !.pc = "loading", !.unread = Rows]
                ELSE NoTask]
    /\ call = [h \in Handlers |-> NoCall]
    /\ own = [i \in Instances |-> [row \in Rows |-> 0]]

-----------------------------------------------------------------------------
(* Arming.  adopted are the rows just read.                                *)

ArmedNothing(i, adopted) == armed[i]     \* mutant of Armed

\* _register_budgets: a project without a limit is skipped.
Armed(i, adopted) ==
    [p \in Projects |-> IF adopted[p].limit = NoLimit THEN armed[i][p]
                        ELSE adopted[p].limit]

\* ... and a policy node is created where there is none.
Noded(i, adopted) ==
    [p \in Projects |-> IF node[i][p] = NoLimit THEN adopted[p].limit
                        ELSE node[i][p]]

-----------------------------------------------------------------------------
(* Startup                                                                 *)

\* The instance is replaced: nothing of its memory is left.
Restart(i) ==
    /\ i \in Late
    /\ live' = [live EXCEPT ![i] = Empty]
    /\ armed' = [armed EXCEPT ![i] = [p \in Projects |-> NoLimit]]
    /\ node' = [node EXCEPT ![i] = [p \in Projects |-> NoLimit]]
    /\ known' = [known EXCEPT ![i] = Unknown]
    /\ fresh' = [fresh EXCEPT ![i] = FALSE]
    /\ generation' = [generation EXCEPT ![i] = 0]
    /\ own' = [own EXCEPT ![i] = [row \in Rows |-> 0]]
    /\ task' = [task EXCEPT ![i] = [NoTask EXCEPT !.pc = "loading", !.unread = Rows]]
    /\ call' = [h \in Handlers |-> IF HostOf[h] = i THEN NoCall ELSE call[h]]
    /\ UNCHANGED <<table, outage>>

\* The scan _load_persisted_state is at: the projects, then the user configs.
Loading(i) ==
    LET projects == task[i].unread \cap Projects IN
    IF projects # {} THEN projects ELSE task[i].unread

\* What is left to load once the rows of done have been read.
LoadedUpTo(i, done) ==
    task' = [task EXCEPT ![i].unread = @ \ done,
                         ![i].pc = IF task[i].unread \subseteq done
                                   THEN "noting" ELSE "loading"]

LoadRow(i, row) ==
    /\ task[i].pc = "loading"
    /\ row \in Loading(i)
    /\ live' = [live EXCEPT ![i][row] = store[row]]
    /\ LoadedUpTo(i, {row})
    /\ armed' = [armed EXCEPT ![i] = Armed(i, live'[i])]
    /\ node' = [node EXCEPT ![i] = Noded(i, live'[i])]
    /\ UNCHANGED <<table, outage, known, fresh, generation, call, own>>

\* A scan that fails at startup returns {}: all of its rows are missing.
LoadFails(i) ==
    /\ outage
    /\ task[i].pc = "loading"
    /\ LET half == IF Loading(i) \subseteq Projects THEN Projects ELSE Users IN
       /\ live' = [live EXCEPT ![i] =
                     [row \in Rows |-> IF row \in half THEN Absent ELSE live[i][row]]]
       /\ armed' = [armed EXCEPT ![i] = [p \in Projects |->
                     IF p \in half THEN NoLimit ELSE armed[i][p]]]
       /\ node' = [node EXCEPT ![i] = [p \in Projects |->
                     IF p \in half THEN NoLimit ELSE node[i][p]]]
       /\ LoadedUpTo(i, half)
    /\ UNCHANGED <<table, outage, known, fresh, generation, call, own>>

\* note_local_version(get_config_version()), after the load.
NoteVersion(i) ==
    /\ task[i].pc = "noting"
    /\ known' = [known EXCEPT ![i] = version]
    /\ fresh' = [fresh EXCEPT ![i] = TRUE]
    /\ task' = [task EXCEPT ![i] = NoTask]
    /\ UNCHANGED <<table, outage, live, armed, node, generation, call, own>>

\* The version cannot be read: the first request will refresh.
NoteFails(i) ==
    /\ outage
    /\ task[i].pc = "noting"
    /\ task' = [task EXCEPT ![i] = NoTask]
    /\ UNCHANGED <<table, outage, config, call>>

-----------------------------------------------------------------------------
(* ConfigSyncService.refresh_if_stale                                      *)

\* CONFIG_SYNC_TTL_SECONDS have passed.
Expire(i) ==
    /\ fresh[i]
    /\ fresh' = [fresh EXCEPT ![i] = FALSE]
    /\ UNCHANGED <<table, outage, live, armed, node, known, generation, own, task, call>>

Poll(i) ==
    /\ task[i].pc = "idle"
    /\ ~fresh[i]
    /\ task' = [task EXCEPT ![i].pc = "version", ![i].gen = generation[i]]
    /\ UNCHANGED <<table, outage, config, call>>

ReadVersion(i) ==
    /\ task[i].pc = "version"
    /\ task' = [task EXCEPT ![i].pc = "compare", ![i].ver = version]
    /\ UNCHANGED <<table, outage, config, call>>

\* The version read is the known one: nothing to do for another window, also
\* when the instance has invalidated its configuration meanwhile.
Unmoved(i) ==
    /\ task[i].pc = "compare"
    /\ task[i].ver = known[i]
    /\ fresh' = [fresh EXCEPT ![i] = TRUE]
    /\ task' = [task EXCEPT ![i] = NoTask]
    /\ UNCHANGED <<table, outage, live, armed, node, known, generation, own, call>>

Moved(i) ==
    /\ task[i].pc = "compare"
    /\ task[i].ver # known[i]
    /\ task' = [task EXCEPT ![i].pc = "scan", ![i].unread = Rows]
    /\ UNCHANGED <<table, outage, config, call>>

\* The two scans run at once, over as many pages as they need.
ScanRow(i, row) ==
    /\ task[i].pc = "scan"
    /\ row \in task[i].unread
    /\ task' = [task EXCEPT ![i].unread = @ \ {row}, ![i].seen[row] = store[row],
                            ![i].pc = IF task[i].unread = {row} THEN "confirm" ELSE @]
    /\ UNCHANGED <<table, outage, config, call>>

UnconfirmedVersion(i) == TRUE      \* mutant of ConfirmedVersion

ConfirmedVersion(i) == version = task[i].ver

\* The version is read once more: a write during the scans discards them.
Confirm(i) ==
    /\ task[i].pc = "confirm"
    /\ task' = [task EXCEPT ![i] =
                  IF ConfirmedVersion(i) THEN [@ EXCEPT !.pc = "adopt"] ELSE NoTask]
    /\ UNCHANGED <<table, outage, config, call>>

AnyGeneration(i) == TRUE           \* mutant of SameGeneration

SameGeneration(i) == generation[i] = task[i].gen

\* Mutant of Merged: setdefault, what the instance knows already wins.
MergedMissing(i) ==
    [row \in Rows |-> IF live[i][row].rev = 0 THEN task[i].seen[row] ELSE live[i][row]]

\* Stored rows win, rows the store does not have survive.
Merged(i) ==
    [row \in Rows |-> IF task[i].seen[row].rev = 0 THEN live[i][row]
                      ELSE task[i].seen[row]]

Adopt(i) ==
    /\ task[i].pc = "adopt"
    /\ IF SameGeneration(i)
       THEN /\ live' = [live EXCEPT ![i] = Merged(i)]
            /\ armed' = [armed EXCEPT ![i] = Armed(i, task[i].seen)]
            /\ node' = [node EXCEPT ![i] = Noded(i, task[i].seen)]
            /\ known' = [known EXCEPT ![i] = task[i].ver]
            /\ fresh' = [fresh EXCEPT ![i] = TRUE]
       ELSE UNCHANGED <<live, armed, node, known, fresh>>
    /\ task' = [task EXCEPT ![i] = NoTask]
    /\ UNCHANGED <<table, outage, generation, own, call>>

\* A read failed: neither the version nor the window is touched, so the next
\* request tries again.
RefreshFails(i) ==
    /\ outage
    /\ task[i].pc \in {"version", "scan", "confirm"}
    /\ task' = [task EXCEPT ![i] = NoTask]
    /\ UNCHANGED <<table, outage, config, call>>

-----------------------------------------------------------------------------
(* The admin handlers                                                      *)

Ready(h) == call[h].pc = "idle" /\ Up(HostOf[h])

\* The revision a write expects: the one in this instance's memory or, for a
\* project that is to be created, none.
Expected(h, row) ==
    {live[HostOf[h]][row].rev} \cup (IF row \in Projects THEN {0} ELSE {})

BeginWrite(h, row, limit) ==
    /\ Ready(h)
    /\ row \in RowsOf[h]
    /\ \E base \in Expected(h, row) :
         call' = [call EXCEPT ![h] =
                    [NoCall EXCEPT !.pc = "save", !.row = row, !.base = base,
                                   !.entry = [rev |-> base + 1, limit |-> limit]]]
    /\ UNCHANGED <<table, outage, config, task>>

\* The conditional put of the row and the ADD on the version, as a transaction.
\* When its answer is lost the client gets a 503 and nothing is published.
Save(h) ==
    LET row == call[h].row IN
    /\ call[h].pc = "save"
    /\ store[row].rev = call[h].base
    /\ version < MaxVersion
    /\ store' = [store EXCEPT ![row] = call[h].entry]
    /\ version' = version + 1
    /\ past' = [past EXCEPT ![version + 1] = store']
    /\ \/ call' = [call EXCEPT ![h].pc = "publish"]
       \/ "lost_reply" \in Faults /\ call' = [call EXCEPT ![h] = NoCall]
    /\ UNCHANGED <<outage, config, task>>

SaveConflict(h) ==
    /\ call[h].pc = "save"
    /\ store[call[h].row].rev # call[h].base
    /\ call' = [call EXCEPT ![h] = [NoCall EXCEPT !.pc = "fetch", !.row = call[h].row]]
    /\ UNCHANGED <<table, outage, config, task>>

\* invalidate_local_config, then the committed row is published.
Publish(h) ==
    LET i == HostOf[h]
        row == call[h].row
        entry == call[h].entry IN
    /\ call[h].pc = "publish"
    /\ generation' = [generation EXCEPT ![i] = @ + 1]
    /\ fresh' = [fresh EXCEPT ![i] = FALSE]
    /\ live' = [live EXCEPT ![i][row] = entry]
    /\ own' = [own EXCEPT ![i][row] = entry.rev]
    /\ armed' = IF row \in Users \/ (call[h].base = 0 /\ entry.limit = NoLimit)
                THEN armed ELSE [armed EXCEPT ![i][row] = entry.limit]
    /\ call' = [call EXCEPT ![h] = NoCall]
    /\ UNCHANGED <<table, outage, node, known, task>>

\* _get_project on a miss, or _reload_project and _reload_user_config when the
\* client's If-Match names another revision.
BeginFetch(h, row) ==
    /\ Ready(h)
    /\ row \in RowsOf[h]
    /\ \E miss \in BOOLEAN :
         /\ miss => row \in Projects /\ live[HostOf[h]][row].rev = 0
         /\ call' = [call EXCEPT ![h] = [NoCall EXCEPT !.pc = "fetch", !.row = row,
                                                       !.miss = miss]]
    /\ UNCHANGED <<table, outage, config, task>>

Fetch(h) ==
    /\ call[h].pc = "fetch"
    /\ call' = [call EXCEPT ![h].pc = "install", ![h].entry = store[call[h].row]]
    /\ UNCHANGED <<table, outage, config, task>>

\* What was read is published, without a look at what happened since.
Install(h) ==
    LET i == HostOf[h]
        row == call[h].row
        entry == call[h].entry IN
    /\ call[h].pc = "install"
    /\ IF entry.rev = 0 /\ row \in Projects
       THEN UNCHANGED <<live, armed>>
       ELSE /\ live' = [live EXCEPT ![i][row] = entry]
            /\ armed' = IF row \in Users \/ call[h].miss THEN armed
                        ELSE [armed EXCEPT ![i][row] = entry.limit]
    /\ call' = [call EXCEPT ![h] = NoCall]
    /\ UNCHANGED <<table, outage, node, known, fresh, generation, own, task>>

\* A DynamoDB call fails without effect: 503, or nothing to reload.
CallFails(h) ==
    /\ outage
    /\ call[h].pc \in {"save", "fetch"}
    /\ call' = [call EXCEPT ![h] = NoCall]
    /\ UNCHANGED <<table, outage, config, task>>

\* A request of project p: the agent registers the limit it finds.
Request(i, p) ==
    /\ Up(i)
    /\ live[i][p].limit # NoLimit
    /\ armed' = [armed EXCEPT ![i][p] = live[i][p].limit]
    /\ UNCHANGED <<table, outage, live, node, known, fresh, generation, own, task, call>>

OutageEnds ==
    /\ outage
    /\ outage' = FALSE
    /\ UNCHANGED <<table, config, task, call>>

Boot(i) ==
    \/ \E row \in Rows : LoadRow(i, row)
    \/ NoteVersion(i)

Refresh(i) ==
    \/ Poll(i) \/ ReadVersion(i) \/ Unmoved(i) \/ Moved(i) \/ Confirm(i) \/ Adopt(i)
    \/ \E row \in Rows : ScanRow(i, row)

Serve(h) ==
    \/ Save(h) \/ SaveConflict(h) \/ Publish(h) \/ Fetch(h) \/ Install(h)

Next ==
    \/ \E i \in Instances : Boot(i) \/ Refresh(i) \/ Expire(i) \/ Restart(i)
    \/ \E i \in Instances : LoadFails(i) \/ NoteFails(i) \/ RefreshFails(i)
    \/ \E h \in Handlers, row \in Rows, limit \in Limits \cup {NoLimit} :
          BeginWrite(h, row, limit)
    \/ \E h \in Handlers, row \in Rows : BeginFetch(h, row)
    \/ \E h \in Handlers : Serve(h) \/ CallFails(h)
    \/ \E i \in Instances, p \in Projects : Request(i, p)
    \/ OutageEnds

Spec == Init /\ [][Next]_vars

\* Traffic keeps refreshing every instance, windows run out, outages end.
\* Nothing is assumed of the operators' requests.
FairSpec ==
    /\ Spec
    /\ \A i \in Instances : /\ WF_vars(Boot(i) \/ Refresh(i))
                            /\ WF_vars(Expire(i))
    /\ WF_vars(OutageEnds)

-----------------------------------------------------------------------------
(* Properties                                                              *)

\* Every table, task and call has its type.
TypeOK ==
    /\ store \in [Rows -> Entries]
    /\ version \in 0..MaxVersion
    /\ past \in [0..MaxVersion -> [Rows -> Entries]]
    /\ outage \in BOOLEAN
    /\ live \in [Instances -> [Rows -> Entries]]
    /\ armed \in [Instances -> [Projects -> Nat]]
    /\ node \in [Instances -> [Projects -> Nat]]
    /\ known \in [Instances -> Nat \cup {Unknown}]
    /\ fresh \in [Instances -> BOOLEAN]
    /\ generation \in [Instances -> Nat]
    /\ task \in [Instances -> Tasks]
    /\ call \in [Handlers -> Calls]
    /\ own \in [Instances -> [Rows -> Nat]]

Followers == {i \in Instances \ Late : \A h \in Handlers : HostOf[h] # i}

\* Half a config is not a config: an instance that only follows the others always
\* enforces the rows exactly as they were at the version it acknowledges, never
\* rows from before and after a write together, although its scans read them one
\* by one while others write.
ConfigReal ==
    \A i \in Followers : known[i] # Unknown /\ live[i] = past[known[i]]

\* A refresh never rolls back what its own instance has committed meanwhile: the
\* rows it changes are no older than that.
OwnWritesKept ==
    [][\A i \in Instances, row \in Rows :
        (task[i].pc = "adopt" /\ task'[i].pc = "idle" /\ live'[i][row] # live[i][row])
            => live'[i][row].rev >= own[i][row]]_vars

Quiet(i) == Up(i) /\ \A h \in Handlers : HostOf[h] = i => call[h].pc = "idle"

\* src/README.md:2188 "Project and per-user config converge across the fleet within
\* 5 seconds": an instance that has acknowledged the current version, and is not in
\* the middle of a request, enforces the current rows.  Otherwise it stays behind:
\* it does not scan again until the next write.
KnownIsAdopted ==
    \A i \in Instances :
        (Quiet(i) /\ known[i] = version) => live[i] = store

\* Every write reaches every instance and every limit is armed there, also when the
\* reply of the write was lost or DynamoDB was out for a while.
EventuallyConverged ==
    \A i \in Instances :
        <>[](/\ live[i] = store
             /\ \A p \in Projects :
                  store[p].limit # NoLimit => armed[i][p] = store[p].limit)

\* The limit a request of project p is held to: the agent takes the smaller one of
\* the tracker's, which it has just registered, and the policy node's.
Enforced(i, p) ==
    LET tracker == IF live[i][p].limit = NoLimit THEN armed[i][p] ELSE live[i][p].limit
        limits == {tracker, node[i][p]} \ {NoLimit} IN
    IF limits = {} THEN NoLimit
    ELSE CHOOSE l \in limits : \A m \in limits : l <= m

\* admin/routes.py:1025 "Update project config (hot-reload, no restart)": the limit
\* an instance has adopted is the limit it enforces.
LimitHotReloaded ==
    \A i \in Instances, p \in Projects :
        Quiet(i) => Enforced(i, p) = live[i][p].limit
=============================================================================
