----------------------------- MODULE AuditChain -----------------------------
(***************************************************************************)
(* The durable audit trail of one tenant: gateway instances append to one  *)
(* hash chain by compare-and-swap on its head, and an administrator        *)
(* verifies it.                                                            *)
(*                                                                         *)
(*   src/src/gateway/security/audit_trail.py   record, its retry loop, the *)
(*                                  cached head, the buffer, verification  *)
(*   src/src/gateway/persistence.py            append_tenant_audit_record, *)
(*            get_latest_tenant_audit_hash, load_tenant_audit_records      *)
(*                                                                         *)
(* A record's hash covers its content, its time and the hash before it, and *)
(* no two hashes are equal.  A record is committed at most once, so its id *)
(* stands for its hash.  The rows are kept in the order in which they were *)
(* committed; the code does not see that order, it sorts rows by key.      *)
(*                                                                         *)
(* Tenants share nothing, so one is enough.  The chain of the legacy       *)
(* tenant, which is written without the head item, is not part of this     *)
(* module.                                                                 *)
(***************************************************************************)
EXTENDS Integers, Sequences

CONSTANTS
    Instances,      \* gateway instances
    Records,        \* record ids, in the order of their random suffixes
    At,             \* At[r]: the instance that makes record r
    Skew,           \* Skew[i]: how far the clock of i is ahead
    MaxAttempts,    \* MAX_APPEND_ATTEMPTS
    BufferSize,     \* records kept in memory
    Verifies,       \* bound: may a verification run?
    MaxFaults       \* bound: failed or lost calls, cancelled requests, crashes

Genesis == 0        \* the hash before the first record
NoOne == 0          \* the lock of the tenant is free

ASSUME AuditAssumption ==
    /\ Records \subseteq Nat \ {0}
    /\ At \in [Records -> Instances]
    /\ Skew \in [Instances -> Int]
    /\ MaxAttempts \in Nat \ {0}
    /\ BufferSize \in Nat
    /\ Verifies \in BOOLEAN
    /\ MaxFaults \in Nat

VARIABLES
    chain,      \* rows of the tenant in the order of their commits
    head,       \* record_hash of the AUDIT#HEAD item
    cached,     \* cached[i]: _last_hashes of instance i
    ready,      \* ready[i]: the tenant is in _initialized_tenants of i
    holder,     \* holder[i]: the record that holds i's lock of the tenant
    buffer,     \* buffer[i]: rows in the memory of i, oldest first
    rec,        \* rec[r]: the call of AuditTrail.record for r
    now,        \* the time, in steps as fine as the timestamps
    reader,     \* a call of verify_persisted_chain
    faults      \* failures so far

store == <<chain, head>>
memory == <<cached, ready, buffer>>
vars == <<store, memory, holder, rec, now, reader, faults>>

NotBegun == [pc |-> "waiting", prev |-> Genesis, time |-> 0, conflicts |-> 0,
             since |-> 0]

Init ==
    /\ chain = <<>>
    /\ head = Genesis
    /\ cached = [i \in Instances |-> Genesis]
    /\ ready = [i \in Instances |-> FALSE]
    /\ buffer = [i \in Instances |-> <<>>]
    /\ holder = [i \in Instances |-> NoOne]
    /\ rec = [r \in Records |-> NotBegun]
    /\ now = 0
    /\ reader = [pc |-> "idle", seen |-> <<>>, from |-> 0, to |-> 0,
                 verdict |-> "none"]
    /\ faults = 0

Fault == faults < MaxFaults /\ faults' = faults + 1

-----------------------------------------------------------------------------
(* Appending a record                                                      *)

\* Mutant of Attempt: a retry keeps the time of the first attempt.
AttemptUnstamped(item, i, prev) ==
    [item EXCEPT !.pc = "appending", !.prev = prev,
                 !.time = IF @ = 0 THEN now + Skew[i] ELSE @]

\* An attempt takes the time and links to the cached head (prev).
Attempt(item, i, prev) ==
    [item EXCEPT !.pc = "appending", !.prev = prev, !.time = now + Skew[i]]

\* Mutants of Leave: the lock is not released on the way out; a failure is
\* swallowed.
LeaveLocked(r, label) ==
    /\ rec' = [rec EXCEPT ![r].pc = label]
    /\ UNCHANGED holder

LeaveRecorded(r, label) ==
    /\ rec' = [rec EXCEPT ![r].pc = "recorded"]
    /\ holder' = [holder EXCEPT ![At[r]] = NoOne]

\* The call ends and releases the lock of its tenant.
Leave(r, label) ==
    /\ rec' = [rec EXCEPT ![r].pc = label]
    /\ holder' = [holder EXCEPT ![At[r]] = NoOne]

\* Mutant of Free: the lock is ignored.
FreeAlways(i) == holder[i] \in Records \cup {NoOne}

Free(i) == holder[i] = NoOne

\* record takes the lock; the head is loaded the first time.
Enter(r) ==
    LET i == At[r]
        begun == [rec[r] EXCEPT !.since = Len(chain)] IN
    /\ rec[r].pc = "waiting"
    /\ Free(i)
    /\ holder' = [holder EXCEPT ![i] = r]
    /\ IF ready[i]
       THEN /\ rec' = [rec EXCEPT ![r] = Attempt(begun, i, cached[i])]
            /\ now' = now + 1
       ELSE /\ rec' = [rec EXCEPT ![r] = [begun EXCEPT !.pc = "loading"]]
            /\ UNCHANGED now
    /\ UNCHANGED <<store, memory, reader, faults>>

\* _initialize_tenant_locked: a failed read leaves the tenant uninitialized.
Load(r) ==
    LET i == At[r] IN
    /\ rec[r].pc = "loading"
    /\ \/ /\ cached' = [cached EXCEPT ![i] = head]
          /\ ready' = [ready EXCEPT ![i] = TRUE]
          /\ rec' = [rec EXCEPT ![r] = Attempt(rec[r], i, head)]
          /\ now' = now + 1
          /\ UNCHANGED <<holder, faults>>
       \/ /\ Fault
          /\ Leave(r, "failed")
          /\ UNCHANGED <<cached, ready, now>>
    /\ UNCHANGED <<store, buffer, reader>>

\* Mutant of HeadMatches: the head is not compared.
HeadMatchesAny(r) == rec[r].prev \in Records \cup {Genesis}

\* The condition of the transaction on the head item.
HeadMatches(r) == head = rec[r].prev

Row(r) == [id |-> r, time |-> rec[r].time, prev |-> rec[r].prev]

\* append_tenant_audit_record: the row is put and the head moved at once.  The
\* put demands a new key, which a fresh record id always gives.
Commit(r) ==
    /\ HeadMatches(r)
    /\ chain' = Append(chain, Row(r))
    /\ head' = r

\* deque(maxlen): the oldest rows fall out.
Buffered(rows, row) ==
    LET all == Append(rows, row) IN
    SubSeq(all, IF Len(all) > BufferSize THEN Len(all) - BufferSize + 1 ELSE 1,
           Len(all))

AppendRecord(r) ==
    /\ rec[r].pc = "appending"
    /\ \/ /\ Commit(r)
          /\ rec' = [rec EXCEPT ![r].pc = "committed"]
          /\ UNCHANGED <<holder, faults>>
       \/ /\ ~HeadMatches(r)
          /\ rec' = [rec EXCEPT ![r].pc = "reloading", ![r].conflicts = @ + 1]
          /\ UNCHANGED <<store, holder, faults>>
       \/ /\ Fault              \* raised, and it may have taken effect
          /\ Leave(r, "late")
          /\ UNCHANGED store
    /\ UNCHANGED <<memory, now, reader>>

\* The answer of the transaction reaches record.
Acknowledge(r) ==
    LET i == At[r] IN
    /\ rec[r].pc = "committed"
    /\ cached' = [cached EXCEPT ![i] = r]
    /\ buffer' = [buffer EXCEPT ![i] = Buffered(@, Row(r))]
    /\ Leave(r, "recorded")
    /\ UNCHANGED <<store, ready, now, reader, faults>>

\* Mutant of Fresh: the head that lost is kept.
FreshCached(i) == cached[i]

\* What the reload after a conflict finds.
Fresh(i) == head

Reload(r) ==
    LET i == At[r] IN
    /\ rec[r].pc = "reloading"
    /\ \/ /\ cached' = [cached EXCEPT ![i] = Fresh(i)]
          /\ IF rec[r].conflicts < MaxAttempts
             THEN /\ rec' = [rec EXCEPT ![r] = Attempt(@, i, Fresh(i))]
                  /\ now' = now + 1
                  /\ UNCHANGED holder
             ELSE /\ Leave(r, "failed")         \* remained contended
                  /\ UNCHANGED now
          /\ UNCHANGED faults
       \/ /\ Fault
          /\ Leave(r, "failed")
          /\ UNCHANGED <<cached, now>>
    /\ UNCHANGED <<store, ready, buffer, reader>>

InProgress == {"loading", "appending", "committed", "reloading"}

\* The request is cancelled.  A transaction it has under way goes on in its
\* thread.
Cancel(r) ==
    /\ rec[r].pc \in InProgress
    /\ Fault
    /\ Leave(r, IF rec[r].pc = "appending" THEN "late" ELSE "failed")
    /\ UNCHANGED <<store, memory, now, reader>>

\* A transaction whose call is gone takes effect, or not, at some later time.
Land(r) ==
    /\ rec[r].pc = "late"
    /\ Commit(r) \/ UNCHANGED store
    /\ rec' = [rec EXCEPT ![r].pc = "failed"]
    /\ UNCHANGED <<memory, holder, now, reader, faults>>

\* An instance dies and is replaced by one that has nothing in memory.
Crash(i) ==
    LET lost == {r \in Records :
                    /\ At[r] = i
                    /\ rec[r].pc \in InProgress} IN
    /\ Fault
    /\ cached' = [cached EXCEPT ![i] = Genesis]
    /\ ready' = [ready EXCEPT ![i] = FALSE]
    /\ buffer' = [buffer EXCEPT ![i] = <<>>]
    /\ holder' = [holder EXCEPT ![i] = NoOne]
    /\ rec' = [r \in Records |->
                  IF r \in lost
                  THEN [rec[r] EXCEPT !.pc = IF @ = "appending" THEN "late"
                                             ELSE "failed"]
                  ELSE rec[r]]
    /\ UNCHANGED <<store, now, reader>>

-----------------------------------------------------------------------------
(* Verifying the chain                                                     *)

\* The order of the sort keys, AUDIT#RECORD#<timestamp>#<record id>.
Before(a, b) == a.time < b.time \/ (a.time = b.time /\ a.id < b.id)

LastOf(rows) == rows[Len(rows)]

\* Rows not read yet, and the one with the smallest key among them.
Unread == {chain[k] : k \in {k \in 1..Len(chain) :
               reader.seen = <<>> \/ Before(LastOf(reader.seen), chain[k])}}

\* Mutant of NextRow: the rows are not sorted.
NextRowAny(row) == row \in Unread

NextRow(row) == row \in Unread /\ \A other \in Unread : ~Before(other, row)

\* load_tenant_audit_records pages through the rows.  A page may end after any
\* row, and rows may be committed between pages.
ReadRow ==
    /\ reader.pc = "rows"
    /\ \E row \in Unread :
          /\ NextRow(row)
          /\ reader' = [reader EXCEPT !.seen = Append(@, row)]
    /\ UNCHANGED <<store, memory, holder, rec, now, faults>>

EndRows ==
    /\ reader.pc = "rows"
    /\ Unread = {}
    /\ reader' = [reader EXCEPT !.pc = "head"]
    /\ UNCHANGED <<store, memory, holder, rec, now, faults>>

BeginVerify ==
    /\ Verifies
    /\ reader.pc = "idle"
    /\ reader' = [reader EXCEPT !.pc = "rows", !.from = Len(chain)]
    /\ UNCHANGED <<store, memory, holder, rec, now, faults>>

\* Does every row link to the one before it?
LinkedRows(rows) ==
    \A k \in 1..Len(rows) :
        rows[k].prev = IF k = 1 THEN Genesis ELSE rows[k - 1].id

EndOf(rows) == IF rows = <<>> THEN Genesis ELSE LastOf(rows).id

\* verify_persisted_chain: the links of the rows, then the head read after them.
ReadHead ==
    /\ reader.pc = "head"
    /\ \/ /\ reader' = [reader EXCEPT
                !.pc = "done",
                !.to = Len(chain),
                !.verdict = IF LinkedRows(reader.seen)
                                   /\ head = EndOf(reader.seen)
                            THEN "intact" ELSE "TAMPERED"]
          /\ UNCHANGED faults
       \/ /\ Fault
          /\ reader' = [reader EXCEPT !.pc = "done", !.to = Len(chain),
                                      !.verdict = "unavailable"]
    /\ UNCHANGED <<store, memory, holder, rec, now>>

\* verify_chain of the rows in memory, which starts from genesis.
BufferVerdict(i) == IF LinkedRows(buffer[i]) THEN "intact" ELSE "TAMPERED"

-----------------------------------------------------------------------------
Work(r) == Enter(r) \/ Load(r) \/ AppendRecord(r) \/ Acknowledge(r) \/ Reload(r)

Verify == BeginVerify \/ ReadRow \/ EndRows \/ ReadHead

Next ==
    \/ \E r \in Records : Work(r) \/ Cancel(r) \/ Land(r)
    \/ \E i \in Instances : Crash(i)
    \/ Verify

Spec == Init /\ [][Next]_vars

\* Every call that is under way gets on: the event loop runs it, and DynamoDB
\* answers or fails.
FairSpec == Spec /\ \A r \in Records : WF_vars(Work(r))

-----------------------------------------------------------------------------
(* Properties                                                              *)

Rows == [id : Records, time : Int, prev : Records \cup {Genesis}]

Labels == {"waiting", "recorded", "late", "failed"} \cup InProgress

\* Every item and every local variable has its type.
TypeOK ==
    /\ chain \in Seq(Rows)
    /\ head \in Records \cup {Genesis}
    /\ cached \in [Instances -> Records \cup {Genesis}]
    /\ ready \in [Instances -> BOOLEAN]
    /\ holder \in [Instances -> Records \cup {NoOne}]
    /\ buffer \in [Instances -> Seq(Rows)]
    /\ rec \in [Records -> [pc        : Labels,
                            prev      : Records \cup {Genesis},
                            time      : Int,
                            conflicts : Nat,
                            since     : Nat]]
    /\ now \in Nat
    /\ reader \in [pc : {"idle", "rows", "head", "done"}, seen : Seq(Rows),
                   from : Nat, to : Nat,
                   verdict : {"none", "intact", "TAMPERED", "unavailable"}]
    /\ faults \in Nat

\* The rows form one chain from genesis to the head, whichever instances append
\* to it, with stale heads, lost answers and transactions that land late.
OneChain == LinkedRows(chain) /\ head = EndOf(chain)

ClocksAgree == \A i, j \in Instances : Skew[i] = Skew[j]

\* src/src/gateway/persistence.py:1190 "Load one tenant's audit records in
\* append order": the sort key of a row is above that of the row before it.
LoadedInOrder ==
    \A k \in 1..(Len(chain) - 1) : Before(chain[k], chain[k + 1])

\* This holds between instances whose clocks agree: a record is only stamped
\* after the one it links to, in spite of retries and cached heads.
InOrder == ClocksAgree => LoadedInOrder

\* The rows an instance has in memory are rows of the chain in the order of the
\* chain, although its calls are interleaved and their heads are reloaded.
BufferInOrder ==
    \A i \in Instances : \A k, l \in 1..Len(buffer[i]) :
        k < l => \E m, n \in 1..Len(chain) :
            m < n /\ chain[m] = buffer[i][k] /\ chain[n] = buffer[i][l]

\* A conflict is somebody's success: each one after the first, which the cached
\* head may cause alone, means that a record was committed since the call began.
\* So a record is only given up as contended when others got theirs in.
ConflictsCaused ==
    \A r \in Records :
        rec[r].conflicts > 0
            => rec[r].conflicts <= 1 + Len(chain) - rec[r].since

\* A verdict of the durable verification is right: "intact" is said of all rows
\* there were, and "TAMPERED", between clocks that agree, only when a record was
\* committed between its reads.
VerdictRight ==
    /\ reader.verdict = "intact" => reader.seen = SubSeq(chain, 1, reader.to)
    /\ reader.verdict = "TAMPERED" /\ ClocksAgree => reader.to > reader.from

\* docs/PRD.md:748 "Recompute the chain and report tampering": nobody tampers
\* with the rows here.
NoFalseAlarm ==
    /\ reader.verdict # "TAMPERED"
    /\ \A i \in Instances : BufferVerdict(i) # "TAMPERED"

\* The chain is an append-only log with atomic appends.
Log == INSTANCE AuditLog WITH
    log <- [k \in 1..Len(chain) |-> chain[k].id],
    answer <- [r \in Records |->
                  CASE rec[r].pc = "recorded" -> "ok"
                    [] rec[r].pc \in {"failed", "late"} -> "error"
                    [] OTHER -> "none"]

LogSpec == Log!Spec

\* Every call ends: no lock is left behind by a failure, a cancellation or a
\* conflict, which would refuse service to the whole tenant.
EventuallyAnswered ==
    \A r \in Records : <>(rec[r].pc \in {"recorded", "failed", "late"})
=============================================================================
