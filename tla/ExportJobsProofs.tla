-------------------------- MODULE ExportJobsProofs --------------------------
(***************************************************************************)
(* Proofs about ExportJobs, for any jobs and tenants, any timeouts under   *)
(* which no invocation outlives its lease, and any number of attempts,     *)
(* faults and second deliveries.                                           *)
(***************************************************************************)
EXTENDS ExportJobs, SequenceTheorems, TLAPS

Writing(r) == run[r].pc \in {"render", "upload", "complete"}

\* No invocation is older than the function's timeout.
Young == \A r \in Live : now =< run[r].started + RunTimeout

\* An invocation past its claim has the job, under a lease that outlasts it.
Leased ==
    \A r \in Runs : Writing(r) =>
        /\ Held(r)
        /\ jobs[run[r].job].lease >= run[r].started - Skew + Lease

\* What it completes is what it has put.
Put == \A r \in Runs : run[r].pc = "complete" => objects[run[r].job] = r

Safe == Leased /\ Put /\ DownloadMatches

IInv == TypeOK /\ Young /\ Safe

-----------------------------------------------------------------------------
(* Types                                                                   *)

LEMMA Faulty == TypeOK /\ (Fault \/ Stray \/ UNCHANGED budget)
                 => faults' \in 0..MaxFaults /\ strays' \in 0..MaxStrays
  BY ExportAssumption DEF TypeOK, Fault, Stray, budget

\* One invocation changes.
LEMMA RunMoves ==
    ASSUME RunsTyped, NEW r \in Runs, NEW x \in RunType,
           run[r].pc # "none", x.pc # "none",
           x.pc # "ended" => x.job \in Jobs,
           run' = [run EXCEPT ![r] = x], UNCHANGED begun
    PROVE  RunsTyped'
<1>1. run' \in [Runs -> RunType]
  BY DEF RunsTyped
<1>2. \A s \in Runs : run'[s] = IF s = r THEN x ELSE run[s]
  BY DEF RunsTyped
<1> QED
  BY <1>1, <1>2 DEF RunsTyped, Live

LEMMA RunSteps ==
    ASSUME RunsTyped, NEW r \in Live,
           NEW label \in {"upload", "complete", "release"},
           Step(r, label), UNCHANGED begun
    PROVE  RunsTyped'
<1> DEFINE x == [run[r] EXCEPT !.pc = label]
<1>1. r \in Runs /\ run[r] \in RunType /\ run[r].job \in Jobs /\ run[r].pc # "none"
  BY DEF RunsTyped, Live
<1>2. x \in RunType /\ x.pc = label /\ x.job = run[r].job
  BY <1>1 DEF RunType
<1>3. run' = [run EXCEPT ![r] = x]
  BY DEF Step
<1> HIDE DEF x
<1> QED
  BY <1>1, <1>2, <1>3, RunMoves

LEMMA RunEnds ==
    ASSUME RunsTyped, NEW r \in Live, End(r), UNCHANGED begun
    PROVE  RunsTyped'
<1> DEFINE x == [NoRun EXCEPT !.pc = "ended"]
<1>1. r \in Runs /\ run[r].pc # "none"
  BY DEF RunsTyped, Live
<1>2. x \in RunType /\ x.pc = "ended"
  BY DEF RunType, NoRun
<1>3. run' = [run EXCEPT ![r] = x]
  BY DEF End
<1> HIDE DEF x
<1> QED
  BY <1>1, <1>2, <1>3, RunMoves

\* An invocation begins.
LEMMA RunBegins ==
    ASSUME RunsTyped, now \in Nat, NEW j \in Jobs, Invoke(j)
    PROVE  RunsTyped'
<1> DEFINE x == [pc |-> "claim", job |-> j, started |-> now, attempt |-> 0]
<1>1. x \in RunType /\ x.pc = "claim" /\ x.job = j
  BY DEF RunType
<1>2. begun + 1 \in Runs /\ begun \in Nat /\ MaxRuns \in Nat
  BY ExportAssumption DEF RunsTyped, Runs, Invoke, HasRoom
<1>3. run' = [run EXCEPT ![begun + 1] = x] /\ begun' = begun + 1
  BY DEF Invoke
<1> HIDE DEF x
<1>4. run' \in [Runs -> RunType] /\ begun' \in 0..MaxRuns
  BY <1>1, <1>2, <1>3 DEF RunsTyped, Runs
<1>5. \A s \in Runs : run'[s] = IF s = begun + 1 THEN x ELSE run[s]
  BY <1>2, <1>3 DEF RunsTyped
<1>6. \A s \in Runs : s > begun' <=> run'[s].pc = "none"
  BY <1>1, <1>2, <1>3, <1>5 DEF RunsTyped, Runs
<1> QED
  BY <1>1, <1>4, <1>5, <1>6 DEF RunsTyped, Live

\* One item changes.
LEMMA JobMoves ==
    ASSUME JobsTyped, NEW j \in Jobs, NEW x \in JobType,
           x.status = "processing" <=> x.token # 0,
           x.status = "complete" => x.content # 0,
           jobs' = [jobs EXCEPT ![j] = x]
    PROVE  JobsTyped'
<1>1. jobs' \in [Jobs -> JobType]
  BY DEF JobsTyped
<1>2. \A k \in Jobs : jobs'[k] = IF k = j THEN x ELSE jobs[k]
  BY DEF JobsTyped
<1> QED
  BY <1>1, <1>2 DEF JobsTyped

\* A message is deleted.
LEMMA MessageGoes ==
    ASSUME MessagesTyped, NEW t \in Tenants, queue[t] # <<>>,
           queue' = [queue EXCEPT ![t] = Tail(@)], UNCHANGED <<hidden, receives>>,
           dead' \subseteq Jobs
    PROVE  MessagesTyped'
<1>1. queue[t] \in Seq(Jobs)
  BY DEF MessagesTyped
<1>2. Tail(queue[t]) \in Seq(Jobs)
  BY <1>1, HeadTailProperties
<1> QED
  BY <1>2 DEF MessagesTyped

LEMMA MessageAcknowledged ==
    ASSUME TypeOK, NEW r \in Live, Acknowledge(r), UNCHANGED begun
    PROVE  MessagesTyped' /\ RunsTyped'
<1>1. run[r].job \in Jobs /\ TenantOf[run[r].job] \in Tenants
  BY ExportAssumption DEF TypeOK, RunsTyped
<1>2. MessagesTyped'
  BY <1>1, MessageGoes DEF TypeOK, Acknowledge, MessagesTyped
<1>3. RunsTyped'
  BY RunEnds DEF TypeOK, Acknowledge
<1> QED
  BY <1>2, <1>3

LEMMA MessageReported ==
    ASSUME TypeOK, NEW r \in Live, Report(r), UNCHANGED begun
    PROVE  MessagesTyped' /\ RunsTyped'
  BY RunEnds DEF TypeOK, Report, message, MessagesTyped

\* What is left of RunsTyped, JobsTyped and MessagesTyped by a step that does not
\* touch their variables.
LEMMA Untouched ==
    /\ RunsTyped /\ UNCHANGED <<run, begun>> => RunsTyped'
    /\ JobsTyped /\ UNCHANGED jobs => JobsTyped'
    /\ MessagesTyped /\ UNCHANGED message => MessagesTyped'
  BY DEF RunsTyped, JobsTyped, MessagesTyped, message, Live

LEMMA TypeInit == Init => TypeOK
<1> SUFFICES ASSUME Init PROVE TypeOK
  OBVIOUS
<1>1. NewJob \in JobType /\ NoRun \in RunType
  BY ExportAssumption DEF NewJob, NoRun, JobType, RunType, Statuses
<1>2. JobsTyped
  BY <1>1 DEF Init, JobsTyped, NewJob
<1>3. RunsTyped
  BY <1>1, ExportAssumption DEF Init, RunsTyped, NoRun, Runs, Live
<1> QED
  BY <1>2, <1>3, ExportAssumption DEF Init, TypeOK, MessagesTyped, NewJob
\* What is written by a claim and by a closing update.
LEMMA ItemClaimed ==
    ASSUME NEW x \in JobType, NEW r \in Runs, NEW lease \in Nat
    PROVE  /\ Claimed(x, r, lease) \in JobType
           /\ Claimed(x, r, lease).status = "processing"
           /\ Claimed(x, r, lease).token = r
           /\ Claimed(x, r, lease).lease = lease
<1> DEFINE attempt == x.attempts + 1
<1>1. r \in 0..MaxRuns /\ attempt \in Nat
  BY ExportAssumption DEF Runs, JobType
<1> HIDE DEF attempt
<1>2. Claimed(x, r, lease) = [x EXCEPT !.status = "processing", !.token = r,
                                       !.lease = lease, !.attempts = attempt]
  BY DEF Claimed, attempt
<1> QED
  BY <1>1, <1>2 DEF JobType, Statuses

LEMMA ItemClosed ==
    ASSUME NEW x \in JobType, NEW s \in Statuses
    PROVE  /\ Closed(x, s) \in JobType
           /\ Closed(x, s).status = s
           /\ Closed(x, s).token = 0
<1> 0 \in 0..MaxRuns /\ 0 \in Nat
  BY ExportAssumption
<1> QED
  BY DEF JobType, Closed

LEMMA ItemCompleted ==
    ASSUME NEW x \in JobType, NEW r \in Runs
    PROVE  LET item == [x EXCEPT !.content = r]
           IN item \in JobType /\ item.status = x.status /\ item.token = x.token
              /\ item.content = r /\ r # 0
<1> r \in 0..MaxRuns /\ r # 0
  BY ExportAssumption DEF Runs
<1> QED
  BY DEF JobType

LEMMA ClaimTypes == ASSUME TypeOK, NEW r \in Runs, Claim(r) PROVE TypeOK'
<1> DEFINE j == run[r].job
           attempt == jobs[j].attempts + 1
<1>1. /\ r \in Live /\ j \in Jobs /\ run[r] \in RunType /\ jobs[j] \in JobType
      /\ run[r].started \in Nat /\ attempt \in Nat /\ now \in Nat
      /\ jobs[j].content \in 0..MaxRuns
  BY DEF Claim, TypeOK, RunsTyped, JobsTyped, Live, RunType, JobType
<1>2. PICK c \in Clock(r) :
        /\ Claimable(j, c)
        /\ jobs' = [jobs EXCEPT ![j] = Claimed(jobs[j], r, c + Lease)]
        /\ \/ /\ run' = [run EXCEPT ![r].pc = "render", ![r].attempt = attempt]
              /\ UNCHANGED <<message, budget>>
           \/ Report(r) /\ Fault
           \/ Acknowledge(r) /\ Stray
  BY <1>1 DEF Claim, JobsTyped, TypeOK
<1>3. UNCHANGED <<now, client, objects, begun>>
  BY DEF Claim
<1>4. c + Lease \in Nat
  BY <1>1, ExportAssumption, LeaseAssumption DEF Clock
<1> DEFINE item == Claimed(jobs[j], r, c + Lease)
           next == [run[r] EXCEPT !.pc = "render", !.attempt = attempt]
<1>5. item \in JobType /\ item.status = "processing" /\ item.token = r
  <2> HIDE DEF attempt, j
  <2> QED
    BY <1>1, <1>4, ItemClaimed
<1>6. next \in RunType /\ next.pc = "render" /\ next.job = j
  <2> HIDE DEF attempt
  <2> QED
    BY <1>1 DEF RunType
<1>7. r # 0
  BY ExportAssumption DEF Runs
<1>8. jobs' = [jobs EXCEPT ![j] = item]
  BY <1>2
<1>9. JobsTyped'
  <2> HIDE DEF item, j
  <2> QED
    BY <1>1, <1>5, <1>7, <1>8, JobMoves DEF TypeOK
<1>10. MessagesTyped' /\ RunsTyped'
  <2>1. CASE run' = [run EXCEPT ![r].pc = "render", ![r].attempt = attempt] /\ UNCHANGED message
    <3>1. run' = [run EXCEPT ![r] = next]
      BY <2>1
    <3> HIDE DEF next, j
    <3>2. RunsTyped'
      BY <1>1, <1>3, <1>6, <3>1, RunMoves DEF TypeOK, Live
    <3> QED
      BY <2>1, <3>2, Untouched DEF TypeOK
  <2>2. CASE Report(r)
    BY <1>1, <1>3, <2>2, MessageReported
  <2>3. CASE Acknowledge(r)
    BY <1>1, <1>3, <2>3, MessageAcknowledged
  <2> QED
    BY <1>2, <2>1, <2>2, <2>3
<1>11. Fault \/ Stray \/ UNCHANGED budget
  BY <1>2
<1>12. \A k \in Jobs : client'[k] = "idle" => jobs'[k].status = "none"
  <2>1. jobs[j].status # "none"
    BY <1>2 DEF Claimable
  <2> HIDE DEF item, j
  <2> QED
    BY <1>1, <1>3, <1>8, <2>1 DEF TypeOK, JobsTyped
<1> QED
  BY <1>3, <1>9, <1>10, <1>11, <1>12, Faulty DEF TypeOK

LEMMA CloseTypes ==
    ASSUME TypeOK, NEW r \in Runs, Complete(r) \/ Release(r) PROVE TypeOK'
<1> DEFINE j == run[r].job
<1>1. r \in Live /\ j \in Jobs /\ jobs[j] \in JobType
  BY DEF Complete, Release, TypeOK, RunsTyped, JobsTyped, Live
<1>2. UNCHANGED <<now, client, objects, begun>> /\ (Fault \/ Stray \/ UNCHANGED budget)
  BY DEF Complete, Release
<1>3. MessagesTyped' /\ RunsTyped'
  <2>1. CASE Report(r)
    BY <1>1, <1>2, <2>1, MessageReported
  <2>2. CASE Acknowledge(r)
    BY <1>1, <1>2, <2>2, MessageAcknowledged
  <2>3. CASE Step(r, "release") /\ UNCHANGED message
    BY <1>1, <1>2, <2>3, RunSteps, Untouched DEF TypeOK
  <2> QED
    BY <2>1, <2>2, <2>3 DEF Complete, Release
<1>4. JobsTyped'
  <2>1. CASE Complete(r)
    <3> DEFINE item == [Closed(jobs[j], "complete") EXCEPT !.content = r]
    <3>1. item \in JobType /\ item.status = "complete" /\ item.token = 0 /\ item.content # 0
      <4> DEFINE closed == Closed(jobs[j], "complete")
      <4>1. closed \in JobType /\ closed.status = "complete" /\ closed.token = 0
        BY <1>1, ItemClosed DEF Statuses
      <4> HIDE DEF closed
      <4>2. LET it == [closed EXCEPT !.content = r]
            IN it \in JobType /\ it.status = closed.status /\ it.token = closed.token
               /\ it.content = r /\ r # 0
        BY <4>1, ItemCompleted
      <4> QED
        BY <4>1, <4>2 DEF closed
    <3>2. jobs' = [jobs EXCEPT ![j] = item]
      BY <2>1 DEF Complete
    <3> HIDE DEF item, j
    <3> QED
      BY <1>1, <3>1, <3>2, JobMoves DEF TypeOK
  <2>2. CASE Release(r)
    <3> PICK s \in {"failed", "queued"} : s = IF Final(r) THEN "failed" ELSE "queued"
      OBVIOUS
    <3> DEFINE item == Closed(jobs[j], s)
    <3>1. item \in JobType /\ item.status = s /\ item.token = 0
      BY <1>1, ItemClosed DEF Statuses
    <3>2. jobs' = [jobs EXCEPT ![j] = item]
      BY <2>2 DEF Release
    <3> HIDE DEF item, j
    <3> QED
      BY <1>1, <3>1, <3>2, JobMoves DEF TypeOK
  <2> QED
    BY <2>1, <2>2
<1>5. \A k \in Jobs : client'[k] = "idle" => jobs'[k].status = "none"
  <2>1. jobs[j].status # "none"
    BY DEF Complete, Release, Held
  <2>2. \A k \in Jobs : k # j => jobs'[k] = jobs[k]
    BY DEF Complete, Release, TypeOK, JobsTyped
  <2> QED
    BY <1>1, <1>2, <2>1, <2>2 DEF TypeOK
<1> QED
  BY <1>2, <1>3, <1>4, <1>5, Faulty DEF TypeOK

LEMMA RequestTypes ==
    ASSUME TypeOK, NEW j \in Jobs, Request(j) PROVE TypeOK'
<1>1. JobsTyped'
  <2>1. CASE UNCHANGED jobs
    BY <2>1, Untouched DEF TypeOK
  <2>2. ASSUME NEW s \in {"queued", "failed"}, jobs' = [jobs EXCEPT ![j].status = s],
               jobs[j].token = 0
        PROVE  JobsTyped'
    <3> DEFINE item == [jobs[j] EXCEPT !.status = s]
    <3>1. item \in JobType /\ item.status = s /\ item.token = 0
      BY <2>2 DEF TypeOK, JobsTyped, JobType, Statuses
    <3>2. jobs' = [jobs EXCEPT ![j] = item]
      BY <2>2
    <3> HIDE DEF item
    <3> QED
      BY <3>1, <3>2, JobMoves DEF TypeOK
  <2> QED
    BY <2>1, <2>2 DEF Request, Create, Enqueue, FailQueued, CreateFails, Unclaimed,
       TypeOK, JobsTyped
<1>2. MessagesTyped'
  <2>1. CASE Enqueue(j)
    <3>1. TenantOf[j] \in Tenants /\ queue[TenantOf[j]] \in Seq(Jobs)
      BY ExportAssumption DEF TypeOK, MessagesTyped
    <3>2. Append(queue[TenantOf[j]], j) \in Seq(Jobs)
      BY <3>1, AppendProperties
    <3> QED
      BY <2>1, <3>2 DEF Enqueue, TypeOK, MessagesTyped
  <2>2. CASE UNCHANGED message
    BY <2>2, Untouched DEF TypeOK
  <2> QED
    BY <2>1, <2>2 DEF Request, Create, FailQueued, CreateFails
<1>3. RunsTyped'
  <2>1. UNCHANGED <<run, begun>>
    BY DEF Request, Create, Enqueue, FailQueued, CreateFails
  <2> QED
    BY <2>1, Untouched DEF TypeOK
<1>4. client' \in [Jobs -> {"idle", "enqueue", "accepted", "failing", "refused"}]
  BY DEF Request, Create, Enqueue, FailQueued, CreateFails, Ask, TypeOK
<1>5. \A k \in Jobs : client'[k] = "idle" => jobs'[k].status = "none"
  BY DEF Request, Create, Enqueue, FailQueued, CreateFails, Ask, Unclaimed,
     TypeOK, JobsTyped, JobType
<1>6. UNCHANGED <<now, objects>> /\ (Fault \/ Stray \/ UNCHANGED budget)
  BY DEF Request, Create, Enqueue, FailQueued, CreateFails
<1> QED
  BY <1>1, <1>2, <1>3, <1>4, <1>5, <1>6, Faulty DEF TypeOK

LEMMA QueueTypes ==
    ASSUME TypeOK, NEW t \in Tenants, Service(t) \/ DeliverAgain(t) PROVE TypeOK'
<1>1. queue[t] # <<>> /\ queue[t] \in Seq(Jobs)
  BY DEF Service, Deliver, DeliverAgain, DeadLetter, Due, TypeOK, MessagesTyped
<1>2. Head(queue[t]) \in Jobs
  BY <1>1, HeadTailProperties
<1>3. MessagesTyped'
  <2>1. CASE Deliver(t)
    <3>1. Hidden \in Nat /\ receives[Head(queue[t])] + 1 \in Nat
      BY <1>2, ExportAssumption DEF Hidden, TypeOK, MessagesTyped
    <3> QED
      BY <2>1, <3>1 DEF Deliver, TypeOK, MessagesTyped
  <2>2. CASE DeliverAgain(t)
    BY <2>2, Untouched DEF DeliverAgain, TypeOK
  <2>3. CASE DeadLetter(t)
    <3>1. dead' \subseteq Jobs
      BY <1>2, <2>3 DEF DeadLetter, TypeOK, MessagesTyped
    <3> QED
      BY <1>1, <2>3, <3>1, MessageGoes DEF DeadLetter, TypeOK
  <2> QED
    BY <2>1, <2>2, <2>3 DEF Service
<1>4. RunsTyped'
  <2>1. CASE Invoke(Head(queue[t]))
    BY <1>2, <2>1, RunBegins DEF TypeOK
  <2>2. CASE UNCHANGED <<run, begun>>
    BY <2>2, Untouched DEF TypeOK
  <2> QED
    BY <2>1, <2>2 DEF Service, Deliver, DeliverAgain, DeadLetter
<1>5. UNCHANGED <<now, client, jobs, objects>> /\ (Fault \/ Stray \/ UNCHANGED budget)
  BY DEF Service, Deliver, DeliverAgain, DeadLetter
<1> QED
  BY <1>3, <1>4, <1>5, Faulty, Untouched DEF TypeOK

\* The steps of an invocation that leave the item alone.
LEMMA OtherTypes ==
    ASSUME TypeOK, NEW r \in Runs,
           NotClaimed(r) \/ Render(r) \/ Upload(r) \/ LeaseLost(r)
               \/ CallFails(r) \/ Die(r)
    PROVE  TypeOK'
<1>1. r \in Live /\ run[r].job \in Jobs
  BY DEF NotClaimed, Render, Upload, LeaseLost, CallFails, Die, Live, TypeOK, RunsTyped
<1>2. UNCHANGED <<now, client, jobs, begun>> /\ (Fault \/ Stray \/ UNCHANGED budget)
  BY DEF NotClaimed, Render, Upload, LeaseLost, CallFails, Die
<1>3. objects' \in [Jobs -> 0..MaxRuns]
  BY <1>1, ExportAssumption DEF NotClaimed, Render, Upload, LeaseLost, CallFails, Die,
     TypeOK, Runs
<1>4. MessagesTyped' /\ RunsTyped'
  <2>1. CASE Acknowledge(r)
    BY <1>1, <1>2, <2>1, MessageAcknowledged
  <2>2. CASE UNCHANGED message /\ End(r)
    BY <1>1, <1>2, <2>2, RunEnds, Untouched DEF TypeOK
  <2>3. ASSUME NEW label \in {"upload", "complete", "release"}, Step(r, label),
               UNCHANGED message
        PROVE  MessagesTyped' /\ RunsTyped'
    BY <1>1, <1>2, <2>3, RunSteps, Untouched DEF TypeOK
  <2> QED
    BY <2>1, <2>2, <2>3 DEF NotClaimed, Render, Upload, LeaseLost, CallFails, Die
<1> QED
  BY <1>2, <1>3, <1>4, Faulty, Untouched DEF TypeOK

LEMMA TypeNext == TypeOK /\ [Next]_vars => TypeOK'
<1> SUFFICES ASSUME TypeOK, [Next]_vars PROVE TypeOK'
  OBVIOUS
<1>1. ASSUME NEW j \in Jobs, Request(j) PROVE TypeOK'
  BY <1>1, RequestTypes
<1>2. ASSUME NEW t \in Tenants, Service(t) \/ DeliverAgain(t) PROVE TypeOK'
  BY <1>2, QueueTypes
<1>3. ASSUME NEW r \in Runs, Worker(r) \/ Die(r) PROVE TypeOK'
  BY <1>3, ClaimTypes, CloseTypes, OtherTypes DEF Worker
<1>4. CASE Tick
  BY <1>4, Untouched DEF Tick, TypeOK, budget
<1>5. CASE UNCHANGED vars
  BY <1>5, Untouched DEF vars, TypeOK, budget
<1> QED
  BY <1>1, <1>2, <1>3, <1>4, <1>5 DEF Next

\* TypeOK holds in every behaviour of the module: a claim is held exactly while
\* the job is processed (claim, _update_status).
THEOREM TypeCorrect == Spec => []TypeOK
  BY TypeInit, TypeNext, PTL DEF Spec

-----------------------------------------------------------------------------
(* The object of a completed job                                           *)

\* s goes on with what it was doing, or comes to less.
Same(s) ==
    /\ Writing(s)
    /\ run'[s].job = run[s].job
    /\ run'[s].started = run[s].started
    /\ run'[s].pc = "complete" => run[s].pc = "complete"

LEMMA Quiet ==
    ASSUME Safe, UNCHANGED <<jobs, objects>>,
           \A s \in Runs : Writing(s)' => Same(s)
    PROVE  Safe'
  BY DEF Safe, Leased, Put, DownloadMatches, Same, Held, Writing

\* Only the item or the object of j is written, and nobody else is at work on j.
LEMMA OneJob ==
    ASSUME TypeOK, Safe, NEW j \in Jobs,
           \A k \in Jobs \ {j} : jobs'[k] = jobs[k] /\ objects'[k] = objects[k],
           jobs'[j].status = "complete" => objects'[j] = jobs'[j].content,
           \A s \in Runs : Writing(s)' =>
               \/ Same(s) /\ run[s].job \in Jobs \ {j}
               \/ /\ run'[s].job = j /\ Held(s)'
                  /\ jobs'[j].lease >= run'[s].started - Skew + Lease
                  /\ run'[s].pc = "complete" => objects'[j] = s
    PROVE  Safe'
<1>1. DownloadMatches'
  BY DEF Safe, DownloadMatches
<1>2. ASSUME NEW s \in Runs, Writing(s)'
      PROVE  /\ Held(s)'
             /\ jobs'[run'[s].job].lease >= run'[s].started - Skew + Lease
             /\ run'[s].pc = "complete" => objects'[run'[s].job] = s
  BY <1>2 DEF Safe, Leased, Put, Same, Held
<1> QED
  BY <1>1, <1>2 DEF Safe, Leased, Put, Writing

\* Two invocations never hold one job.
LEMMA Apart ==
    ASSUME NEW r \in Runs, NEW s \in Runs, Held(r), Held(s),
           run[r].job = run[s].job
    PROVE  r = s
  BY DEF Held

LEMMA WriterLives ==
    ASSUME TypeOK, NEW s \in Runs, Writing(s)
    PROVE  s \in Live /\ run[s].job \in Jobs
  BY DEF TypeOK, RunsTyped, Live, Writing

LEMMA RequestSafe ==
    ASSUME TypeOK, Safe, NEW j \in Jobs, Request(j) PROVE Safe'
<1>1. UNCHANGED <<run, objects>>
  BY DEF Request, Create, Enqueue, FailQueued, CreateFails
<1>2. CASE UNCHANGED jobs
  BY <1>1, <1>2, Quiet DEF Same, Writing
<1>3. CASE jobs[j].status \in {"none", "queued"} /\ (Create(j) \/ FailQueued(j))
  <2>1. \A k \in Jobs \ {j} : jobs'[k] = jobs[k] /\ objects'[k] = objects[k]
    BY <1>1, <1>3 DEF Create, FailQueued, TypeOK, JobsTyped
  <2>2. jobs'[j].status # "complete"
    BY <1>3 DEF Create, FailQueued, TypeOK, JobsTyped, JobType
  <2>3. \A s \in Runs : Writing(s)' => Same(s) /\ run[s].job \in Jobs \ {j}
    BY <1>1, <1>3, WriterLives DEF Same, Writing, Safe, Leased, Held
  <2> QED
    BY <2>1, <2>2, <2>3, OneJob
<1> QED
  BY <1>2, <1>3 DEF Request, Create, Enqueue, FailQueued, CreateFails, Unclaimed, TypeOK

\* An invocation that holds a job keeps every other from claiming it.
LEMMA Fenced ==
    ASSUME TypeOK, Young, Leased, NEW r \in Runs, run[r].pc = "claim",
           NEW c \in Clock(r), Claimable(run[r].job, c),
           NEW s \in Runs, Writing(s)
    PROVE  run[s].job # run[r].job
<1>1. s \in Live /\ run[s].job \in Jobs
  BY WriterLives
<1>2. now =< run[s].started + RunTimeout /\ c =< now + Skew
  BY <1>1 DEF Young, Clock
<1>3. Held(s) /\ jobs[run[s].job].lease >= run[s].started - Skew + Lease
  BY DEF Leased
<1>4. /\ now \in Nat /\ run[s].started \in Nat /\ run[r].started \in Nat
      /\ jobs[run[s].job].lease \in Nat
  BY <1>1 DEF TypeOK, RunsTyped, RunType, JobsTyped, JobType
<1>5. ~(jobs[run[s].job].lease < c)
  BY <1>2, <1>3, <1>4, ExportAssumption, LeaseAssumption DEF Clock
<1> QED
  BY <1>3, <1>5 DEF Claimable, Held

LEMMA ClaimSafe ==
    ASSUME TypeOK, Young, Safe, NEW r \in Runs, Claim(r) PROVE Safe'
<1> DEFINE j == run[r].job
<1>1. r \in Live /\ j \in Jobs /\ run[r].pc = "claim" /\ jobs[j] \in JobType
  BY DEF Claim, TypeOK, RunsTyped, JobsTyped, Live
<1>2. PICK c \in Clock(r) :
        /\ Claimable(j, c)
        /\ jobs' = [jobs EXCEPT ![j] = Claimed(jobs[j], r, c + Lease)]
        /\ \/ run' = [run EXCEPT ![r].pc = "render", ![r].attempt = jobs[j].attempts + 1]
           \/ End(r)
  BY <1>1 DEF Claim, JobsTyped, TypeOK, Report, Acknowledge
<1>3. c + Lease \in Nat /\ c + Lease >= run[r].started - Skew + Lease
  BY <1>1, ExportAssumption, LeaseAssumption DEF Clock, TypeOK, RunsTyped, RunType
<1> DEFINE item == Claimed(jobs[j], r, c + Lease)
<1>4. item.status = "processing" /\ item.token = r /\ item.lease = c + Lease
  BY <1>1, <1>3, ItemClaimed
<1>5. /\ jobs'[j] = item
      /\ \A k \in Jobs \ {j} : jobs'[k] = jobs[k] /\ objects'[k] = objects[k]
  <2> HIDE DEF item, j
  <2> QED
    BY <1>1, <1>2 DEF Claim, TypeOK, JobsTyped, item
<1>6. \A s \in Runs : s # r => run'[s] = run[s]
  BY <1>2 DEF End, TypeOK, RunsTyped
<1>7. Writing(r)' => run'[r].job = j /\ run'[r].started = run[r].started /\ run'[r].pc = "render"
  BY <1>2 DEF End, NoRun, Writing, TypeOK, RunsTyped, RunType
<1> HIDE DEF item
<1>8. Writing(r)' => Held(r)' /\ jobs'[j].lease >= run'[r].started - Skew + Lease
  BY <1>3, <1>4, <1>5, <1>7 DEF Held
<1>9. \A s \in Runs : s # r /\ Writing(s)' => Same(s) /\ run[s].job \in Jobs \ {j}
  BY <1>1, <1>2, <1>6, Fenced, WriterLives DEF Safe, Same, Writing
<1>10. jobs'[j].status # "complete"
  BY <1>4, <1>5
<1> QED
  BY <1>1, <1>5, <1>7, <1>8, <1>9, <1>10, OneJob

LEMMA HolderSafe ==
    ASSUME TypeOK, Safe, NEW r \in Runs, Upload(r) \/ Complete(r) \/ Release(r)
    PROVE  Safe'
<1> DEFINE j == run[r].job
<1>1. r \in Live /\ j \in Jobs /\ Held(r) /\ jobs[j] \in JobType
  BY DEF Upload, Complete, Release, TypeOK, RunsTyped, JobsTyped, Live, Safe, Leased, Writing
<1>2. \A s \in Runs : s # r => run'[s] = run[s]
  BY DEF Upload, Complete, Release, Step, End, Acknowledge, Report, TypeOK, RunsTyped
<1>3. \A s \in Runs : s # r /\ Writing(s)' => Same(s) /\ run[s].job \in Jobs \ {j}
  BY <1>1, <1>2, Apart, WriterLives DEF Safe, Leased, Same, Writing
<1>4. CASE Upload(r)
  <2>1. /\ UNCHANGED jobs /\ objects'[j] = r
        /\ \A k \in Jobs \ {j} : objects'[k] = objects[k]
    BY <1>1, <1>4 DEF Upload, TypeOK
  <2>2. run'[r].job = j /\ run'[r].started = run[r].started
    BY <1>4 DEF Upload, Step, TypeOK, RunsTyped, RunType
  <2>3. Held(r)' /\ jobs'[j].lease >= run'[r].started - Skew + Lease
    BY <1>1, <1>4, <2>1, <2>2 DEF Safe, Leased, Writing, Upload, Held
  <2>4. jobs'[j].status # "complete"
    BY <1>1, <2>1 DEF Held
  <2> QED
    BY <1>1, <1>3, <2>1, <2>2, <2>3, <2>4, OneJob
<1>5. CASE Complete(r) \/ Release(r)
  <2>1. ~Writing(r)'
    BY <1>5 DEF Complete, Release, Step, End, NoRun, Acknowledge, Report, Writing,
       TypeOK, RunsTyped, RunType
  <2>2. /\ UNCHANGED objects
        /\ \A k \in Jobs \ {j} : jobs'[k] = jobs[k]
    BY <1>5 DEF Complete, Release, TypeOK, JobsTyped
  <2>3. jobs'[j].status = "complete" => objects'[j] = jobs'[j].content
    <3>1. CASE Complete(r)
      <4> DEFINE closed == Closed(jobs[j], "complete")
      <4>1. closed \in JobType
        BY <1>1, ItemClosed DEF Statuses
      <4>2. jobs'[j] = [closed EXCEPT !.content = r]
        BY <1>1, <3>1 DEF Complete, TypeOK, JobsTyped
      <4> HIDE DEF closed
      <4>3. jobs'[j].content = r
        BY <4>1, <4>2 DEF JobType
      <4> QED
        BY <2>2, <3>1, <4>3 DEF Complete, Safe, Put
    <3>2. CASE Release(r)
      <4> PICK s \in {"failed", "queued"} : s = IF Final(r) THEN "failed" ELSE "queued"
        OBVIOUS
      <4>1. jobs'[j] = Closed(jobs[j], s)
        BY <1>1, <3>2 DEF Release, TypeOK, JobsTyped
      <4> QED
        BY <1>1, <4>1, ItemClosed DEF Statuses
    <3> QED
      BY <1>5, <3>1, <3>2
  <2> QED
    BY <1>1, <1>3, <2>1, <2>2, <2>3, OneJob
<1> QED
  BY <1>4, <1>5

LEMMA OtherSafe ==
    ASSUME TypeOK, Safe, NEW r \in Runs,
           NotClaimed(r) \/ Render(r) \/ LeaseLost(r) \/ CallFails(r) \/ Die(r)
    PROVE  Safe'
<1>1. UNCHANGED <<jobs, objects>>
  BY DEF NotClaimed, Render, LeaseLost, CallFails, Die
<1>2. \A s \in Runs : s # r => run'[s] = run[s]
  BY DEF NotClaimed, Render, LeaseLost, CallFails, Die, Acknowledge, Step, End,
     TypeOK, RunsTyped
<1>3. Writing(r)' => Same(r)
  BY DEF NotClaimed, Render, LeaseLost, CallFails, Die, Acknowledge, Step, End, NoRun,
     Same, Writing, TypeOK, RunsTyped, RunType
<1> QED
  BY <1>1, <1>2, <1>3, Quiet DEF Same, Writing

LEMMA QueueSafe ==
    ASSUME TypeOK, Safe, NEW t \in Tenants, Service(t) \/ DeliverAgain(t) PROVE Safe'
<1>1. UNCHANGED <<jobs, objects>>
  BY DEF Service, Deliver, DeliverAgain, DeadLetter
<1>2. \A s \in Runs : run'[s] = run[s] \/ run'[s].pc = "claim"
  BY DEF Service, Deliver, DeliverAgain, DeadLetter, Invoke, TypeOK, RunsTyped
<1> QED
  BY <1>1, <1>2, Quiet DEF Same, Writing

LEMMA SafeNext == TypeOK /\ Young /\ Safe /\ [Next]_vars => Safe'
<1> SUFFICES ASSUME TypeOK, Young, Safe, [Next]_vars PROVE Safe'
  OBVIOUS
<1>1. ASSUME NEW j \in Jobs, Request(j) PROVE Safe'
  BY <1>1, RequestSafe
<1>2. ASSUME NEW t \in Tenants, Service(t) \/ DeliverAgain(t) PROVE Safe'
  BY <1>2, QueueSafe
<1>3. ASSUME NEW r \in Runs, Worker(r) \/ Die(r) PROVE Safe'
  BY <1>3, ClaimSafe, HolderSafe, OtherSafe DEF Worker
<1>4. CASE UNCHANGED <<jobs, objects, run>>
  BY <1>4, Quiet DEF Same, Writing
<1> QED
  BY <1>1, <1>2, <1>3, <1>4 DEF Next, Tick, vars

\* While time stands, an invocation keeps its age or has just begun.
LEMMA YoungNext == TypeOK /\ Young /\ [Next]_vars => Young'
<1> SUFFICES ASSUME TypeOK, Young, [Next]_vars PROVE Young'
  OBVIOUS
<1>1. CASE Tick
  BY <1>1, ExportAssumption DEF Tick, Young, Live, TypeOK, RunsTyped, RunType
<1>2. ASSUME UNCHANGED now,
             \A s \in Runs :
                \/ run'[s].pc \in {"none", "ended"}
                \/ s \in Live /\ run'[s].started = run[s].started
                \/ run'[s].started = now
      PROVE  Young'
  BY <1>2, ExportAssumption DEF Young, Live, TypeOK
<1>3. ASSUME NEW j \in Jobs, Request(j) PROVE Young'
  BY <1>3, <1>2 DEF Request, Create, Enqueue, FailQueued, CreateFails, Live
<1>4. ASSUME NEW t \in Tenants, Service(t) \/ DeliverAgain(t) PROVE Young'
  <2>1. UNCHANGED now /\ \A s \in Runs : run'[s] = run[s] \/ run'[s].started = now
    BY <1>4 DEF Service, Deliver, DeliverAgain, DeadLetter, Invoke, TypeOK, RunsTyped
  <2> QED
    BY <2>1, <1>2 DEF Live
<1>5. ASSUME NEW r \in Runs, Worker(r) \/ Die(r) PROVE Young'
  <2>1. UNCHANGED now
    BY <1>5 DEF Worker, Claim, NotClaimed, Render, Upload, Complete, Release, LeaseLost,
       CallFails, Die
  <2>2. r \in Live
    BY <1>5 DEF Worker, Claim, NotClaimed, Render, Upload, Complete, Release, LeaseLost,
       CallFails, Die, Live
  <2>3. \A s \in Runs : s # r => run'[s] = run[s]
    BY <1>5 DEF Worker, Claim, NotClaimed, Render, Upload, Complete, Release, LeaseLost,
       CallFails, Die, Acknowledge, Report, Step, End, TypeOK, RunsTyped
  <2>4. run'[r].pc = "ended" \/ run'[r].started = run[r].started
    <3>0. run \in [Runs -> RunType] /\ run[r] \in RunType
      BY DEF TypeOK, RunsTyped
    <3>1. End(r) => run'[r].pc = "ended"
      BY <3>0 DEF End, NoRun
    <3>2. ASSUME NEW label, Step(r, label) PROVE run'[r].started = run[r].started
      BY <3>0, <3>2 DEF Step, RunType
    <3>3. CASE Claim(r)
      <4>1. CASE Report(r) \/ Acknowledge(r)
        BY <3>1, <4>1 DEF Report, Acknowledge
      <4>2. CASE run' = [run EXCEPT ![r].pc = "render",
                                    ![r].attempt = jobs[run[r].job].attempts + 1]
        <5>1. PICK moved : moved = [run[r] EXCEPT !.pc = "render",
                                         !.attempt = jobs[run[r].job].attempts + 1]
          OBVIOUS
        <5>2. run'[r] = moved
          BY <3>0, <4>2, <5>1
        <5>3. moved.started = run[r].started
          BY <3>0, <5>1 DEF RunType
        <5> QED
          BY <5>2, <5>3
      <4> QED
        BY <3>3, <4>1, <4>2 DEF Claim
    <3>4. CASE NotClaimed(r) \/ Die(r)
      BY <3>1, <3>4 DEF NotClaimed, Acknowledge, Die
    <3>5. CASE Render(r) \/ Upload(r)
      BY <3>2, <3>5 DEF Render, Upload
    <3>6. CASE Complete(r) \/ Release(r)
      BY <3>1, <3>2, <3>6 DEF Complete, Release, Acknowledge, Report
    <3>7. CASE LeaseLost(r) \/ CallFails(r)
      BY <3>1, <3>2, <3>7 DEF LeaseLost, CallFails
    <3> QED
      BY <1>5, <3>3, <3>4, <3>5, <3>6, <3>7 DEF Worker
  <2>5. ASSUME NEW s \in Runs
        PROVE  \/ run'[s].pc \in {"none", "ended"}
               \/ s \in Live /\ run'[s].started = run[s].started
    BY <2>2, <2>3, <2>4 DEF Live
  <2> QED
    BY <1>2, <2>1, <2>5
<1>6. CASE UNCHANGED vars
  BY <1>6, <1>2 DEF vars, Live
<1> QED
  BY <1>1, <1>3, <1>4, <1>5, <1>6 DEF Next

LEMMA IInvInit == Init => IInv
  BY TypeInit, ExportAssumption
  DEF Init, IInv, Young, Safe, Leased, Put, DownloadMatches, Live, Writing, NoRun, NewJob

\* The inductive invariant: an invocation that is past its claim has the job,
\* under a lease it cannot outlive.
THEOREM Inductive == Spec => []IInv
<1>1. IInv /\ [Next]_vars => IInv'
  BY TypeNext, YoungNext, SafeNext DEF IInv
<1> QED
  BY IInvInit, <1>1, PTL DEF Spec

\* Whoever downloads a completed export gets the content its item describes,
\* although all attempts write to one object key (_job_object_key, claim).
THEOREM DownloadCorrect == Spec => []DownloadMatches
<1>1. IInv => DownloadMatches
  BY DEF IInv, Safe
<1> QED
  BY Inductive, <1>1, PTL

\* A completed or failed job, and the object of a completed one, stay as they
\* are (fail_queued, claim, _update_status).
THEOREM FinalStands == Spec => FinalForGood
<1> DEFINE Stands(j) ==
      jobs[j].status \in {"complete", "failed"} =>
        /\ jobs'[j] = jobs[j]
        /\ jobs[j].status = "complete" => objects'[j] = objects[j]
<1>1. ASSUME IInv, [Next]_vars, NEW j \in Jobs,
             jobs[j].status \in {"complete", "failed"}
      PROVE  jobs'[j] = jobs[j] /\ objects'[j] = objects[j]
  <2>1. ASSUME NEW k \in Jobs, Request(k)
        PROVE  jobs'[j] = jobs[j] /\ objects'[j] = objects[j]
    BY <1>1, <2>1 DEF IInv, TypeOK, JobsTyped, Request, Create, Enqueue, FailQueued,
       CreateFails, Unclaimed
  <2>2. ASSUME NEW r \in Runs, Claim(r)
        PROVE  jobs'[j] = jobs[j] /\ objects'[j] = objects[j]
    BY <1>1, <2>2 DEF IInv, TypeOK, JobsTyped, Claim, Claimable
  <2>3. ASSUME NEW r \in Runs, Upload(r) \/ Complete(r) \/ Release(r)
        PROVE  jobs'[j] = jobs[j] /\ objects'[j] = objects[j]
    <3>1. Held(r)
      BY <1>1, <2>3 DEF IInv, Safe, Leased, Writing, Upload, Complete, Release
    <3>2. run[r].job # j
      BY <1>1, <3>1 DEF Held
    <3> QED
      BY <1>1, <2>3, <3>2 DEF IInv, TypeOK, JobsTyped, Upload, Complete, Release
  <2>4. CASE UNCHANGED <<jobs, objects>>
    BY <2>4
  <2> QED
    BY <1>1, <2>1, <2>2, <2>3, <2>4 DEF Next, Service, Deliver, DeliverAgain, DeadLetter,
       Worker, NotClaimed, Render, LeaseLost, CallFails, Die, Tick, vars
<1>2. IInv /\ [Next]_vars => [\A j \in Jobs : Stands(j)]_vars
  BY <1>1
<1> QED
  BY Inductive, <1>2, PTL DEF Spec, FinalForGood
=============================================================================
