------------------------------ MODULE ExportJobs ------------------------------
(***************************************************************************)
(* The export jobs of the serverless deployment: a request writes a job    *)
(* and sends a message; a Lambda worker claims the job, renders it, puts   *)
(* the object and completes the job.                                       *)
(*                                                                         *)
(*   src/src/gateway/export_jobs.py          ExportJobService._create,     *)
(*        ExportJobWorker.process, DynamoExportJobStore                    *)
(*   src/src/gateway/serverless_workers.py   process_export_sqs_batch      *)
(*   src/src/gateway/deployment/infra/serverless_workers_stack.py          *)
(*        the queue, its dead-letter queue and the worker's limits         *)
(*                                                                         *)
(* Invocations of the worker are numbered in the order they begin.  The    *)
(* number stands for the claim token the invocation draws and for the      *)
(* content it renders: two renderings of a job differ, because rows were   *)
(* written in between.  0 is no token and no content.                      *)
(*                                                                         *)
(* Nothing cancels the worker in that function, so the except branch for   *)
(* CancelledError is left out.                                             *)
(***************************************************************************)
EXTENDS Integers, Sequences, FiniteSets

CONSTANTS
    Jobs,           \* requests for an export
    Tenants,
    TenantOf,       \* TenantOf[j]: whose export j is
    MaxAttempts,    \* EXPORT_MAX_ATTEMPTS
    Lease,          \* EXPORT_LEASE_SECONDS
    RunTimeout,     \* the function's timeout
    Visibility,     \* the queue's visibility_timeout
    MaxReceives,    \* max_receive_count of the dead-letter queue
    MaxConcurrency, \* invocations at one time
    Skew,           \* how far a worker's clock may be from the time
    MaxRuns,        \* bound: invocations
    MaxFaults,      \* bound: failed calls and deaths
    MaxStrays       \* bound: second invocations for one receipt, and claims
                    \* whose answer is lost to the SDK, which asks again

Runs == 1..MaxRuns

NoJob == "none"

ASSUME ExportAssumption ==
    /\ NoJob \notin Jobs
    /\ TenantOf \in [Jobs -> Tenants]
    /\ MaxAttempts \in Nat
    /\ Lease \in Nat
    /\ RunTimeout \in Nat
    /\ Visibility \in Nat
    /\ MaxReceives \in Nat
    /\ MaxConcurrency \in Nat
    /\ Skew \in Nat
    /\ MaxRuns \in Nat
    /\ MaxFaults \in Nat
    /\ MaxStrays \in Nat

\* No invocation outlives the lease it took, by any worker's clock.
ASSUME LeaseAssumption == RunTimeout + 2 * Skew =< Lease

VARIABLES
    now,
    client,     \* client[j]: where the request for j is in _create
    jobs,       \* jobs[j]: the item of j
    queue,      \* queue[t]: the messages of tenant t, a FIFO message group
    hidden,     \* hidden[j]: until when the message of j is invisible
    receives,   \* receives[j]: how often it was received
    dead,       \* jobs whose message is in the dead-letter queue
    objects,    \* objects[j]: the content at the object key of j
    run,        \* run[r]: invocation r of the worker
    begun,      \* number of invocations so far
    faults,
    strays

message == <<queue, hidden, receives, dead>>
budget == <<faults, strays>>
vars == <<now, client, jobs, message, objects, run, begun, budget>>

\* token: claim_token; content: content_sha256, content_length and row_count.
NewJob == [status |-> "none", attempts |-> 0, token |-> 0, lease |-> 0,
           content |-> 0]

\* attempt: the attempt_count that the claim returned.
NoRun == [pc |-> "none", job |-> NoJob, started |-> 0, attempt |-> 0]

Init ==
    /\ now = 0
    /\ client = [j \in Jobs |-> "idle"]
    /\ jobs = [j \in Jobs |-> NewJob]
    /\ queue = [t \in Tenants |-> <<>>]
    /\ hidden = [j \in Jobs |-> 0]
    /\ receives = [j \in Jobs |-> 0]
    /\ dead = {}
    /\ objects = [j \in Jobs |-> 0]
    /\ run = [r \in Runs |-> NoRun]
    /\ begun = 0
    /\ faults = 0
    /\ strays = 0

Fault == faults < MaxFaults /\ faults' = faults + 1 /\ UNCHANGED strays

Stray == strays < MaxStrays /\ strays' = strays + 1 /\ UNCHANGED faults

Live == {r \in Runs : run[r].pc \notin {"none", "ended"}}

-----------------------------------------------------------------------------
(* The request: _create                                                    *)

Ask(j, label) == client' = [client EXCEPT ![j] = label]

\* The item is written; the answer may be lost.
Create(j) ==
    /\ client[j] = "idle"
    /\ jobs' = [jobs EXCEPT ![j].status = "queued"]
    /\ \/ Ask(j, "enqueue") /\ UNCHANGED budget
       \/ Ask(j, "refused") /\ Fault
    /\ UNCHANGED <<now, message, objects, run, begun>>

\* The message is sent; if the answer is lost, the job is marked all the same.
Enqueue(j) ==
    /\ client[j] = "enqueue"
    /\ queue' = [queue EXCEPT ![TenantOf[j]] = Append(@, j)]
    /\ \/ Ask(j, "accepted") /\ UNCHANGED budget
       \/ Ask(j, "failing") /\ Fault
    /\ UNCHANGED <<now, jobs, hidden, receives, dead, objects, run, begun>>

\* Mutant of Unclaimed: any job that nobody is working on.
UnclaimedAtRest(j) == jobs[j].status # "processing"

\* fail_queued: the condition.
Unclaimed(j) == jobs[j].status = "queued"

\* fail_queued; whether it succeeds or raises, the client is told of an error.
FailQueued(j) ==
    /\ client[j] = "failing"
    /\ jobs' = IF Unclaimed(j) THEN [jobs EXCEPT ![j].status = "failed"] ELSE jobs
    /\ Ask(j, "refused")
    /\ UNCHANGED <<now, message, objects, run, begun, budget>>

\* A call fails and has no effect, or the instance dies.
CreateFails(j) ==
    /\ \/ client[j] \in {"idle", "failing"} /\ Ask(j, "refused")
       \/ client[j] = "enqueue" /\ \E label \in {"failing", "refused"} : Ask(j, label)
    /\ Fault
    /\ UNCHANGED <<now, jobs, message, objects, run, begun>>

-----------------------------------------------------------------------------
(* The queue and the function it invokes                                   *)

\* The first message of the group may be received.
Due(t) == queue[t] # <<>> /\ hidden[Head(queue[t])] =< now

HasRoom == Cardinality(Live) < MaxConcurrency /\ begun < MaxRuns

Invoke(j) ==
    /\ HasRoom
    /\ run' = [run EXCEPT ![begun + 1] =
                 [pc |-> "claim", job |-> j, started |-> now, attempt |-> 0]]
    /\ begun' = begun + 1

\* Mutant of Hidden: the message comes back when the function has timed out.
HiddenBriefly == now + RunTimeout

\* Until when a message that is received now is invisible.
Hidden == now + Visibility

Deliver(t) ==
    /\ Due(t)
    /\ LET j == Head(queue[t]) IN
        /\ receives[j] < MaxReceives
        /\ receives' = [receives EXCEPT ![j] = @ + 1]
        /\ hidden' = [hidden EXCEPT ![j] = Hidden]
        /\ Invoke(j)
    /\ UNCHANGED <<now, client, jobs, queue, dead, objects, budget>>

\* The function is invoked once more with a message that was received.
DeliverAgain(t) ==
    /\ queue[t] # <<>> /\ ~Due(t)
    /\ Invoke(Head(queue[t]))
    /\ Stray
    /\ UNCHANGED <<now, client, jobs, message, objects>>

DeadLetter(t) ==
    /\ Due(t)
    /\ receives[Head(queue[t])] >= MaxReceives
    /\ queue' = [queue EXCEPT ![t] = Tail(@)]
    /\ dead' = dead \cup {Head(queue[t])}
    /\ UNCHANGED <<now, client, jobs, hidden, receives, objects, run, begun, budget>>

Step(r, label) == run' = [run EXCEPT ![r].pc = label]

End(r) == run' = [run EXCEPT ![r] = [NoRun EXCEPT !.pc = "ended"]]

\* No failure is reported: the message is deleted, if it is there still.
Acknowledge(r) ==
    /\ LET j == run[r].job
           line == queue[TenantOf[j]]
       IN queue' = IF line # <<>> /\ Head(line) = j
                     THEN [queue EXCEPT ![TenantOf[j]] = Tail(@)] ELSE queue
    /\ End(r)
    /\ UNCHANGED <<hidden, receives, dead>>

\* batchItemFailures: the message is received again when it is visible.
Report(r) == End(r) /\ UNCHANGED message

-----------------------------------------------------------------------------
(* The worker: process                                                     *)

\* What the worker's clock may have shown when it was read for the claim.
Clock(r) == (run[r].started - Skew)..(now + Skew)

\* Mutant of Claimable: the lease is not looked at.
ClaimableAny(j, c) == jobs[j].status \in {"queued", "processing"}

\* claim: the condition.
Claimable(j, c) ==
    \/ jobs[j].status = "queued"
    \/ jobs[j].status = "processing" /\ jobs[j].lease < c

\* claim: what is written.
Claimed(job, r, lease) ==
    [job EXCEPT !.status = "processing", !.token = r, !.lease = lease,
                !.attempts = job.attempts + 1]

\* claim: commits, and the answer arrives, or the call raises, or the answer
\* is lost to the SDK: asked again, the condition is false, and claim gives None.
Claim(r) ==
    /\ run[r].pc = "claim"
    /\ LET j == run[r].job
       IN \E c \in Clock(r) :
            /\ Claimable(j, c)
            /\ jobs' = [jobs EXCEPT ![j] = Claimed(@, r, c + Lease)]
            /\ \/ /\ run' = [run EXCEPT ![r].pc = "render",
                                        ![r].attempt = jobs[j].attempts + 1]
                  /\ UNCHANGED <<message, budget>>
               \/ Report(r) /\ Fault
               \/ Acknowledge(r) /\ Stray
    /\ UNCHANGED <<now, client, objects, begun>>

\* claim gives None: the job is final, or another invocation's lease runs.
NotClaimed(r) ==
    /\ run[r].pc = "claim"
    /\ \E c \in Clock(r) : ~Claimable(run[r].job, c)
    /\ Acknowledge(r)
    /\ UNCHANGED <<now, client, jobs, objects, begun, budget>>

Render(r) ==
    /\ run[r].pc = "render"
    /\ Step(r, "upload")
    /\ UNCHANGED <<now, client, jobs, message, objects, begun, budget>>

\* put_object; the key is the same for every attempt.
Upload(r) ==
    /\ run[r].pc = "upload"
    /\ objects' = [objects EXCEPT ![run[r].job] = r]
    /\ \/ Step(r, "complete") /\ UNCHANGED budget
       \/ Step(r, "release") /\ Fault
    /\ UNCHANGED <<now, client, jobs, message, begun>>

\* _update_status: the condition for the holder of a claim.
Held(r) ==
    LET job == jobs[run[r].job]
    IN job.status = "processing" /\ job.token = r

\* Mutant of Closed: the claim is kept.
ClosedClaimed(job, status) == [job EXCEPT !.status = status]

\* _update_status: what is written.
Closed(job, status) == [job EXCEPT !.status = status, !.token = 0, !.lease = 0]

Complete(r) ==
    /\ run[r].pc = "complete"
    /\ Held(r)
    /\ jobs' = [jobs EXCEPT ![run[r].job] = [Closed(@, "complete") EXCEPT !.content = r]]
    /\ \/ Acknowledge(r) /\ UNCHANGED budget
       \/ Step(r, "release") /\ UNCHANGED message /\ Fault
    /\ UNCHANGED <<now, client, objects, begun>>

Final(r) == run[r].attempt >= MaxAttempts

\* if not final: raise
Reported(r) == ~Final(r)

\* release_or_fail
Release(r) ==
    /\ run[r].pc = "release"
    /\ Held(r)
    /\ jobs' = [jobs EXCEPT ![run[r].job] =
                  Closed(@, IF Final(r) THEN "failed" ELSE "queued")]
    /\ \/ ~Reported(r) /\ Acknowledge(r) /\ UNCHANGED budget
       \/ Reported(r) /\ Report(r) /\ UNCHANGED budget
       \/ Report(r) /\ Fault
    /\ UNCHANGED <<now, client, objects, begun>>

\* ExportJobLeaseLost
LeaseLost(r) ==
    /\ run[r].pc \in {"complete", "release"}
    /\ ~Held(r)
    /\ IF run[r].pc = "complete" THEN Step(r, "release") ELSE End(r)
    /\ UNCHANGED <<now, client, jobs, message, objects, begun, budget>>

\* A call, or the rendering, fails and has no effect.
CallFails(r) ==
    /\ \/ run[r].pc \in {"render", "upload", "complete"} /\ Step(r, "release")
       \/ run[r].pc \in {"claim", "release"} /\ End(r)
    /\ Fault
    /\ UNCHANGED <<now, client, jobs, message, objects, begun>>

\* The invocation dies, or the function's timeout ends it.
Die(r) ==
    /\ r \in Live
    /\ End(r)
    /\ Fault
    /\ UNCHANGED <<now, client, jobs, message, objects, begun>>

\* Time passes while something waits for it: an invocation under its timeout,
\* or an invisible message.  Bound: the queue gives out a message as soon as it
\* may.
Tick ==
    /\ \A r \in Live : now < run[r].started + RunTimeout
    /\ HasRoom => \A t \in Tenants : ~Due(t)
    /\ Live # {} \/ \E t \in Tenants : queue[t] # <<>> /\ ~Due(t)
    /\ now' = now + 1
    /\ UNCHANGED <<client, jobs, message, objects, run, begun, budget>>

Request(j) == Create(j) \/ Enqueue(j) \/ FailQueued(j) \/ CreateFails(j)

Service(t) == Deliver(t) \/ DeadLetter(t)

Worker(r) ==
    \/ Claim(r) \/ NotClaimed(r) \/ Render(r) \/ Upload(r) \/ Complete(r)
    \/ Release(r) \/ LeaseLost(r) \/ CallFails(r)

Next ==
    \/ \E j \in Jobs : Request(j)
    \/ \E t \in Tenants : Service(t) \/ DeliverAgain(t)
    \/ \E r \in Runs : Worker(r) \/ Die(r)
    \/ Tick

Spec == Init /\ [][Next]_vars

FairSpec ==
    /\ Spec
    /\ \A j \in Jobs : WF_vars(Request(j))
    /\ \A t \in Tenants : WF_vars(Service(t))
    /\ \A r \in Runs : WF_vars(Worker(r))
    /\ WF_vars(Tick)

-----------------------------------------------------------------------------
(* Properties                                                              *)

Statuses == {"none", "queued", "processing", "complete", "failed"}

JobType == [status : Statuses, attempts : Nat, token : 0..MaxRuns, lease : Nat,
            content : 0..MaxRuns]

RunType == [pc : {"none", "claim", "render", "upload", "complete", "release", "ended"},
            job : Jobs \cup {NoJob}, started : Nat, attempt : Nat]

JobsTyped ==
    /\ jobs \in [Jobs -> JobType]
    /\ \A j \in Jobs :
        /\ jobs[j].status = "processing" <=> jobs[j].token # 0
        /\ jobs[j].status = "complete" => jobs[j].content # 0

MessagesTyped ==
    /\ queue \in [Tenants -> Seq(Jobs)]
    /\ hidden \in [Jobs -> Nat]
    /\ receives \in [Jobs -> Nat]
    /\ dead \subseteq Jobs

RunsTyped ==
    /\ begun \in 0..MaxRuns
    /\ run \in [Runs -> RunType]
    /\ \A r \in Runs : r > begun <=> run[r].pc = "none"
    /\ \A r \in Live : run[r].job \in Jobs

\* The types; a claim is held while the job is processed and at no other time
\* (claim, _update_status), the item has content once it is complete, and there
\* is none before the request (create).
TypeOK ==
    /\ now \in Nat
    /\ client \in [Jobs -> {"idle", "enqueue", "accepted", "failing", "refused"}]
    /\ objects \in [Jobs -> 0..MaxRuns]
    /\ faults \in 0..MaxFaults
    /\ strays \in 0..MaxStrays
    /\ JobsTyped
    /\ MessagesTyped
    /\ RunsTyped
    /\ \A j \in Jobs : client[j] = "idle" => jobs[j].status = "none"

\* Whoever downloads a completed export gets the rows whose digest, length and
\* count the job shows (export_job_public, download_url), although every
\* attempt writes to the same object key (_job_object_key).
DownloadMatches ==
    \A j \in Jobs : jobs[j].status = "complete" => objects[j] = jobs[j].content

\* What a job has come to stands: neither the request that marks it as not
\* enqueued, nor a worker that was given it once more, nor an attempt whose
\* completion went unanswered takes it back (fail_queued, claim,
\* release_or_fail), and the object stays as it was.
FinalForGood ==
    [][\A j \in Jobs : jobs[j].status \in {"complete", "failed"} =>
        /\ jobs'[j] = jobs[j]
        /\ jobs[j].status = "complete" => objects'[j] = objects[j]]_vars

\* A job that the client was told is queued is completed or failed in the end
\* (_create, process, process_export_sqs_batch), whatever calls fail and
\* whichever invocations die: each time, its message comes back when the lease has
\* run out and before the message behind it.  Excused is a message that was moved
\* to the dead-letter queue after a failure in every one of its receives, and, as
\* the code has it, an export that a second invocation for one receipt or a claim
\* asked for twice has disturbed.
EventuallyFinal ==
    \A j \in Jobs :
        client[j] = "accepted" ~>
            \/ jobs[j].status \in {"complete", "failed"}
            \/ j \in dead /\ faults >= MaxReceives
            \/ strays > 0

\* The same without the last excuse: see ExportStranded.cfg.
EveryJobEnds ==
    \A j \in Jobs :
        client[j] = "accepted" ~>
            \/ jobs[j].status \in {"complete", "failed"}
            \/ j \in dead /\ faults >= MaxReceives
=============================================================================
