---------------------------- MODULE KnowledgeJobs ----------------------------
(***************************************************************************)
(* The ingestion job service                                               *)
(* (rust/knowledge-service/src/bin/knowledge-jobs.rs) together with the    *)
(* retrieval service it posts to.                                          *)
(*                                                                         *)
(* A job is a row in SQLite and, while the process is up, a tokio task     *)
(* that runs process_job.  The task's statements are separate autocommitted *)
(* SQL statements, so a cancellation can fall between any two of them, and *)
(* a crash loses the tasks but not the rows.  The request a task posts is  *)
(* an ingest of KnowledgeService; it may outlive the task.                 *)
(***************************************************************************)
EXTENDS KnowledgeService

CONSTANTS
    Job,
    Concurrency,  \* RLM_KNOWLEDGE_JOB_CONCURRENCY
    MaxEpoch,     \* bound: starts of the job process
    MaxFaults,    \* bound: database calls that fail
    MaxBroken     \* bound: connections that break while an ingest is under way

ASSUME JobsAssumption ==
    /\ IsFiniteSet(Job)
    /\ Concurrency \in Nat \ {0}
    /\ MaxEpoch \in Nat \ {0}
    /\ MaxFaults \in Nat /\ MaxBroken \in Nat
    /\ Request = Job \X (1..MaxEpoch)
    /\ \A j \in Job : \A e, f \in 1..MaxEpoch : DocumentOf(<<j, e>>) = DocumentOf(<<j, f>>)

VARIABLES
    up,       \* the job process runs
    epoch,    \* how often it was started
    status,   \* column knowledge_jobs.status, "none" where there is no row
    before,   \* the jobs that were over when the job was enqueued (history)
    task,     \* where enqueue, then the job's task, is
    permits,  \* free permits of the semaphore
    faults,   \* database calls that failed
    broken    \* connections that broke

jobVars == <<up, epoch, status, before, task, permits, faults, broken>>
vars == <<serviceVars, jobVars>>

Status == {"none", "queued", "running", "succeeded", "failed", "cancelled"}
Unfinished == {"queued", "running"}

Task == {"none",
         "inserted",   \* enqueue has inserted the row
         "waiting",    \* acquires a permit
         "checked",    \* was not cancelled
         "marked",     \* has marked its job as running
         "posting",    \* awaits the answer
         "answered",   \* has it
         "finishing",  \* was not cancelled, the answer is a success
         "failing"}    \* process_job returned an error
HasPermit == {"checked", "marked", "posting", "answered", "finishing"}

(* Every permit is free or that of one task: none is lost or given twice. *)
PermitsCounted ==
    Cardinality({j \in Job : task[j] \in HasPermit}) + permits = Concurrency

JobsTypeOK ==
    /\ ServiceTypeOK
    /\ up \in BOOLEAN
    /\ epoch \in 1..MaxEpoch
    /\ ~up => epoch < MaxEpoch
    /\ status \in [Job -> Status]
    /\ before \in [Job -> SUBSET Job]
    /\ task \in [Job -> Task]
    /\ permits \in Nat
    /\ PermitsCounted
    /\ faults \in 0..MaxFaults
    /\ broken \in 0..MaxBroken

Init ==
    /\ ServiceInit
    /\ up = TRUE
    /\ epoch = 1
    /\ status = [j \in Job |-> "none"]
    /\ before = [j \in Job |-> {}]
    /\ task = [j \in Job |-> "none"]
    /\ permits = Concurrency
    /\ faults = 0
    /\ broken = 0

(* The ingest that the present task of j posts. *)
RequestOf(j) == <<j, epoch>>

SetTask(j, t) == task' = [task EXCEPT ![j] = t]

(* Mutant of ReleasePermit: the early returns lose the permit. *)
KeepPermit(j) == UNCHANGED permits

(* process_job returns: its permit, if it has one, is dropped. *)
ReleasePermit(j) == permits' = IF task[j] \in HasPermit THEN permits + 1 ELSE permits

Enqueue(j) ==
    /\ up
    /\ status[j] = "none"
    /\ status' = [status EXCEPT ![j] = "queued"]
    /\ before' = [before EXCEPT ![j] = {k \in Job : status[k] # "none" /\ task[k] = "none"}]
    /\ SetTask(j, "inserted")
    /\ UNCHANGED <<serviceVars, up, epoch, permits, faults, broken>>

(* The row is read back, then the task is spawned. *)
Spawn(j) ==
    /\ task[j] = "inserted"
    /\ SetTask(j, "waiting")
    /\ UNCHANGED <<serviceVars, up, epoch, status, before, permits, faults, broken>>

(* The row cannot be read back: the request fails, and the row stays.      *)
ReadBackFails(j) ==
    /\ task[j] = "inserted"
    /\ faults < MaxFaults
    /\ faults' = faults + 1
    /\ SetTask(j, "none")
    /\ UNCHANGED <<serviceVars, up, epoch, status, before, permits, broken>>

(* Mutant of Cancel: any job can be cancelled. *)
CancelAny(j) ==
    /\ up
    /\ status[j] # "none"
    /\ status' = [status EXCEPT ![j] = "cancelled"]
    /\ UNCHANGED <<serviceVars, up, epoch, before, task, permits, faults, broken>>

Cancel(j) ==
    /\ up
    /\ status[j] \in Unfinished
    /\ status' = [status EXCEPT ![j] = "cancelled"]
    /\ UNCHANGED <<serviceVars, up, epoch, before, task, permits, faults, broken>>

PermitFree == permits > 0

TakePermit(j) ==
    /\ task[j] = "waiting"
    /\ PermitFree
    /\ status[j] # "cancelled"
    /\ permits' = permits - 1
    /\ SetTask(j, "checked")
    /\ UNCHANGED <<serviceVars, up, epoch, status, before, faults, broken>>

(* The job was cancelled before it had a permit: nothing is posted. *)
SkipCancelled(j) ==
    /\ task[j] = "waiting"
    /\ PermitFree
    /\ status[j] = "cancelled"
    /\ SetTask(j, "none")
    /\ UNCHANGED <<serviceVars, up, epoch, status, before, permits, faults, broken>>

(* The row is updated only if it is still queued; the task goes on anyway. *)
MarkRunning(j) ==
    /\ task[j] = "checked"
    /\ status' = [status EXCEPT ![j] = IF @ = "queued" THEN "running" ELSE @]
    /\ SetTask(j, "marked")
    /\ UNCHANGED <<serviceVars, up, epoch, before, permits, faults, broken>>

Post(j) ==
    /\ task[j] = "marked"
    /\ Receive(RequestOf(j))
    /\ SetTask(j, "posting")
    /\ UNCHANGED <<up, epoch, status, before, permits, faults, broken>>

TakeAnswer(j) ==
    /\ task[j] = "posting"
    /\ stage[RequestOf(j)] \in {"ok", "failed"}
    /\ SetTask(j, "answered")
    /\ UNCHANGED <<serviceVars, up, epoch, status, before, permits, faults, broken>>

Fail(j) ==
    /\ SetTask(j, "failing")
    /\ ReleasePermit(j)
    /\ UNCHANGED <<serviceVars, up, epoch, status, before>>

(* The service cannot be reached. *)
PostFails(j) ==
    /\ task[j] = "marked"
    /\ Fail(j)
    /\ UNCHANGED <<faults, broken>>

(* The service went away before it answered, or what it answered is lost   *)
(* or cannot be read.                                                      *)
AnswerLost(j) ==
    /\ task[j] = "posting"
    /\ stage[RequestOf(j)] \in Answered
    /\ Fail(j)
    /\ UNCHANGED <<faults, broken>>

(* The connection breaks while the service works on the request.           *)
ConnectionBreaks(j) ==
    /\ task[j] = "posting"
    /\ stage[RequestOf(j)] \notin Answered
    /\ broken < MaxBroken
    /\ broken' = broken + 1
    /\ Fail(j)
    /\ UNCHANGED faults

(* The second look at the row: cancelled jobs keep their status. *)
DropAnswer(j) ==
    /\ task[j] = "answered"
    /\ status[j] = "cancelled"
    /\ SetTask(j, "none")
    /\ ReleasePermit(j)
    /\ UNCHANGED <<serviceVars, up, epoch, status, before, faults, broken>>

(* Mutant of AcceptAnswer: the service answers before the ingest is done. *)
AcceptUnfinished(j) ==
    /\ task[j] \in {"posting", "answered"}
    /\ status[j] # "cancelled"
    /\ SetTask(j, "finishing")
    /\ UNCHANGED <<serviceVars, up, epoch, status, before, permits, faults, broken>>

AcceptAnswer(j) ==
    /\ task[j] = "answered"
    /\ status[j] # "cancelled"
    /\ stage[RequestOf(j)] = "ok"
    /\ SetTask(j, "finishing")
    /\ UNCHANGED <<serviceVars, up, epoch, status, before, permits, faults, broken>>

RefuseAnswer(j) ==
    /\ task[j] = "answered"
    /\ status[j] # "cancelled"
    /\ stage[RequestOf(j)] = "failed"
    /\ Fail(j)
    /\ UNCHANGED <<faults, broken>>

(* finish_job leaves a cancelled row alone. *)
FinishedStatus(j, outcome) ==
    [status EXCEPT ![j] = IF @ = "cancelled" THEN @ ELSE outcome]

FinishSucceeded(j) ==
    /\ task[j] = "finishing"
    /\ status' = FinishedStatus(j, "succeeded")
    /\ SetTask(j, "none")
    /\ ReleasePermit(j)
    /\ UNCHANGED <<serviceVars, up, epoch, before, faults, broken>>

FinishFailed(j) ==
    /\ task[j] = "failing"
    /\ status' = FinishedStatus(j, "failed")
    /\ SetTask(j, "none")
    /\ UNCHANGED <<serviceVars, up, epoch, before, permits, faults, broken>>

(* A statement of process_job on the job database fails. *)
StatementFails(j) ==
    /\ task[j] \in {"waiting", "checked", "marked", "answered", "finishing"}
    /\ task[j] = "waiting" => PermitFree
    /\ faults < MaxFaults
    /\ faults' = faults + 1
    /\ Fail(j)
    /\ UNCHANGED broken

(* The result of the finish_job that records the failure is ignored. *)
FinishFails(j) ==
    /\ task[j] = "failing"
    /\ faults < MaxFaults
    /\ faults' = faults + 1
    /\ SetTask(j, "none")
    /\ UNCHANGED <<serviceVars, up, epoch, status, before, permits, broken>>

Crash ==
    /\ up
    /\ epoch < MaxEpoch
    /\ up' = FALSE
    /\ task' = [j \in Job |-> "none"]
    /\ permits' = Concurrency
    /\ UNCHANGED <<serviceVars, epoch, status, before, faults, broken>>

(* Mutant of RecoveredStatus: running jobs stay as they are. *)
StatusAsLeft == status

(* recover_interrupted_jobs *)
RecoveredStatus == [j \in Job |-> IF status[j] = "running" THEN "queued" ELSE status[j]]

(* main: recover, spawn what is queued, serve. *)
Start ==
    /\ ~up
    /\ up' = TRUE
    /\ epoch' = epoch + 1
    /\ status' = RecoveredStatus
    /\ task' = [j \in Job |-> IF RecoveredStatus[j] = "queued" THEN "waiting" ELSE "none"]
    /\ UNCHANGED <<serviceVars, before, permits, faults, broken>>

(* The connection of an ingest is gone, with the process that posted it or *)
(* by itself.                                                              *)
Abandoned(r) == ~up \/ r[2] < epoch \/ task[r[1]] # "posting"

TaskStep(j) ==
    \/ Spawn(j) \/ TakePermit(j) \/ SkipCancelled(j) \/ MarkRunning(j) \/ Post(j) \/ PostFails(j)
    \/ TakeAnswer(j) \/ AnswerLost(j) \/ DropAnswer(j) \/ AcceptAnswer(j)
    \/ RefuseAnswer(j) \/ FinishSucceeded(j) \/ FinishFailed(j)

RetrievalStep(r) == IngestStep(r) /\ UNCHANGED jobVars

Next ==
    \/ \E j \in Job : \/ Enqueue(j) \/ Cancel(j) \/ TaskStep(j)
                      \/ ReadBackFails(j) \/ StatementFails(j) \/ FinishFails(j)
                      \/ ConnectionBreaks(j)
    \/ Crash
    \/ Start
    \/ \E r \in Request : \/ RetrievalStep(r)
                          \/ Abandoned(r) /\ Drop(r) /\ UNCHANGED jobVars
    \/ \E d \in Document : DeleteDocument(d) /\ UNCHANGED jobVars
    \/ Restart /\ UNCHANGED jobVars

Spec == Init /\ [][Next]_vars

(* Tasks and handlers are run by tokio, whose semaphore is fair, and the   *)
(* process is started again after a crash.  reqwest's client has no        *)
(* timeout: that a post ends rests on the retrieval service alone.         *)
Fairness ==
    /\ \A j \in Job : SF_vars(TaskStep(j))
    /\ \A r \in Request : WF_vars(RetrievalStep(r))
    /\ WF_vars(Start)

FairSpec == Spec /\ Fairness

-----------------------------------------------------------------------------
(* Properties.                                                             *)

(* While the process is up and no database call failed, every unfinished   *)
(* job has a task that works on it: cancellations, failures and restarts   *)
(* leave no row behind in "queued" or "running" (docs/knowledge-jobs.md:   *)
(* interrupted jobs return to the queue on startup).                       *)
UnfinishedHaveTask ==
    up /\ faults = 0 => \A j \in Job : status[j] \in Unfinished => task[j] # "none"

(* A job that was enqueued is settled in the end: no lost answer, crash,   *)
(* cancellation or failed ingest leaves it waiting for ever.               *)
JobsFinish ==
    \A j \in Job : (status[j] = "queued") ~> (status[j] \notin Unfinished)

(* docs/knowledge.md: re-ingesting a source replaces every previous        *)
(* version.  A job that was enqueued when another one was over, as settled *)
(* or failed or cancelled, and succeeds itself, is not undone by that      *)
(* other one's ingest: the task does not end before its post does, unless  *)
(* the job process crashes or the connection breaks.  (Two jobs that are   *)
(* both unfinished are taken in either order.)                             *)
LaterJobWins ==
    epoch = 1 /\ broken = 0 => \A k \in Job : status[k] = "succeeded" =>
        \A j \in before[k] :
            SourceOf[RequestOf(j)] = SourceOf[RequestOf(k)]
            => latest[SourceOf[RequestOf(k)]] # RequestOf(j)

(* Facts that make the refinement inductive: a task works on a job that is *)
(* not settled except by a cancellation, a job about to be marked as       *)
(* succeeded was stored, and only jobs that were enqueued are ingested.    *)
TaskMatchesJob ==
    \A j \in Job :
        /\ task[j] # "none" => status[j] \in Unfinished \cup {"cancelled"}
        /\ task[j] = "finishing" => stage[RequestOf(j)] = "ok"
        /\ task[j] # "none" => up
RequestsOfJobs ==
    \A r \in Request : stage[r] # "none" => status[r[1]] # "none"

JobsIInv == JobsTypeOK /\ TaskMatchesJob /\ RequestsOfJobs

(* Facts that make LaterJobWins inductive, as long as the job process has  *)
(* not crashed and no connection broke: what succeeded was stored, only a  *)
(* task that posts has an ingest under way, the jobs a job comes after are *)
(* over and post nothing more, and its own ingest, once it has had the     *)
(* gate, comes after theirs.                                               *)
SucceededAreStored == \A k \in Job : status[k] = "succeeded" => stage[RequestOf(k)] = "ok"
Over(j) == stage[RequestOf(j)] \in Answered \cup {"none"}
OnlyPosting == up => \A j \in Job : task[j] # "posting" => Over(j)
BeforeOver ==
    \A k \in Job : \A j \in before[k] : status[j] # "none" /\ task[j] = "none" /\ Over(j)
ComesAfter(k, j) ==
    stage[RequestOf(k)] \in {"replacing", "ok"}
    /\ SourceOf[RequestOf(j)] = SourceOf[RequestOf(k)]
    => latest[SourceOf[RequestOf(k)]] # RequestOf(j)

OrderIInv ==
    epoch = 1 /\ broken = 0 => /\ SucceededAreStored /\ OnlyPosting /\ BeforeOver
                            /\ \A k \in Job : \A j \in before[k] : ComesAfter(k, j)

Settled(j) == IF status[j] \in Unfinished THEN "pending" ELSE status[j]

Ledger == INSTANCE JobLedger WITH
    ledger <- [j \in Job |-> Settled(j)],
    stored <- {j \in Job : \E e \in 1..MaxEpoch : stage[<<j, e>>] = "ok"}

(* A job is settled once and for good, across crashes, and as succeeded    *)
(* only if its content was stored.                                         *)
ImplementsLedger == Ledger!Spec
=============================================================================
