-------------------------- MODULE ComputeScheduler --------------------------
(***************************************************************************)
(* The job scheduler of a node: src/compute/scheduler.rs, with the store of*)
(* src/compute/store.rs and the outcomes of src/compute/executor.rs.  The  *)
(* actors are the callers of the handle, the scheduler loop, one task per  *)
(* started job, and the disk.  Jobs are numbers in the order of their queue*)
(* keys (creation time, then id); a job may be submitted again.            *)
(***************************************************************************)
EXTENDS Integers, Sequences, FiniteSets

CONSTANTS
    Jobs,           \* the jobs, numbered in queue order
    NoJob,          \* the loop holds no job
    MaxConcurrent,  \* max_concurrent_jobs, the permits of the semaphore
    SubmitCap,      \* capacity of the submit channel, 256
    CancelCap,      \* capacity of the cancel channel, 64
    MaxResults,     \* MAX_STORED_RESULTS
    GcDivisor,      \* 10: a collection deletes count / 10 results
    MaxSubmits,     \* bound on the calls of submit_job
    MaxCancels,     \* bound on the calls of cancel_job
    MaxCrashes      \* bound on the crashes

ASSUME SchedulerAssumption ==
    /\ Jobs \subseteq Nat /\ NoJob \notin Jobs
    /\ MaxConcurrent \in Nat \ {0}
    /\ SubmitCap \in Nat /\ CancelCap \in Nat
    /\ MaxResults \in Nat /\ GcDivisor \in Nat \ {0}
    /\ MaxSubmits \in Nat /\ MaxCancels \in Nat /\ MaxCrashes \in Nat

VARIABLES
    submits,    \* the submit channel
    cancels,    \* the cancel channel
    queue,      \* queue_tree: the jobs waiting on disk
    results,    \* results_tree: the outcome of each job, or "none"
    disk,       \* what sled has flushed of the two trees
    held,       \* the job the loop took from the queue and has no permit for
    permits,    \* free permits of the semaphore
    running,    \* keys of running_jobs
    tasks,      \* the spawned tasks: a job, a number, and how far they are
    calls,      \* calls of the handle so far
    crashes,    \* crashes so far
    settled,    \* history: jobs with a JobCompleted or JobFailed event since
                \* they were last enqueued
    cancelled,  \* history: jobs cancelled while queued or running
    pending     \* history: jobs this process has enqueued or found in the queue
                \* and sent no event for

db == <<queue, results, disk>>
loop == <<submits, cancels, held>>
work == <<permits, running, tasks>>
bounds == <<calls, crashes>>
history == <<settled, cancelled, pending>>
vars == <<db, loop, work, bounds, history>>

Outcome == {"completed", "failed"}
Phase == {"executing"} \cup Outcome
Task == [job : Jobs, n : Nat, phase : Phase]
Database == [queue : SUBSET Jobs, results : [Jobs -> Outcome \cup {"none"}]]

SchedulerTypeOK ==
    /\ submits \in Seq(Jobs) /\ cancels \in Seq(Jobs)
    /\ queue \subseteq Jobs
    /\ results \in [Jobs -> Outcome \cup {"none"}]
    /\ disk \in Database
    /\ held \in Jobs \cup {NoJob}
    /\ permits \in Nat
    /\ running \subseteq Jobs
    /\ tasks \subseteq Task
    /\ calls \in [submit : Nat, cancel : Nat] /\ crashes \in Nat
    /\ settled \subseteq Jobs /\ cancelled \subseteq Jobs /\ pending \subseteq Jobs

Empty == [queue |-> {}, results |-> [j \in Jobs |-> "none"]]

Init ==
    /\ submits = <<>> /\ cancels = <<>> /\ held = NoJob
    /\ queue = Empty.queue /\ results = Empty.results /\ disk = Empty
    /\ permits = MaxConcurrent /\ running = {} /\ tasks = {}
    /\ calls = [submit |-> 0, cancel |-> 0] /\ crashes = 0
    /\ settled = {} /\ cancelled = {} /\ pending = {}

-----------------------------------------------------------------------------
(* The handle *)

\* submit_job of a job whose spec is valid and whose submitter is allowed; the
\* send waits while the channel is full.
SubmitJob(j) ==
    /\ calls.submit < MaxSubmits /\ Len(submits) < SubmitCap
    /\ submits' = Append(submits, j)
    /\ calls' = [calls EXCEPT !.submit = @ + 1]
    /\ cancelled' = cancelled \ {j}
    /\ UNCHANGED <<db, cancels, held, work, crashes, settled, pending>>

\* cancel_job: the token it cancels is one that no task looks at, because
\* WasmEngine::execute makes a token of its own.
CancelJob(j) ==
    /\ calls.cancel < MaxCancels /\ Len(cancels) < CancelCap
    /\ cancels' = Append(cancels, j)
    /\ calls' = [calls EXCEPT !.cancel = @ + 1]
    /\ UNCHANGED <<db, submits, held, work, crashes, history>>

-----------------------------------------------------------------------------
(* The scheduler loop: one branch of select! at a time *)

\* The job may have become too old while it was in the channel, and the
\* transaction may fail: then the job is dropped with a log line.
ReceiveSubmit ==
    /\ held = NoJob /\ submits # <<>>
    /\ submits' = Tail(submits)
    /\ LET j == Head(submits)
       IN  \/ /\ queue' = queue \cup {j}
              /\ pending' = pending \cup {j}
              /\ settled' = settled \ {j}
           \/ /\ settled' = settled \cup {j}
              /\ UNCHANGED <<queue, pending>>
           \/ UNCHANGED <<queue, pending, settled>>
    /\ UNCHANGED <<results, disk, cancels, held, work, bounds, cancelled>>

\* Mutant: a cancellation also frees the permit.
ReceiveCancelFreesPermit ==
    /\ held = NoJob /\ cancels # <<>>
    /\ cancels' = Tail(cancels)
    /\ running' = running \ {Head(cancels)}
    /\ permits' = IF Head(cancels) \in running THEN permits + 1 ELSE permits
    /\ UNCHANGED <<db, submits, held, tasks, bounds, history>>

\* Only running_jobs is looked up: the entry goes, the queue stays as it is.
ReceiveCancel ==
    /\ held = NoJob /\ cancels # <<>>
    /\ cancels' = Tail(cancels)
    /\ LET j == Head(cancels)
       IN  /\ running' = running \ {j}
           /\ cancelled' = IF j \in queue \cup running THEN cancelled \cup {j}
                                                       ELSE cancelled
    /\ UNCHANGED <<db, submits, held, permits, tasks, bounds, settled, pending>>

Oldest(S) == CHOOSE j \in S : \A k \in S : j <= k

\* Mutant: the job is dropped when there is no permit (try_acquire).
PollDropsJob ==
    /\ held = NoJob /\ queue # {}
    /\ Cardinality(running) < MaxConcurrent
    /\ held' = IF permits > 0 THEN Oldest(queue) ELSE NoJob
    /\ queue' = queue \ {Oldest(queue)}
    /\ UNCHANGED <<results, disk, submits, cancels, work, bounds, history>>

\* A tick: dequeue_next, then the loop waits for a permit.
Poll ==
    /\ held = NoJob /\ queue # {}
    /\ Cardinality(running) < MaxConcurrent
    /\ held' = Oldest(queue)
    /\ queue' = queue \ {Oldest(queue)}
    /\ UNCHANGED <<results, disk, submits, cancels, work, bounds, history>>

\* The number tells apart two tasks of the same job: the lowest free one.
NewTask(j, n) == [job |-> j, n |-> n, phase |-> "executing"]
Free(n) == \A t \in tasks : t.n # n
LowestFree(n) == Free(n) /\ \A m \in 1..(n - 1) : ~Free(m)

\* Mutant: the loop does not wait for a permit.
StartJobWithoutPermit ==
    /\ held # NoJob
    /\ permits' = permits - 1
    /\ running' = running \cup {held}
    /\ \E n \in 1..(Cardinality(tasks) + 1) :
          LowestFree(n) /\ tasks' = tasks \cup {NewTask(held, n)}
    /\ held' = NoJob
    /\ UNCHANGED <<db, submits, cancels, bounds, history>>

StartJob ==
    /\ held # NoJob /\ permits > 0
    /\ permits' = permits - 1
    /\ running' = running \cup {held}
    /\ \E n \in 1..(Cardinality(tasks) + 1) :
          LowestFree(n) /\ tasks' = tasks \cup {NewTask(held, n)}
    /\ held' = NoJob
    /\ UNCHANGED <<db, submits, cancels, bounds, history>>

-----------------------------------------------------------------------------
(* The task of a job *)

Settle(j) == settled' = settled \cup {j} /\ pending' = pending \ {j}

\* Mutant: the entry of running_jobs stays.
FinishExecutionKeepsEntry(t, outcome) ==
    /\ t.phase = "executing"
    /\ tasks' = (tasks \ {t}) \cup {[t EXCEPT !.phase = outcome]}
    /\ UNCHANGED <<db, loop, permits, running, bounds, history>>

\* WasmEngine::execute returns a result, or an error from before the execution;
\* a job that runs into its timeout has a result too.
FinishExecution(t, outcome) ==
    /\ t.phase = "executing"
    /\ running' = running \ {t.job}
    /\ tasks' = (tasks \ {t}) \cup {[t EXCEPT !.phase = outcome]}
    /\ UNCHANGED <<db, loop, permits, bounds, history>>

ExecutionError(t) ==
    /\ t.phase = "executing"
    /\ running' = running \ {t.job}
    /\ tasks' = tasks \ {t}
    /\ permits' = permits + 1
    /\ Settle(t.job)
    /\ UNCHANGED <<db, loop, bounds, cancelled>>

\* gc_results_if_needed: iteration is in the order of the keys, which are hashes,
\* so any results may be the ones deleted.
Collected(r) ==
    LET stored == {j \in Jobs : r[j] # "none"}
        count == Cardinality(stored)
    IN  IF count <= MaxResults THEN {r}
        ELSE {[j \in Jobs |-> IF j \in gone THEN "none" ELSE r[j]] :
                 gone \in {g \in SUBSET stored : Cardinality(g) = count \div GcDivisor}}

\* Mutant: the permit is never dropped.
SaveResultKeepsPermit(t) ==
    /\ t.phase \in Outcome
    /\ results' \in Collected([results EXCEPT ![t.job] = t.phase])
    /\ tasks' = tasks \ {t}
    /\ Settle(t.job)
    /\ UNCHANGED <<queue, disk, loop, running, permits, bounds, cancelled>>

\* save_result, whose error is logged, then the event; the permit is dropped last.
SaveResult(t) ==
    /\ t.phase \in Outcome
    /\ \/ results' \in Collected([results EXCEPT ![t.job] = t.phase])
       \/ UNCHANGED results
    /\ tasks' = tasks \ {t}
    /\ permits' = permits + 1
    /\ Settle(t.job)
    /\ UNCHANGED <<queue, disk, loop, running, bounds, cancelled>>

-----------------------------------------------------------------------------
(* The disk *)

\* sled writes its log in the order of the operations.
Flush ==
    /\ disk' = [queue |-> queue, results |-> results]
    /\ UNCHANGED <<queue, results, loop, work, bounds, history>>

\* The process is killed and started again: what was not flushed is lost, and so
\* are the channels and every task.
Crash ==
    /\ crashes < MaxCrashes
    /\ crashes' = crashes + 1
    /\ queue' = disk.queue /\ results' = disk.results
    /\ submits' = <<>> /\ cancels' = <<>> /\ held' = NoJob
    /\ permits' = MaxConcurrent /\ running' = {} /\ tasks' = {}
    /\ pending' = disk.queue
    /\ UNCHANGED <<disk, calls, settled, cancelled>>

Next ==
    \/ \E j \in Jobs : SubmitJob(j)
    \/ \E j \in Jobs : CancelJob(j)
    \/ ReceiveSubmit
    \/ ReceiveCancel
    \/ Poll
    \/ StartJob
    \/ \E t \in tasks, outcome \in Outcome : FinishExecution(t, outcome)
    \/ \E t \in tasks : ExecutionError(t)
    \/ \E t \in tasks : SaveResult(t)
    \/ Flush
    \/ Crash

TaskStep ==
    \E t \in tasks : \/ \E outcome \in Outcome : FinishExecution(t, outcome)
                     \/ ExecutionError(t)
                     \/ SaveResult(t)

\* The ticker fires every half second and select! picks among its ready branches
\* at random; the executor returns by its timeout.  Nobody has to call or crash.
Fairness ==
    /\ WF_vars(ReceiveSubmit) /\ WF_vars(ReceiveCancel)
    /\ WF_vars(Poll) /\ WF_vars(StartJob)
    /\ WF_vars(TaskStep)

Spec == Init /\ [][Next]_vars /\ Fairness

-----------------------------------------------------------------------------
(* Properties *)

\* Never more than max_concurrent_jobs tasks: the length of running_jobs alone
\* would not do it, since a cancellation removes the entry of a task that goes on.
AtMostMaxTasks == Cardinality(tasks) <= MaxConcurrent

\* An entry of running_jobs belongs to a task that executes, also when a job was
\* submitted twice or cancelled: no entry is left behind to fill the table.
NoStaleEntries == \A j \in running : \E t \in tasks : t.job = j /\ t.phase = "executing"

\* Within one process no job that was enqueued disappears: until its event is
\* sent it is in the queue, held by the loop, or in a task.
PendingJobsAccounted ==
    \A j \in pending : \/ j \in queue \/ j = held
                       \/ \E t \in tasks : t.job = j

\* A job in the queue gets its event in the end, once the process stays up: the
\* loop is never stuck on a permit, whatever was cancelled.
QueuedJobsSettle ==
    \A j \in Jobs : j \in queue /\ crashes = MaxCrashes ~> j \in settled

\* README, WebAssembly Compute Layer: "compute tasks survive node restarts".
\* A job that is in the queue on disk gets its event in the end.
JobsSurviveRestarts == \A j \in Jobs : j \in disk.queue ~> j \in settled

\* cancel_job: "Batalkan job yang sedang berjalan atau masih di antrian" (cancel
\* a job that is running or still in the queue).  A job cancelled in either place
\* and not submitted again does not complete afterwards.
CancelledJobsStop ==
    [][\A j \in cancelled : results[j] # "completed" => results'[j] # "completed"]_vars
=============================================================================
