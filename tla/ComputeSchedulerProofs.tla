----------------------- MODULE ComputeSchedulerProofs -----------------------
(***************************************************************************)
(* Theorems about ComputeScheduler, for any set of jobs and any limits: the*)
(* types, the bound on the tasks, the table of running jobs and the account*)
(* of the jobs of a process.  A permit is in the semaphore or in a task,   *)
(* and the tasks have distinct numbers: IInv adds these two facts.         *)
(***************************************************************************)
EXTENDS ComputeScheduler, FiniteSetTheorems, WellFoundedInduction, TLAPS

PermitsBalance == IsFiniteSet(tasks) /\ permits + Cardinality(tasks) = MaxConcurrent

DistinctNumbers == \A s, t \in tasks : s.n = t.n => s = t

IInv == /\ SchedulerTypeOK
        /\ PermitsBalance
        /\ DistinctNumbers
        /\ NoStaleEntries
        /\ PendingJobsAccounted

\* dequeue_next has a first key to take: a set of jobs that is not empty has an
\* oldest one, and Oldest is it.
LEMMA OldestIsMember ==
    ASSUME NEW S \in SUBSET Jobs, S # {}
    PROVE  Oldest(S) \in S
<1>1. S \subseteq Nat
  BY SchedulerAssumption
<1>2. \E j \in S : \A k \in S : ~(<<k, j>> \in OpToRel(<, Nat))
  BY <1>1, NatLessThanWellFounded, WFMin
<1>3. PICK j \in S : \A k \in S : ~(<<k, j>> \in OpToRel(<, Nat))
  BY <1>2
<1>4. \A k \in S : j <= k
  <2>1. SUFFICES ASSUME NEW k \in S PROVE j <= k
    OBVIOUS
  <2>2. ~(k < j)
    <3>1. ASSUME k < j PROVE <<k, j>> \in OpToRel(<, Nat)
      BY <1>1, <3>1 DEF OpToRel
    <3>2. QED BY <1>3, <3>1
  <2>3. k \in Nat /\ j \in Nat
    BY <1>1
  <2>4. QED BY <2>2, <2>3
<1>5. QED
  BY <1>4 DEF Oldest

\* The database a process starts with, and one that was flushed, have their type.
LEMMA InitialState == Init => IInv
<1>1. SUFFICES ASSUME Init PROVE IInv
  OBVIOUS
<1>2. SchedulerTypeOK
  BY <1>1, SchedulerAssumption DEF Init, SchedulerTypeOK, Empty, Database
<1>3. PermitsBalance
  BY <1>1, FS_EmptySet, SchedulerAssumption DEF Init, PermitsBalance
<1>4. DistinctNumbers /\ NoStaleEntries /\ PendingJobsAccounted
  BY <1>1 DEF Init, DistinctNumbers, NoStaleEntries, PendingJobsAccounted
<1>5. QED
  BY <1>2, <1>3, <1>4 DEF IInv

\* A result tree that was collected is a result tree.
LEMMA CollectedType ==
    ASSUME NEW r \in [Jobs -> Outcome \cup {"none"}], NEW c \in Collected(r)
    PROVE  c \in [Jobs -> Outcome \cup {"none"}]
<1> DEFINE stored == {j \in Jobs : r[j] # "none"}
           goners == {g \in SUBSET stored : Cardinality(g) = Cardinality(stored) \div GcDivisor}
<1>1. c = r \/ \E gone \in goners :
                  c = [j \in Jobs |-> IF j \in gone THEN "none" ELSE r[j]]
  BY DEF Collected
<1>2. QED
  BY <1>1

\* A task that ends gives its permit back, and no other task changes.
LEMMA TaskEnds ==
    ASSUME IInv, NEW t \in tasks,
           tasks' = tasks \ {t}, permits' = permits + 1
    PROVE  /\ tasks' \subseteq Task /\ permits' \in Nat
           /\ PermitsBalance' /\ DistinctNumbers'
<1>1. tasks' \subseteq Task /\ permits' \in Nat
  BY DEF IInv, SchedulerTypeOK
<1>2. IsFiniteSet(tasks \ {t}) /\ Cardinality(tasks \ {t}) = Cardinality(tasks) - 1
  BY FS_RemoveElement DEF IInv, PermitsBalance
<1>3. Cardinality(tasks) \in Nat
  BY FS_CardinalityType DEF IInv, PermitsBalance
<1>4. PermitsBalance'
  BY <1>2, <1>3, SchedulerAssumption DEF IInv, PermitsBalance, SchedulerTypeOK
<1>5. DistinctNumbers'
  BY DEF IInv, DistinctNumbers
<1>6. QED
  BY <1>1, <1>4, <1>5

\* What the actions that start, change and end no task keep.
LEMMA WorkUnchanged ==
    ASSUME IInv, UNCHANGED <<permits, tasks>>
    PROVE  PermitsBalance' /\ DistinctNumbers'
  BY DEF IInv, PermitsBalance, DistinctNumbers

\* IInv is inductive, one lemma per action.  A call of the handle touches a channel.
LEMMA SubmitJobKeeps ==
    ASSUME IInv, NEW j \in Jobs, SubmitJob(j)
    PROVE  IInv'
<1>1. SchedulerTypeOK'
  <2>1. submits \in Seq(Jobs) /\ calls \in [submit : Nat, cancel : Nat]
    BY DEF IInv, SchedulerTypeOK
  <2>2. submits' = Append(submits, j) /\ calls' = [calls EXCEPT !.submit = @ + 1]
    BY DEF SubmitJob
  <2>3. submits' \in Seq(Jobs)
    BY <2>1, <2>2
  <2>4. calls' \in [submit : Nat, cancel : Nat]
    BY <2>1, <2>2
  <2>5. QED
    BY <2>3, <2>4 DEF IInv, SchedulerTypeOK, SubmitJob, db, work
<1>2. PermitsBalance' /\ DistinctNumbers'
  BY WorkUnchanged DEF SubmitJob, work
<1>3. NoStaleEntries' /\ PendingJobsAccounted'
  BY DEF IInv, NoStaleEntries, PendingJobsAccounted, SubmitJob, db, work
<1>4. QED
  BY <1>1, <1>2, <1>3 DEF IInv

\* cancel_job touches the other channel.
LEMMA CancelJobKeeps ==
    ASSUME IInv, NEW j \in Jobs, CancelJob(j)
    PROVE  IInv'
<1>1. SchedulerTypeOK'
  <2>1. cancels \in Seq(Jobs) /\ calls \in [submit : Nat, cancel : Nat]
    BY DEF IInv, SchedulerTypeOK
  <2>2. cancels' = Append(cancels, j) /\ calls' = [calls EXCEPT !.cancel = @ + 1]
    BY DEF CancelJob
  <2>3. cancels' \in Seq(Jobs)
    BY <2>1, <2>2
  <2>4. calls' \in [submit : Nat, cancel : Nat]
    BY <2>1, <2>2
  <2>5. QED
    BY <2>3, <2>4 DEF IInv, SchedulerTypeOK, CancelJob, db, work, history
<1>2. PermitsBalance' /\ DistinctNumbers'
  BY WorkUnchanged DEF CancelJob, work
<1>3. NoStaleEntries' /\ PendingJobsAccounted'
  BY DEF IInv, NoStaleEntries, PendingJobsAccounted, CancelJob, db, work, history
<1>4. QED
  BY <1>1, <1>2, <1>3 DEF IInv

\* A job that is enqueued is pending and in the queue.
LEMMA ReceiveSubmitKeeps ==
    ASSUME IInv, ReceiveSubmit
    PROVE  IInv'
<1>1. Head(submits) \in Jobs /\ Tail(submits) \in Seq(Jobs)
  BY DEF IInv, SchedulerTypeOK, ReceiveSubmit
<1>2. SchedulerTypeOK'
  BY <1>1 DEF IInv, SchedulerTypeOK, ReceiveSubmit, work, bounds
<1>3. PermitsBalance' /\ DistinctNumbers'
  BY WorkUnchanged DEF ReceiveSubmit, work
<1>4. NoStaleEntries' /\ PendingJobsAccounted'
  BY DEF IInv, NoStaleEntries, PendingJobsAccounted, ReceiveSubmit, work
<1>5. QED
  BY <1>2, <1>3, <1>4 DEF IInv

\* A cancellation removes an entry of running_jobs and no task.
LEMMA ReceiveCancelKeeps ==
    ASSUME IInv, ReceiveCancel
    PROVE  IInv'
<1>1. Head(cancels) \in Jobs /\ Tail(cancels) \in Seq(Jobs)
  BY DEF IInv, SchedulerTypeOK, ReceiveCancel
<1>2. SchedulerTypeOK'
  BY <1>1 DEF IInv, SchedulerTypeOK, ReceiveCancel, db, bounds
<1>3. PermitsBalance' /\ DistinctNumbers'
  BY WorkUnchanged DEF ReceiveCancel
<1>4. NoStaleEntries' /\ PendingJobsAccounted'
  BY DEF IInv, NoStaleEntries, PendingJobsAccounted, ReceiveCancel, db
<1>5. QED
  BY <1>2, <1>3, <1>4 DEF IInv

\* The job that leaves the queue is the one the loop holds.
LEMMA PollKeeps ==
    ASSUME IInv, Poll
    PROVE  IInv'
<1>1. Oldest(queue) \in Jobs
  BY OldestIsMember DEF IInv, SchedulerTypeOK, Poll
<1>2. SchedulerTypeOK'
  BY <1>1 DEF IInv, SchedulerTypeOK, Poll, work, bounds, history
<1>3. PermitsBalance' /\ DistinctNumbers'
  BY WorkUnchanged DEF Poll, work
<1>4. NoStaleEntries' /\ PendingJobsAccounted'
  <2>1. NoJob \notin Jobs /\ pending \subseteq Jobs
    BY SchedulerAssumption DEF IInv, SchedulerTypeOK
  <2>2. QED
    BY <2>1 DEF IInv, NoStaleEntries, PendingJobsAccounted, Poll, work, history
<1>5. QED
  BY <1>2, <1>3, <1>4 DEF IInv

\* The held job becomes a task with a number of its own, which takes a permit.
LEMMA StartJobKeeps ==
    ASSUME IInv, StartJob
    PROVE  IInv'
<1>1. PICK n \in 1..(Cardinality(tasks) + 1) :
          LowestFree(n) /\ tasks' = tasks \cup {NewTask(held, n)}
  BY DEF StartJob
<1>2. IsFiniteSet(tasks) /\ Cardinality(tasks) \in Nat
  BY FS_CardinalityType DEF IInv, PermitsBalance
<1>3. held \in Jobs /\ n \in Nat /\ permits \in Nat /\ permits > 0
  BY <1>2 DEF IInv, SchedulerTypeOK, StartJob
<1>4. NewTask(held, n) \in Task
  BY <1>3 DEF NewTask, Task, Phase
<1>5. SchedulerTypeOK'
  <2>1. permits' \in Nat /\ tasks' \subseteq Task /\ running' \subseteq Jobs
    BY <1>1, <1>3, <1>4 DEF IInv, SchedulerTypeOK, StartJob
  <2>2. QED
    BY <2>1 DEF IInv, SchedulerTypeOK, StartJob, db, bounds, history
<1>6. \A t \in tasks : t.n # n
  BY <1>1 DEF LowestFree, Free
<1>7. PermitsBalance'
  <2>1. NewTask(held, n) \notin tasks
    BY <1>6 DEF NewTask
  <2>2. IsFiniteSet(tasks') /\ Cardinality(tasks') = Cardinality(tasks) + 1
    BY <1>1, <1>2, <2>1, FS_AddElement
  <2>3. permits' = permits - 1
    BY DEF StartJob
  <2>4. QED
    BY <1>2, <1>3, <2>2, <2>3, SchedulerAssumption DEF IInv, PermitsBalance
<1>8. DistinctNumbers'
  BY <1>1, <1>6 DEF IInv, DistinctNumbers, NewTask
<1>9. NoStaleEntries' /\ PendingJobsAccounted'
  <2>1. NewTask(held, n).job = held /\ NewTask(held, n).phase = "executing"
    BY DEF NewTask
  <2>2. running' = running \cup {held} /\ UNCHANGED <<queue, pending>>
    BY DEF StartJob, db, history
  <2>3. NoStaleEntries'
    BY <1>1, <2>1, <2>2 DEF IInv, NoStaleEntries
  <2>4. PendingJobsAccounted'
    BY <1>1, <2>1, <2>2 DEF IInv, PendingJobsAccounted
  <2>5. QED
    BY <2>3, <2>4
<1>10. QED
  BY <1>5, <1>7, <1>8, <1>9 DEF IInv

\* A task that goes from executing to saving keeps its number and its permit.
LEMMA FinishExecutionKeeps ==
    ASSUME IInv, NEW t \in tasks, NEW outcome \in Outcome, FinishExecution(t, outcome)
    PROVE  IInv'
<1> DEFINE u == [t EXCEPT !.phase = outcome]
<1>1. t \in Task
  BY DEF IInv, SchedulerTypeOK
<1>2. u \in Task /\ u.job = t.job /\ u.n = t.n /\ u.phase = outcome
  BY <1>1 DEF Task, Phase
<1>3. tasks' = (tasks \ {t}) \cup {u} /\ running' = running \ {t.job}
  BY DEF FinishExecution
<1> HIDE DEF u
<1>4. SchedulerTypeOK'
  <2>1. tasks' \subseteq Task /\ running' \subseteq Jobs
    BY <1>2, <1>3 DEF IInv, SchedulerTypeOK
  <2>2. QED
    BY <2>1 DEF IInv, SchedulerTypeOK, FinishExecution, db, loop, bounds, history
<1>5. PermitsBalance'
  <2>1. u \notin tasks \ {t}
    BY <1>2 DEF IInv, DistinctNumbers
  <2>2. IsFiniteSet(tasks \ {t}) /\ Cardinality(tasks \ {t}) = Cardinality(tasks) - 1
    BY FS_RemoveElement DEF IInv, PermitsBalance
  <2>3. IsFiniteSet(tasks') /\ Cardinality(tasks') = Cardinality(tasks \ {t}) + 1
    BY <1>3, <2>1, <2>2, FS_AddElement
  <2>4. Cardinality(tasks) \in Nat
    BY FS_CardinalityType DEF IInv, PermitsBalance
  <2>5. QED
    BY <2>2, <2>3, <2>4 DEF IInv, PermitsBalance, FinishExecution
<1>6. DistinctNumbers'
  BY <1>2, <1>3 DEF IInv, DistinctNumbers
<1>7. NoStaleEntries'
  BY <1>3 DEF IInv, NoStaleEntries
<1>8. PendingJobsAccounted'
  <2>1. UNCHANGED <<queue, held, pending>>
    BY DEF FinishExecution, db, loop, history
  <2>2. QED
    BY <1>2, <1>3, <2>1 DEF IInv, PendingJobsAccounted
<1>9. QED
  BY <1>4, <1>5, <1>6, <1>7, <1>8 DEF IInv

\* The event of a job is sent when its task ends, so the job is no longer pending.
LEMMA ExecutionErrorKeeps ==
    ASSUME IInv, NEW t \in tasks, ExecutionError(t)
    PROVE  IInv'
<1>1. tasks' = tasks \ {t} /\ permits' = permits + 1
  BY DEF ExecutionError
<1>2. tasks' \subseteq Task /\ permits' \in Nat /\ PermitsBalance' /\ DistinctNumbers'
  BY <1>1, TaskEnds
<1>3. t.job \in Jobs
  BY DEF IInv, SchedulerTypeOK, Task
<1>4. SchedulerTypeOK'
  BY <1>2, <1>3 DEF IInv, SchedulerTypeOK, ExecutionError, Settle, db, loop, bounds
<1>5. NoStaleEntries' /\ PendingJobsAccounted'
  BY DEF IInv, NoStaleEntries, PendingJobsAccounted, ExecutionError, Settle, db, loop
<1>6. QED
  BY <1>2, <1>4, <1>5 DEF IInv

\* save_result may collect results; the event and the permit follow it.
LEMMA SaveResultKeeps ==
    ASSUME IInv, NEW t \in tasks, SaveResult(t)
    PROVE  IInv'
<1>1. tasks' = tasks \ {t} /\ permits' = permits + 1
  BY DEF SaveResult
<1>2. tasks' \subseteq Task /\ permits' \in Nat /\ PermitsBalance' /\ DistinctNumbers'
  BY <1>1, TaskEnds
<1>3. t.job \in Jobs
  BY DEF IInv, SchedulerTypeOK, Task
<1>4. results' \in [Jobs -> Outcome \cup {"none"}]
  <2>1. [results EXCEPT ![t.job] = t.phase] \in [Jobs -> Outcome \cup {"none"}]
    BY <1>3 DEF IInv, SchedulerTypeOK, SaveResult
  <2>2. QED
    BY <2>1, CollectedType DEF IInv, SchedulerTypeOK, SaveResult
<1>5. SchedulerTypeOK'
  BY <1>2, <1>3, <1>4 DEF IInv, SchedulerTypeOK, SaveResult, Settle, loop, bounds
<1>6. NoStaleEntries' /\ PendingJobsAccounted'
  <2>1. t.phase # "executing"
    BY DEF SaveResult, Outcome
  <2>2. QED
    BY <2>1 DEF IInv, NoStaleEntries, PendingJobsAccounted, SaveResult, Settle, loop
<1>7. QED
  BY <1>2, <1>5, <1>6 DEF IInv

\* A flush copies the database, which has its type.
LEMMA FlushKeeps ==
    ASSUME IInv, Flush
    PROVE  IInv'
<1>1. SchedulerTypeOK'
  BY DEF IInv, SchedulerTypeOK, Flush, Database, loop, work, bounds, history
<1>2. PermitsBalance' /\ DistinctNumbers'
  BY WorkUnchanged DEF Flush, work
<1>3. NoStaleEntries' /\ PendingJobsAccounted'
  BY DEF IInv, NoStaleEntries, PendingJobsAccounted, Flush, loop, work, history
<1>4. QED
  BY <1>1, <1>2, <1>3 DEF IInv

\* A new process has every permit, no task, and the jobs of the flushed queue.
LEMMA CrashKeeps ==
    ASSUME IInv, Crash
    PROVE  IInv'
<1>1. SchedulerTypeOK'
  BY SchedulerAssumption DEF IInv, SchedulerTypeOK, Crash, Database
<1>2. PermitsBalance'
  BY FS_EmptySet, SchedulerAssumption DEF Crash, PermitsBalance
<1>3. DistinctNumbers' /\ NoStaleEntries' /\ PendingJobsAccounted'
  BY DEF DistinctNumbers, NoStaleEntries, PendingJobsAccounted, Crash
<1>4. QED
  BY <1>1, <1>2, <1>3 DEF IInv

\* Every step of the scheduler keeps IInv: the lemmas above, one per action.
LEMMA Inductive == IInv /\ [Next]_vars => IInv'
<1> SUFFICES ASSUME IInv, [Next]_vars PROVE IInv'
  OBVIOUS
<1>1. CASE \E j \in Jobs : SubmitJob(j)
  BY <1>1, SubmitJobKeeps
<1>2. CASE \E j \in Jobs : CancelJob(j)
  BY <1>2, CancelJobKeeps
<1>3. CASE ReceiveSubmit
  BY <1>3, ReceiveSubmitKeeps
<1>4. CASE ReceiveCancel
  BY <1>4, ReceiveCancelKeeps
<1>5. CASE Poll
  BY <1>5, PollKeeps
<1>6. CASE StartJob
  BY <1>6, StartJobKeeps
<1>7. CASE \E t \in tasks, outcome \in Outcome : FinishExecution(t, outcome)
  BY <1>7, FinishExecutionKeeps
<1>8. CASE \E t \in tasks : ExecutionError(t)
  BY <1>8, ExecutionErrorKeeps
<1>9. CASE \E t \in tasks : SaveResult(t)
  BY <1>9, SaveResultKeeps
<1>10. CASE Flush
  BY <1>10, FlushKeeps
<1>11. CASE Crash
  BY <1>11, CrashKeeps
<1>12. CASE UNCHANGED vars
  BY <1>12 DEF vars, db, loop, work, bounds, history, IInv, SchedulerTypeOK,
       PermitsBalance, DistinctNumbers, NoStaleEntries, PendingJobsAccounted
<1>13. QED
  BY <1>1, <1>2, <1>3, <1>4, <1>5, <1>6, <1>7, <1>8, <1>9, <1>10, <1>11, <1>12 DEF Next

\* IInv holds in every state of the scheduler.
THEOREM Invariance == Spec => []IInv
  BY InitialState, Inductive, PTL DEF Spec

\* Every variable of the scheduler keeps its type; permits never go below zero.
THEOREM SchedulerTypeCorrect == Spec => []SchedulerTypeOK
<1>1. IInv => SchedulerTypeOK
  BY DEF IInv
<1>2. QED
  BY Invariance, <1>1, PTL

\* spawn_scheduler never has more than max_concurrent_jobs tasks, although a
\* cancellation empties their places in running_jobs.
THEOREM TasksBounded == Spec => []AtMostMaxTasks
<1>1. IInv => AtMostMaxTasks
  <2>1. SUFFICES ASSUME IInv PROVE AtMostMaxTasks
    OBVIOUS
  <2>2. Cardinality(tasks) \in Nat
    BY <2>1, FS_CardinalityType DEF IInv, PermitsBalance
  <2>3. QED
    BY <2>1, <2>2, SchedulerAssumption
       DEF IInv, PermitsBalance, SchedulerTypeOK, AtMostMaxTasks
<1>2. QED
  BY Invariance, <1>1, PTL

\* running_jobs has no entry without a task that executes.
THEOREM EntriesHaveTasks == Spec => []NoStaleEntries
<1>1. IInv => NoStaleEntries
  BY DEF IInv
<1>2. QED
  BY Invariance, <1>1, PTL

\* No job of a process disappears between dequeue_next and its event.
THEOREM JobsAccounted == Spec => []PendingJobsAccounted
<1>1. IInv => PendingJobsAccounted
  BY DEF IInv
<1>2. QED
  BY Invariance, <1>1, PTL
=============================================================================
