---------------------------- MODULE TaskExecutor ----------------------------
(***************************************************************************)
(* The task executor (internal/tasks/executor.go) with the registry that   *)
(* holds the task records in memory (task_registry.go), the goroutine that *)
(* persists them in order, and the table they are persisted to.            *)
(*                                                                         *)
(* Submissions hold the executor's mutex from the admission of the task,   *)
(* through the wait for its first save, until its job is in the channel.   *)
(* One worker takes the jobs; Close cancels their contexts and the worker  *)
(* settles what is left in the channel.  A crash loses everything but the  *)
(* table; the next start interrupts the records it finds unfinished.       *)
(***************************************************************************)
EXTENDS Naturals, Sequences, FiniteSets

CONSTANTS
  Tasks,          \* calls of Submit; each call creates a task id of its own
  QueueCap,       \* capacity of the channel of jobs and of the admission
  SaveLimit,      \* bound: progress reports wait when that many saves are queued
  MaxStops        \* bound: crashes and orderly exits of the process

ASSUME TaskAssumption == QueueCap \in Nat \ {0} /\ SaveLimit \in Nat /\ MaxStops \in Nat

VARIABLES
  submit,         \* submit[t]: how far the call that creates t has got
  admitted,       \* reserved places of the QueueAdmission
  jobs,           \* the channel of jobs
  items,          \* items[t]: the status the registry shows, "none" without a record
  context,        \* context[t]: the context of t's job
  worker,         \* the worker goroutine: its step and its job
  draining,       \* the worker has seen the cancelled base context
  outcome,        \* what the job function returned
  saves,          \* the queue of the persistence goroutine
  saveFailed,     \* persistErr
  closer,         \* Executor.Close: "open", "closing" or "closed"
  registry,       \* Registry.Close: "open", "closing" or "closed"
  disk,           \* disk[t]: the status in the tasks table
  stops           \* times the process has stopped
vars == <<submit, admitted, jobs, items, context, worker, draining, outcome,
          saves, saveFailed, closer, registry, disk, stops>>

memory == <<admitted, jobs, items, context, worker, draining, outcome, saves,
            saveFailed, closer, registry>>

Records == INSTANCE TaskRecords WITH record <- disk
Unfinished == Records!Unfinished
Outcomes == Records!Outcomes
Statuses == Records!Statuses \cup {"none"}

InFlight == {"saving", "saved", "unsaved", "send"}
Idle == [at |-> "select"]
Down == [at |-> "down"]
Up == worker # Down

Init ==
  /\ submit = [t \in Tasks |-> "idle"]
  /\ admitted = 0
  /\ jobs = <<>>
  /\ items = [t \in Tasks |-> "none"]
  /\ context = [t \in Tasks |-> "none"]
  /\ worker = Idle
  /\ draining = FALSE
  /\ outcome = "none"
  /\ saves = <<>>
  /\ saveFailed = FALSE
  /\ closer = "open"
  /\ registry = "open"
  /\ disk = [t \in Tasks |-> "none"]
  /\ stops = 0

(***************************************************************************)
(* Submit                                                                  *)
(***************************************************************************)

\* Mutant: nobody takes the mutex.
ExecutorFreeMutant == TRUE

(* The executor's mutex: only a Submit keeps it across a blocking call.    *)
ExecutorFree == \A t \in Tasks : submit[t] \notin InFlight

(* enqueuePersistence: refused once the registry is closing.               *)
Enqueue(t, s) == IF registry = "open" THEN Append(saves, [task |-> t, status |-> s])
                 ELSE saves

\* Mutant: off by one at the capacity.
HasPlaceMutant == admitted <= QueueCap

HasPlace == admitted < QueueCap

SubmitRefused(t) ==
  /\ Up /\ submit[t] = "idle" /\ ExecutorFree
  /\ closer # "open"
  /\ submit' = [submit EXCEPT ![t] = "refused"]
  /\ UNCHANGED <<memory, disk, stops>>

SubmitFull(t) ==
  /\ Up /\ submit[t] = "idle" /\ ExecutorFree
  /\ closer = "open" /\ ~HasPlace
  /\ submit' = [submit EXCEPT ![t] = "full"]
  /\ UNCHANGED <<memory, disk, stops>>

\* Mutant: Create without the wait for the save.
SubmitAdmitMutant(t) ==
  /\ Up /\ submit[t] = "idle" /\ ExecutorFree
  /\ closer = "open" /\ HasPlace
  /\ admitted' = admitted + 1
  /\ saves' = Enqueue(t, "pending")
  /\ submit' = [submit EXCEPT ![t] = "saved"]
  /\ UNCHANGED <<jobs, items, context, worker, draining, outcome, saveFailed,
                 closer, registry, disk, stops>>

(* TryAcquire, then Create queues the first save and waits for it.         *)
SubmitAdmit(t) ==
  /\ Up /\ submit[t] = "idle" /\ ExecutorFree
  /\ closer = "open" /\ HasPlace
  /\ admitted' = admitted + 1
  /\ saves' = Enqueue(t, "pending")
  /\ submit' = [submit EXCEPT ![t] = IF registry = "open" THEN "saving" ELSE "unsaved"]
  /\ UNCHANGED <<jobs, items, context, worker, draining, outcome, saveFailed,
                 closer, registry, disk, stops>>

SubmitUnsaved(t) ==
  /\ submit[t] = "unsaved"
  /\ admitted' = admitted - 1
  /\ submit' = [submit EXCEPT ![t] = "failed"]
  /\ UNCHANGED <<jobs, items, context, worker, draining, outcome, saves, saveFailed,
                 closer, registry, disk, stops>>

(* The end of Create: the saved record becomes visible in the registry.    *)
SubmitInsert(t) ==
  /\ submit[t] = "saved"
  /\ items' = [items EXCEPT ![t] = "pending"]
  /\ submit' = [submit EXCEPT ![t] = "send"]
  /\ UNCHANGED <<admitted, jobs, context, worker, draining, outcome, saves, saveFailed,
                 closer, registry, disk, stops>>

(* The job gets a context below the base context; the send blocks, with    *)
(* the mutex held, while the channel is full.                              *)
SubmitSend(t) ==
  /\ submit[t] = "send"
  /\ Len(jobs) < QueueCap
  /\ context' = [context EXCEPT ![t] = IF closer = "open" THEN "live" ELSE "shutdown"]
  /\ jobs' = Append(jobs, t)
  /\ submit' = [submit EXCEPT ![t] = "accepted"]
  /\ UNCHANGED <<admitted, items, worker, draining, outcome, saves, saveFailed,
                 closer, registry, disk, stops>>

(***************************************************************************)
(* The worker                                                              *)
(***************************************************************************)

(* Registry.Update with a status: in memory at once, on disk in its turn.  *)
Update(t, s) ==
  /\ items' = [items EXCEPT ![t] = s]
  /\ saves' = Enqueue(t, s)

\* Mutant: a worker that saw the cancellation takes no more jobs.
TakeJobMutant ==
  /\ worker = Idle /\ jobs # <<>> /\ ~draining
  /\ worker' = [at |-> "release", job |-> Head(jobs)]
  /\ jobs' = Tail(jobs)
  /\ UNCHANGED <<submit, admitted, items, context, draining, outcome, saves, saveFailed,
                 closer, registry, disk, stops>>

(* Both branches of the select; with both ready either may be taken.       *)
TakeJob ==
  /\ worker = Idle /\ jobs # <<>>
  /\ worker' = [at |-> "release", job |-> Head(jobs)]
  /\ jobs' = Tail(jobs)
  /\ UNCHANGED <<submit, admitted, items, context, draining, outcome, saves, saveFailed,
                 closer, registry, disk, stops>>

SeeCancelled ==
  /\ worker = Idle /\ ~draining
  /\ closer # "open"
  /\ draining' = TRUE
  /\ UNCHANGED <<submit, admitted, jobs, items, context, worker, outcome, saves,
                 saveFailed, closer, registry, disk, stops>>

WorkerExit ==
  /\ worker = Idle
  /\ draining /\ jobs = <<>>
  /\ worker' = [at |-> "exited"]
  /\ UNCHANGED <<submit, admitted, jobs, items, context, draining, outcome, saves,
                 saveFailed, closer, registry, disk, stops>>

ReleasePlace ==
  /\ worker.at = "release"
  /\ admitted' = admitted - 1
  /\ worker' = [worker EXCEPT !.at = "execute"]
  /\ UNCHANGED <<submit, jobs, items, context, draining, outcome, saves, saveFailed,
                 closer, registry, disk, stops>>

\* Mutant: the context is not looked at before the job function is called.
StartJobMutant ==
  /\ worker.at = "execute" /\ ExecutorFree
  /\ Update(worker.job, "running")
  /\ worker' = [worker EXCEPT !.at = "running"]
  /\ UNCHANGED <<submit, admitted, jobs, context, draining, outcome, saveFailed,
                 closer, registry, disk, stops>>

(* execute takes the mutex: a job whose context has ended is not started.  *)
StartJob ==
  /\ worker.at = "execute" /\ ExecutorFree
  /\ context[worker.job] = "live"
  /\ Update(worker.job, "running")
  /\ worker' = [worker EXCEPT !.at = "running"]
  /\ UNCHANGED <<submit, admitted, jobs, context, draining, outcome, saveFailed,
                 closer, registry, disk, stops>>

SkipJob ==
  /\ worker.at = "execute" /\ ExecutorFree
  /\ context[worker.job] # "live"
  /\ outcome' = IF context[worker.job] = "shutdown" THEN "cancellation" ELSE "failure"
  /\ worker' = [worker EXCEPT !.at = "finish"]
  /\ UNCHANGED <<submit, admitted, jobs, items, context, draining, saves, saveFailed,
                 closer, registry, disk, stops>>

ReportProgress ==
  /\ worker.at = "running" /\ Len(saves) < SaveLimit
  /\ Update(worker.job, items[worker.job])
  /\ UNCHANGED <<submit, admitted, jobs, context, worker, draining, outcome, saveFailed,
                 closer, registry, disk, stops>>

(* The job function returns a result, a failure or a bare cancellation; it *)
(* may do each of them whatever its context says.                          *)
JobReturns ==
  /\ worker.at = "running"
  /\ outcome' \in {"result", "failure", "cancellation"}
  /\ worker' = [worker EXCEPT !.at = "finish"]
  /\ UNCHANGED <<submit, admitted, jobs, items, context, draining, saves, saveFailed,
                 closer, registry, disk, stops>>

(* finishError: a cancellation is an interruption when the executor is     *)
(* what ended the context.                                                 *)
FinalStatus(t) == CASE outcome = "result" -> "succeeded"
                    [] outcome = "failure" -> "failed"
                    [] context[t] = "shutdown" -> "interrupted"
                    [] OTHER -> "cancelled"

FinishJob ==
  /\ worker.at = "finish"
  /\ Update(worker.job, FinalStatus(worker.job))
  /\ outcome' = "none"
  /\ worker' = [worker EXCEPT !.at = "drop"]
  /\ UNCHANGED <<submit, admitted, jobs, context, draining, saveFailed,
                 closer, registry, disk, stops>>

DropCancel ==
  /\ worker.at = "drop" /\ ExecutorFree
  /\ context' = [context EXCEPT ![worker.job] = "dropped"]
  /\ worker' = Idle
  /\ UNCHANGED <<submit, admitted, jobs, items, draining, outcome, saves, saveFailed,
                 closer, registry, disk, stops>>

(* The deadline runs from the submission, not from the start of the job.   *)
Expire(t) ==
  /\ context[t] = "live"
  /\ context' = [context EXCEPT ![t] = "deadline"]
  /\ UNCHANGED <<submit, admitted, jobs, items, worker, draining, outcome, saves,
                 saveFailed, closer, registry, disk, stops>>

(***************************************************************************)
(* The persistence goroutine and the table                                 *)
(***************************************************************************)

(* The upsert keeps a recorded outcome against a late unfinished snapshot. *)
SaveTask(t, s) ==
  disk' = [disk EXCEPT ![t] = IF @ \in Outcomes /\ s \in Unfinished THEN @ ELSE s]

(* The Create that waits for its save hears whether it succeeded.          *)
Reply(t, answer) ==
  submit' = [submit EXCEPT ![t] = IF @ = "saving" THEN answer ELSE @]

SaveOk ==
  /\ Up /\ saves # <<>>
  /\ SaveTask(Head(saves).task, Head(saves).status)
  /\ Reply(Head(saves).task, "saved")
  /\ saves' = Tail(saves)
  /\ UNCHANGED <<admitted, jobs, items, context, worker, draining, outcome, saveFailed,
                 closer, registry, stops>>

SaveFails ==
  /\ Up /\ saves # <<>>
  /\ saveFailed' = TRUE
  /\ Reply(Head(saves).task, "unsaved")
  /\ saves' = Tail(saves)
  /\ UNCHANGED <<admitted, jobs, items, context, worker, draining, outcome, closer,
                 registry, disk, stops>>

(***************************************************************************)
(* Shutdown, crash and restart                                             *)
(***************************************************************************)

Close ==
  /\ Up /\ closer = "open" /\ ExecutorFree
  /\ closer' = "closing"
  /\ context' = [t \in Tasks |-> IF context[t] = "live" THEN "shutdown" ELSE context[t]]
  /\ UNCHANGED <<submit, admitted, jobs, items, worker, draining, outcome, saves,
                 saveFailed, registry, disk, stops>>

CloseReturn ==
  /\ closer = "closing" /\ worker.at = "exited"
  /\ closer' = "closed"
  /\ UNCHANGED <<submit, admitted, jobs, items, context, worker, draining, outcome,
                 saves, saveFailed, registry, disk, stops>>

(* The phase that flushes persistence waits for the closers before it.     *)
ClosersDone == closer = "closed"

CloseRegistry ==
  /\ Up /\ registry = "open" /\ ClosersDone
  /\ registry' = "closing"
  /\ UNCHANGED <<submit, admitted, jobs, items, context, worker, draining, outcome,
                 saves, saveFailed, closer, disk, stops>>

PersistenceExit ==
  /\ Up /\ registry = "closing" /\ saves = <<>>
  /\ registry' = "closed"
  /\ UNCHANGED <<submit, admitted, jobs, items, context, worker, draining, outcome,
                 saves, saveFailed, closer, disk, stops>>

(* A crash at any point, or the exit after the shutdown: the memory is     *)
(* gone and the callers in flight never hear of their tasks.               *)
Stop ==
  /\ Up /\ stops < MaxStops
  /\ stops' = stops + 1
  /\ worker' = Down
  /\ submit' = [t \in Tasks |-> IF submit[t] \in InFlight THEN "lost" ELSE submit[t]]
  /\ admitted' = 0 /\ jobs' = <<>> /\ saves' = <<>>
  /\ items' = [t \in Tasks |-> "none"]
  /\ context' = [t \in Tasks |-> "none"]
  /\ draining' = FALSE /\ outcome' = "none" /\ saveFailed' = FALSE
  /\ closer' = "open" /\ registry' = "open"
  /\ UNCHANGED disk

\* Mutant: a task found running is queued again.
InterruptedMutant(s) == IF s = "running" THEN "pending" ELSE s

(* InterruptInProgressTasks and LoadTasks, before anything is submitted.   *)
Interrupted(s) == IF s \in Unfinished THEN "interrupted" ELSE s

Hydrate ==
  /\ ~Up
  /\ disk' = [t \in Tasks |-> Interrupted(disk[t])]
  /\ items' = disk'
  /\ worker' = Idle
  /\ UNCHANGED <<submit, admitted, jobs, context, draining, outcome, saves, saveFailed,
                 closer, registry, stops>>

SubmitStep(t) == SubmitAdmit(t) \/ SubmitUnsaved(t) \/ SubmitInsert(t) \/ SubmitSend(t)
WorkerStep == TakeJob \/ SeeCancelled \/ WorkerExit \/ ReleasePlace \/ StartJob
              \/ SkipJob \/ JobReturns \/ FinishJob \/ DropCancel
Persist == SaveOk \/ SaveFails

Next ==
  \/ \E t \in Tasks : SubmitRefused(t) \/ SubmitFull(t) \/ SubmitStep(t) \/ Expire(t)
  \/ WorkerStep \/ ReportProgress
  \/ Persist
  \/ Close \/ CloseReturn \/ CloseRegistry \/ PersistenceExit
  \/ Stop \/ Hydrate

Spec == Init /\ [][Next]_vars

(* A call of Submit that holds the mutex goes on, the worker and the       *)
(* persistence goroutine run, job functions return, and a Close that was   *)
(* called ends; whether anyone submits, closes or restarts is left open.   *)
FairSpec ==
  /\ Spec
  /\ \A t \in Tasks : WF_vars(submit[t] \in InFlight /\ SubmitStep(t))
  /\ WF_vars(WorkerStep) /\ WF_vars(Persist) /\ WF_vars(CloseReturn)

-----------------------------------------------------------------------------
TypeSubmissions ==
  /\ submit \in [Tasks -> InFlight \cup {"idle", "accepted", "refused", "full",
                                         "failed", "lost"}]
  /\ admitted \in 0..QueueCap
  /\ jobs \in Seq(Tasks)
  /\ context \in [Tasks -> {"none", "live", "deadline", "shutdown", "dropped"}]
TypeWorker ==
  /\ worker \in {Idle, Down, [at |-> "exited"]}
               \cup [at : {"release", "execute", "running", "finish", "drop"}, job : Tasks]
  /\ draining \in BOOLEAN
  /\ outcome \in {"none", "result", "failure", "cancellation"}
TypeRecords ==
  /\ items \in [Tasks -> Statuses] /\ disk \in [Tasks -> Statuses]
  /\ saves \in Seq([task : Tasks, status : Statuses \ {"none"}])
TypeShutdown ==
  /\ saveFailed \in BOOLEAN
  /\ closer \in {"open", "closing", "closed"}
  /\ registry \in {"open", "closing", "closed"}
  /\ stops \in 0..MaxStops
(* The state has the shape the declarations promise, and the reserved      *)
(* places stay within the capacity (executor.go:38-61,                     *)
(* task_registry.go:89-103, queue_admission.go:14-31).                     *)
TypeOK == TypeSubmissions /\ TypeWorker /\ TypeRecords /\ TypeShutdown

(* The send of a job, made with the executor's mutex held while the worker  *)
(* needs that mutex to get to the next job, never finds the channel full:  *)
(* the admission reserved its place (executor.go:96-109, :159-160).        *)
SendNeverBlocks == \A t \in Tasks : submit[t] = "send" => Len(jobs) < QueueCap

(* What Submit told its caller stays true, at that moment, after failing    *)
(* saves and after any number of kills: an accepted task is in the table;  *)
(* one that was refused, found the queue full or could not be saved is     *)
(* neither in the registry nor in the table (executor.go:91-109,           *)
(* queue_admission.go:3-5).                                                *)
AnswersHold == \A t \in Tasks :
  /\ submit[t] = "accepted" => disk[t] # "none"
  /\ submit[t] \in {"refused", "full", "failed"} => items[t] = "none" /\ disk[t] = "none"

(* When the worker has gone every task that the registry shows has its      *)
(* outcome: no accepted job is left behind (executor.go:150-163).  And      *)
(* after a shutdown in which no save failed the table is what the registry  *)
(* showed (app_close.go:58-70, :129-137, task_registry.go:303-324).        *)
SettledWhenClosed ==
  /\ worker.at = "exited" => \A t \in Tasks : items[t] \notin Unfinished
  /\ registry = "closed" /\ ~saveFailed => disk = items

(* No job function is started once Close has been called, not even by a    *)
(* Submit that overlaps it (executor.go:91-94, :140-147, :176-180).        *)
NoStartAfterClose ==
  [][worker.at # "running" /\ worker'.at = "running" => closer = "open"]_vars

(* The table is a history that only moves forward: see TaskRecords.        *)
RecordsKept == Records!RecordsSpec

(* Every acknowledged task gets an outcome while the process lives, and     *)
(* Close returns once the running job has (executor.go:130-148): the mutex  *)
(* that Submit holds across a save and a send stops neither.                *)
AcceptedSettle ==
  /\ \A t \in Tasks :
       (submit[t] = "accepted" /\ Up) ~> (items[t] \in Outcomes \/ ~Up)
  /\ closer = "closing" ~> (closer = "closed" \/ ~Up)

=============================================================================
