-------------------------- MODULE TaskExecutor_proofs --------------------------
(***************************************************************************)
(* Machine-checked proofs about the task executor, for any number of       *)
(* submissions, any capacity, any failing saves and any number of crashes: *)
(* its types, the send that never blocks, that nothing starts once Close   *)
(* was called, that the answers of Submit hold, that the tasks table       *)
(* implements TaskRecords, and that nothing is left unsettled once the     *)
(* worker has gone and the registry is closed.                             *)
(*                                                                         *)
(* The admission only counts.  What the count means is PInv: a place is    *)
(* reserved for every job in the channel, for the one submission on its    *)
(* way there, and for the job the worker has taken and not yet given back. *)
(*                                                                         *)
(* The table lags behind the memory by the queue of saves.  RInv says      *)
(* which saves of a task may still be queued given what the table holds    *)
(* and whether the executor still owes the task an outcome.  CInv adds the *)
(* order of the shutdown (Closing), that an unfinished record is owed its  *)
(* outcome (ShownOwed), and that the last save of a task is what the       *)
(* registry shows of it as long as no save failed (TableFollows).          *)
(***************************************************************************)
EXTENDS TaskExecutor, TLAPS

Working == {"release", "execute", "running", "finish", "drop"}

\* The mutex excludes a second submission.
OneInFlight == \A t, u \in Tasks : submit[t] \in InFlight /\ submit[u] \in InFlight => t = u

Reserving == \E t \in Tasks : submit[t] \in InFlight

PlacesReserved ==
  admitted = Len(jobs) + (IF Reserving THEN 1 ELSE 0)
                       + (IF worker.at = "release" THEN 1 ELSE 0)

\* A job was accepted, and shows as running while its function runs.
JobsSound ==
  /\ \A i \in 1..Len(jobs) : submit[jobs[i]] = "accepted"
  /\ worker.at \in Working => submit[worker.job] = "accepted"
  /\ worker.at = "running" => items[worker.job] = "running"

PInv == TypeOK /\ OneInFlight /\ PlacesReserved /\ JobsSound

-----------------------------------------------------------------------------
USE DEF Records!Unfinished, Records!Outcomes, Records!Statuses, Unfinished, Outcomes,
        Statuses, InFlight

Save == [task : Tasks, status : Statuses \ {"none"}]

\* Where the worker can be, and that it has a job outside of its select.
LEMMA WorkerShape ==
  ASSUME TypeWorker
  PROVE  /\ worker.at \in Working \cup {"select", "down", "exited"}
         /\ worker.at \in Working =>
              worker.job \in Tasks /\ worker = [at |-> worker.at, job |-> worker.job]
         /\ worker = Idle <=> worker.at = "select"
         /\ worker = Down <=> worker.at = "down"
  BY DEF TypeWorker, Working, Idle, Down

\* The worker goes on with its job.
LEMMA WorkerGoesOn ==
  ASSUME TypeWorker, worker.at \in Working, NEW a \in Working \ {"release"},
         worker' = [worker EXCEPT !.at = a]
  PROVE  /\ worker' = [at |-> a, job |-> worker.job]
         /\ worker.job \in Tasks
         /\ worker'.at = a
  BY WorkerShape

\* A save that is queued keeps the queue a sequence of saves.
LEMMA Queued ==
  ASSUME TypeRecords, NEW t \in Tasks, NEW s \in Statuses \ {"none"}
  PROVE  Enqueue(t, s) \in Seq(Save)
<1>1. [task |-> t, status |-> s] \in Save /\ saves \in Seq(Save)
  BY DEF TypeRecords, Save
<1> QED
  BY <1>1 DEF Enqueue

\* A submission that stays on the same side of the mutex changes no claim.
LEMMA SameFlight ==
  ASSUME TypeSubmissions, TypeSubmissions', OneInFlight,
         \A t \in Tasks : submit'[t] \in InFlight <=> submit[t] \in InFlight
  PROVE  OneInFlight' /\ Reserving' = Reserving
  BY DEF OneInFlight, Reserving

\* The submission that holds the mutex is the one that keeps a place in flight.
LEMMA LeavesFlight ==
  ASSUME TypeSubmissions, OneInFlight, NEW t \in Tasks, submit[t] \in InFlight,
         NEW s, s \notin InFlight, submit' = [submit EXCEPT ![t] = s]
  PROVE  OneInFlight' /\ Reserving /\ ~Reserving'
  BY DEF TypeSubmissions, OneInFlight, Reserving

\* A step that leaves the jobs where they are and takes no acceptance back.
LEMMA JobsStay ==
  ASSUME TypeSubmissions, TypeWorker, JobsSound, UNCHANGED <<jobs, worker>>,
         \A t \in Tasks : submit[t] = "accepted" =>
           submit'[t] = "accepted" /\ (items[t] = "running" => items'[t] = "running")
  PROVE  JobsSound'
<1>1. \A i \in 1..Len(jobs) : jobs[i] \in Tasks
  BY DEF TypeSubmissions
<1>2. worker.at \in Working => worker.job \in Tasks
  BY WorkerShape
<1> QED
  BY <1>1, <1>2 DEF JobsSound, Working

\* A step of the worker with its job.
LEMMA JobGoesOn ==
  ASSUME JobsSound, UNCHANGED <<submit, jobs>>, worker.at \in Working,
         worker'.at \in Working => worker'.job = worker.job,
         worker'.at = "running" => items'[worker.job] = "running"
  PROVE  JobsSound'
  BY DEF JobsSound, Working

-----------------------------------------------------------------------------
LEMMA InitInv == Init => PInv
<1> SUFFICES ASSUME Init PROVE PInv
  OBVIOUS
<1>1. TypeSubmissions /\ TypeRecords
  BY TaskAssumption DEF TaskAssumption, Init, TypeSubmissions, TypeRecords
<1>2. TypeWorker
  BY DEF Init, TypeWorker
<1>3. TypeShutdown
  <2>1. stops \in 0..MaxStops
    BY TaskAssumption DEF TaskAssumption, Init
  <2> QED
    BY <2>1 DEF Init, TypeShutdown
<1>4. worker.at = "select" /\ Len(jobs) = 0 /\ ~Reserving
  BY DEF Init, Idle, Reserving
<1>5. OneInFlight /\ PlacesReserved
  BY <1>4 DEF Init, OneInFlight, PlacesReserved, Reserving
<1>6. JobsSound
  BY <1>4 DEF JobsSound, Working
<1> QED
  BY <1>1, <1>2, <1>3, <1>5, <1>6 DEF PInv, TypeOK

-----------------------------------------------------------------------------
(* Submissions. *)

LEMMA SubmissionKeeps ==
  ASSUME PInv, NEW t \in Tasks,
         SubmitRefused(t) \/ SubmitFull(t) \/ SubmitStep(t) \/ Expire(t)
  PROVE  PInv'
<1> USE DEF memory
<1>0. TypeSubmissions /\ TypeWorker /\ TypeRecords /\ TypeShutdown
      /\ OneInFlight /\ PlacesReserved /\ JobsSound
  BY DEF PInv, TypeOK
<1>1. CASE SubmitRefused(t) \/ SubmitFull(t)
  <2>0. /\ submit[t] = "idle"
        /\ \E s \in {"refused", "full"} : submit' = [submit EXCEPT ![t] = s]
        /\ UNCHANGED <<memory, disk, stops>>
    BY <1>1 DEF SubmitRefused, SubmitFull
  <2>1. TypeSubmissions'
    BY <1>0, <2>0 DEF TypeSubmissions
  <2>2. TypeWorker' /\ TypeRecords' /\ TypeShutdown'
    BY <1>0, <2>0 DEF TypeWorker, TypeRecords, TypeShutdown
  <2>3. OneInFlight' /\ Reserving' = Reserving
    BY <1>0, <2>0, <2>1, SameFlight DEF TypeSubmissions
  <2>4. PlacesReserved'
    BY <1>0, <2>0, <2>3 DEF PlacesReserved
  <2>9. JobsSound'
    BY <1>0, <2>0, JobsStay DEF TypeSubmissions
  <2> QED
    BY <2>1, <2>2, <2>3, <2>4, <2>9 DEF PInv, TypeOK
<1>2. CASE SubmitAdmit(t)
  <2>0. /\ ~Reserving
        /\ \E s \in {"saving", "unsaved"} : submit' = [submit EXCEPT ![t] = s]
    BY <1>2 DEF SubmitAdmit, ExecutorFree, Reserving
  <2>1. TypeSubmissions'
    <3>1. admitted' \in 0..QueueCap
      BY <1>0, <1>2, TaskAssumption
      DEF TaskAssumption, SubmitAdmit, HasPlace, TypeSubmissions
    <3> QED
      BY <1>0, <1>2, <2>0, <3>1 DEF SubmitAdmit, TypeSubmissions
  <2>2. TypeRecords'
    <3>1. saves' \in Seq(Save)
      BY <1>0, <1>2, Queued DEF SubmitAdmit
    <3> QED
      BY <1>0, <1>2, <3>1 DEF SubmitAdmit, TypeRecords, Save
  <2>3. TypeWorker' /\ TypeShutdown'
    BY <1>0, <1>2 DEF SubmitAdmit, TypeWorker, TypeShutdown
  <2>4. OneInFlight' /\ Reserving'
    BY <1>0, <2>0 DEF TypeSubmissions, OneInFlight, Reserving
  <2>5. PlacesReserved'
    BY <1>0, <1>2, <2>0, <2>4 DEF SubmitAdmit, PlacesReserved, TypeSubmissions
  <2>9. JobsSound'
    BY <1>0, <1>2, <2>0, JobsStay DEF SubmitAdmit, TypeSubmissions
  <2> QED
    BY <2>1, <2>2, <2>3, <2>4, <2>5, <2>9 DEF PInv, TypeOK
<1>3. CASE SubmitUnsaved(t)
  <2>1. OneInFlight' /\ Reserving /\ ~Reserving'
    BY <1>0, <1>3, LeavesFlight DEF SubmitUnsaved
  <2>2. PlacesReserved'
    BY <1>0, <1>3, <2>1 DEF SubmitUnsaved, PlacesReserved, TypeSubmissions
  <2>3. admitted' \in 0..QueueCap
    BY <1>0, <1>3, <2>1, TaskAssumption
    DEF TaskAssumption, SubmitUnsaved, PlacesReserved, TypeSubmissions
  <2>4. TypeSubmissions'
    BY <1>0, <1>3, <2>3 DEF SubmitUnsaved, TypeSubmissions
  <2>5. TypeWorker' /\ TypeRecords' /\ TypeShutdown'
    BY <1>0, <1>3 DEF SubmitUnsaved, TypeWorker, TypeRecords, TypeShutdown
  <2>9. JobsSound'
    BY <1>0, <1>3, JobsStay DEF SubmitUnsaved, TypeSubmissions
  <2> QED
    BY <2>1, <2>2, <2>4, <2>5, <2>9 DEF PInv, TypeOK
<1>4. CASE SubmitInsert(t)
  <2>1. TypeSubmissions'
    BY <1>0, <1>4 DEF SubmitInsert, TypeSubmissions
  <2>2. TypeRecords'
    BY <1>0, <1>4 DEF SubmitInsert, TypeRecords
  <2>3. TypeWorker' /\ TypeShutdown'
    BY <1>0, <1>4 DEF SubmitInsert, TypeWorker, TypeShutdown
  <2>4. OneInFlight' /\ Reserving' = Reserving
    BY <1>0, <1>4, <2>1, SameFlight DEF SubmitInsert, TypeSubmissions
  <2>5. PlacesReserved'
    BY <1>0, <1>4, <2>4 DEF SubmitInsert, PlacesReserved
  <2>9. JobsSound'
    BY <1>0, <1>4, JobsStay DEF SubmitInsert, TypeSubmissions, TypeRecords
  <2> QED
    BY <2>1, <2>2, <2>3, <2>4, <2>5, <2>9 DEF PInv, TypeOK
<1>5. CASE SubmitSend(t)
  <2>1. OneInFlight' /\ Reserving /\ ~Reserving'
    BY <1>0, <1>5, LeavesFlight DEF SubmitSend
  <2>2. jobs' \in Seq(Tasks) /\ Len(jobs') = Len(jobs) + 1
    BY <1>0, <1>5 DEF SubmitSend, TypeSubmissions
  <2>3. TypeSubmissions'
    BY <1>0, <1>5, <2>2 DEF SubmitSend, TypeSubmissions
  <2>4. TypeWorker' /\ TypeRecords' /\ TypeShutdown'
    BY <1>0, <1>5 DEF SubmitSend, TypeWorker, TypeRecords, TypeShutdown
  <2>5. PlacesReserved'
    BY <1>0, <1>5, <2>1, <2>2 DEF SubmitSend, PlacesReserved, TypeSubmissions
  <2>6. \A i \in 1..Len(jobs') : jobs'[i] = t \/ (i \in 1..Len(jobs) /\ jobs'[i] = jobs[i])
    <3>1. /\ jobs \in Seq(Tasks) /\ t \in Tasks /\ jobs' = Append(jobs, t)
      BY <1>0, <1>5 DEF SubmitSend, TypeSubmissions
    <3> QED
      BY <3>1
  <2>7. \A u \in Tasks : submit[u] = "accepted" \/ u = t => submit'[u] = "accepted"
    BY <1>0, <1>5 DEF SubmitSend, TypeSubmissions
  <2>8. worker.at \in Working => worker.job \in Tasks
    BY <1>0, WorkerShape
  <2>9. JobsSound'
    BY <1>0, <1>5, <2>6, <2>7, <2>8 DEF SubmitSend, TypeSubmissions, JobsSound
  <2> QED
    BY <2>1, <2>3, <2>4, <2>5, <2>9 DEF PInv, TypeOK
<1>6. CASE Expire(t)
  <2>1. TypeSubmissions'
    BY <1>0, <1>6 DEF Expire, TypeSubmissions
  <2>2. TypeWorker' /\ TypeRecords' /\ TypeShutdown'
    BY <1>0, <1>6 DEF Expire, TypeWorker, TypeRecords, TypeShutdown
  <2>3. OneInFlight' /\ PlacesReserved'
    BY <1>0, <1>6 DEF Expire, OneInFlight, PlacesReserved, Reserving
  <2>9. JobsSound'
    BY <1>0, <1>6, JobsStay DEF Expire
  <2> QED
    BY <2>1, <2>2, <2>3, <2>9 DEF PInv, TypeOK
<1> QED
  BY <1>1, <1>2, <1>3, <1>4, <1>5, <1>6 DEF SubmitStep

-----------------------------------------------------------------------------
(* The worker. *)

\* A step of the worker that neither takes a job nor gives a place back.
LEMMA PlaceKept ==
  ASSUME TypeSubmissions, PlacesReserved, OneInFlight,
         UNCHANGED <<submit, admitted, jobs>>,
         worker.at = "release" <=> worker'.at = "release"
  PROVE  OneInFlight' /\ PlacesReserved'
  BY DEF OneInFlight, PlacesReserved, Reserving

\* A step of the worker that reports a status of its job.
LEMMA UpdateKeeps ==
  ASSUME TypeRecords, NEW t \in Tasks, NEW s \in Statuses \ {"none"}, Update(t, s),
         UNCHANGED disk
  PROVE  TypeRecords'
<1>1. saves' \in Seq(Save)
  BY Queued DEF Update
<1> QED
  BY <1>1 DEF TypeRecords, Update, Save

LEMMA TakesKeep ==
  ASSUME PInv, TakeJob \/ ReleasePlace
  PROVE  PInv'
<1>0. TypeSubmissions /\ TypeWorker /\ TypeRecords /\ TypeShutdown
      /\ OneInFlight /\ PlacesReserved /\ JobsSound
  BY DEF PInv, TypeOK
<1>1. CASE TakeJob
  <2>1. Head(jobs) \in Tasks /\ Tail(jobs) \in Seq(Tasks) /\ Len(Tail(jobs)) = Len(jobs) - 1
    BY <1>0, <1>1 DEF TakeJob, TypeSubmissions
  <2>2. TypeSubmissions' /\ TypeRecords' /\ TypeShutdown'
    BY <1>0, <1>1, <2>1 DEF TakeJob, TypeSubmissions, TypeRecords, TypeShutdown
  <2>3. worker'.at = "release" /\ worker.at = "select"
    BY <1>1 DEF TakeJob, Idle
  <2>4. TypeWorker'
    BY <1>0, <1>1, <2>1 DEF TakeJob, TypeWorker
  <2>5. OneInFlight' /\ PlacesReserved'
    <3>1. OneInFlight' /\ (Reserving' <=> Reserving)
      BY <1>0, <1>1 DEF TakeJob, OneInFlight, Reserving
    <3>2. Len(jobs') = Len(jobs) - 1 /\ Len(jobs) \in Nat /\ admitted' = admitted
      BY <1>0, <1>1, <2>1 DEF TakeJob, TypeSubmissions
    <3>3. CASE Reserving
      BY <1>0, <2>3, <3>1, <3>2, <3>3 DEF PlacesReserved
    <3>4. CASE ~Reserving
      BY <1>0, <2>3, <3>1, <3>2, <3>4 DEF PlacesReserved
    <3> QED
      BY <3>3, <3>4
  <2>6. /\ worker'.job = jobs[1] /\ worker'.at = "release"
        /\ \A i \in 1..Len(jobs') : i + 1 \in 1..Len(jobs) /\ jobs'[i] = jobs[i + 1]
        /\ 1 \in 1..Len(jobs)
    BY <1>0, <1>1, <2>1 DEF TakeJob, TypeSubmissions
  <2>7. JobsSound'
    BY <1>0, <1>1, <2>6 DEF TakeJob, JobsSound
  <2> QED
    BY <2>2, <2>4, <2>5, <2>7 DEF PInv, TypeOK
<1>2. CASE ReleasePlace
  <2>1. /\ worker' = [at |-> "execute", job |-> worker.job]
        /\ worker.job \in Tasks /\ worker'.at = "execute"
    BY <1>0, <1>2, WorkerGoesOn DEF ReleasePlace, Working
  <2>2. OneInFlight' /\ PlacesReserved'
    BY <1>0, <1>2, <2>1
    DEF ReleasePlace, OneInFlight, PlacesReserved, Reserving, TypeSubmissions
  <2>3. admitted' \in 0..QueueCap
    BY <1>0, <1>2, TaskAssumption
    DEF TaskAssumption, ReleasePlace, PlacesReserved, TypeSubmissions
  <2>4. TypeSubmissions' /\ TypeRecords' /\ TypeShutdown'
    BY <1>0, <1>2, <2>3 DEF ReleasePlace, TypeSubmissions, TypeRecords, TypeShutdown
  <2>5. TypeWorker'
    BY <1>0, <1>2, <2>1 DEF ReleasePlace, TypeWorker
  <2>9. JobsSound'
    BY <1>0, <1>2, <2>1, JobGoesOn DEF ReleasePlace, Working
  <2> QED
    BY <2>2, <2>4, <2>5, <2>9 DEF PInv, TypeOK
<1> QED
  BY <1>1, <1>2

LEMMA WorkerKeeps ==
  ASSUME PInv, WorkerStep \/ ReportProgress
  PROVE  PInv'
<1>0. TypeSubmissions /\ TypeWorker /\ TypeRecords /\ TypeShutdown
      /\ OneInFlight /\ PlacesReserved /\ JobsSound
  BY DEF PInv, TypeOK
<1>1. CASE SeeCancelled
  <2>1. TypeSubmissions' /\ TypeWorker' /\ TypeRecords' /\ TypeShutdown'
    BY <1>0, <1>1 DEF SeeCancelled, TypeSubmissions, TypeWorker, TypeRecords, TypeShutdown
  <2>2. OneInFlight' /\ PlacesReserved'
    BY <1>0, <1>1, PlaceKept DEF SeeCancelled
  <2>9. JobsSound'
    BY <1>0, <1>1, JobsStay DEF SeeCancelled
  <2> QED
    BY <2>1, <2>2, <2>9 DEF PInv, TypeOK
<1>2. CASE WorkerExit
  <2>1. worker'.at = "exited" /\ worker.at = "select"
    BY <1>2 DEF WorkerExit, Idle
  <2>2. TypeSubmissions' /\ TypeRecords' /\ TypeShutdown'
    BY <1>0, <1>2 DEF WorkerExit, TypeSubmissions, TypeRecords, TypeShutdown
  <2>3. TypeWorker'
    BY <1>0, <1>2 DEF WorkerExit, TypeWorker
  <2>4. OneInFlight' /\ PlacesReserved'
    BY <1>0, <1>2, <2>1, PlaceKept DEF WorkerExit
  <2>5. JobsSound'
    BY <1>0, <1>2, <2>1 DEF WorkerExit, JobsSound, Working
  <2> QED
    BY <2>2, <2>3, <2>4, <2>5 DEF PInv, TypeOK
<1>3. CASE StartJob
  <2>1. /\ worker' = [at |-> "running", job |-> worker.job]
        /\ worker.job \in Tasks /\ worker'.at = "running"
    BY <1>0, <1>3, WorkerGoesOn DEF StartJob, Working
  <2>2. TypeRecords'
    BY <1>0, <1>3, <2>1, UpdateKeeps DEF StartJob
  <2>3. TypeSubmissions' /\ TypeShutdown'
    BY <1>0, <1>3 DEF StartJob, TypeSubmissions, TypeShutdown
  <2>4. TypeWorker'
    BY <1>0, <1>3, <2>1 DEF StartJob, TypeWorker
  <2>5. OneInFlight' /\ PlacesReserved'
    BY <1>0, <1>3, <2>1, PlaceKept DEF StartJob
  <2>9. JobsSound'
    BY <1>0, <1>3, <2>1, JobGoesOn DEF StartJob, Update, TypeRecords, Working
  <2> QED
    BY <2>2, <2>3, <2>4, <2>5, <2>9 DEF PInv, TypeOK
<1>4. CASE SkipJob \/ JobReturns
  <2>0. /\ worker.at \in {"execute", "running"} /\ worker' = [worker EXCEPT !.at = "finish"]
        /\ outcome' \in {"result", "failure", "cancellation"}
        /\ UNCHANGED <<submit, admitted, jobs, items, context, draining, saves,
                       saveFailed, closer, registry, disk, stops>>
    BY <1>4 DEF SkipJob, JobReturns
  <2>1. /\ worker' = [at |-> "finish", job |-> worker.job]
        /\ worker.job \in Tasks /\ worker'.at = "finish"
    BY <1>0, <2>0, WorkerGoesOn DEF Working
  <2>2. TypeSubmissions' /\ TypeRecords' /\ TypeShutdown'
    BY <1>0, <2>0 DEF TypeSubmissions, TypeRecords, TypeShutdown
  <2>3. TypeWorker'
    BY <1>0, <2>0, <2>1 DEF TypeWorker
  <2>4. OneInFlight' /\ PlacesReserved'
    BY <1>0, <2>0, <2>1, PlaceKept
  <2>9. JobsSound'
    BY <1>0, <2>0, <2>1, JobGoesOn DEF Working
  <2> QED
    BY <2>2, <2>3, <2>4, <2>9 DEF PInv, TypeOK
<1>5. CASE FinishJob
  <2>1. /\ worker' = [at |-> "drop", job |-> worker.job]
        /\ worker.job \in Tasks /\ worker'.at = "drop"
    BY <1>0, <1>5, WorkerGoesOn DEF FinishJob, Working
  <2>2. FinalStatus(worker.job) \in Outcomes
    BY DEF FinalStatus
  <2>3. TypeRecords'
    BY <1>0, <1>5, <2>1, <2>2, UpdateKeeps DEF FinishJob
  <2>4. TypeSubmissions' /\ TypeShutdown'
    BY <1>0, <1>5 DEF FinishJob, TypeSubmissions, TypeShutdown
  <2>5. TypeWorker'
    BY <1>0, <1>5, <2>1 DEF FinishJob, TypeWorker
  <2>6. OneInFlight' /\ PlacesReserved'
    BY <1>0, <1>5, <2>1, PlaceKept DEF FinishJob
  <2>9. JobsSound'
    BY <1>0, <1>5, <2>1, JobGoesOn DEF FinishJob, Working
  <2> QED
    BY <2>3, <2>4, <2>5, <2>6, <2>9 DEF PInv, TypeOK
<1>6. CASE DropCancel
  <2>1. worker'.at = "select" /\ worker.at = "drop" /\ worker.job \in Tasks
    BY <1>0, <1>6, WorkerShape DEF DropCancel, Idle, Working
  <2>2. TypeSubmissions' /\ TypeRecords' /\ TypeShutdown'
    BY <1>0, <1>6, <2>1 DEF DropCancel, TypeSubmissions, TypeRecords, TypeShutdown
  <2>3. TypeWorker'
    BY <1>0, <1>6 DEF DropCancel, TypeWorker
  <2>4. OneInFlight' /\ PlacesReserved'
    BY <1>0, <1>6, <2>1, PlaceKept DEF DropCancel
  <2>9. JobsSound'
    BY <1>0, <1>6, <2>1, JobGoesOn DEF DropCancel, Working
  <2> QED
    BY <2>2, <2>3, <2>4, <2>9 DEF PInv, TypeOK
<1>7. CASE ReportProgress
  <2>1. worker.job \in Tasks /\ items[worker.job] = "running"
    BY <1>0, <1>7, WorkerShape DEF ReportProgress, Working, JobsSound
  <2>2. TypeRecords'
    BY <1>0, <1>7, <2>1, UpdateKeeps DEF ReportProgress
  <2>3. TypeSubmissions' /\ TypeWorker' /\ TypeShutdown'
    BY <1>0, <1>7 DEF ReportProgress, TypeSubmissions, TypeWorker, TypeShutdown
  <2>4. OneInFlight' /\ PlacesReserved'
    BY <1>0, <1>7, PlaceKept DEF ReportProgress
  <2>5. \A t \in Tasks : items[t] = "running" => items'[t] = "running"
    BY <1>0, <1>7, <2>1 DEF ReportProgress, Update, TypeRecords
  <2>6. JobsSound'
    BY <1>0, <1>7, <2>5, JobsStay DEF ReportProgress
  <2> QED
    BY <2>2, <2>3, <2>4, <2>6 DEF PInv, TypeOK
<1>8. CASE TakeJob \/ ReleasePlace
  BY <1>8, TakesKeep
<1> QED
  BY <1>1, <1>2, <1>3, <1>4, <1>5, <1>6, <1>7, <1>8 DEF WorkerStep

-----------------------------------------------------------------------------
(* Persistence, shutdown, crash and restart. *)

LEMMA PersistKeeps ==
  ASSUME PInv, Persist
  PROVE  PInv'
<1>0. TypeSubmissions /\ TypeWorker /\ TypeRecords /\ TypeShutdown
      /\ OneInFlight /\ PlacesReserved /\ JobsSound
  BY DEF PInv, TypeOK
<1>1. /\ saves # <<>> /\ saves' = Tail(saves)
      /\ \E answer \in {"saved", "unsaved"} : Reply(Head(saves).task, answer)
      /\ SaveTask(Head(saves).task, Head(saves).status) \/ UNCHANGED disk
      /\ saveFailed' = TRUE \/ UNCHANGED saveFailed
      /\ UNCHANGED <<admitted, jobs, items, context, worker, draining, outcome, closer,
                     registry, stops>>
  BY DEF Persist, SaveOk, SaveFails
<1>2. /\ Head(saves).task \in Tasks /\ Head(saves).status \in Statuses \ {"none"}
      /\ saves' \in Seq(Save)
  <2>1. Head(saves) \in Save /\ Tail(saves) \in Seq(Save)
    <3>1. saves \in Seq(Save) /\ saves # <<>>
      BY <1>0, <1>1 DEF TypeRecords, Save
    <3> QED
      BY <3>1
  <2> QED
    BY <1>1, <2>1 DEF Save
<1>3. TypeSubmissions'
  BY <1>0, <1>1, <1>2 DEF TypeSubmissions, Reply
<1>4. disk' \in [Tasks -> Statuses]
  BY <1>0, <1>1, <1>2 DEF SaveTask, TypeRecords
<1>5. TypeWorker' /\ TypeRecords' /\ TypeShutdown'
  BY <1>0, <1>1, <1>2, <1>4 DEF TypeWorker, TypeRecords, TypeShutdown, Save
<1>6. OneInFlight' /\ Reserving' = Reserving
  <2>1. \A t \in Tasks : submit'[t] \in InFlight <=> submit[t] \in InFlight
    BY <1>0, <1>1, <1>2 DEF TypeSubmissions, Reply
  <2> QED
    BY <1>0, <1>3, <2>1, SameFlight
<1>7. PlacesReserved'
  BY <1>0, <1>1, <1>6 DEF PlacesReserved
<1>8. JobsSound'
  <2>1. \A t \in Tasks : submit[t] = "accepted" => submit'[t] = "accepted"
    BY <1>0, <1>1, <1>2 DEF TypeSubmissions, Reply
  <2> QED
    BY <1>0, <1>1, <2>1, JobsStay
<1> QED
  BY <1>3, <1>5, <1>6, <1>7, <1>8 DEF PInv, TypeOK

LEMMA ShutdownKeeps ==
  ASSUME PInv, Close \/ CloseReturn \/ CloseRegistry \/ PersistenceExit
  PROVE  PInv'
<1>0. TypeSubmissions /\ TypeWorker /\ TypeRecords /\ TypeShutdown
      /\ OneInFlight /\ PlacesReserved /\ JobsSound
  BY DEF PInv, TypeOK
<1>1. UNCHANGED <<submit, admitted, jobs, items, worker, draining, outcome, saves,
                  saveFailed, disk, stops>>
  BY DEF Close, CloseReturn, CloseRegistry, PersistenceExit
<1>2. TypeWorker' /\ TypeRecords'
  BY <1>0, <1>1 DEF TypeWorker, TypeRecords
<1>3. TypeShutdown'
  BY <1>0 DEF Close, CloseReturn, CloseRegistry, PersistenceExit, TypeShutdown
<1>4. TypeSubmissions'
  <2>1. context' \in [Tasks -> {"none", "live", "deadline", "shutdown", "dropped"}]
    BY <1>0 DEF Close, CloseReturn, CloseRegistry, PersistenceExit, TypeSubmissions
  <2> QED
    BY <1>0, <1>1, <2>1 DEF TypeSubmissions
<1>5. OneInFlight' /\ PlacesReserved'
  BY <1>0, <1>1, PlaceKept
<1>6. JobsSound'
  BY <1>0, <1>1, JobsStay
<1> QED
  BY <1>2, <1>3, <1>4, <1>5, <1>6 DEF PInv, TypeOK

LEMMA RestartKeeps ==
  ASSUME PInv, Stop \/ Hydrate
  PROVE  PInv'
<1>0. TypeSubmissions /\ TypeWorker /\ TypeRecords /\ TypeShutdown
      /\ OneInFlight /\ PlacesReserved /\ JobsSound
  BY DEF PInv, TypeOK
<1>1. CASE Stop
  <2>1. worker'.at = "down" /\ jobs' = <<>> /\ Len(jobs') = 0
    BY <1>1 DEF Stop, Down
  <2>2. \A t \in Tasks : submit'[t] \notin InFlight
    BY <1>0, <1>1 DEF Stop, TypeSubmissions
  <2>3. TypeSubmissions' /\ TypeRecords'
    BY <1>0, <1>1, TaskAssumption DEF TaskAssumption, Stop, TypeSubmissions, TypeRecords
  <2>4. TypeWorker'
    BY <1>1 DEF Stop, TypeWorker
  <2>5. TypeShutdown'
    <3>1. stops' \in 0..MaxStops
      BY <1>0, <1>1, TaskAssumption DEF TaskAssumption, Stop, TypeShutdown
    <3> QED
      BY <1>1, <3>1 DEF Stop, TypeShutdown
  <2>6. OneInFlight' /\ PlacesReserved'
    BY <1>1, <2>1, <2>2 DEF Stop, OneInFlight, PlacesReserved, Reserving
  <2>7. JobsSound'
    BY <2>1 DEF JobsSound, Working
  <2> QED
    BY <2>3, <2>4, <2>5, <2>6, <2>7 DEF PInv, TypeOK
<1>2. CASE Hydrate
  <2>1. worker.at = "down" /\ worker'.at = "select"
    BY <1>2 DEF Hydrate, Up, Down, Idle
  <2>2. disk' \in [Tasks -> Statuses] /\ items' = disk'
    BY <1>0, <1>2 DEF Hydrate, Interrupted, TypeRecords
  <2>3. TypeSubmissions' /\ TypeRecords' /\ TypeShutdown'
    BY <1>0, <1>2, <2>2 DEF Hydrate, TypeSubmissions, TypeRecords, TypeShutdown
  <2>4. TypeWorker'
    BY <1>0, <1>2 DEF Hydrate, TypeWorker
  <2>5. OneInFlight' /\ PlacesReserved'
    BY <1>0, <1>2, <2>1, PlaceKept DEF Hydrate
  <2>6. JobsSound'
    BY <1>0, <1>2, <2>1 DEF Hydrate, JobsSound, Working
  <2> QED
    BY <2>3, <2>4, <2>5, <2>6 DEF PInv, TypeOK
<1> QED
  BY <1>1, <1>2

-----------------------------------------------------------------------------
LEMMA PInvariant == Spec => []PInv
<1>1. PInv /\ [Next]_vars => PInv'
  <2> SUFFICES ASSUME PInv, [Next]_vars PROVE PInv'
    OBVIOUS
  <2>1. CASE UNCHANGED vars
    <3>1. TypeSubmissions' /\ TypeWorker' /\ TypeRecords' /\ TypeShutdown'
      BY <2>1 DEF vars, PInv, TypeOK, TypeSubmissions, TypeWorker, TypeRecords, TypeShutdown
    <3>2. OneInFlight' /\ PlacesReserved' /\ JobsSound'
      BY <2>1 DEF vars, PInv, OneInFlight, PlacesReserved, Reserving, JobsSound
    <3> QED
      BY <3>1, <3>2 DEF PInv, TypeOK
  <2>2. CASE Next
    BY <2>2, SubmissionKeeps, WorkerKeeps, PersistKeeps, ShutdownKeeps, RestartKeeps
    DEF Next
  <2> QED
    BY <2>1, <2>2
<1> QED
  BY InitInv, <1>1, PTL DEF Spec

(* The executor's state has its declared shape; in particular the reserved *)
(* places never leave 0..QueueCap (executor.go:38-61, queue_admission.go).  *)
THEOREM TasksTyped == Spec => []TypeOK
<1>1. PInv => TypeOK
  BY DEF PInv
<1> QED
  BY PInvariant, <1>1, PTL

(* The send that Submit makes with the executor's mutex held finds room in *)
(* the channel, whatever the capacity: the sender's own place is one of    *)
(* the QueueCap that were admitted (executor.go:96-109, :159-160).         *)
THEOREM SendsFindRoom == Spec => []SendNeverBlocks
<1>1. PInv => SendNeverBlocks
  <2> SUFFICES ASSUME PInv, NEW t \in Tasks, submit[t] = "send"
               PROVE  Len(jobs) < QueueCap
    BY DEF SendNeverBlocks
  <2>1. Reserving
    BY DEF Reserving
  <2> QED
    BY <2>1, TaskAssumption DEF TaskAssumption, PInv, TypeOK, TypeSubmissions, PlacesReserved
<1> QED
  BY PInvariant, <1>1, PTL

-----------------------------------------------------------------------------
(* No job starts once Close has been called. *)

LiveBeforeClose == \A t \in Tasks : context[t] = "live" => closer = "open"

LEMMA LiveKept ==
  ASSUME PInv, LiveBeforeClose, [Next]_vars
  PROVE  LiveBeforeClose'
<1>0. TypeSubmissions /\ TypeWorker
  BY DEF PInv, TypeOK
<1>1. CASE \E t \in Tasks : SubmitSend(t)
  BY <1>0, <1>1 DEF SubmitSend, LiveBeforeClose, TypeSubmissions
<1>2. CASE \E t \in Tasks : Expire(t)
  BY <1>0, <1>2 DEF Expire, LiveBeforeClose, TypeSubmissions
<1>3. CASE DropCancel
  BY <1>0, <1>3 DEF DropCancel, LiveBeforeClose, TypeSubmissions
<1>4. CASE Close \/ Stop
  BY <1>4 DEF Close, Stop, LiveBeforeClose
<1>5. CASE CloseReturn
  BY <1>5 DEF CloseReturn, LiveBeforeClose
<1>6. CASE UNCHANGED <<context, closer>>
  BY <1>6 DEF LiveBeforeClose
<1>7. \/ \E t \in Tasks : SubmitSend(t) \/ Expire(t)
      \/ DropCancel \/ Close \/ Stop \/ CloseReturn
      \/ UNCHANGED <<context, closer>>
  BY DEF Next, vars, memory, SubmitRefused, SubmitFull, SubmitStep, SubmitAdmit,
         SubmitUnsaved, SubmitInsert, WorkerStep, TakeJob, SeeCancelled, WorkerExit,
         ReleasePlace, StartJob, SkipJob, JobReturns, FinishJob, ReportProgress, Persist,
         SaveOk, SaveFails, CloseRegistry, PersistenceExit, Hydrate
<1> QED
  BY <1>1, <1>2, <1>3, <1>4, <1>5, <1>6, <1>7

(* A job function is started only while the executor is open, although     *)
(* Close, the Submit that sends the job and the worker that takes it run   *)
(* side by side (executor.go:91-94, :140-147, :176-180).                   *)
THEOREM StartsBeforeClose == Spec => NoStartAfterClose
<1>1. Init => LiveBeforeClose
  BY DEF Init, LiveBeforeClose
<1>2. PInv /\ LiveBeforeClose /\ [Next]_vars =>
        [worker.at # "running" /\ worker'.at = "running" => closer = "open"]_vars
  <2> SUFFICES ASSUME PInv, LiveBeforeClose, Next,
                      worker.at # "running", worker'.at = "running"
               PROVE  closer = "open"
    BY DEF vars
  <2>0. TypeWorker
    BY DEF PInv, TypeOK
  <2>1. StartJob
    <3>1. CASE ReleasePlace \/ SkipJob \/ FinishJob
      BY <2>0, <3>1, WorkerGoesOn DEF ReleasePlace, SkipJob, FinishJob, Working
    <3>2. CASE TakeJob \/ WorkerExit \/ DropCancel \/ Stop \/ Hydrate
      BY <3>2 DEF TakeJob, WorkerExit, DropCancel, Stop, Hydrate, Idle, Down
    <3>3. CASE UNCHANGED worker
      BY <3>3
    <3>4. CASE JobReturns
      BY <3>4 DEF JobReturns
    <3>5. \/ StartJob \/ ReleasePlace \/ SkipJob \/ FinishJob \/ TakeJob \/ WorkerExit
          \/ DropCancel \/ Stop \/ Hydrate \/ JobReturns \/ UNCHANGED worker
      BY DEF Next, memory, SubmitRefused, SubmitFull, SubmitStep, SubmitAdmit, SubmitUnsaved,
             SubmitInsert, SubmitSend, Expire, WorkerStep, SeeCancelled, ReportProgress,
             Persist, SaveOk, SaveFails, Close, CloseReturn, CloseRegistry, PersistenceExit
    <3> QED
      BY <3>1, <3>2, <3>3, <3>4, <3>5
  <2>2. context[worker.job] = "live" /\ worker.job \in Tasks
    BY <2>0, <2>1, WorkerShape DEF StartJob, Working
  <2> QED
    BY <2>2 DEF LiveBeforeClose
<1>3. PInv /\ LiveBeforeClose /\ [Next]_vars => LiveBeforeClose'
  BY LiveKept
<1> QED
  BY PInvariant, <1>1, <1>2, <1>3, PTL DEF Spec, NoStartAfterClose

-----------------------------------------------------------------------------
(* The answers of Submit and the tasks table. *)

Undone == {"release", "execute", "running", "finish"}

\* A job is in one place only.
JobsOnce ==
  /\ \A i, j \in 1..Len(jobs) : jobs[i] = jobs[j] => i = j
  /\ worker.at \in Undone => \A i \in 1..Len(jobs) : jobs[i] # worker.job

\* The tasks of this process that have been saved and have no outcome yet.
Owing == {t \in Tasks :
  \/ submit[t] \in {"saved", "send"}
  \/ \E i \in 1..Len(jobs) : jobs[i] = t
  \/ worker.at \in Undone /\ worker.job = t}

\* The saves that may be queued: the first one of a task while its submission
\* waits for it, the others when the table has the task, and its outcome when
\* nothing else is to come.
Due == {r \in Save :
  /\ r.status = "pending" => submit[r.task] = "saving"
  /\ r.status = "running" => disk[r.task] # "none"
  /\ r.status \in Outcomes => disk[r.task] \in Unfinished /\ r.task \notin Owing}

SavesSound == \A i \in 1..Len(saves) : saves[i] \in Due

SavesOnce ==
  \A i, j \in 1..Len(saves) :
    (/\ saves[i].task = saves[j].task
     /\ saves[i].status # "running" /\ saves[j].status # "running") => i = j

Unkept == {"idle", "saving", "unsaved", "refused", "full", "failed"}
Kept == {"saved", "send", "accepted"}

DiskSound ==
  \A t \in Tasks :
    /\ submit[t] \in Unkept => disk[t] = "none" /\ items[t] = "none"
    /\ submit[t] \in Kept => disk[t] # "none"
    /\ t \in Owing => disk[t] \in Unfinished

DownSound == ~Up => jobs = <<>> /\ saves = <<>> /\ ~Reserving

RInv == JobsOnce /\ SavesSound /\ SavesOnce /\ DiskSound /\ DownSound

-----------------------------------------------------------------------------
(* The queue of saves. *)

\* Less is owed and nobody stops waiting: what was due stays due.
LEMMA DueStays ==
  ASSUME \A t \in Tasks : submit[t] = "saving" => submit'[t] = "saving",
         UNCHANGED disk, Owing' \subseteq Owing
  PROVE  Due \subseteq Due'
  BY DEF Due, Save

LEMMA SavesStay ==
  ASSUME SavesSound, SavesOnce, UNCHANGED saves, Due \subseteq Due'
  PROVE  SavesSound' /\ SavesOnce'
  BY DEF SavesSound, SavesOnce

LEMMA SavesAppend ==
  ASSUME TypeRecords, SavesSound, SavesOnce, Due \subseteq Due',
         NEW t \in Tasks, NEW s \in Statuses \ {"none"},
         saves' = Enqueue(t, s),
         registry = "open" => [task |-> t, status |-> s] \in Due',
         \/ s = "running"
         \/ \A i \in 1..Len(saves) : saves[i].task # t \/ saves[i].status = "running"
  PROVE  SavesSound' /\ SavesOnce'
<1>1. CASE registry # "open"
  BY <1>1, SavesStay DEF Enqueue
<1>2. CASE registry = "open"
  <2> DEFINE r == [task |-> t, status |-> s]
  <2>1. r \in Save /\ saves \in Seq(Save) /\ saves' = Append(saves, r)
    BY <1>2 DEF TypeRecords, Save, Enqueue
  <2>2. r.task = t /\ r.status = s /\ r \in Due'
    BY <1>2
  <2> HIDE DEF r
  <2>3. \A i \in 1..Len(saves') :
          \/ i \in 1..Len(saves) /\ saves'[i] = saves[i]
          \/ i = Len(saves) + 1 /\ saves'[i] = r
    BY <2>1
  <2>4. SavesSound'
    BY <2>2, <2>3 DEF SavesSound
  <2>5. SavesOnce'
    BY <2>2, <2>3 DEF SavesOnce
  <2> QED
    BY <2>4, <2>5
<1> QED
  BY <1>1, <1>2

LEMMA SavesTail ==
  ASSUME TypeRecords, SavesSound, SavesOnce, saves # <<>>, saves' = Tail(saves),
         \A i \in 2..Len(saves) : saves[i] \in Due'
  PROVE  SavesSound' /\ SavesOnce'
<1>1. Len(saves) \in Nat \ {0} /\ Len(saves') = Len(saves) - 1
  <2>1. saves \in Seq(Save) /\ saves # <<>>
    BY DEF TypeRecords, Save
  <2> QED
    BY <2>1
<1>2. \A i \in 1..Len(saves') : i + 1 \in 2..Len(saves) /\ saves'[i] = saves[i + 1]
  <2>1. saves \in Seq(Save) /\ saves # <<>>
    BY DEF TypeRecords, Save
  <2> QED
    BY <2>1
<1>3. SavesSound'
  BY <1>2 DEF SavesSound
<1>4. SavesOnce'
  BY <1>1, <1>2 DEF SavesOnce
<1> QED
  BY <1>3, <1>4

-----------------------------------------------------------------------------
LEMMA RInit == Init => RInv
<1> SUFFICES ASSUME Init PROVE RInv
  OBVIOUS
<1>1. worker.at = "select" /\ Len(jobs) = 0 /\ Len(saves) = 0 /\ Up
  BY DEF Init, Idle, Up, Down
<1>2. Owing = {}
  BY <1>1 DEF Init, Owing, Undone
<1>3. JobsOnce /\ SavesSound /\ SavesOnce
  BY <1>1 DEF JobsOnce, SavesSound, SavesOnce, Undone
<1>4. DiskSound /\ DownSound
  BY <1>1, <1>2 DEF Init, DiskSound, DownSound, Kept
<1> QED
  BY <1>3, <1>4 DEF RInv

-----------------------------------------------------------------------------
(* Submissions. *)

LEMMA SubmissionHolds ==
  ASSUME PInv, RInv, NEW t \in Tasks,
         SubmitRefused(t) \/ SubmitFull(t) \/ SubmitStep(t) \/ Expire(t)
  PROVE  RInv'
<1>0. /\ TypeSubmissions /\ TypeWorker /\ TypeRecords /\ TypeShutdown
      /\ OneInFlight /\ PlacesReserved /\ JobsSound
      /\ JobsOnce /\ SavesSound /\ SavesOnce /\ DiskSound /\ DownSound
  BY DEF PInv, TypeOK, RInv
<1>1. CASE SubmitRefused(t) \/ SubmitFull(t) \/ Expire(t)
  <2>0. /\ \/ UNCHANGED submit
           \/ /\ submit[t] = "idle" /\ Up
              /\ \E s \in {"refused", "full"} : submit' = [submit EXCEPT ![t] = s]
        /\ UNCHANGED <<jobs, worker, saves, items, disk>>
    BY <1>1 DEF SubmitRefused, SubmitFull, Expire, memory
  <2>1. Owing' = Owing
    BY <1>0, <2>0 DEF Owing, TypeSubmissions
  <2>2. Due \subseteq Due'
    BY <1>0, <2>0, <2>1, DueStays DEF TypeSubmissions
  <2>3. SavesSound' /\ SavesOnce'
    BY <1>0, <2>0, <2>2, SavesStay
  <2>4. JobsOnce' /\ DiskSound'
    BY <1>0, <2>0, <2>1 DEF JobsOnce, DiskSound, TypeSubmissions, Unkept, Kept
  <2>5. DownSound'
    BY <1>0, <2>0 DEF DownSound, Reserving, Up, TypeSubmissions
  <2> QED
    BY <2>3, <2>4, <2>5 DEF RInv
<1>2. CASE SubmitAdmit(t)
  <2>0. /\ submit[t] = "idle" /\ Up /\ disk[t] = "none" /\ t \notin Owing
        /\ submit' = [submit EXCEPT ![t] = IF registry = "open" THEN "saving" ELSE "unsaved"]
        /\ UNCHANGED <<jobs, worker, items, disk>>
        /\ saves' = Enqueue(t, "pending")
    BY <1>0, <1>2 DEF SubmitAdmit, DiskSound, Unkept
  <2>1. Owing' = Owing
    BY <1>0, <2>0 DEF Owing, TypeSubmissions
  <2>2. Due \subseteq Due'
    BY <1>0, <2>0, <2>1, DueStays DEF TypeSubmissions
  <2>3. \A i \in 1..Len(saves) : saves[i].task # t
    BY <1>0, <2>0 DEF SavesSound, Due, Save
  <2>4. registry = "open" => [task |-> t, status |-> "pending"] \in Due'
    BY <1>0, <2>0 DEF Due, Save, TypeSubmissions
  <2>5. SavesSound' /\ SavesOnce'
    BY <1>0, <2>0, <2>2, <2>3, <2>4, SavesAppend
  <2>6. JobsOnce' /\ DiskSound'
    BY <1>0, <2>0, <2>1 DEF JobsOnce, DiskSound, TypeSubmissions, Unkept, Kept
  <2>7. DownSound'
    BY <2>0 DEF DownSound, Up
  <2> QED
    BY <2>5, <2>6, <2>7 DEF RInv
<1>3. CASE SubmitUnsaved(t) \/ SubmitInsert(t)
  <2>0. /\ \/ submit[t] = "unsaved" /\ submit' = [submit EXCEPT ![t] = "failed"]
              /\ UNCHANGED items
           \/ submit[t] = "saved" /\ submit' = [submit EXCEPT ![t] = "send"]
              /\ items' = [items EXCEPT ![t] = "pending"]
        /\ UNCHANGED <<jobs, worker, saves, disk>>
    BY <1>3 DEF SubmitUnsaved, SubmitInsert
  <2>1. Owing' = Owing
    BY <1>0, <2>0 DEF Owing, TypeSubmissions
  <2>2. Due \subseteq Due'
    BY <1>0, <2>0, <2>1, DueStays DEF TypeSubmissions
  <2>3. SavesSound' /\ SavesOnce'
    BY <1>0, <2>0, <2>2, SavesStay
  <2>4. JobsOnce'
    BY <1>0, <2>0 DEF JobsOnce
  <2>5. DiskSound'
    BY <1>0, <2>0, <2>1 DEF DiskSound, TypeSubmissions, TypeRecords, Unkept, Kept
  <2>6. DownSound'
    BY <1>0, <2>0 DEF DownSound, Reserving, Up
  <2> QED
    BY <2>3, <2>4, <2>5, <2>6 DEF RInv
<1>4. CASE SubmitSend(t)
  <2>0. /\ submit[t] = "send" /\ submit' = [submit EXCEPT ![t] = "accepted"]
        /\ jobs' = Append(jobs, t)
        /\ UNCHANGED <<worker, items, saves, disk>>
    BY <1>4 DEF SubmitSend
  <2>1. /\ \A i \in 1..Len(jobs') :
             \/ i = Len(jobs) + 1 /\ jobs'[i] = t
             \/ i \in 1..Len(jobs) /\ jobs'[i] = jobs[i]
        /\ \A i \in 1..Len(jobs) : i \in 1..Len(jobs') /\ jobs'[i] = jobs[i]
        /\ Len(jobs) + 1 \in 1..Len(jobs') /\ jobs'[Len(jobs) + 1] = t
    <3>1. jobs \in Seq(Tasks) /\ t \in Tasks /\ jobs' = Append(jobs, t)
      BY <1>0, <2>0 DEF TypeSubmissions
    <3> QED
      BY <3>1
  <2>2. Owing' = Owing
    BY <1>0, <2>0, <2>1 DEF Owing, TypeSubmissions
  <2>3. Due \subseteq Due'
    BY <1>0, <2>0, <2>2, DueStays DEF TypeSubmissions
  <2>4. SavesSound' /\ SavesOnce'
    BY <1>0, <2>0, <2>3, SavesStay
  <2>5. /\ \A i \in 1..Len(jobs) : jobs[i] # t
        /\ worker.at \in Undone => worker.job # t
    BY <1>0, <2>0 DEF JobsSound, Undone, Working
  <2>6. JobsOnce'
    BY <1>0, <2>0, <2>1, <2>5 DEF JobsOnce
  <2>7. DiskSound'
    BY <1>0, <2>0, <2>2 DEF DiskSound, TypeSubmissions, Unkept, Kept
  <2>8. DownSound'
    BY <1>0, <2>0 DEF DownSound, Reserving, Up
  <2> QED
    BY <2>4, <2>6, <2>7, <2>8 DEF RInv
<1> QED
  BY <1>1, <1>2, <1>3, <1>4 DEF SubmitStep

-----------------------------------------------------------------------------
(* The worker. *)

\* A step of the worker that queues no outcome owes what was owed before.
LEMMA DiskStays ==
  ASSUME TypeSubmissions, DiskSound, UNCHANGED <<submit, items, disk>>,
         Owing' \subseteq Owing
  PROVE  DiskSound' /\ Due \subseteq Due'
<1>1. Due \subseteq Due'
  BY DueStays
<1>2. DiskSound'
  BY DEF DiskSound
<1> QED
  BY <1>1, <1>2

\* A step of the worker that reports a status of its job: only the job's
\* record in memory changes, and it is kept.
LEMMA ReportStays ==
  ASSUME TypeSubmissions, TypeWorker, TypeRecords, JobsSound, DiskSound,
         worker.at \in {"execute", "running", "finish"},
         NEW s \in Statuses \ {"none"}, Update(worker.job, s),
         UNCHANGED <<submit, disk>>, Owing' \subseteq Owing
  PROVE  DiskSound' /\ Due \subseteq Due'
<1>1. Due \subseteq Due'
  BY DueStays
<1>2. worker.job \in Tasks /\ submit[worker.job] = "accepted"
  BY WorkerShape DEF JobsSound, Working
<1>3. \A t \in Tasks : t # worker.job => items'[t] = items[t]
  BY DEF Update, TypeRecords
<1>4. DiskSound'
  BY <1>2, <1>3 DEF DiskSound, Unkept
<1> QED
  BY <1>1, <1>4

LEMMA WorkerHolds ==
  ASSUME PInv, RInv, WorkerStep \/ ReportProgress
  PROVE  RInv'
<1>0. /\ TypeSubmissions /\ TypeWorker /\ TypeRecords /\ TypeShutdown
      /\ OneInFlight /\ PlacesReserved /\ JobsSound
      /\ JobsOnce /\ SavesSound /\ SavesOnce /\ DiskSound /\ DownSound
  BY DEF PInv, TypeOK, RInv
<1>1. Up /\ DownSound'
  BY <1>0, WorkerShape
  DEF WorkerStep, TakeJob, SeeCancelled, WorkerExit, ReleasePlace, StartJob, SkipJob,
      JobReturns, FinishJob, DropCancel, ReportProgress, Up, Down, Idle, DownSound, Working
<1>2. CASE TakeJob
  <2>1. /\ worker.at = "select" /\ worker'.job = jobs[1] /\ worker'.at = "release"
        /\ \A i \in 1..Len(jobs') : i + 1 \in 1..Len(jobs) /\ jobs'[i] = jobs[i + 1]
        /\ 1 \in 1..Len(jobs) /\ Len(jobs) \in Nat
    BY <1>0, <1>2 DEF TakeJob, TypeSubmissions, Idle
  <2>2. JobsOnce'
    <3>1. ASSUME NEW i \in 1..Len(jobs'), NEW j \in 1..Len(jobs'), jobs'[i] = jobs'[j]
          PROVE  i = j
      <4>1. i + 1 = j + 1
        BY <1>0, <2>1, <3>1 DEF JobsOnce
      <4> QED
        BY <4>1
    <3>2. ASSUME NEW i \in 1..Len(jobs'), jobs'[i] = worker'.job
          PROVE  FALSE
      <4>1. i + 1 = 1
        BY <1>0, <2>1, <3>2 DEF JobsOnce
      <4> QED
        BY <4>1
    <3> QED
      BY <3>1, <3>2 DEF JobsOnce
  <2>3. Owing' \subseteq Owing
    BY <1>2, <2>1 DEF TakeJob, Owing
  <2>4. DiskSound' /\ Due \subseteq Due'
    BY <1>0, <1>2, <2>3, DiskStays DEF TakeJob
  <2>5. SavesSound' /\ SavesOnce'
    BY <1>0, <1>2, <2>4, SavesStay DEF TakeJob
  <2> QED
    BY <1>1, <2>2, <2>4, <2>5 DEF RInv
<1>3. CASE SeeCancelled \/ WorkerExit \/ ReleasePlace \/ SkipJob \/ JobReturns \/ DropCancel
  <2>1. /\ worker'.at \in Undone => worker.at \in Undone /\ worker'.job = worker.job
        /\ UNCHANGED <<submit, jobs, items, saves, disk>>
    <3>1. CASE SeeCancelled \/ WorkerExit \/ DropCancel
      BY <3>1 DEF SeeCancelled, WorkerExit, DropCancel, Idle, Undone
    <3>2. CASE ReleasePlace
      BY <1>0, <3>2, WorkerGoesOn DEF ReleasePlace, Working, Undone
    <3>3. CASE SkipJob \/ JobReturns
      BY <1>0, <3>3, WorkerGoesOn DEF SkipJob, JobReturns, Working, Undone
    <3> QED
      BY <1>3, <3>1, <3>2, <3>3
  <2>2. JobsOnce' /\ Owing' \subseteq Owing
    BY <1>0, <2>1 DEF JobsOnce, Owing
  <2>3. DiskSound' /\ Due \subseteq Due'
    BY <1>0, <2>1, <2>2, DiskStays
  <2>4. SavesSound' /\ SavesOnce'
    BY <1>0, <2>1, <2>3, SavesStay
  <2> QED
    BY <1>1, <2>2, <2>3, <2>4 DEF RInv
<1>4. CASE StartJob \/ ReportProgress
  <2>1. /\ worker.at \in {"execute", "running"} /\ worker.job \in Tasks
        /\ worker'.at = "running" /\ worker'.job = worker.job
        /\ UNCHANGED <<submit, jobs, disk>>
        /\ Update(worker.job, "running")
    <3>1. CASE StartJob
      BY <1>0, <3>1, WorkerGoesOn DEF StartJob, Working
    <3>2. CASE ReportProgress
      BY <1>0, <3>2, WorkerShape DEF ReportProgress, Working, JobsSound
    <3> QED
      BY <1>4, <3>1, <3>2
  <2>2. JobsOnce' /\ Owing' \subseteq Owing
    BY <1>0, <2>1 DEF JobsOnce, Owing, Undone
  <2>3. DiskSound' /\ Due \subseteq Due'
    BY <1>0, <2>1, <2>2, ReportStays
  <2>4. disk[worker.job] # "none"
    BY <1>0, <2>1 DEF JobsSound, DiskSound, Working, Kept
  <2>5. [task |-> worker.job, status |-> "running"] \in Due'
    BY <2>1, <2>4 DEF Due, Save
  <2>6. SavesSound' /\ SavesOnce'
    BY <1>0, <2>1, <2>3, <2>5, SavesAppend DEF Update
  <2> QED
    BY <1>1, <2>2, <2>3, <2>6 DEF RInv
<1>5. CASE FinishJob
  <2>1. /\ worker.at = "finish" /\ worker.job \in Tasks
        /\ worker'.at = "drop" /\ worker'.job = worker.job
        /\ UNCHANGED <<submit, jobs, disk>>
    BY <1>0, <1>5, WorkerGoesOn DEF FinishJob, Working
  <2>2. PICK s \in Outcomes : Update(worker.job, s)
    BY <1>5 DEF FinishJob, FinalStatus
  <2>3. /\ submit[worker.job] = "accepted" /\ worker.job \in Owing
        /\ \A i \in 1..Len(jobs) : jobs[i] # worker.job
    BY <1>0, <2>1 DEF JobsSound, JobsOnce, Owing, Working, Undone
  <2>4. JobsOnce' /\ Owing' \subseteq Owing /\ worker.job \notin Owing'
    BY <1>0, <2>1, <2>3 DEF JobsOnce, Owing, Undone
  <2>5. DiskSound' /\ Due \subseteq Due'
    BY <1>0, <2>1, <2>2, <2>4, ReportStays
  <2>6. [task |-> worker.job, status |-> s] \in Due'
    BY <1>0, <2>1, <2>3, <2>4 DEF Due, Save, DiskSound
  <2>7. \A i \in 1..Len(saves) :
          saves[i].task # worker.job \/ saves[i].status = "running"
    BY <1>0, <2>3 DEF SavesSound, Due, Save
  <2>8. SavesSound' /\ SavesOnce'
    BY <1>0, <2>1, <2>2, <2>5, <2>6, <2>7, SavesAppend DEF Update
  <2> QED
    BY <1>1, <2>4, <2>5, <2>8 DEF RInv
<1> QED
  BY <1>2, <1>3, <1>4, <1>5 DEF WorkerStep

-----------------------------------------------------------------------------
(* Persistence. *)

\* What the table holds of a task whose save comes next.
LEMMA HeadDue ==
  ASSUME TypeRecords, SavesSound, saves # <<>>
  PROVE  /\ Head(saves) = saves[1] /\ saves[1] \in Due
         /\ 1 \in 1..Len(saves) /\ Len(saves) \in Nat
<1>1. saves \in Seq(Save) /\ saves # <<>>
  BY DEF TypeRecords, Save
<1> QED
  BY <1>1 DEF SavesSound

LEMMA PersistHolds ==
  ASSUME PInv, RInv, Persist
  PROVE  RInv'
<1>0. /\ TypeSubmissions /\ TypeWorker /\ TypeRecords /\ TypeShutdown
      /\ OneInFlight /\ PlacesReserved /\ JobsSound
      /\ JobsOnce /\ SavesSound /\ SavesOnce /\ DiskSound /\ DownSound
  BY DEF PInv, TypeOK, RInv
<1>1. /\ Up /\ saves # <<>> /\ saves' = Tail(saves)
      /\ UNCHANGED <<jobs, items, worker>>
  BY DEF Persist, SaveOk, SaveFails
<1>2. Head(saves) = saves[1] /\ saves[1] \in Due /\ 1 \in 1..Len(saves)
      /\ Len(saves) \in Nat
  BY <1>0, <1>1, HeadDue
<1> DEFINE t == saves[1].task
           s == saves[1].status
<1>3. /\ t \in Tasks /\ s \in Statuses \ {"none"}
      /\ s = "pending" => submit[t] = "saving"
      /\ s = "running" => disk[t] # "none"
      /\ s \in Outcomes => disk[t] \in Unfinished /\ t \notin Owing
  BY <1>2 DEF Due, Save
<1>4. \A i \in 2..Len(saves) :
        /\ saves[i] \in Due /\ i \in 1..Len(saves)
        /\ saves[i].task # t \/ s = "running" \/ saves[i].status = "running"
  BY <1>0, <1>2 DEF SavesSound, SavesOnce
<1> HIDE DEF t, s
<1>5. JobsOnce' /\ DownSound'
  BY <1>0, <1>1 DEF JobsOnce, DownSound, Up
<1>6. /\ submit[t] = "saving" => disk[t] = "none" /\ s = "pending"
      /\ s = "pending" => disk[t] = "none"
  BY <1>0, <1>3 DEF DiskSound, Unkept
<1>7. CASE SaveOk
  <2>1. /\ disk' = [disk EXCEPT ![t] = IF @ \in Outcomes /\ s \in Unfinished THEN @ ELSE s]
        /\ submit' = [submit EXCEPT ![t] = IF @ = "saving" THEN "saved" ELSE @]
    BY <1>2, <1>7 DEF SaveOk, SaveTask, Reply, t, s
  <2>2. /\ \A u \in Tasks : u # t => submit'[u] = submit[u] /\ disk'[u] = disk[u]
        /\ submit'[t] = IF submit[t] = "saving" THEN "saved" ELSE submit[t]
        /\ disk'[t] = IF disk[t] \in Outcomes /\ s \in Unfinished THEN disk[t] ELSE s
    BY <1>0, <1>3, <2>1 DEF TypeSubmissions, TypeRecords
  <2>3. /\ \A u \in Tasks : u # t => (u \in Owing' <=> u \in Owing)
        /\ submit[t] # "saving" => (t \in Owing' <=> t \in Owing)
    BY <1>1, <2>2 DEF Owing
  <2>4. \A i \in 2..Len(saves) : saves[i] \in Due'
    <3> SUFFICES ASSUME NEW i \in 2..Len(saves) PROVE saves[i] \in Due'
      OBVIOUS
    <3>1. CASE saves[i].task # t
      BY <1>4, <2>2, <2>3, <3>1 DEF Due, Save
    <3>2. CASE saves[i].task = t
      BY <1>3, <1>4, <1>6, <2>2, <2>3, <3>2 DEF Due, Save
    <3> QED
      BY <3>1, <3>2
  <2>5. SavesSound' /\ SavesOnce'
    BY <1>0, <1>1, <2>4, SavesTail
  <2>6. DiskSound'
    <3> SUFFICES ASSUME NEW u \in Tasks
                 PROVE  /\ submit'[u] \in Unkept => disk'[u] = "none" /\ items'[u] = "none"
                        /\ submit'[u] \in Kept => disk'[u] # "none"
                        /\ u \in Owing' => disk'[u] \in Unfinished
      BY DEF DiskSound
    <3>1. CASE u # t
      BY <1>0, <1>1, <2>2, <2>3, <3>1 DEF DiskSound
    <3>2. CASE u = t
      BY <1>0, <1>1, <1>3, <1>6, <2>2, <2>3, <3>2 DEF DiskSound, Unkept, Kept
    <3> QED
      BY <3>1, <3>2
  <2> QED
    BY <1>5, <2>5, <2>6 DEF RInv
<1>8. CASE SaveFails
  <2>1. /\ UNCHANGED disk
        /\ submit' = [submit EXCEPT ![t] = IF @ = "saving" THEN "unsaved" ELSE @]
    BY <1>2, <1>8 DEF SaveFails, Reply, t
  <2>2. /\ \A u \in Tasks : u # t => submit'[u] = submit[u]
        /\ submit'[t] = IF submit[t] = "saving" THEN "unsaved" ELSE submit[t]
    BY <1>0, <1>3, <2>1 DEF TypeSubmissions
  <2>3. Owing' = Owing
    BY <1>1, <2>2 DEF Owing
  <2>4. \A i \in 2..Len(saves) : saves[i] \in Due'
    <3> SUFFICES ASSUME NEW i \in 2..Len(saves) PROVE saves[i] \in Due'
      OBVIOUS
    <3> QED
      BY <1>3, <1>4, <1>6, <2>1, <2>2, <2>3 DEF Due, Save
  <2>5. SavesSound' /\ SavesOnce'
    BY <1>0, <1>1, <2>4, SavesTail
  <2>6. DiskSound'
    BY <1>0, <1>1, <2>1, <2>2, <2>3 DEF DiskSound, Unkept, Kept
  <2> QED
    BY <1>5, <2>5, <2>6 DEF RInv
<1> QED
  BY <1>7, <1>8 DEF Persist

-----------------------------------------------------------------------------
(* Shutdown, crash and restart. *)

LEMMA ShutdownHolds ==
  ASSUME PInv, RInv, Close \/ CloseReturn \/ CloseRegistry \/ PersistenceExit
  PROVE  RInv'
<1>1. UNCHANGED <<submit, jobs, items, worker, saves, disk>>
  BY DEF Close, CloseReturn, CloseRegistry, PersistenceExit
<1> QED
  BY <1>1 DEF RInv, JobsOnce, SavesSound, SavesOnce, DiskSound, DownSound, Due, Owing,
              Reserving, Up

LEMMA RestartHolds ==
  ASSUME PInv, RInv, Stop \/ Hydrate
  PROVE  RInv'
<1>0. /\ TypeSubmissions /\ TypeRecords /\ DiskSound /\ DownSound
  BY DEF PInv, TypeOK, RInv
<1>1. CASE Stop
  <2>1. /\ worker'.at = "down" /\ jobs' = <<>> /\ saves' = <<>>
        /\ Len(jobs') = 0 /\ Len(saves') = 0 /\ UNCHANGED disk
        /\ items' = [t \in Tasks |-> "none"]
    BY <1>1 DEF Stop, Down
  <2>2. \A t \in Tasks : /\ submit'[t] \notin InFlight
                        /\ submit'[t] \in {submit[t], "lost"}
    BY <1>0, <1>1 DEF Stop, TypeSubmissions
  <2>3. Owing' = {}
    BY <2>1, <2>2 DEF Owing, Undone
  <2>4. JobsOnce' /\ SavesSound' /\ SavesOnce'
    BY <2>1 DEF JobsOnce, SavesSound, SavesOnce, Undone
  <2>5. DiskSound'
    BY <1>0, <2>1, <2>2, <2>3 DEF DiskSound, Unkept, Kept
  <2>6. DownSound'
    BY <2>1, <2>2 DEF DownSound, Reserving
  <2> QED
    BY <2>4, <2>5, <2>6 DEF RInv
<1>2. CASE Hydrate
  <2>1. /\ worker'.at = "select" /\ Up' /\ jobs = <<>> /\ saves = <<>>
        /\ UNCHANGED <<submit, jobs, saves>> /\ ~Reserving
        /\ Len(jobs') = 0 /\ Len(saves') = 0
    BY <1>0, <1>2 DEF Hydrate, Idle, Up, Down, DownSound
  <2>2. Owing' = {}
    BY <2>1 DEF Owing, Undone, Reserving
  <2>3. \A t \in Tasks : items'[t] = disk'[t] /\ (disk'[t] = "none" <=> disk[t] = "none")
    BY <1>0, <1>2 DEF Hydrate, Interrupted, TypeRecords
  <2>4. JobsOnce' /\ SavesSound' /\ SavesOnce'
    BY <2>1 DEF JobsOnce, SavesSound, SavesOnce, Undone
  <2>5. DiskSound'
    BY <1>0, <2>1, <2>2, <2>3 DEF DiskSound
  <2>6. DownSound'
    BY <2>1 DEF DownSound
  <2> QED
    BY <2>4, <2>5, <2>6 DEF RInv
<1> QED
  BY <1>1, <1>2

-----------------------------------------------------------------------------
LEMMA RInvariant == Spec => [](PInv /\ RInv)
<1>1. PInv /\ RInv /\ [Next]_vars => RInv'
  <2> SUFFICES ASSUME PInv, RInv, [Next]_vars PROVE RInv'
    OBVIOUS
  <2>1. CASE UNCHANGED vars
    BY <2>1 DEF vars, RInv, JobsOnce, SavesSound, SavesOnce, DiskSound, DownSound, Due,
                Owing, Reserving, Up
  <2>2. CASE Next
    BY <2>2, SubmissionHolds, WorkerHolds, PersistHolds, ShutdownHolds, RestartHolds
    DEF Next
  <2> QED
    BY <2>1, <2>2
<1> QED
  BY PInvariant, RInit, <1>1, PTL DEF Spec

(* What Submit told its caller stays true: an accepted task is in the      *)
(* table, a refused, rejected or unsaved one is nowhere, however saves     *)
(* fail and whenever the process is killed (executor.go:91-109,            *)
(* queue_admission.go:3-5).                                                *)
THEOREM AnswersKept == Spec => []AnswersHold
<1>1. RInv => AnswersHold
  BY DEF RInv, DiskSound, AnswersHold, Unkept, Kept
<1> QED
  BY RInvariant, <1>1, PTL

\* The one step that changes the table while the process lives.
LEMMA SaveIsStep ==
  ASSUME PInv, RInv, SaveOk
  PROVE  Records!RecordsNext \/ UNCHANGED disk
<1>0. TypeRecords /\ SavesSound /\ DiskSound
  BY DEF PInv, TypeOK, RInv
<1>1. PICK r \in Due : SaveTask(r.task, r.status)
  BY <1>0, HeadDue DEF SaveOk
<1> DEFINE t == r.task
           s == r.status
<1>2. /\ t \in Tasks /\ s \in Statuses \ {"none"}
      /\ s = "pending" => disk[t] = "none"
      /\ s = "running" => disk[t] # "none"
      /\ s \in Outcomes => disk[t] \in Unfinished
  BY <1>0 DEF Due, Save, DiskSound, Unkept
<1>3. /\ disk \in [Tasks -> Statuses]
      /\ disk' = [disk EXCEPT ![t] = IF @ \in Outcomes /\ s \in Unfinished THEN @ ELSE s]
  BY <1>0, <1>1 DEF TypeRecords, SaveTask
<1> HIDE DEF t, s
<1>4. CASE s = "pending"
  <2>1. Records!Create(t)
    BY <1>2, <1>3, <1>4 DEF Records!Create
  <2> QED
    BY <1>2, <2>1 DEF Records!RecordsNext
<1>5. CASE s = "running" /\ disk[t] \in Outcomes \cup {"running"}
  BY <1>2, <1>3, <1>5
<1>6. CASE s = "running" /\ disk[t] = "pending"
  <2>1. disk' = [disk EXCEPT ![t] = s] /\ Records!Rank(s) > Records!Rank(disk[t])
    BY <1>3, <1>6 DEF Records!Rank
  <2>2. s \in Records!Statuses /\ disk[t] # "none"
    BY <1>6
  <2>3. Records!Advance(t)
    BY <2>1, <2>2 DEF Records!Advance
  <2> QED
    BY <1>2, <2>3 DEF Records!RecordsNext
<1>7. CASE s \in Outcomes
  <2>1. disk[t] \in {"pending", "running"} /\ disk' = [disk EXCEPT ![t] = s]
    BY <1>2, <1>3, <1>7
  <2>2. Records!Rank(s) = 3 /\ Records!Rank(disk[t]) \in {1, 2}
    BY <1>7, <2>1 DEF Records!Rank
  <2>3. s \in Records!Statuses /\ disk[t] # "none" /\ Records!Rank(s) > Records!Rank(disk[t])
    BY <1>7, <2>1, <2>2
  <2>4. Records!Advance(t)
    BY <2>1, <2>3 DEF Records!Advance
  <2> QED
    BY <1>2, <2>4 DEF Records!RecordsNext
<1> QED
  BY <1>2, <1>3, <1>4, <1>5, <1>6, <1>7

(* The tasks table implements TaskRecords: a record appears as pending,    *)
(* moves forward only and keeps its first outcome, and a restart only      *)
(* interrupts what it finds unfinished, although records are saved late,   *)
(* saves fail and the process is killed between any two of them            *)
(* (task_registry.go:303-324, task_upsert.go).                             *)
THEOREM TableKeepsRecords == Spec => RecordsKept
<1>1. Init => Records!RecordsInit
  BY DEF Init, Records!RecordsInit
<1>2. PInv /\ RInv /\ [Next]_vars => [Records!RecordsNext]_disk
  <2> SUFFICES ASSUME PInv, RInv, [Next]_vars, disk' # disk
               PROVE  Records!RecordsNext
    OBVIOUS
  <2>1. SaveOk \/ Hydrate
    BY DEF Next, SubmitRefused, SubmitFull, SubmitStep, SubmitAdmit, SubmitUnsaved,
           SubmitInsert, SubmitSend, Expire, WorkerStep, TakeJob, SeeCancelled, WorkerExit,
           ReleasePlace, StartJob, SkipJob, JobReturns, FinishJob, DropCancel,
           ReportProgress, Persist, SaveFails, Close, CloseReturn, CloseRegistry,
           PersistenceExit, Stop, vars
  <2>2. CASE SaveOk
    BY <2>2, SaveIsStep
  <2>3. CASE Hydrate
    BY <2>3 DEF Hydrate, Interrupted, Records!RecordsNext, Records!InterruptUnfinished
  <2> QED
    BY <2>1, <2>2, <2>3
<1> QED
  BY RInvariant, <1>1, <1>2, PTL DEF Spec, RecordsKept, Records!RecordsSpec

-----------------------------------------------------------------------------
(* What is settled when the worker has gone and the table is closed.       *)

\* The shutdown goes one way: no submission is under way once Close has the
\* mutex, the worker leaves an empty channel, the registry closes after it.
Closing ==
  /\ closer # "open" => ~Reserving
  /\ draining => closer # "open"
  /\ worker.at = "exited" => draining /\ Len(jobs) = 0
  /\ closer = "closed" => worker.at = "exited"
  /\ registry # "open" => closer = "closed"
  /\ registry = "closed" => Len(saves) = 0
  /\ ~Up => closer = "open" /\ registry = "open" /\ ~draining

\* A record without an outcome belongs to a task that will get one.
ShownOwed == \A t \in Tasks : items[t] \in Unfinished => t \in Owing

QueuedSave(t) == \E i \in 1..Len(saves) : saves[i].task = t
LastSave(i) == \A j \in 1..Len(saves) : j > i => saves[j].task # saves[i].task

\* The last save of a task is what the registry shows of it, or what Submit
\* will show; no save is behind an outcome, in the queue or in the table.
SavesShow ==
  /\ \A i, j \in 1..Len(saves) :
       i < j /\ saves[i].task = saves[j].task => saves[i].status \notin Outcomes
  /\ \A i \in 1..Len(saves) :
       /\ saves[i].status \in Unfinished => disk[saves[i].task] \notin Outcomes
       /\ LastSave(i) =>
            saves[i].status = items[saves[i].task] \/ submit[saves[i].task] = "saving"
  /\ \A t \in Tasks :
       /\ submit[t] = "saved" => ~QueuedSave(t)
       /\ ~QueuedSave(t) => disk[t] = IF submit[t] = "saved" THEN "pending" ELSE items[t]
TableFollows == Up /\ ~saveFailed => SavesShow

CInv == PInv /\ RInv /\ Closing /\ ShownOwed /\ TableFollows

LEMMA ClosingStep == CInv /\ [Next]_vars => Closing'
<1> SUFFICES ASSUME CInv, [Next]_vars PROVE Closing'
  OBVIOUS
<1>0. TypeSubmissions /\ TypeWorker /\ TypeRecords /\ TypeShutdown /\ OneInFlight /\ Closing
      /\ DownSound
  BY DEF CInv, PInv, TypeOK, RInv
<1>1. ASSUME NEW t \in Tasks, SubmitStep(t) PROVE Closing'
  <2>1. closer = "open"
    BY <1>0, <1>1 DEF SubmitStep, SubmitAdmit, SubmitUnsaved, SubmitInsert, SubmitSend, Closing,
                      Reserving
  <2>2. UNCHANGED <<closer, draining, worker, registry>>
    BY <1>1 DEF SubmitStep, SubmitAdmit, SubmitUnsaved, SubmitInsert, SubmitSend
  <2> QED
    BY <1>0, <2>1, <2>2 DEF Closing, Up
<1>2. ASSUME NEW t \in Tasks, SubmitRefused(t) \/ SubmitFull(t) \/ Expire(t) PROVE Closing'
  <2>1. UNCHANGED <<closer, draining, worker, registry, jobs, saves>>
    BY <1>2 DEF SubmitRefused, SubmitFull, Expire, memory
  <2>2. Reserving' => Reserving
    BY <1>0, <1>2 DEF SubmitRefused, SubmitFull, Expire, Reserving, TypeSubmissions
  <2> QED
    BY <1>0, <2>1, <2>2 DEF Closing, Up
<1>3. CASE WorkerStep \/ ReportProgress
  <2>1. UNCHANGED <<closer, registry, submit>>
    BY <1>3 DEF WorkerStep, TakeJob, SeeCancelled, WorkerExit, ReleasePlace, StartJob, SkipJob,
                JobReturns, FinishJob, DropCancel, ReportProgress
  <2>2. CASE SeeCancelled
    BY <1>0, <2>1, <2>2 DEF SeeCancelled, Closing, Idle, Reserving, Up, Down
  <2>3. CASE WorkerExit
    <3>1. worker.at = "select" /\ worker'.at = "exited" /\ Up'
      BY <2>3 DEF WorkerExit, Idle, Up, Down
    <3> QED
      BY <1>0, <2>1, <2>3, <3>1 DEF WorkerExit, Closing, Reserving
  <2>4. CASE ~SeeCancelled /\ ~WorkerExit
    <3>1. worker.at # "exited" /\ worker'.at \notin {"exited", "down"} /\ draining' = draining
      BY <1>0, <1>3, <2>4, WorkerShape
      DEF WorkerStep, TakeJob, ReleasePlace, StartJob, SkipJob, JobReturns, FinishJob,
          DropCancel, ReportProgress, Idle, Working
    <3>2. Up'
      BY <3>1 DEF Up, Down
    <3> QED
      BY <1>0, <2>1, <3>1, <3>2 DEF Closing, Reserving
  <2> QED
    BY <2>2, <2>3, <2>4
<1>4. CASE Persist
  <2>1. /\ UNCHANGED <<closer, draining, worker, registry, jobs>> /\ Len(saves) # 0
    <3>1. saves # <<>> /\ saves \in Seq(Save)
      BY <1>0, <1>4 DEF Persist, SaveOk, SaveFails, TypeRecords, Save
    <3>2. Len(saves) # 0
      BY <3>1
    <3> QED
      BY <1>4, <3>2 DEF Persist, SaveOk, SaveFails
  <2>2. Reserving' => Reserving
    BY <1>0, <1>4 DEF Persist, SaveOk, SaveFails, Reply, Reserving, TypeSubmissions
  <2> QED
    BY <1>0, <2>1, <2>2 DEF Closing, Up
<1>5. CASE Close \/ CloseReturn \/ CloseRegistry \/ PersistenceExit
  <2>1. UNCHANGED <<submit, draining, worker, jobs, saves>>
    BY <1>5 DEF Close, CloseReturn, CloseRegistry, PersistenceExit
  <2>2. Reserving' = Reserving /\ Up' = Up
    BY <2>1 DEF Reserving, Up
  <2>3. CASE Close
    BY <1>0, <2>1, <2>2, <2>3 DEF Close, Closing, ExecutorFree, Reserving
  <2>4. CASE CloseReturn
    BY <1>0, <2>1, <2>2, <2>4, WorkerShape DEF CloseReturn, Closing, Up
  <2>5. CASE CloseRegistry
    BY <1>0, <2>1, <2>2, <2>5 DEF CloseRegistry, ClosersDone, Closing
  <2>6. CASE PersistenceExit
    <3>1. Len(saves) = 0
      BY <2>6 DEF PersistenceExit
    <3> QED
      BY <1>0, <2>1, <2>2, <2>6, <3>1 DEF PersistenceExit, Closing
  <2> QED
    BY <1>5, <2>3, <2>4, <2>5, <2>6
<1>6. CASE Stop
  BY <1>0, <1>6 DEF Stop, Closing, Down, Up
<1>7. CASE Hydrate
  BY <1>0, <1>7 DEF Hydrate, Closing, Idle, Up, Down
<1>8. CASE UNCHANGED vars
  BY <1>0, <1>8 DEF vars, Closing, Reserving, Up
<1> QED
  BY <1>1, <1>2, <1>3, <1>4, <1>5, <1>6, <1>7, <1>8 DEF Next

\* While the worker has a job the registry is open, and so takes its saves.
LEMMA WorkingOpen ==
  ASSUME TypeWorker, TypeShutdown, Closing, worker.at \in Working
  PROVE  registry = "open" /\ Up
  BY WorkerShape DEF Closing, Working, Up, Down

LEMMA ShownStep == CInv /\ [Next]_vars => ShownOwed'
<1> SUFFICES ASSUME CInv, [Next]_vars PROVE ShownOwed'
  OBVIOUS
<1>0. TypeSubmissions /\ TypeWorker /\ TypeRecords /\ TypeShutdown /\ JobsSound /\ ShownOwed
      /\ DownSound /\ Closing
  BY DEF CInv, PInv, TypeOK, RInv
<1>1. ASSUME NEW t \in Tasks, SubmitStep(t) PROVE ShownOwed'
  <2>1. CASE SubmitAdmit(t) \/ SubmitUnsaved(t)
    <3>1. UNCHANGED <<items, jobs, worker>> /\ submit[t] \notin {"saved", "send"}
          /\ \A u \in Tasks : u # t => submit'[u] = submit[u]
      BY <1>0, <2>1 DEF SubmitAdmit, SubmitUnsaved, TypeSubmissions
    <3> QED
      BY <1>0, <3>1 DEF ShownOwed, Owing
  <2>2. CASE SubmitInsert(t)
    <3>1. /\ UNCHANGED <<jobs, worker>> /\ submit'[t] = "send"
          /\ \A u \in Tasks : u # t => submit'[u] = submit[u] /\ items'[u] = items[u]
      BY <1>0, <2>2 DEF SubmitInsert, TypeSubmissions, TypeRecords
    <3> QED
      BY <1>0, <3>1 DEF ShownOwed, Owing
  <2>3. CASE SubmitSend(t)
    <3>1. /\ UNCHANGED <<items, worker>> /\ jobs' = Append(jobs, t) /\ jobs \in Seq(Tasks)
          /\ \A u \in Tasks : u # t => submit'[u] = submit[u]
      BY <1>0, <2>3 DEF SubmitSend, TypeSubmissions
    <3>2. /\ \E i \in 1..Len(jobs') : jobs'[i] = t
          /\ \A i \in 1..Len(jobs) : i \in 1..Len(jobs') /\ jobs'[i] = jobs[i]
      <4>1. Len(jobs') = Len(jobs) + 1 /\ jobs'[Len(jobs) + 1] = t /\ Len(jobs) \in Nat
        BY <3>1
      <4>2. \A i \in 1..Len(jobs) : i \in 1..Len(jobs') /\ jobs'[i] = jobs[i]
        BY <3>1
      <4> QED
        BY <4>1, <4>2
    <3> QED
      BY <1>0, <3>1, <3>2 DEF ShownOwed, Owing
  <2> QED
    BY <1>1, <2>1, <2>2, <2>3 DEF SubmitStep
<1>2. ASSUME NEW t \in Tasks, SubmitRefused(t) \/ SubmitFull(t) \/ Expire(t) PROVE ShownOwed'
  <2>1. UNCHANGED <<items, jobs, worker>>
    BY <1>2 DEF SubmitRefused, SubmitFull, Expire, memory
  <2>2. \A u \in Tasks : submit[u] \in {"saved", "send"} => submit'[u] = submit[u]
    BY <1>0, <1>2 DEF SubmitRefused, SubmitFull, Expire, TypeSubmissions
  <2> QED
    BY <1>0, <2>1, <2>2 DEF ShownOwed, Owing
<1>3. CASE TakeJob
  <2>1. /\ worker.at = "select" /\ worker'.at = "release" /\ worker'.job = jobs[1]
        /\ UNCHANGED <<items, submit>>
        /\ \A i \in 2..Len(jobs) : i - 1 \in 1..Len(jobs') /\ jobs'[i - 1] = jobs[i]
    BY <1>0, <1>3 DEF TakeJob, TypeSubmissions, Idle
  <2>2. \A t \in Tasks : (\E i \in 1..Len(jobs) : jobs[i] = t) =>
          jobs[1] = t \/ \E i \in 1..Len(jobs') : jobs'[i] = t
    <3> SUFFICES ASSUME NEW i \in 1..Len(jobs), i # 1
                 PROVE  \E k \in 1..Len(jobs') : jobs'[k] = jobs[i]
      OBVIOUS
    <3>1. i \in 2..Len(jobs)
      BY <1>0 DEF TypeSubmissions
    <3> QED
      BY <2>1, <3>1
  <2> QED
    BY <1>0, <2>1, <2>2 DEF ShownOwed, Owing, Undone
<1>4. ASSUME UNCHANGED <<items, jobs, submit>>,
             worker.at \in Undone => worker'.at \in Undone /\ worker'.job = worker.job
      PROVE  ShownOwed'
  BY <1>0, <1>4 DEF ShownOwed, Owing
<1>5. CASE SeeCancelled \/ WorkerExit \/ ReleasePlace \/ SkipJob \/ JobReturns \/ DropCancel
  <2>1. UNCHANGED <<items, jobs, submit>>
    BY <1>5 DEF SeeCancelled, WorkerExit, ReleasePlace, SkipJob, JobReturns, DropCancel
  <2>2. worker.at \in Undone => worker'.at \in Undone /\ worker'.job = worker.job
    BY <1>0, <1>5, WorkerGoesOn
    DEF SeeCancelled, WorkerExit, ReleasePlace, SkipJob, JobReturns, DropCancel, Undone, Idle,
        Working
  <2> QED
    BY <1>4, <2>1, <2>2
<1>6. CASE StartJob \/ ReportProgress \/ FinishJob
  <2>1. /\ worker.at \in {"execute", "running", "finish"} /\ worker.job \in Tasks
        /\ UNCHANGED <<jobs, submit>>
        /\ \E s : Update(worker.job, s)
    BY <1>0, <1>6, WorkerShape DEF StartJob, ReportProgress, FinishJob, Working
  <2>2. \A u \in Tasks : u # worker.job => items'[u] = items[u]
    BY <1>0, <2>1 DEF Update, TypeRecords
  <2>3. CASE StartJob \/ ReportProgress
    <3>1. worker'.at = "running" /\ worker'.job = worker.job
      BY <1>0, <2>1, <2>3, WorkerGoesOn DEF StartJob, ReportProgress, Working
    <3> QED
      BY <1>0, <2>1, <2>2, <3>1 DEF ShownOwed, Owing, Undone
  <2>4. CASE FinishJob
    <3>1. items'[worker.job] = FinalStatus(worker.job)
      BY <1>0, <2>1, <2>4 DEF FinishJob, Update, TypeRecords
    <3>2. items'[worker.job] \notin Unfinished
      BY <3>1 DEF FinalStatus
    <3> QED
      BY <1>0, <2>1, <2>2, <3>2 DEF ShownOwed, Owing, Undone
  <2> QED
    BY <1>6, <2>3, <2>4
<1>7. CASE Persist
  <2>1. UNCHANGED <<items, jobs, worker>>
    BY <1>7 DEF Persist, SaveOk, SaveFails
  <2>2. \A u \in Tasks : submit[u] \in {"saved", "send"} => submit'[u] = submit[u]
    BY <1>0, <1>7 DEF Persist, SaveOk, SaveFails, Reply, TypeSubmissions
  <2> QED
    BY <1>0, <2>1, <2>2 DEF ShownOwed, Owing
<1>8. CASE Close \/ CloseReturn \/ CloseRegistry \/ PersistenceExit \/ UNCHANGED vars
  BY <1>4, <1>8 DEF Close, CloseReturn, CloseRegistry, PersistenceExit, vars
<1>9. CASE Stop
  BY <1>9 DEF Stop, ShownOwed
<1>10. CASE Hydrate
  BY <1>0, <1>10 DEF Hydrate, ShownOwed, Interrupted, TypeRecords
<1> QED
  BY <1>1, <1>2, <1>3, <1>5, <1>6, <1>7, <1>8, <1>9, <1>10 DEF Next, WorkerStep

-----------------------------------------------------------------------------
(* The table follows the registry. *)

\* A step that touches neither the queue nor what is shown or recorded.
LEMMA ShowStays ==
  ASSUME SavesShow, UNCHANGED <<items, saves, disk>>,
         \A t \in Tasks : /\ submit'[t] = "saved" <=> submit[t] = "saved"
                          /\ submit[t] = "saving" => submit'[t] = "saving",
         \A i \in 1..Len(saves) : saves[i].task \in Tasks
  PROVE  SavesShow'
  BY DEF SavesShow, QueuedSave, LastSave

\* A save of the status that its task now shows, behind no outcome.
LEMMA ShowAppend ==
  ASSUME TypeRecords, SavesShow, NEW t \in Tasks, NEW s \in Statuses \ {"none"},
         saves' = Append(saves, [task |-> t, status |-> s]), UNCHANGED disk,
         \A i \in 1..Len(saves) : saves[i].task = t => saves[i].status \notin Outcomes,
         s \in Unfinished => disk[t] \notin Outcomes,
         s = items'[t] \/ submit'[t] = "saving",
         submit'[t] # "saved",
         \A u \in Tasks : u # t => items'[u] = items[u] /\ submit'[u] = submit[u]
  PROVE  SavesShow'
<1> DEFINE r == [task |-> t, status |-> s]
<1>1. r \in Save /\ saves \in Seq(Save) /\ saves' = Append(saves, r)
  BY DEF TypeRecords, Save
<1>2. r.task = t /\ r.status = s
  OBVIOUS
<1> HIDE DEF r
<1>3. /\ Len(saves) \in Nat /\ Len(saves') = Len(saves) + 1
      /\ \A i \in 1..Len(saves) : saves'[i] = saves[i] /\ saves[i] \in Save
      /\ saves'[Len(saves) + 1] = r
  BY <1>1
<1>4. \A i \in 1..Len(saves') : i \in 1..Len(saves) \/ i = Len(saves) + 1
  BY <1>3
<1>5. \A i \in 1..Len(saves) : saves[i].task \in Tasks
  BY <1>3 DEF Save
<1>6. \A i, j \in 1..Len(saves') :
        i < j /\ saves'[i].task = saves'[j].task => saves'[i].status \notin Outcomes
  <2> SUFFICES ASSUME NEW i \in 1..Len(saves'), NEW j \in 1..Len(saves'),
                      i < j, saves'[i].task = saves'[j].task
               PROVE  saves'[i].status \notin Outcomes
    OBVIOUS
  <2>1. i \in 1..Len(saves)
    BY <1>3, <1>4
  <2>2. CASE j \in 1..Len(saves)
    BY <1>3, <2>1, <2>2 DEF SavesShow
  <2>3. CASE j = Len(saves) + 1
    BY <1>2, <1>3, <2>1, <2>3
  <2> QED
    BY <1>4, <2>2, <2>3
<1>7. \A i \in 1..Len(saves') : saves'[i].status \in Unfinished => disk'[saves'[i].task] \notin Outcomes
  BY <1>2, <1>3, <1>4 DEF SavesShow
<1>8. \A i \in 1..Len(saves') :
        LastSave(i)' => saves'[i].status = items'[saves'[i].task] \/ submit'[saves'[i].task] = "saving"
  <2> SUFFICES ASSUME NEW i \in 1..Len(saves'), LastSave(i)'
               PROVE  saves'[i].status = items'[saves'[i].task] \/ submit'[saves'[i].task] = "saving"
    OBVIOUS
  <2>1. CASE i = Len(saves) + 1
    BY <1>2, <1>3, <2>1
  <2>2. CASE i \in 1..Len(saves)
    <3>1. Len(saves) + 1 \in 1..Len(saves') /\ Len(saves) + 1 > i
      BY <1>3, <2>2
    <3>2. saves[i].task # t
      BY <1>2, <1>3, <2>2, <3>1 DEF LastSave
    <3>3. \A j \in 1..Len(saves) : j \in 1..Len(saves')
      BY <1>3
    <3>4. LastSave(i)
      BY <1>3, <2>2, <3>3 DEF LastSave
    <3> QED
      BY <1>3, <1>5, <2>2, <3>2, <3>4 DEF SavesShow
  <2> QED
    BY <1>4, <2>1, <2>2
<1>9. ASSUME NEW u \in Tasks
      PROVE  /\ submit'[u] = "saved" => ~QueuedSave(u)'
             /\ ~QueuedSave(u)' => disk'[u] = IF submit'[u] = "saved" THEN "pending" ELSE items'[u]
  <2>1. CASE u = t
    <3>1. Len(saves) + 1 \in 1..Len(saves') /\ saves'[Len(saves) + 1].task = t
      BY <1>2, <1>3
    <3> QED
      BY <2>1, <3>1 DEF QueuedSave
  <2>2. CASE u # t
    <3>1. QueuedSave(u)' <=> QueuedSave(u)
      <4>1. \A i \in 1..Len(saves) : i \in 1..Len(saves')
        BY <1>3
      <4> QED
        BY <1>2, <1>3, <1>4, <2>2, <4>1 DEF QueuedSave
    <3> QED
      BY <2>2, <3>1 DEF SavesShow
  <2> QED
    BY <2>1, <2>2
<1> QED
  BY <1>6, <1>7, <1>8, <1>9 DEF SavesShow

\* The table takes the next save.
LEMMA ShowSave ==
  ASSUME PInv, RInv, SavesShow, SaveOk
  PROVE  SavesShow'
<1>0. TypeSubmissions /\ TypeRecords /\ SavesSound /\ SavesOnce /\ DiskSound
  BY DEF PInv, TypeOK, RInv
<1>1. saves # <<>> /\ saves' = Tail(saves) /\ UNCHANGED items /\ saves \in Seq(Save)
  BY <1>0 DEF SaveOk, TypeRecords, Save
<1>2. Head(saves) = saves[1] /\ 1 \in 1..Len(saves) /\ Len(saves) \in Nat
  BY <1>0, <1>1, HeadDue
<1>3. /\ Len(saves') = Len(saves) - 1
      /\ \A i \in 1..Len(saves') : i + 1 \in 2..Len(saves) /\ saves'[i] = saves[i + 1]
      /\ \A i \in 2..Len(saves) : i - 1 \in 1..Len(saves') /\ saves'[i - 1] = saves[i]
      /\ \A i \in 1..Len(saves) : i = 1 \/ i \in 2..Len(saves)
      /\ \A i \in 2..Len(saves) : i \in 1..Len(saves) /\ 1 < i
  BY <1>1, <1>2
<1> DEFINE t == saves[1].task
           s == saves[1].status
<1>4. \A i \in 1..Len(saves) : /\ saves[i] \in Due
                               /\ saves[i].task \in Tasks /\ saves[i].status \in Statuses \ {"none"}
  BY <1>0 DEF SavesSound, Due, Save
<1>5. t \in Tasks /\ s \in Statuses \ {"none"}
  BY <1>2, <1>4
<1>6. \A i \in 1..Len(saves) : submit[saves[i].task] = "saving" =>
        saves[i].status = "pending" /\ disk[saves[i].task] = "none"
  BY <1>0, <1>4 DEF Due, DiskSound, Unkept
<1>7. \A i \in 2..Len(saves) : saves[i].task = t => submit[t] # "saving" /\ s \notin Outcomes
  <2> SUFFICES ASSUME NEW i \in 2..Len(saves), saves[i].task = t
               PROVE  submit[t] # "saving" /\ s \notin Outcomes
    OBVIOUS
  <2>1. i \in 1..Len(saves) /\ 1 < i
    BY <1>3
  <2>2. s \notin Outcomes
    BY <1>2, <2>1 DEF SavesShow
  <2>3. submit[t] = "saving" => s = "pending" /\ saves[i].status = "pending"
    BY <1>2, <1>6, <2>1
  <2>4. submit[t] # "saving"
    BY <1>0, <1>2, <2>1, <2>3 DEF SavesOnce
  <2> QED
    BY <2>2, <2>4
<1>8. s \in Unfinished => disk[t] \notin Outcomes
  BY <1>2 DEF SavesShow
<1>9. /\ disk' = [disk EXCEPT ![t] = IF @ \in Outcomes /\ s \in Unfinished THEN @ ELSE s]
      /\ submit' = [submit EXCEPT ![t] = IF @ = "saving" THEN "saved" ELSE @]
  BY <1>2 DEF SaveOk, SaveTask, Reply
<1>10. /\ \A u \in Tasks : u # t => submit'[u] = submit[u] /\ disk'[u] = disk[u]
       /\ submit'[t] = IF submit[t] = "saving" THEN "saved" ELSE submit[t]
       /\ disk'[t] = s
  BY <1>0, <1>5, <1>8, <1>9 DEF TypeSubmissions, TypeRecords
<1>11. submit[t] # "saved" /\ ((\A i \in 2..Len(saves) : saves[i].task # t)
                                 => s = items[t] \/ submit[t] = "saving")
  <2>1. QueuedSave(t)
    BY <1>2 DEF QueuedSave
  <2>2. (\A i \in 2..Len(saves) : saves[i].task # t) => LastSave(1)
    BY <1>2, <1>3 DEF LastSave
  <2> QED
    BY <1>2, <1>5, <2>1, <2>2 DEF SavesShow
<1>12. submit[t] = "saving" => s = "pending"
  BY <1>2, <1>6
<1> HIDE DEF t, s
<1>13. \A i, j \in 1..Len(saves') :
         i < j /\ saves'[i].task = saves'[j].task => saves'[i].status \notin Outcomes
  <2> SUFFICES ASSUME NEW i \in 1..Len(saves'), NEW j \in 1..Len(saves'),
                      i < j, saves'[i].task = saves'[j].task
               PROVE  saves'[i].status \notin Outcomes
    OBVIOUS
  <2>1. i + 1 < j + 1 /\ i + 1 \in 1..Len(saves) /\ j + 1 \in 1..Len(saves)
    BY <1>3
  <2> QED
    BY <1>3, <2>1 DEF SavesShow
<1>14. \A i \in 1..Len(saves') :
         saves'[i].status \in Unfinished => disk'[saves'[i].task] \notin Outcomes
  <2> SUFFICES ASSUME NEW i \in 2..Len(saves), saves[i].status \in Unfinished
               PROVE  disk'[saves[i].task] \notin Outcomes
    BY <1>3
  <2>1. CASE saves[i].task = t
    BY <1>5, <1>7, <1>10, <2>1
  <2>2. CASE saves[i].task # t
    BY <1>3, <1>4, <1>10, <2>2 DEF SavesShow
  <2> QED
    BY <2>1, <2>2
<1>15. \A i \in 1..Len(saves') : LastSave(i)' =>
         saves'[i].status = items'[saves'[i].task] \/ submit'[saves'[i].task] = "saving"
  <2> SUFFICES ASSUME NEW k \in 1..Len(saves'), LastSave(k)'
               PROVE  saves'[k].status = items'[saves'[k].task] \/ submit'[saves'[k].task] = "saving"
    OBVIOUS
  <2>1. PICK i \in 2..Len(saves) : i = k + 1 /\ saves'[k] = saves[i]
    BY <1>3
  <2>2. LastSave(i)
    <3> SUFFICES ASSUME NEW j \in 1..Len(saves), j > i
                 PROVE  saves[j].task # saves[i].task
      BY DEF LastSave
    <3>1. j \in 2..Len(saves) /\ j - 1 > k
      BY <1>2, <2>1
    <3> QED
      BY <1>3, <2>1, <3>1 DEF LastSave
  <2>3. saves[i].status = items[saves[i].task] \/ submit[saves[i].task] = "saving"
    BY <1>3, <2>2 DEF SavesShow
  <2>4. submit[saves[i].task] = "saving" => submit'[saves[i].task] = "saving"
    BY <1>3, <1>4, <1>7, <1>10
  <2> QED
    BY <1>1, <2>1, <2>3, <2>4
<1>16. ASSUME NEW u \in Tasks
       PROVE  /\ submit'[u] = "saved" => ~QueuedSave(u)'
              /\ ~QueuedSave(u)' => disk'[u] = IF submit'[u] = "saved" THEN "pending" ELSE items'[u]
  <2>1. QueuedSave(u)' <=> \E i \in 2..Len(saves) : saves[i].task = u
    BY <1>3 DEF QueuedSave
  <2>2. CASE u = t
    BY <1>1, <1>5, <1>7, <1>10, <1>11, <1>12, <2>1, <2>2
  <2>3. CASE u # t
    <3>1. QueuedSave(u) <=> \E i \in 2..Len(saves) : saves[i].task = u
      BY <1>3, <2>3 DEF QueuedSave, t
    <3> QED
      BY <1>1, <1>10, <2>1, <2>3, <3>1 DEF SavesShow
  <2> QED
    BY <2>2, <2>3
<1> QED
  BY <1>13, <1>14, <1>15, <1>16 DEF SavesShow

LEMMA FollowsStep == CInv /\ [Next]_vars => TableFollows'
<1> SUFFICES ASSUME CInv, [Next]_vars, Up', ~saveFailed' PROVE SavesShow'
  BY DEF TableFollows
<1>0. /\ TypeSubmissions /\ TypeWorker /\ TypeRecords /\ TypeShutdown /\ Closing
      /\ OneInFlight /\ JobsSound
      /\ SavesSound /\ SavesOnce /\ DiskSound /\ DownSound /\ TableFollows
  BY DEF CInv, PInv, TypeOK, RInv
<1>1. \A i \in 1..Len(saves) : saves[i] \in Due /\ saves[i].task \in Tasks
  BY <1>0 DEF SavesSound, Due, Save
<1>2. SavesShow \/ ~Up \/ saveFailed
  BY <1>0 DEF TableFollows
<1>3. ASSUME NEW t \in Tasks, SubmitRefused(t) \/ SubmitFull(t) \/ Expire(t) PROVE SavesShow'
  <2>1. UNCHANGED <<items, saves, disk, worker, saveFailed>>
    BY <1>3 DEF SubmitRefused, SubmitFull, Expire, memory
  <2>2. \A u \in Tasks : /\ submit'[u] = "saved" <=> submit[u] = "saved"
                         /\ submit[u] = "saving" => submit'[u] = "saving"
    BY <1>0, <1>3 DEF SubmitRefused, SubmitFull, Expire, TypeSubmissions
  <2> QED
    BY <1>1, <1>2, <2>1, <2>2, ShowStays DEF Up
<1>4. ASSUME NEW t \in Tasks, SubmitUnsaved(t) \/ SubmitSend(t) PROVE SavesShow'
  <2>1. UNCHANGED <<items, saves, disk, worker, saveFailed>>
    BY <1>4 DEF SubmitUnsaved, SubmitSend
  <2>2. \A u \in Tasks : /\ submit'[u] = "saved" <=> submit[u] = "saved"
                         /\ submit[u] = "saving" => submit'[u] = "saving"
    BY <1>0, <1>4 DEF SubmitUnsaved, SubmitSend, TypeSubmissions
  <2> QED
    BY <1>1, <1>2, <2>1, <2>2, ShowStays DEF Up
<1>5. ASSUME NEW t \in Tasks, SubmitAdmit(t) PROVE SavesShow'
  <2>1. /\ submit[t] = "idle" /\ registry = "open" /\ disk[t] = "none"
        /\ saves' = Append(saves, [task |-> t, status |-> "pending"])
        /\ UNCHANGED <<items, disk, worker, saveFailed>>
        /\ submit'[t] = "saving"
        /\ \A u \in Tasks : u # t => submit'[u] = submit[u]
    BY <1>0, <1>5 DEF SubmitAdmit, Enqueue, Closing, DiskSound, Unkept, TypeSubmissions
  <2>2. \A i \in 1..Len(saves) : saves[i].task # t
    BY <1>1, <2>1 DEF Due, Save
  <2> QED
    BY <1>0, <1>2, <2>1, <2>2, ShowAppend DEF Up
<1>6. ASSUME NEW t \in Tasks, SubmitInsert(t) PROVE SavesShow'
  <2>1. /\ submit[t] = "saved" /\ submit'[t] = "send" /\ items'[t] = "pending"
        /\ \A u \in Tasks : u # t => submit'[u] = submit[u] /\ items'[u] = items[u]
        /\ UNCHANGED <<saves, disk, worker, saveFailed>>
    BY <1>0, <1>6 DEF SubmitInsert, TypeSubmissions, TypeRecords
  <2>2. SavesShow
    BY <1>2, <2>1 DEF Up
  <2>3. ~QueuedSave(t) /\ disk[t] = "pending"
    BY <2>1, <2>2 DEF SavesShow
  <2> QED
    BY <1>1, <2>1, <2>2, <2>3 DEF SavesShow, QueuedSave, LastSave
<1>7. CASE TakeJob \/ SeeCancelled \/ WorkerExit \/ ReleasePlace \/ SkipJob \/ JobReturns
           \/ DropCancel
  <2>1. UNCHANGED <<items, saves, disk, submit, saveFailed>> /\ Up
    BY <1>0, <1>7, WorkerShape
    DEF TakeJob, SeeCancelled, WorkerExit, ReleasePlace, SkipJob, JobReturns, DropCancel, Up,
        Idle, Down, Working
  <2> QED
    BY <1>1, <1>2, <2>1, ShowStays
<1>8. CASE StartJob \/ ReportProgress \/ FinishJob
  <2>1. /\ worker.at \in {"execute", "running", "finish"} /\ worker.job \in Tasks
        /\ UNCHANGED <<submit, disk, saveFailed>>
    BY <1>0, <1>8, WorkerShape DEF StartJob, ReportProgress, FinishJob, Working
  <2>2. PICK s \in Statuses \ {"none"} : Update(worker.job, s)
    BY <1>0, <1>8 DEF StartJob, ReportProgress, JobsSound, FinishJob, FinalStatus
  <2>3. registry = "open" /\ Up /\ submit[worker.job] = "accepted" /\ worker.job \in Owing
    BY <1>0, <2>1, WorkingOpen DEF Working, JobsSound, Owing, Undone
  <2>4. disk[worker.job] \in Unfinished
    BY <1>0, <2>1, <2>3 DEF DiskSound
  <2>5. \A i \in 1..Len(saves) : saves[i].task = worker.job => saves[i].status \notin Outcomes
    BY <1>1, <2>3 DEF Due
  <2>6. /\ saves' = Append(saves, [task |-> worker.job, status |-> s])
        /\ items'[worker.job] = s
        /\ \A u \in Tasks : u # worker.job => items'[u] = items[u]
    BY <1>0, <2>1, <2>2, <2>3 DEF Update, Enqueue, TypeRecords
  <2>7. /\ disk[worker.job] \notin Outcomes
        /\ submit'[worker.job] # "saved"
        /\ \A u \in Tasks : u # worker.job => items'[u] = items[u] /\ submit'[u] = submit[u]
    BY <2>1, <2>3, <2>4, <2>6
  <2> QED
    BY <1>0, <1>2, <2>1, <2>3, <2>5, <2>6, <2>7, ShowAppend
<1>9. CASE Persist
  <2>1. SaveOk /\ Up /\ UNCHANGED saveFailed
    BY <1>9 DEF Persist, SaveOk, SaveFails
  <2> QED
    BY <1>2, <2>1, ShowSave DEF CInv
<1>10. CASE Close \/ CloseReturn \/ CloseRegistry \/ PersistenceExit \/ UNCHANGED vars
  <2>1. UNCHANGED <<items, saves, disk, submit, saveFailed, worker>>
    BY <1>10 DEF Close, CloseReturn, CloseRegistry, PersistenceExit, vars
  <2> QED
    BY <1>1, <1>2, <2>1, ShowStays DEF Up
<1>11. CASE Stop
  BY <1>11 DEF Stop, Up, Down
<1>12. CASE Hydrate
  <2>1. /\ Len(saves') = 0 /\ items' = disk'
        /\ \A t \in Tasks : submit'[t] # "saved"
    BY <1>0, <1>12 DEF Hydrate, DownSound, Reserving
  <2> QED
    BY <2>1 DEF SavesShow, QueuedSave
<1> QED
  BY <1>3, <1>4, <1>5, <1>6, <1>7, <1>8, <1>9, <1>10, <1>11, <1>12
  DEF Next, SubmitStep, WorkerStep

-----------------------------------------------------------------------------
LEMMA CInit == Init => CInv
<1> SUFFICES ASSUME Init PROVE CInv
  OBVIOUS
<1>1. Len(saves) = 0 /\ Len(jobs) = 0 /\ worker.at = "select"
  BY DEF Init, Idle
<1>2. Closing /\ ShownOwed
  BY <1>1 DEF Init, Closing, ShownOwed, Reserving, Up, Idle, Down
<1>3. TableFollows
  BY <1>1 DEF Init, TableFollows, SavesShow, QueuedSave
<1> QED
  BY <1>2, <1>3, InitInv, RInit DEF CInv

LEMMA CInvariant == Spec => []CInv
<1>1. PInv /\ RInv /\ (PInv /\ RInv)' /\ CInv /\ [Next]_vars => CInv'
  BY ClosingStep, ShownStep, FollowsStep DEF CInv
<1> QED
  BY RInvariant, CInit, <1>1, PTL DEF Spec

(* When the worker has gone every task that the registry shows has its     *)
(* outcome, whenever Close was called and whatever was submitted while it  *)
(* waited; and after a shutdown in which no save failed the table is what  *)
(* the registry showed: nothing that was queued is lost on the way         *)
(* (executor.go:150-163, app_close.go:58-70, :129-137,                     *)
(* task_registry.go:303-324).                                              *)
THEOREM ClosedSettled == Spec => []SettledWhenClosed
<1>1. CInv => SettledWhenClosed
  <2> SUFFICES ASSUME CInv PROVE SettledWhenClosed
    OBVIOUS
  <2>0. /\ TypeSubmissions /\ TypeWorker /\ TypeRecords /\ TypeShutdown /\ Closing
        /\ ShownOwed /\ TableFollows
    BY DEF CInv, PInv, TypeOK
  <2>1. ASSUME worker.at = "exited", NEW t \in Tasks PROVE items[t] \notin Unfinished
    <3>1. Len(jobs) = 0 /\ ~Reserving
      BY <2>0, <2>1 DEF Closing
    <3>2. t \notin Owing
      BY <2>1, <3>1 DEF Owing, Undone, Reserving
    <3> QED
      BY <2>0, <3>2 DEF ShownOwed
  <2>2. ASSUME registry = "closed", ~saveFailed PROVE disk = items
    <3>1. SavesShow /\ Len(saves) = 0 /\ ~Reserving
      BY <2>0, <2>2 DEF Closing, TableFollows
    <3>2. \A t \in Tasks : disk[t] = items[t]
      BY <3>1 DEF SavesShow, QueuedSave, Reserving
    <3> QED
      BY <2>0, <3>2 DEF TypeRecords
  <2> QED
    BY <2>1, <2>2 DEF SettledWhenClosed
<1> QED
  BY CInvariant, <1>1, PTL

=============================================================================
