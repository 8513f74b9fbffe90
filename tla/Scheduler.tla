------------------------------ MODULE Scheduler ------------------------------
(***************************************************************************)
(* The scheduler engine (internal/scheduler/scheduler.go) with its table   *)
(* (repository.go, sqlcqueries/scheduler.sql).                             *)
(*                                                                         *)
(* Plugins create and delete jobs, the uninstaller removes a plugin's      *)
(* jobs, the tick loop fires what is due and run results come back much    *)
(* later, all of them concurrently.  mutationMu serialises the mutations,  *)
(* but the table and the map in memory are written one after the other,    *)
(* and the tick loop works on a snapshot while it triggers.                *)
(***************************************************************************)
EXTENDS Naturals, FiniteSets, Functions

CONSTANTS
  Plugins, Ids,
  Creators,       \* Creators[id]: the plugins that use the task id
  Periods,        \* schedules, reduced to their periods
  Zones,          \* time zones, reduced to the phase they give a schedule
  Horizon,        \* how far nextCronTime searches: 4 * 365 days
  MaxTime,        \* bound on the clock
  MaxRevision,    \* bound on the revisions of one process
  RunLimit,       \* bound on the runs of a job that report a result
  MaxStops        \* bound on crashes and exits

ASSUME SchedulerAssumption ==
  /\ IsFiniteSet(Ids) /\ Cardinality(Ids) <= MaxRevision
  /\ Creators \in [Ids -> SUBSET Plugins]
  /\ Periods \subseteq Nat \ {0} /\ Zones \subseteq Nat
  /\ Horizon \in Nat /\ MaxTime \in Nat /\ MaxRevision \in Nat /\ RunLimit \in Nat /\ MaxStops \in Nat

VARIABLES
  now, zone,
  jobs,           \* Engine.jobs
  table,          \* the rows of scheduler_jobs
  revision,       \* Engine.nextRevision
  mutation,       \* what the holder of mutationMu has left to do
  loop,           \* the tick loop: its step, its clock and the jobs it found due
  runs,           \* runs[id][r]: triggered runs of revision r without a result
  stopped,        \* Engine.Stop was called
  stops,
  fired,          \* history: the planned runs that the tick loop fired in this process
  removed,        \* history: ids whose removal was reported and not created again
  saved           \* history: the schedule that the last acknowledged create of an id asked for
vars == <<now, zone, jobs, table, revision, mutation, loop, runs, stopped, stops,
          fired, removed, saved>>

None == [kind |-> "none"]
Free == mutation = None
Down == [at |-> "down"]
Idle == [at |-> "idle"]
Up == loop # Down
Exists(j) == j # None

\* Mutant: the moment asked for is included.
NextRunMutant(p, z, t) == CHOOSE u \in t..(t + p - 1) : u % p = z % p

(* nextCronTime: the first moment of the schedule strictly after t.        *)
NextRun(p, z, t) == CHOOSE u \in (t + 1)..(t + p) : u % p = z % p

(* The search ends after Horizon, with an error: a job for 29 February has *)
(* no next run at its own time, since the next one is 1461 days away.      *)
HasNext(p, z, t) == NextRun(p, z, t) <= t + Horizon

Init ==
  /\ now = 0
  /\ zone \in Zones
  /\ jobs = [id \in Ids |-> None]
  /\ table = [id \in Ids |-> None]
  /\ revision = 0
  /\ mutation = None
  /\ loop = Idle
  /\ runs = [id \in Ids |-> [r \in 1..MaxRevision |-> 0]]
  /\ stopped = FALSE
  /\ stops = 0
  /\ fired = {}
  /\ removed = {}
  /\ saved = [id \in Ids |-> 0]

(* What the table keeps of a job.                                          *)
Row(j) == [owner |-> j.owner, period |-> j.period, next |-> j.next, count |-> j.count]

(***************************************************************************)
(* Mutations: the table first, then the map                                *)
(***************************************************************************)

(* UpsertTaskWithLabel replaces the schedule and keeps the statistics.     *)
NewJob(p, id, period) ==
  [owner |-> p, period |-> period, next |-> NextRun(period, zone, now),
   count |-> IF Exists(jobs[id]) THEN jobs[id].count ELSE 0,
   revision |-> revision + 1]

(* SaveJob: an existing row keeps its owner and its statistics.            *)
SaveJob(id, j) ==
  table' = [table EXCEPT ![id] =
              IF Exists(@) THEN [@ EXCEPT !.period = j.period, !.next = j.next]
              ELSE Row(j)]

(* A schedule without a next run is refused before anything changes.       *)
UpsertSave(p, id, period) ==
  /\ Up /\ Free
  /\ p \in Creators[id] /\ revision < MaxRevision
  /\ HasNext(period, zone, now)
  /\ revision' = revision + 1
  /\ SaveJob(id, NewJob(p, id, period))
  /\ mutation' = [kind |-> "upsert", id |-> id, job |-> NewJob(p, id, period)]
  /\ removed' = removed \ {id}
  /\ saved' = [saved EXCEPT ![id] = 0]
  /\ UNCHANGED <<now, zone, jobs, loop, runs, stopped, stops, fired>>

(* The revision is used up even when the save fails.                       *)
UpsertFails ==
  /\ Up /\ Free /\ revision < MaxRevision
  /\ revision' = revision + 1
  /\ UNCHANGED <<now, zone, jobs, table, mutation, loop, runs, stopped, stops, fired,
                 removed, saved>>

UpsertPublish ==
  /\ mutation.kind = "upsert"
  /\ jobs' = [jobs EXCEPT ![mutation.id] = mutation.job]
  /\ saved' = [saved EXCEPT ![mutation.id] = mutation.job.period]
  /\ mutation' = None
  /\ UNCHANGED <<now, zone, table, revision, loop, runs, stopped, stops, fired, removed>>

(* DeletePluginTask leaves a job of another plugin alone.                  *)
Owned(p) == {id \in Ids : Exists(jobs[id]) /\ jobs[id].owner = p}

\* Mutant: the row of a deleted job stays.
DeleteRowMutant(p, id) ==
  /\ Up /\ Free
  /\ id \in Owned(p) /\ revision < MaxRevision
  /\ mutation' = [kind |-> "remove", ids |-> {id}]
  /\ saved' = [saved EXCEPT ![id] = 0]
  /\ UNCHANGED <<now, zone, jobs, table, revision, loop, runs, stopped, stops, fired, removed>>

DeleteRow(p, id) ==
  /\ Up /\ Free
  /\ id \in Owned(p) /\ revision < MaxRevision
  /\ table' = [table EXCEPT ![id] = None]
  /\ mutation' = [kind |-> "remove", ids |-> {id}]
  /\ saved' = [saved EXCEPT ![id] = 0]
  /\ UNCHANGED <<now, zone, jobs, revision, loop, runs, stopped, stops, fired, removed>>

UnregisterRows(p) ==
  /\ Up /\ Free /\ revision < MaxRevision
  /\ table' = [id \in Ids |-> IF Exists(table[id]) /\ table[id].owner = p THEN None
                              ELSE table[id]]
  /\ mutation' = [kind |-> "remove", ids |-> Owned(p)]
  /\ saved' = [id \in Ids |-> IF id \in Owned(p) THEN 0 ELSE saved[id]]
  /\ UNCHANGED <<now, zone, jobs, revision, loop, runs, stopped, stops, fired, removed>>

(* Removals use up a revision when they removed something.                 *)
RemovePublish ==
  /\ mutation.kind = "remove"
  /\ jobs' = [id \in Ids |-> IF id \in mutation.ids THEN None ELSE jobs[id]]
  /\ revision' = IF mutation.ids = {} THEN revision ELSE revision + 1
  /\ removed' = removed \cup mutation.ids
  /\ mutation' = None
  /\ UNCHANGED <<now, zone, table, loop, runs, stopped, stops, fired, saved>>

(* RecordRunResult: the result of a job that is gone or was created again  *)
(* is dropped, and so is a result that the table does not take.            *)
Current(id, r) == Exists(jobs[id]) /\ jobs[id].revision = r

ResultDropped(id, r) ==
  /\ Up /\ Free /\ runs[id][r] > 0
  /\ runs' = [runs EXCEPT ![id][r] = @ - 1]
  /\ UNCHANGED <<now, zone, jobs, table, revision, mutation, loop, stopped, stops, fired,
                 removed, saved>>

Counted(j) == [j EXCEPT !.count = @ + 1]

RecordRow(id, r) ==
  /\ Up /\ Free /\ runs[id][r] > 0
  /\ Current(id, r)
  /\ runs' = [runs EXCEPT ![id][r] = @ - 1]
  /\ table' = [table EXCEPT ![id] = IF Exists(@) THEN Counted(@) ELSE @]
  /\ mutation' = [kind |-> "record", id |-> id, job |-> Counted(jobs[id])]
  /\ UNCHANGED <<now, zone, jobs, revision, loop, stopped, stops, fired, removed, saved>>

RecordPublish ==
  /\ mutation.kind = "record"
  /\ jobs' = [jobs EXCEPT ![mutation.id] = mutation.job]
  /\ mutation' = None
  /\ UNCHANGED <<now, zone, table, revision, loop, runs, stopped, stops, fired, removed,
                 saved>>

(***************************************************************************)
(* Triggers                                                                *)
(***************************************************************************)

(* A run reports a result; within a job only RunLimit of them are followed. *)
Followed(id, r) == runs[id][r] + (IF Exists(jobs[id]) THEN jobs[id].count ELSE 0) < RunLimit

Start(id, r) == runs' = IF Followed(id, r) THEN [runs EXCEPT ![id][r] = @ + 1] ELSE runs

(* Trigger: the management interface fires a job now, off its schedule.    *)
Trigger(id) ==
  /\ Up /\ Exists(jobs[id])
  /\ Followed(id, jobs[id].revision)
  /\ Start(id, jobs[id].revision)
  /\ UNCHANGED <<now, zone, jobs, table, revision, mutation, loop, stopped, stops, fired,
                 removed, saved>>

(* tick: a snapshot of the jobs that are due.                              *)
Due(id) == Exists(jobs[id]) /\ jobs[id].next <= now

Tick ==
  /\ loop = Idle
  /\ loop' = [at |-> "tick", clock |-> now,
              due |-> {[id |-> id, job |-> jobs[id]] : id \in {i \in Ids : Due(i)}}]
  /\ UNCHANGED <<now, zone, jobs, table, revision, mutation, runs, stopped, stops, fired,
                 removed, saved>>

(* fireJob triggers without a lock, on the job of the snapshot.            *)
Fire(d) ==
  /\ loop.at = "tick" /\ d \in loop.due
  /\ Start(d.id, d.job.revision)
  /\ fired' = fired \cup {<<d.id, d.job.revision, d.job.next, loop.clock>>}
  /\ loop' = [at |-> "fired", clock |-> loop.clock, due |-> loop.due \ {d}, one |-> d]
  /\ UNCHANGED <<now, zone, jobs, table, revision, mutation, stopped, stops, removed, saved>>

(* A schedule without a next run is only logged, as paused: the job stays   *)
(* enabled and due, and the next tick fires the same planned run again.    *)
Dated == HasNext(loop.one.job.period, zone, loop.clock)

AdvanceFails ==
  /\ loop.at = "fired" /\ mutation.kind # "schedule"
  /\ ~Dated
  /\ loop' = [at |-> "tick", clock |-> loop.clock, due |-> loop.due]
  /\ UNCHANGED <<now, zone, jobs, table, revision, mutation, runs, stopped, stops, fired,
                 removed, saved>>

\* Mutant: the tick stores the copy it took before it triggered.
AdvancedMutant(d) == [d.job EXCEPT !.next = NextRun(d.job.period, zone, loop.clock)]

(* Then it advances the job, in memory first, unless it has changed since. *)
Advanced(d) == [jobs[d.id] EXCEPT !.next = NextRun(d.job.period, zone, loop.clock)]

\* Mutant: a tick that found the revision changed ends the loop.
AdvanceChangedMutant ==
  /\ loop.at = "fired" /\ Free /\ Dated
  /\ ~Current(loop.one.id, loop.one.job.revision)
  /\ loop' = [at |-> "exited"]
  /\ UNCHANGED <<now, zone, jobs, table, revision, mutation, runs, stopped, stops, fired,
                 removed, saved>>

AdvanceChanged ==
  /\ loop.at = "fired" /\ Free /\ Dated
  /\ ~Current(loop.one.id, loop.one.job.revision)
  /\ loop' = [at |-> "tick", clock |-> loop.clock, due |-> loop.due]
  /\ UNCHANGED <<now, zone, jobs, table, revision, mutation, runs, stopped, stops, fired,
                 removed, saved>>

Advance ==
  /\ loop.at = "fired" /\ Free /\ Dated
  /\ Current(loop.one.id, loop.one.job.revision)
  /\ jobs' = [jobs EXCEPT ![loop.one.id] = Advanced(loop.one)]
  /\ mutation' = [kind |-> "schedule", id |-> loop.one.id, next |-> Advanced(loop.one).next]
  /\ UNCHANGED <<now, zone, table, revision, loop, runs, stopped, stops, fired, removed,
                 saved>>

(* A failed save of the schedule is only logged.                           *)
ScheduleRow ==
  table' = [table EXCEPT ![mutation.id] = IF Exists(@) THEN [@ EXCEPT !.next = mutation.next]
                                          ELSE @]

SaveSchedule ==
  /\ mutation.kind = "schedule"
  /\ ScheduleRow \/ UNCHANGED table
  /\ mutation' = None
  /\ loop' = [at |-> "tick", clock |-> loop.clock, due |-> loop.due]
  /\ UNCHANGED <<now, zone, jobs, revision, runs, stopped, stops, fired, removed, saved>>

TickDone ==
  /\ loop.at = "tick" /\ loop.due = {}
  /\ loop' = Idle
  /\ UNCHANGED <<now, zone, jobs, table, revision, mutation, runs, stopped, stops, fired,
                 removed, saved>>

(***************************************************************************)
(* Time, stop and restart                                                  *)
(***************************************************************************)

Time ==
  /\ now < MaxTime
  /\ now' = now + 1
  /\ UNCHANGED <<zone, jobs, table, revision, mutation, loop, runs, stopped, stops, fired,
                 removed, saved>>

(* Stop cancels the loop, which may still take a tick that is ready.       *)
Stop ==
  /\ Up /\ ~stopped
  /\ stopped' = TRUE
  /\ UNCHANGED <<now, zone, jobs, table, revision, mutation, loop, runs, stops, fired,
                 removed, saved>>

LoopExit ==
  /\ loop = Idle /\ stopped
  /\ loop' = [at |-> "exited"]
  /\ UNCHANGED <<now, zone, jobs, table, revision, mutation, runs, stopped, stops, fired,
                 removed, saved>>

(* The process ends, after a shutdown or in the middle of anything.        *)
Exit ==
  /\ Up /\ stops < MaxStops
  /\ stops' = stops + 1
  /\ loop' = Down
  /\ jobs' = [id \in Ids |-> None]
  /\ revision' = 0
  /\ mutation' = None
  /\ runs' = [id \in Ids |-> [r \in 1..MaxRevision |-> 0]]
  /\ stopped' = FALSE
  /\ fired' = {}
  /\ UNCHANGED <<now, zone, table, removed, saved>>

(* Hydrate: jobs that are overdue keep their time and fire at once, the    *)
(* others follow the configured time zone; every job gets a new revision.  *)
Restored(row, z) ==
  IF Exists(row) /\ row.next > now THEN [row EXCEPT !.next = NextRun(row.period, z, now)]
  ELSE row

Loaded(row, r) == [owner |-> row.owner, period |-> row.period, next |-> row.next,
                   count |-> row.count, revision |-> r]

Restorable(row, z) == Exists(row) /\ row.next > now => HasNext(row.period, z, now)

Hydrate == \E z \in Zones : LET rows == {id \in Ids : Exists(table[id])} IN
  /\ ~Up /\ \A id \in Ids : Restorable(table[id], z)
  /\ zone' = z
  /\ table' = [id \in Ids |-> Restored(table[id], z)]
  /\ \E order \in Bijection(rows, 1..Cardinality(rows)) :
       jobs' = [id \in Ids |-> IF id \in rows THEN Loaded(table'[id], order[id]) ELSE None]
  /\ revision' = Cardinality(rows)
  /\ loop' = Idle
  /\ UNCHANGED <<now, mutation, runs, stopped, stops, fired, removed, saved>>

(* A schedule without a next run, or a save that fails, ends the start, and *)
(* what was saved before stays.                                            *)
HydrateFails == \E z \in Zones, done \in SUBSET Ids :
  /\ ~Up /\ \A id \in done : Restorable(table[id], z)
  /\ table' = [id \in Ids |-> IF id \in done THEN Restored(table[id], z) ELSE table[id]]
  /\ UNCHANGED <<now, zone, jobs, revision, mutation, loop, runs, stopped, stops, fired,
                 removed, saved>>

Publish == UpsertPublish \/ RemovePublish \/ RecordPublish \/ SaveSchedule
Result(id, r) == ResultDropped(id, r) \/ RecordRow(id, r)
FireDue == loop.at = "tick" /\ \E d \in loop.due : Fire(d)
LoopStep ==
  Tick \/ FireDue \/ AdvanceFails \/ AdvanceChanged \/ Advance \/ TickDone \/ LoopExit

Next ==
  \/ \E p \in Plugins, id \in Ids, x \in Periods : UpsertSave(p, id, x)
  \/ UpsertFails
  \/ \E p \in Plugins : UnregisterRows(p) \/ \E id \in Ids : DeleteRow(p, id)
  \/ \E id \in Ids : Trigger(id) \/ \E r \in 1..MaxRevision : Result(id, r)
  \/ Publish \/ LoopStep
  \/ Time \/ Stop \/ Exit \/ Hydrate \/ HydrateFails

Spec == Init /\ [][Next]_vars

(* A mutation that started ends and the tick loop runs.  Advance waits for *)
(* mutationMu, and a sync.Mutex hands itself to a waiter that starves, so   *)
(* that callers cannot keep the loop out for ever: strong fairness.        *)
(* Whether a result comes back, the clock moves or anyone calls is open.   *)
FairSpec ==
  Spec /\ WF_vars(Publish) /\ WF_vars(LoopStep) /\ SF_vars(AdvanceChanged \/ Advance)

-----------------------------------------------------------------------------
(* The state has the shape the declarations promise (scheduler.go:22-39,   *)
(* :104-123), and the jobs in memory have revisions of their own.          *)
TypeOK ==
  /\ now \in 0..MaxTime /\ zone \in Zones
  /\ revision \in 0..MaxRevision
  /\ \A id \in Ids : Exists(jobs[id]) =>
       jobs[id] \in [owner : Plugins, period : Periods, next : Nat, count : Nat,
                    revision : 1..revision]
  /\ \A id \in Ids : Exists(table[id]) =>
       table[id] \in [owner : Plugins, period : Periods, next : Nat, count : Nat]
  /\ \A i, k \in Ids : i # k /\ Exists(jobs[i]) /\ Exists(jobs[k]) =>
       jobs[i].revision # jobs[k].revision
  /\ runs \in [Ids -> [1..MaxRevision -> Nat]]
  /\ stopped \in BOOLEAN /\ stops \in 0..MaxStops
  /\ removed \subseteq Ids /\ saved \in [Ids -> Periods \cup {0}]

(* Between mutations the engine and the table hold the same jobs with the  *)
(* same owner, schedule and statistics, whatever fails and whatever results *)
(* arrive while a job is fired; a schedule that was not saved leaves the    *)
(* table behind, so that a restart fires again and never skips a run       *)
(* (scheduler.go:291-294, :345-366, :480-509).                             *)
EngineMatchesTable == Up /\ Free => \A id \in Ids :
  /\ Exists(jobs[id]) <=> Exists(table[id])
  /\ Exists(jobs[id]) =>
       /\ Row(jobs[id]) = [table[id] EXCEPT !.next = jobs[id].next]
       /\ table[id].next <= jobs[id].next

(* The tick loop fires a planned run of a job again, in one process, only  *)
(* when the schedule had no next run at the time of every earlier firing:   *)
(* a job that can be moved on fires once per planned run, whatever happens *)
(* to it during the tick (scheduler.go:254-295).                           *)
FiredOnceIfDated ==
  [][loop.at = "tick" /\ loop'.at = "fired" =>
       \A f \in fired :
         /\ f[1] = loop'.one.id /\ f[2] = loop'.one.job.revision
         /\ f[3] = loop'.one.job.next
         => ~HasNext(loop'.one.job.period, zone, f[4])]_vars

(* A job whose removal was reported is gone, from the engine and from the   *)
(* table, until somebody creates it again: no late result, tick or restart *)
(* brings it back (scheduler.go:285-290, :371-419).  And the schedule of an *)
(* acknowledged create survives crashes, results and ticks until it is      *)
(* replaced or removed (scheduler.go:357-368).                             *)
RemovedStaysRemoved ==
  /\ \A id \in removed : ~Exists(jobs[id]) /\ ~Exists(table[id])
  /\ \A id \in Ids : saved[id] # 0 =>
       /\ Exists(table[id]) /\ table[id].period = saved[id]
       /\ Up /\ Free => Exists(jobs[id]) /\ jobs[id].period = saved[id]

(* A job that is due is fired and moved on, or changed; one whose schedule *)
(* has no next run is fired at least, and stays due (scheduler.go:227-277). *)
DueFires == \A id \in Ids :
  (Up /\ ~stopped /\ Due(id)) ~>
    \/ ~Up \/ stopped \/ ~Due(id)
    \/ /\ ~HasNext(jobs[id].period, zone, now)
       /\ \E f \in fired : f[1] = id /\ f[2] = jobs[id].revision /\ f[3] = jobs[id].next

(* "UnregisterByPlugin removes all jobs for a given plugin." (scheduler.go:393) *)
(* and "cross-restart recovery" (scheduler.go:2): what was removed does not *)
(* come back when the service starts again.                                *)
UnregisteredStaysAway == \A id \in removed : ~Exists(jobs[id])

=============================================================================
