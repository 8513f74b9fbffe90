------------------------------ MODULE Lifecycle ------------------------------
(***************************************************************************)
(* The plugin lifecycle controller (plugins/lifecycle: controller.go,      *)
(* runtime_lifecycle.go, crash_recovery.go, reload.go, observability.go)   *)
(* with the registry of runtime managers (plugins/runtime:                 *)
(* runtime_registry.go) and what a manager promises about its process      *)
(* (manager_start.go, manager_control.go, process_handle.go), for one      *)
(* plugin.                                                                 *)
(*                                                                         *)
(* A management call, a scheduler trigger, a crash callback and the work   *)
(* the controller launches are goroutines.  Each waits for the operation   *)
(* gate of the plugin, whose mutual exclusion Plugin_proofs shows,         *)
(* so the gate is a lock here.  Only the processes of the managers, the    *)
(* timers and the shutdown move without it.                                *)
(***************************************************************************)
EXTENDS Naturals, FiniteSets

CONSTANTS
  MaxRetries,      \* DefaultMaxCrashRetries: crashes before dead_letter
  MaxManagers,     \* bound: managers a behaviour creates
  MaxGoroutines,   \* bound: goroutines alive together
  MaxCalls,        \* bound: calls from outside
  MaxFaults,       \* bound: exits, failures of a start and failures of a stop
  CallKinds        \* the calls that may arrive

Managers == 1..MaxManagers
Goroutines == 1..MaxGoroutines
ApiKinds == {"enable", "disable", "recover", "reloadRequest"}
StartKinds == {"start", "ensure", "backoff", "reload"}
Kinds == ApiKinds \cup StartKinds \cup {"stop", "observe", "crash"}
States == {"stopped", "starting", "running", "stopping",
           "crashed", "backoff", "dead_letter"}
Active == {"starting", "running", "stopping"}

ASSUME BoundsPositive ==
  /\ MaxRetries \in Nat \ {0} /\ MaxManagers \in Nat \ {0}
  /\ MaxGoroutines \in Nat \ {0} /\ MaxCalls \in Nat /\ MaxFaults \in Nat
  /\ CallKinds \subseteq ApiKinds \cup {"ensure"}

VARIABLES
  desired,   \* desired_state of the plugin, saved and in the catalog
  shown,     \* runtime_state in the catalog
  item,      \* the manager the registry holds for the plugin, 0 for none
  retired,   \* managers the registry keeps for StopAll
  created,   \* managers created so far
  state,     \* snap.State of each manager
  crashes,   \* snap.CrashCount of each manager
  proc,      \* its process: none, live, exited (not yet seen), dying (killed)
  restart,   \* handle.failureRestart of the dying process
  slot,      \* the manager the dispatcher delivers to, 0 for none
  jobs,      \* what each goroutine is doing
  gate,      \* the goroutine inside the operation gate, 0 for none
  shut,      \* open, closing (Close waits), stopping (StopAll), ended
  calls, faults

procVars == <<state, crashes, proc, restart>>
regVars == <<item, retired, created>>
vars == <<desired, shown, item, retired, created, state, crashes, proc, restart,
          slot, jobs, gate, shut, calls, faults>>

NoJob == [kind |-> "none", at |-> "none", m |-> 0, n |-> 0]
Job(kind, m, n) == [kind |-> kind, at |-> "wait", m |-> m, n |-> n]
closed == shut # "open"

TypeOK ==
  /\ desired \in {"enabled", "disabled"} /\ shown \in States
  /\ item \in 0..created /\ retired \subseteq 1..created
  /\ created \in 0..MaxManagers /\ slot \in 0..created
  /\ state \in [Managers -> States] /\ crashes \in [Managers -> 0..MaxFaults]
  /\ proc \in [Managers -> {"none", "live", "exited", "dying"}]
  /\ restart \in [Managers -> BOOLEAN]
  /\ jobs \in [Goroutines -> {NoJob} \cup
                 [kind : Kinds, m : 0..MaxManagers, n : 0..MaxFaults,
                  at : {"wait", "held", "launch", "timer", "reap", "prepare", "starting",
                        "activate", "swapStart", "swapActivate", "retire", "report"}]]
  /\ gate \in 0..MaxGoroutines
  /\ shut \in {"open", "closing", "stopping", "ended"}
  /\ calls \in 0..MaxCalls /\ faults \in 0..MaxFaults

\* An enabled plugin, its runtime already started by ReconcileRuntime.
Init ==
  /\ desired = "enabled" /\ shown = "running" /\ slot = 1
  /\ item = 1 /\ retired = {} /\ created = 1
  /\ state = [m \in Managers |-> IF m = 1 THEN "running" ELSE "stopped"]
  /\ crashes = [m \in Managers |-> 0]
  /\ proc = [m \in Managers |-> IF m = 1 THEN "live" ELSE "none"]
  /\ restart = [m \in Managers |-> FALSE]
  /\ jobs = [g \in Goroutines |-> NoJob] /\ gate = 0
  /\ shut = "open" /\ calls = 0 /\ faults = 0

------------------------------------------------------------------------------
(* Goroutines.                                                             *)

Free(js) == {g \in Goroutines : js[g] = NoJob}
\* The goroutine `go` starts; which idle one stands for it does not matter.
With(js, job) == [js EXCEPT ![CHOOSE g \in Free(js) : TRUE] = job]
Without(js, g) == [js EXCEPT ![g] = NoJob]
At(g, kind, at) == jobs[g].kind = kind /\ jobs[g].at = at
Inside(g, at) == gate = g /\ jobs[g].at = at
\* A goroutine of this kind that has just been let through the gate.
Holds(g, kind) == gate = g /\ At(g, kind, "held")

\* What Registry.Get and Snapshot say together.
ItemState == IF item = 0 THEN "none" ELSE state[item]

Goto(g, at, m) == jobs' = [jobs EXCEPT ![g].at = at, ![g].m = m] /\ gate' = gate
Finish(g) == jobs' = Without(jobs, g) /\ gate' = 0
FinishWith(g, job) == jobs' = With(Without(jobs, g), job) /\ gate' = 0
\* Controller.launch: work is refused once the controller is closed.
Launch(g, job) == IF closed THEN Finish(g) ELSE FinishWith(g, job)

Fault == faults < MaxFaults /\ faults' = faults + 1
NoFault == UNCHANGED faults

------------------------------------------------------------------------------
(* What the catalog shows.                                                 *)

\* publishRuntimeState: stopped gives way to what an active manager reports.
Published(s, it, st) ==
  IF s = "stopped" /\ it # 0 /\ st[it] \in Active THEN st[it] ELSE s

\* publishRuntimeFailure, where a cancellation is no failure.
Failure(it, st) ==
  IF closed THEN Published("stopped", it, st) ELSE IF it = 0 THEN "stopped" ELSE st[it]

------------------------------------------------------------------------------
(* Managers and their processes.                                           *)

\* A process exits by itself, before anything has noticed.
ProcessExit(m) ==
  /\ state[m] = "running" /\ proc[m] = "live" /\ Fault
  /\ proc' = [proc EXCEPT ![m] = "exited"]
  /\ UNCHANGED <<desired, shown, item, retired, created, state, crashes, restart,
                 slot, jobs, gate, shut, calls>>

\* The watcher finds an exit nobody asked for, counts it and calls back.

WatchExit(m) ==
  /\ proc[m] = "exited" /\ Free(jobs) # {}
  /\ state' = [state EXCEPT ![m] = "crashed"]
  /\ crashes' = [crashes EXCEPT ![m] = @ + 1]
  /\ proc' = [proc EXCEPT ![m] = "none"]
  /\ jobs' = With(jobs, Job("crash", m, crashes'[m]))
  /\ UNCHANGED <<desired, shown, item, retired, created, restart,
                 slot, gate, shut, calls, faults>>

\* failRuntime on a running plugin: a protocol violation or a broken pipe.
FailRuntime(m) ==
  /\ state[m] = "running" /\ proc[m] \in {"live", "exited"} /\ Fault
  /\ state' = [state EXCEPT ![m] = "stopping"]
  /\ crashes' = [crashes EXCEPT ![m] = @ + 1]
  /\ proc' = [proc EXCEPT ![m] = "dying"] /\ restart' = [restart EXCEPT ![m] = TRUE]
  /\ UNCHANGED <<desired, shown, item, retired, created, slot, jobs, gate, shut, calls>>

\* A killed process is gone: finishFailedProcess, or finish of a canceled start.
Reaped(m) ==
  /\ proc[m] = "dying" /\ Free(jobs) # {}
  /\ proc' = [proc EXCEPT ![m] = "none"]
  /\ state' = [state EXCEPT ![m] = IF restart[m] THEN "crashed" ELSE "stopped"]
  /\ jobs' = IF restart[m] THEN With(jobs, Job("crash", m, crashes[m])) ELSE jobs
  /\ UNCHANGED <<desired, shown, item, retired, created, crashes, restart,
                 slot, gate, shut, calls, faults>>

\* Registry.Delete and ReleaseRetired ask for this before they forget a manager.
CleanupComplete(m, st, pr) == pr[m] = "none" /\ st[m] \notin {"starting", "stopping"}

\* Manager.SetStopped.
Stopped(m, st, pr) == IF CleanupComplete(m, st, pr) THEN [st EXCEPT ![m] = "stopped"] ELSE st

(* What Manager.Stop can come to: it may find the process gone and count   *)
(* that as a crash, stop it in time, kill it with an error, or return      *)
(* while the killed process is not reaped yet.                             *)
StopOutcome(s, p, back, done, ok) ==
  [state |-> s, proc |-> p, crash |-> back, extra |-> done, ok |-> ok]
StopOutcomes(m) ==
  CASE proc[m] = "none" -> {StopOutcome("stopped", "none", FALSE, 0, TRUE)}
    [] proc[m] = "exited" -> {StopOutcome("crashed", "none", TRUE, 1, TRUE)}
    [] proc[m] = "live" -> {StopOutcome("stopped", "none", FALSE, 0, TRUE),
                            StopOutcome("stopped", "none", FALSE, 0, FALSE),
                            StopOutcome("stopping", "dying", FALSE, 0, FALSE)}
    [] OTHER -> {StopOutcome("stopped", "none", FALSE, 0, TRUE),
                 StopOutcome("stopping", "dying", FALSE, 0, FALSE)}
                  \cup {IF restart[m] THEN StopOutcome("crashed", "none", TRUE, 0, TRUE)
                        ELSE StopOutcome("stopped", "none", FALSE, 0, FALSE)}

\* Manager.Stop on m but for its state, with reset for the ResetCrashCount after
\* a success.
StopEffects(m, o, reset) ==
  /\ o \in StopOutcomes(m)
  /\ IF o.ok THEN NoFault ELSE Fault
  /\ proc' = [proc EXCEPT ![m] = o.proc]
  /\ crashes' = [crashes EXCEPT ![m] = IF reset /\ o.ok THEN 0 ELSE @ + o.extra]
  /\ restart' = [restart EXCEPT ![m] = @ /\ o.crash]
StopManager(m, o, reset) ==
  StopEffects(m, o, reset) /\ state' = [state EXCEPT ![m] = o.state]
CalledBack(js, m, o) ==
  IF o.crash THEN With(js, Job("crash", m, crashes[m] + o.extra)) ELSE js

------------------------------------------------------------------------------
(* Calls, and the gate.                                                    *)

Call(kind) ==
  /\ kind \in CallKinds /\ ~closed /\ calls < MaxCalls /\ Free(jobs) # {}
  /\ calls' = calls + 1
  /\ jobs' = With(jobs, Job(kind, 0, 0))
  /\ UNCHANGED <<desired, shown, regVars, procVars, slot, gate, shut, faults>>

\* acquireOperation: closed is looked at before and after the wait.
Acquire(g) ==
  /\ jobs[g].at = "wait" /\ gate = 0 /\ ~closed
  /\ gate' = g /\ jobs' = [jobs EXCEPT ![g].at = "held"]
  /\ UNCHANGED <<desired, shown, regVars, procVars, slot, shut, calls, faults>>

(* The wait ends without the gate: the controller is closed, or the time   *)
(* of a start or a reload is over.  A start reports it as a failure of the *)
(* runtime, a reload shows what the runtime is, without the gate.          *)
Refused(g) ==
  /\ jobs[g].at = "wait"
  /\ closed \/ (gate \notin {0, g} /\ jobs[g].kind \in {"start", "reload"})
  /\ shown' = CASE jobs[g].kind = "start" -> Failure(item, state)
                [] jobs[g].kind = "reload" -> IF item = 0 THEN "stopped" ELSE state[item]
                [] OTHER -> shown
  /\ jobs' = Without(jobs, g)
  /\ UNCHANGED <<desired, regVars, procVars, slot, gate, shut, calls, faults>>

------------------------------------------------------------------------------
(* Management calls.                                                       *)

\* Enable: the desired state is changed and a start is launched.
Enable(g) ==
  /\ Holds(g, "enable") /\ desired = "disabled"
  /\ desired' = "enabled" /\ shown' = "starting"
  /\ Goto(g, "launch", 0)
  /\ UNCHANGED <<regVars, procVars, slot, shut, calls, faults>>

\* Disable: an active runtime is stopped by a goroutine, any other at once.
DisableActive(g) ==
  /\ Holds(g, "disable") /\ desired = "enabled"
  /\ ItemState \in Active
  /\ desired' = "disabled" /\ shown' = "stopping"
  /\ Goto(g, "launch", 0)
  /\ UNCHANGED <<regVars, procVars, slot, shut, calls, faults>>

\* Registry.Delete: a manager that still owns a process is kept for StopAll.
Delete(st, pr) ==
  /\ item' = 0 /\ created' = created
  /\ retired' = IF CleanupComplete(item, st, pr) THEN retired ELSE retired \cup {item}

DisableInactive(g) ==
  /\ Holds(g, "disable") /\ desired = "enabled"
  /\ ItemState \notin Active \cup {"none"}
  /\ desired' = "disabled" /\ shown' = "stopped" /\ slot' = 0
  /\ Delete(state, proc)
  /\ state' = Stopped(item, state, proc) /\ crashes' = [crashes EXCEPT ![item] = 0]
  /\ Finish(g)
  /\ UNCHANGED <<proc, restart, shut, calls, faults>>

DisableUnstarted(g) ==
  /\ Holds(g, "disable") /\ desired = "enabled" /\ item = 0
  /\ desired' = "disabled" /\ Finish(g)
  /\ UNCHANGED <<shown, regVars, procVars, slot, shut, calls, faults>>

\* RecoverFromDeadLetter.
Recover(g) ==
  /\ Holds(g, "recover")
  /\ ItemState = "dead_letter"
  /\ desired' = "enabled" /\ shown' = "starting"
  /\ crashes' = [crashes EXCEPT ![item] = 0] /\ state' = Stopped(item, state, proc)
  /\ Goto(g, "launch", 0)
  /\ UNCHANGED <<regVars, proc, restart, slot, shut, calls, faults>>

\* Reload and enqueueReloadLocked.
RequestReload(g) ==
  /\ Holds(g, "reloadRequest") /\ desired = "enabled"
  /\ shown' = "starting" /\ Goto(g, "launch", 0)
  /\ UNCHANGED <<desired, regVars, procVars, slot, shut, calls, faults>>

\* The call is refused: conflict with the desired state, not in dead_letter.
Conflict(g) ==
  /\ Inside(g, "held")
  /\ \/ jobs[g].kind = "enable" /\ desired = "enabled"
     \/ jobs[g].kind = "disable" /\ desired = "disabled"
     \/ jobs[g].kind = "reloadRequest" /\ desired = "disabled"
     \/ jobs[g].kind = "recover" /\ ItemState # "dead_letter"
  /\ Finish(g)
  /\ UNCHANGED <<desired, shown, regVars, procVars, slot, shut, calls, faults>>

\* The end of an accepted call: it launches the work and leaves the gate.
LaunchWork(g) ==
  /\ Inside(g, "launch")
  /\ Launch(g, Job(CASE jobs[g].kind = "disable" -> "stop"
                     [] jobs[g].kind = "reloadRequest" -> "reload"
                     [] OTHER -> "start", 0, 0))
  /\ UNCHANGED <<desired, shown, regVars, procVars, slot, shut, calls, faults>>

------------------------------------------------------------------------------
(* Starting the runtime.                                                   *)

\* Registry.GetOrCreate.
GetOrCreate(m) ==
  IF item # 0 THEN m = item /\ UNCHANGED regVars
  ELSE /\ created < MaxManagers /\ m = created + 1
       /\ item' = m /\ created' = m /\ retired' = retired

\* registerRuntimeIfNeeded: what runs is registered unless it is deliverable.
Deliverable == slot # 0 /\ state[slot] = "running"
RegisterIfNeeded == slot' = IF Deliverable THEN slot ELSE item

\* startRuntime of an enable or a recovery that finds the plugin running.
StartFindsRunning(g) ==
  /\ Holds(g, "start")
  /\ ItemState = "running"
  /\ RegisterIfNeeded /\ Finish(g)
  /\ UNCHANGED <<desired, shown, regVars, procVars, shut, calls, faults>>

\* An explicit start begins a new recovery cycle.
StartExplicitly(g) ==
  /\ Holds(g, "start")
  /\ ItemState # "running"
  /\ \E m \in Managers : /\ GetOrCreate(m)
                         /\ crashes' = [crashes EXCEPT ![m] = 0]
                         /\ Goto(g, "prepare", m)
  /\ UNCHANGED <<desired, shown, state, proc, restart, slot, shut, calls, faults>>

\* ensurePluginRunning, the scheduler's and the webhooks' way to a runtime.
EnsureFindsRunning(g) ==
  /\ Holds(g, "ensure")
  /\ ItemState = "running"
  /\ RegisterIfNeeded /\ shown' = "running" /\ Finish(g)
  /\ UNCHANGED <<desired, regVars, procVars, shut, calls, faults>>
EnsureLeaves(g) ==
  /\ Holds(g, "ensure")
  /\ ItemState \notin {"none", "running", "stopped"}
  /\ Finish(g)
  /\ UNCHANGED <<desired, shown, regVars, procVars, slot, shut, calls, faults>>
EnsureStarts(g) ==
  /\ Holds(g, "ensure")
  /\ ItemState \in {"none", "stopped"}
  /\ \E m \in Managers : GetOrCreate(m) /\ Goto(g, "prepare", m)
  /\ shown' = "starting"
  /\ UNCHANGED <<desired, procVars, slot, shut, calls, faults>>

\* What the caller of startRuntimeLocked does about an error.
StartFailsMutant(g, js, st, pr) ==
  IF jobs[g].kind = "start"
  THEN /\ jobs' = [js EXCEPT ![g].at = "report"] /\ gate' = 0
       /\ state' = st /\ shown' = shown
  ELSE /\ jobs' = Without(js, g) /\ gate' = 0
       /\ state' = st /\ shown' = Failure(item, st)

StartFails(g, js, st, pr) ==
  CASE jobs[g].kind = "start" ->          \* reported after the gate is left
         /\ jobs' = [js EXCEPT ![g].at = "report"] /\ gate' = 0
         /\ state' = st /\ shown' = shown
    [] jobs[g].kind = "backoff" ->
         /\ jobs' = Without(js, g) /\ gate' = 0
         /\ state' = Stopped(jobs[g].m, st, pr)
         /\ shown' = Published("stopped", item, state')
    [] OTHER ->
         /\ jobs' = Without(js, g) /\ gate' = 0
         /\ state' = st /\ shown' = Failure(item, st)

\* startPluginAsync after startRuntime has returned its error.
Report(g) ==
  /\ At(g, "start", "report")
  /\ shown' = Failure(item, state) /\ jobs' = Without(jobs, g)
  /\ UNCHANGED <<desired, regVars, procVars, slot, gate, shut, calls, faults>>

\* startRuntimeLocked: the plugin was disabled meanwhile.
StartUnwanted(g) ==
  /\ Inside(g, "prepare") /\ desired = "disabled"
  /\ shown' = Published("stopped", item, state) /\ Finish(g)
  /\ UNCHANGED <<desired, regVars, procVars, slot, shut, calls, faults>>

(* The start inputs cannot be built, the manager still owns a process, or  *)
(* the context is canceled: the manager is left as it is.                  *)
StartRejected(g) ==
  /\ Inside(g, "prepare") /\ desired = "enabled"
  /\ StartFails(g, jobs, state, proc)
  /\ UNCHANGED <<desired, regVars, crashes, proc, restart, slot, shut, calls, faults>>

\* The context of a start ends with the controller, that of an ensure does not.
Canceled(g) == closed /\ jobs[g].kind # "ensure"

\* Manager.Start: a new process, asked to initialize.
NewProcess(m) ==
  /\ proc[m] = "none" /\ state[m] # "starting"
  /\ state' = [state EXCEPT ![m] = "starting"]
  /\ proc' = [proc EXCEPT ![m] = "live"]
  /\ restart' = [restart EXCEPT ![m] = FALSE]

StartProcess(g) ==
  /\ Inside(g, "prepare") /\ desired = "enabled" /\ ~Canceled(g)
  /\ NewProcess(jobs[g].m) /\ Goto(g, "starting", jobs[g].m)
  /\ UNCHANGED <<desired, shown, regVars, crashes, slot, shut, calls, faults>>

\* Its init_ack: Manager.Start returns without an error.
Handshake(g) ==
  /\ gate = g /\ jobs[g].at \in {"starting", "swapStart"} /\ ~Canceled(g)
  /\ state' = [state EXCEPT ![jobs[g].m] = "running"]
  /\ Goto(g, IF jobs[g].at = "starting" THEN "activate" ELSE "swapActivate", jobs[g].m)
  /\ UNCHANGED <<desired, shown, regVars, crashes, proc, restart, slot, shut, calls, faults>>

(* No init_ack: cleanupFailedStart and cleanupCanceledStart kill the       *)
(* process, which may outlive the wait for it.                             *)
KillOutcomes(m) ==
  {<<[state EXCEPT ![m] = "stopped"], [proc EXCEPT ![m] = "none"]>>,
   <<[state EXCEPT ![m] = "stopping"], [proc EXCEPT ![m] = "dying"]>>}

HandshakeFails(g) ==
  /\ Inside(g, "starting")
  /\ \E k \in KillOutcomes(jobs[g].m) : proc' = k[2] /\ StartFails(g, jobs, k[1], k[2])
  /\ UNCHANGED <<desired, regVars, crashes, restart, slot, shut, calls, faults>>

\* Settings.Activate publishes the runtime to the dispatcher.
Activate(g) ==
  /\ Inside(g, "activate")
  /\ slot' = jobs[g].m /\ shown' = "running" /\ Finish(g)
  /\ UNCHANGED <<desired, regVars, procVars, shut, calls, faults>>

\* The settings cannot be applied: the new process is stopped again.
ActivateFails(g) ==
  LET m == jobs[g].m IN
  /\ Inside(g, "activate") /\ slot' = 0
  /\ \E o \in StopOutcomes(m) :
       /\ StopEffects(m, o, FALSE) /\ (o.crash => Free(jobs) # {})
       /\ StartFails(g, CalledBack(jobs, m, o), [state EXCEPT ![m] = o.state],
                     [proc EXCEPT ![m] = o.proc])
  /\ UNCHANGED <<desired, regVars, shut, calls>>

------------------------------------------------------------------------------
(* Stopping the runtime.                                                   *)

\* stopPluginAsync: the plugin was enabled again before its stop.
StopUnwanted(g) ==
  /\ Holds(g, "stop") /\ desired = "enabled"
  /\ Finish(g)
  /\ UNCHANGED <<desired, shown, regVars, procVars, slot, shut, calls, faults>>

\* stopPluginLocked, once the deliveries are drained.
StopMissing(g) ==
  /\ Holds(g, "stop") /\ desired = "disabled" /\ item = 0
  /\ shown' = "stopped" /\ slot' = 0 /\ Finish(g)
  /\ UNCHANGED <<desired, regVars, procVars, shut, calls, faults>>
StopInactive(g) ==
  /\ Holds(g, "stop") /\ desired = "disabled"
  /\ ItemState \notin Active \cup {"none"}
  /\ state' = Stopped(item, state, proc) /\ crashes' = [crashes EXCEPT ![item] = 0]
  /\ Delete(state', proc)
  /\ shown' = state'[item] /\ slot' = 0 /\ Finish(g)
  /\ UNCHANGED <<desired, proc, restart, shut, calls, faults>>

\* A failed stop keeps the runtime registered and has its end observed.
StopActive(g) ==
  /\ Holds(g, "stop") /\ desired = "disabled"
  /\ ItemState \in Active
  /\ \E o \in StopOutcomes(item) :
       /\ StopManager(item, o, TRUE)
       /\ shown' = o.state /\ slot' = 0
       /\ IF o.ok THEN /\ Delete(state', proc')
                       /\ jobs' = CalledBack(Without(jobs, g), item, o) /\ gate' = 0
          ELSE /\ UNCHANGED regVars
               /\ IF o.proc = "none" THEN Finish(g)
                  ELSE Launch(g, [Job("observe", item, 0) EXCEPT !.at = "reap"])
  /\ UNCHANGED <<desired, shut, calls>>

\* projectAfterPendingStop: the process is gone, the observer asks for the gate.
ObserveExit(g) ==
  /\ At(g, "observe", "reap") /\ (closed \/ proc[jobs[g].m] = "none")
  /\ jobs' = IF closed THEN Without(jobs, g) ELSE [jobs EXCEPT ![g].at = "wait"]
  /\ UNCHANGED <<desired, shown, regVars, procVars, slot, gate, shut, calls, faults>>

\* The manager it observed was removed: another one, or none, is registered.
ObserveReplaced(g) ==
  /\ Holds(g, "observe") /\ item # jobs[g].m
  /\ Finish(g)
  /\ UNCHANGED <<desired, shown, regVars, procVars, slot, shut, calls, faults>>

ObserveStop(g) ==
  /\ Holds(g, "observe") /\ item = jobs[g].m
  /\ \E o \in StopOutcomes(item) :
       /\ StopManager(item, o, FALSE)
       /\ jobs' = CalledBack(Without(jobs, g), item, o) /\ gate' = 0
       /\ shown' = o.state
  /\ UNCHANGED <<desired, regVars, slot, shut, calls>>

------------------------------------------------------------------------------
(* Crash recovery.                                                         *)

\* handleCrash, for whatever manager is registered by now.
CrashIgnored(g) ==
  /\ Holds(g, "crash")
  /\ ItemState \notin {"crashed", "stopped"}
  /\ Finish(g)
  /\ UNCHANGED <<desired, shown, regVars, procVars, slot, shut, calls, faults>>

CrashCount(g) == IF crashes[item] > 0 THEN crashes[item] ELSE jobs[g].n
HandlesCrash(g) ==
  /\ Holds(g, "crash")
  /\ ItemState \in {"crashed", "stopped"}
  /\ slot' = 0

CrashOfDisabled(g) ==
  /\ HandlesCrash(g) /\ desired = "disabled"
  /\ state' = Stopped(item, state, proc)
  /\ shown' = Published("stopped", item, state') /\ Finish(g)
  /\ UNCHANGED <<desired, regVars, crashes, proc, restart, shut, calls, faults>>

EnterDeadLetter(g) ==
  /\ HandlesCrash(g) /\ desired = "enabled" /\ CrashCount(g) >= MaxRetries
  /\ state' = [state EXCEPT ![item] = "dead_letter"]
  /\ shown' = "dead_letter" /\ Finish(g)
  /\ UNCHANGED <<desired, regVars, crashes, proc, restart, shut, calls, faults>>

EnterBackoffMutant(g) ==
  /\ HandlesCrash(g) /\ desired = "enabled" /\ CrashCount(g) < MaxRetries
  /\ state' = [state EXCEPT ![item] = "backoff"]
  /\ shown' = "backoff" /\ Finish(g)
  /\ UNCHANGED <<desired, regVars, crashes, proc, restart, shut, calls, faults>>

EnterBackoff(g) ==
  /\ HandlesCrash(g) /\ desired = "enabled" /\ CrashCount(g) < MaxRetries
  /\ state' = [state EXCEPT ![item] = "backoff"]
  /\ shown' = "backoff"
  /\ Launch(g, [Job("backoff", item, 0) EXCEPT !.at = "timer"])
  /\ UNCHANGED <<desired, regVars, crashes, proc, restart, shut, calls, faults>>

\* backoffRestart: its timer, or the end of the controller.
BackoffExpires(g) ==
  /\ At(g, "backoff", "timer")
  /\ jobs' = IF closed THEN Without(jobs, g) ELSE [jobs EXCEPT ![g].at = "wait"]
  /\ UNCHANGED <<desired, shown, regVars, procVars, slot, gate, shut, calls, faults>>

RestartObsolete(g) ==
  /\ Holds(g, "backoff")
  /\ \/ item # jobs[g].m
     \/ desired = "enabled" /\ ItemState # "backoff"
  /\ Finish(g)
  /\ UNCHANGED <<desired, shown, regVars, procVars, slot, shut, calls, faults>>
RestartOfDisabled(g) ==
  /\ Holds(g, "backoff")
  /\ item = jobs[g].m /\ desired = "disabled"
  /\ state' = Stopped(item, state, proc)
  /\ shown' = Published("stopped", item, state') /\ Finish(g)
  /\ UNCHANGED <<desired, regVars, crashes, proc, restart, slot, shut, calls, faults>>
Restart(g) ==
  /\ Holds(g, "backoff")
  /\ item = jobs[g].m /\ desired = "enabled" /\ ItemState = "backoff"
  /\ shown' = "starting" /\ Goto(g, "prepare", item)
  /\ UNCHANGED <<desired, regVars, procVars, slot, shut, calls, faults>>

------------------------------------------------------------------------------
(* Reload: the new runtime starts before the old one stops.                *)

ReloadUnwanted(g) ==
  /\ Holds(g, "reload") /\ desired = "disabled"
  /\ shown' = Published("stopped", item, state) /\ Finish(g)
  /\ UNCHANGED <<desired, regVars, procVars, slot, shut, calls, faults>>

\* The runtime is changing its state: the reload task fails.
ReloadBusy(g) ==
  /\ Holds(g, "reload") /\ desired = "enabled"
  /\ ItemState \in {"starting", "stopping"}
  /\ Finish(g)
  /\ UNCHANGED <<desired, shown, regVars, procVars, slot, shut, calls, faults>>

\* Nothing runs: the registered manager, or a new one, is started afresh.
ReloadStarts(g) ==
  /\ Holds(g, "reload") /\ desired = "enabled"
  /\ ItemState \notin Active
  /\ \E m \in Managers :
       /\ GetOrCreate(m)
       /\ crashes' = [crashes EXCEPT ![m] = 0]
       /\ state' = IF item = 0 THEN state ELSE Stopped(m, state, proc)
       /\ Goto(g, "prepare", m)
  /\ UNCHANGED <<desired, shown, proc, restart, slot, shut, calls, faults>>

\* The start inputs cannot be built: the running runtime stays.
ReloadRejected(g) ==
  /\ Holds(g, "reload") /\ desired = "enabled"
  /\ ItemState = "running"
  /\ shown' = "running" /\ Finish(g)
  /\ UNCHANGED <<desired, regVars, procVars, slot, shut, calls, faults>>

\* NewDetached and Start: StopAll can reach the new manager from now on.
ReloadSwaps(g) ==
  /\ Holds(g, "reload") /\ desired = "enabled" /\ ~Canceled(g)
  /\ ItemState = "running" /\ created < MaxManagers
  /\ created' = created + 1 /\ item' = item /\ retired' = retired \cup {created'}
  /\ NewProcess(created') /\ Goto(g, "swapStart", created')
  /\ UNCHANGED <<desired, shown, crashes, slot, shut, calls, faults>>

\* Registry.ReleaseRetired.
ReleasedMutant(m, rs, st, pr) == rs \ {m}

Released(m, rs, st, pr) == IF CleanupComplete(m, st, pr) THEN rs \ {m} ELSE rs

SwapStartFails(g) ==
  LET m == jobs[g].m IN
  /\ Inside(g, "swapStart")
  /\ \E k \in KillOutcomes(m) : state' = k[1] /\ proc' = k[2]
  /\ retired' = Released(m, retired, state', proc')
  /\ shown' = "running" /\ Finish(g)
  /\ UNCHANGED <<desired, item, created, crashes, restart, slot, shut, calls, faults>>

\* SwapPlugin and Replace: the dispatcher and the registry change together.

Swap(g) ==
  LET m == jobs[g].m IN
  /\ Inside(g, "swapActivate")
  /\ slot' = m /\ item' = m /\ created' = created
  /\ retired' = (retired \ {m}) \cup {item}
  /\ shown' = "running" /\ Goto(g, "retire", item)
  /\ UNCHANGED <<desired, procVars, shut, calls, faults>>

SwapFails(g) ==
  LET m == jobs[g].m IN
  /\ Inside(g, "swapActivate")
  /\ \E o \in StopOutcomes(m) :
       /\ StopManager(m, o, FALSE)
       /\ jobs' = CalledBack(Without(jobs, g), m, o) /\ gate' = 0
  /\ retired' = Released(m, retired, state', proc')
  /\ shown' = state[item]
  /\ UNCHANGED <<desired, item, created, slot, shut, calls>>

\* The old runtime is stopped once its deliveries are drained.
Retire(g) ==
  LET m == jobs[g].m IN
  /\ Inside(g, "retire")
  /\ \E o \in StopOutcomes(m) :
       /\ StopManager(m, o, FALSE)
       /\ jobs' = CalledBack(Without(jobs, g), m, o) /\ gate' = 0
  /\ retired' = Released(m, retired, state', proc')
  /\ UNCHANGED <<desired, shown, item, created, slot, shut, calls>>

------------------------------------------------------------------------------
(* Shutdown.                                                               *)

\* Controller.Close: no work is accepted any more and contexts are canceled.
Close ==
  /\ shut = "open" /\ shut' = "closing"
  /\ UNCHANGED <<desired, shown, regVars, procVars, slot, jobs, gate, calls, faults>>

(* The workers phase of the shutdown is over: Close, the scheduler and the *)
(* run supervisor have waited for what they started.  Crash callbacks and  *)
(* calls still on their way are waited for by nobody.                      *)
WorkersDone == \A g \in Goroutines : jobs[g].kind \in ApiKinds \cup {"none", "crash"}
CloseReturns ==
  /\ shut = "closing" /\ WorkersDone
  /\ shut' = "stopping"
  /\ UNCHANGED <<desired, shown, regVars, procVars, slot, jobs, gate, calls, faults>>

\* Registry.StopAll stops every manager it can reach, together.
Reachable == retired \cup (IF item = 0 THEN {} ELSE {item})
StopOne(m) ==
  /\ shut = "stopping" /\ m \in Reachable /\ state[m] # "stopped"
  /\ \E o \in StopOutcomes(m) :
       /\ StopManager(m, o, FALSE) /\ (o.crash => Free(jobs) # {})
       /\ jobs' = CalledBack(jobs, m, o)
  /\ retired' = Released(m, retired, state', proc')
  /\ UNCHANGED <<desired, shown, item, created, slot, gate, shut, calls>>
StopAllReturns ==
  /\ shut = "stopping"
  /\ \A m \in Reachable : proc[m] \in {"none", "dying"}
  /\ shut' = "ended"
  /\ UNCHANGED <<desired, shown, regVars, procVars, slot, jobs, gate, calls, faults>>

------------------------------------------------------------------------------

Outside(g) ==
  Acquire(g) \/ Refused(g) \/ Report(g) \/ ObserveExit(g) \/ BackoffExpires(g)
Managing(g) ==
  \/ Enable(g) \/ DisableActive(g) \/ DisableInactive(g) \/ DisableUnstarted(g)
  \/ Recover(g) \/ RequestReload(g) \/ Conflict(g) \/ LaunchWork(g)
Starting(g) ==
  \/ StartFindsRunning(g) \/ StartExplicitly(g)
  \/ EnsureFindsRunning(g) \/ EnsureLeaves(g) \/ EnsureStarts(g)
  \/ StartUnwanted(g) \/ StartRejected(g) \/ StartProcess(g)
  \/ Handshake(g) \/ HandshakeFails(g) \/ Activate(g) \/ ActivateFails(g)
Stopping(g) ==
  \/ StopUnwanted(g) \/ StopMissing(g) \/ StopInactive(g) \/ StopActive(g)
  \/ ObserveReplaced(g) \/ ObserveStop(g)
Recovering(g) ==
  \/ CrashIgnored(g) \/ CrashOfDisabled(g) \/ EnterDeadLetter(g) \/ EnterBackoff(g)
  \/ RestartObsolete(g) \/ RestartOfDisabled(g) \/ Restart(g)
Reloading(g) ==
  \/ ReloadUnwanted(g) \/ ReloadBusy(g) \/ ReloadStarts(g) \/ ReloadRejected(g)
  \/ ReloadSwaps(g) \/ SwapStartFails(g) \/ Swap(g) \/ SwapFails(g) \/ Retire(g)
Step(g) ==
  \/ gate # g /\ jobs[g] # NoJob /\ Outside(g)
  \/ gate = g /\ (Managing(g) \/ Starting(g) \/ Stopping(g) \/ Recovering(g) \/ Reloading(g))

Next ==
  \/ \E kind \in CallKinds : Call(kind)
  \/ \E g \in Goroutines : Step(g)
  \/ \E m \in Managers : ProcessExit(m) \/ WatchExit(m) \/ FailRuntime(m) \/ Reaped(m)
                         \/ StopOne(m)
  \/ Close \/ CloseReturns \/ StopAllReturns

Spec == Init /\ [][Next]_vars

(* The goroutines run, a killed process ends and its watcher sees it.      *)
(* Waits for the gate are bounded: each ends with the operation inside it, *)
(* which has a deadline.  Nothing forces a call, a fault or a shutdown; a  *)
(* bounded number of them leaves finitely much to do.                      *)
Progress ==
  \/ \E g \in Goroutines : Step(g)
  \/ \E m \in Managers : WatchExit(m) \/ Reaped(m) \/ StopOne(m)
  \/ CloseReturns \/ StopAllReturns
FairSpec == Spec /\ WF_vars(Progress)

------------------------------------------------------------------------------
(* Properties.                                                             *)

\* Every process the server started can still be reached by StopAll: a
\* manager that owns one is registered or retired, whatever reloads, failed
\* stops and removals happened.  Outside of an operation at most one runtime
\* of the plugin is up, and it is the registered one, which the dispatcher
\* delivers to; and after the shutdown none is left but those already killed.
ProcessesOwned ==
  /\ \A m \in Managers : proc[m] # "none" => m \in Reachable
  /\ gate = 0 =>
    /\ \A m \in Managers : state[m] \in {"starting", "running"} => m = item
    /\ slot \in {0, item}
  /\ shut = "ended" => \A m \in Managers : proc[m] \in {"none", "dying"}

\* A crashed runtime has its callback under way, one in backoff its restart:
\* no trigger would start it otherwise (crash_recovery.go:193).
RecoveryPending ==
  (gate = 0 /\ ~closed /\ item # 0) =>
    /\ state[item] = "crashed" => \E g \in Goroutines : jobs[g].kind = "crash"
    /\ state[item] = "backoff" =>
         \E g \in Goroutines : jobs[g].kind = "backoff" /\ jobs[g].m = item

\* Once all work is done a disabled plugin runs nothing and receives nothing.
Idle == ~closed /\ gate = 0 /\ \A g \in Goroutines : jobs[g] = NoJob
DisabledStays ==
  (Idle /\ desired = "disabled") =>
    /\ slot = 0
    /\ \A m \in Managers : state[m] \notin {"starting", "running", "backoff"}

\* The runtime follows the desired state: a crash of an enabled plugin has its
\* recovery pending, and a disabled one stays down, whatever overlapped
\* (crash_recovery.go:64-198, runtime_lifecycle.go:98-109).
IntentFollowed == RecoveryPending /\ DisabledStays

\* A crash of an enabled plugin is acted upon: the backoff ends in a restart,
\* a stopped runtime or dead_letter, unless somebody disables the plugin.
\* And Close waits for work that all ends, whatever it is waiting for: the
\* gate, a timer, an init_ack, or the death of a process; StopAll then returns.
CrashSettles ==
  /\ (desired = "enabled" /\ ItemState \in {"crashed", "backoff"})
       ~> (closed \/ desired = "disabled" \/ ItemState \notin {"crashed", "backoff"})
  /\ shut = "closing" ~> shut = "ended"

\* The observer of an earlier stop never stops a runtime that was started
\* since: it acts "only if it still owns this plugin generation"
\* (observability.go:125).
ObserverOwnsGeneration ==
  [][\A g \in Goroutines :
       ObserveStop(g) => state[item] # "running"]_vars

\* A plugin enters dead_letter after MaxRetries crashes of one recovery cycle
\* (docs/plugin/lifecycle.md:31).
DeadLetterEarned ==
  \A m \in Managers : state[m] = "dead_letter" => crashes[m] >= MaxRetries

==============================================================================
