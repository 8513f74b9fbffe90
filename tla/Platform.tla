---------------------------------- MODULE Platform ----------------------------------
(***************************************************************************)
(* The small components of the plugin platform and of the server, each     *)
(* with a state of its own: the operation gate (whose module this one      *)
(* extends), the runtime manager of a plugin, the SDK in its process, the  *)
(* change of a plugin package, the browsers of plugins, the renderer and   *)
(* the end of the server.  They do not share state; what two of them name  *)
(* alike has a name of its own here.                                       *)
(***************************************************************************)
EXTENDS OperationGate

CONSTANTS
  Events, Actions, Processes, MaxPending, MaxDetached, Concurrency, Terminals,
  MaxPipe,  \* the runtime manager of a plugin
  SdkEvents, SdkIds, SdkConcurrency, SdkTerminals,  \* the SDK in its process
  MaxOperations, Torn,  \* the change of a plugin package
  Launches, LauncherOf, ProfileOf, MaxAttempts, MaxCalls, MaxBusy,  \* the browsers of plugins
  Requests, WorkerCounts, QueueMaxLength, MaxRunners, Closers,  \* the renderer
  Clients, Requesters, Readiness, StatusBuffer, MaxPublishes   \* the end of the server

VARIABLES
  \* the runtime manager of a plugin
  proc, snap, spawned, expired, pendingActions, lifecycleGate, starting,
  stopping, os, reader, watched, killed, stdinClosed, observed, restart,
  reaping, crashes, out, delivery, handle, session, detached, pending,
  executing, outcome, result, finishes, view, asked, answered, violations,
  \* the SDK in its process
  sdkReader, handler, permits, lifetime, sdkDetached, terminal, kind, call,
  response, unsettled, sdkPending, retired, rejected, written, late, inbox,
  taken, background,
  \* the change of a plugin package
  step, op, number, target, previous, retained, row, desired, catalog,
  process, known, jobCancelled, failure, status, canceller, before,
  \* the browsers of plugins
  stage, attempts, browser, launchCancelled, closing, settled, timer,
  sessions, profiles, ended, stuck, closeCall, purging, managerClosed,
  \* the renderer
  workerCount, closed, closeComplete, runner, runners, activeRequests,
  position, timedOut, using, tab, startWatched, running, disk, lifecycleMu,
  refresh, closer,
  \* the end of the server
  run, runCancelled, worker, server, req, once, intent, announcement, phase,
  closerStage, overrun, database, snapshotMu, lastBroadcast, publishes,
  streamClosed, streamCancelled, toShut, client, frame, channel, told, left,
  cut

Runtime == INSTANCE PluginRuntime WITH
  gate <- lifecycleGate
Sdk == INSTANCE PluginSDK WITH
  reader <- sdkReader, detached <- sdkDetached, pending <- sdkPending,
  Events <- SdkEvents, Ids <- SdkIds, Concurrency <- SdkConcurrency,
  Terminals <- SdkTerminals
Package == INSTANCE PackageChange WITH
  pc <- step, cancelled <- jobCancelled
Browser == INSTANCE BrowserSessions WITH
  cancelled <- launchCancelled, call <- closeCall, PluginOf <- LauncherOf
Render == INSTANCE RenderWorker WITH
  pc <- position, expired <- timedOut, watched <- startWatched
Server == INSTANCE Shutdown WITH
  pending <- toShut, stage <- closerStage, late <- overrun

\* What the components assume of their constants.
ASSUME PlatformAssumption ==
  /\ Runtime!RuntimeAssumption /\ Sdk!SdkAssumption /\ Package!PackageAssumption
  /\ Browser!BrowserAssumption /\ Render!RenderAssumption /\ Server!ShutdownAssumption

runtimeVars == <<proc, snap, spawned, expired, pendingActions, lifecycleGate,
                 starting, stopping, os, reader, watched, killed, stdinClosed,
                 observed, restart, reaping, crashes, out, delivery, handle,
                 session, detached, pending, executing, outcome, result,
                 finishes, view, asked, answered, violations>>
sdkVars == <<sdkReader, handler, permits, lifetime, sdkDetached, terminal,
             kind, call, response, unsettled, sdkPending, retired, rejected,
             written, late, inbox, taken, background>>
packageVars == <<step, op, number, target, previous, retained, row, desired,
                 catalog, process, known, jobCancelled, failure, status,
                 canceller, before>>
browserVars == <<stage, attempts, browser, launchCancelled, closing, settled,
                 timer, sessions, profiles, ended, stuck, closeCall, purging,
                 managerClosed>>
renderVars == <<workerCount, closed, closeComplete, runner, runners,
                activeRequests, position, timedOut, using, tab, startWatched,
                running, disk, lifecycleMu, refresh, closer>>
serverVars == <<run, runCancelled, worker, server, req, once, intent,
                announcement, phase, closerStage, overrun, database,
                snapshotMu, lastBroadcast, publishes, streamClosed,
                streamCancelled, toShut, client, frame, channel, told, left,
                cut>>

------------------------------------------------------------------------------
(* The properties. *)

\* The manager of a plugin accounts for every event: what runs is the
\* current process, an event that is not over belongs to it, the count of
\* local actions is exact, what DeliverEvent returns agrees with how the
\* event ended, and an event in the background is reported as ended
\* exactly once, whether its timeout, its terminal, a crash or a stop ends
\* it (runtime/manager_sessions.go:100-230, manager_detached.go:39-110).
\* And a plugin that keeps to the protocol is never killed for breaking
\* it: the late frames of events the host has ended are told from those of
\* unknown ones, messages that end an event excepted
\* (manager_start.go:284-347, manager_local_actions.go:33-101).
EventsAccounted ==
  /\ Runtime!NothingOrphaned /\ Runtime!ActionsCounted /\ Runtime!OutcomesAgree
  /\ Runtime!ConformingSurvives

\* While a package is replaced or removed the last good one is on the
\* disk, in its place or in a working root, whichever step fails, in the
\* rollback too, and wherever the server crashes; no process runs from
\* files that were moved or removed; and the operation state a task
\* reports is that of disk, rows, catalog and process: unchanged and
\* rolled_back mean those from before, a success means the new package
\* everywhere (lifecycle/install_transaction.go:117-244,
\* install_tasks.go:84-87, contracts/error-codes.yaml:442-449).
PackageSound ==
  Package!PackageSound

\* In a plugin process, whichever of handlers, their goroutines, answers,
\* deadlines, timeouts and the shutdown come first: an answer of the host
\* finds the action it answers; the terminal of an event comes after the
\* answers of its actions and no action after it; and a permit is held by
\* the handlers in the foreground alone, though a detach and the end of
\* the handler may both give it back (sdk/go/event_actions.go:37-67,
\* protocol.go:94-173, detach.go:69-76).
SdkSound ==
  Sdk!SdkSound

\* No browser of a plugin is orphaned: one that runs has a registered
\* session that holds its profile, no two share a profile, none runs on
\* one that is being removed, and none is left by a CloseAll that reported
\* no failure, whichever of the timer, the launch, the plugin and the
\* shutdown close a session side by side (browser/manager.go:97-298).
BrowsersOwned ==
  Browser!BrowsersOwned

\* The renderer has one browser at a time, owned by the runner that
\* requests can use, and its profile; requests and slots are counted
\* exactly, and a Close that returned leaves neither a browser nor a
\* request, though requests give up at any point, browsers fail or die,
\* and a refresh replaces the runner among them (render/worker.go:54-263,
\* chromium_runner.go:80-200, :330-520).
RendersSound ==
  Render!RendersSound

\* "stopping" is the last thing a subscriber of the management events is
\* told, and nobody is cut off before it was told unless the budget is
\* used up; and the database is closed after everything that may use it
\* has ended, though phases overrun their budgets
\* (app/app_close.go:16-130, events/stream.go:62-110).
StopSound ==
  Server!StopSound

\* A crash is reported once, when the process is gone, whether the
\* watcher, a failed frame or Stop sees it first, and not after Stop has
\* begun to drain (runtime/process_handle.go:188-237,
\* manager_control.go:21-79).
CrashReportedOnce ==
  [][Runtime!CrashReportedOnceStep]_runtimeVars
==============================================================================
