# RayleaBot: formal models of the server

This directory holds a TLA+ development of the RayleaBot server: specifications
of its concurrent core translated from the Go source, TLC configurations that
check them on small instances, and proofs that TLAPS checks for every instance.

The server is one Go process. Adapters receive chat events, the pipeline applies
policies and dispatches the events to plugins; plugins are child processes that
answer and call back, and the management side enables, reloads and installs them,
runs long tasks and fires schedules. All of it lives in `src/server/internal`;
paths below are relative to that directory unless they start with `src/`.

Contents: [Inventory](#inventory) - [Plan](#plan) - [Modules](#modules) -
[Runs](#runs) - [Fairness](#fairness) - [Proofs](#proofs) -
[Disagreements with the documentation](#disagreements-with-the-documentation) -
[What is not modelled](#what-is-not-modelled) - [Reading and running](#reading-and-running)

## Inventory

### How an event, an operation and a shutdown move through the parts

- An adapter (`bot/adapters`) hands a normalised event to the ingress
  (`bot/pipeline/chatpolicy`), which keeps one lane per conversation, applies
  permissions and cooldowns, asks the conversation registry whether the event
  answers a waiting plugin, and otherwise calls the **dispatcher**
  (`bot/pipeline/dispatch`). The dispatcher selects slots of plugins, orders them
  in layers, and queues a delivery in each; the worker of a slot calls
  `DeliverEvent` of the runtime **manager** (`plugins/runtime`) of that plugin.
- A management call, a trigger or a crash reaches the lifecycle **controller**
  (`plugins/lifecycle`). The controller takes the **operation gate** of the
  plugin, changes the desired state, starts and stops managers kept by the runtime
  registry, and registers, swaps, drains and removes slots in the dispatcher.
  A manager that loses its process calls back into the controller from a goroutine
  of its own.
- The **scheduler** fires jobs of plugins through the dispatcher and receives
  their results from it, much later. The **task executor** runs installs, reloads
  and downloads one after the other and keeps their history in a table.
- A shutdown (`app/app_close.go`) stops HTTP, then the workers (scheduler,
  installers, the controller), then drains the ingress and the dispatcher, then
  stops the runtimes and closes the dispatcher, then adapters, tasks, browsers,
  and last the persistence.

### Components

For each: the state it keeps, its operations, what is hard, what makes it right.

**Event dispatcher** (`bot/pipeline/dispatch`, 1.8k lines). State: the slot of each
plugin and the retired ones, two bounded queues and their counters per slot, items
parked behind busy lanes, the lanes in progress, completions with gates between the
layers of a message. Operations: Dispatch, DispatchToPlugin, DispatchToProcess,
DispatchScheduledEvent, Register, SwapPlugin, DrainPlugin, Deregister, DrainAll, Close; the worker
of a slot, its executors, the goroutine that advances layers. Hard: waiting inside
a lane for a delivery of another plugin, selection under one lock and insertion
under another, retirement of slots with work in them, runs that go on in the
background. Right when: accepted deliveries settle, lanes are FIFO, layers and
priorities are respected, queues are bounded, a worker ends only when it is done,
Close finds everything, each scheduled run is recorded once.

**Task executor and registry** (`tasks`, 1.0k lines). State: a channel of jobs, an
admission counter, tasks in memory, a queue of saves, the table. Operations: Submit,
Close, the worker, the persistence goroutine, Hydrate. Hard: a send under a
mutex, saves that fail or come late, kills, shutdown in the middle of a submission.
Right when: the answer of Submit stays true, the history only moves forward, nothing
accepted is left unsettled, nothing starts after Close.

**Scheduler** (`scheduler`, 1.4k lines). State: the jobs in memory with revisions, the
table, the runs under way. Operations: create, delete, unregister, trigger, the tick
loop, results, Hydrate, Stop. Hard: the loop works on a copy of the due jobs, results
come after removals, memory and table are written one after the other, a schedule may have no
next run that the search finds. Right when: nothing that can be moved on fires twice, nothing
removed returns, memory and table agree, what is due fires.

**Operation gate** (`plugins/lifecycle/operation_gate.go`). State: a map of counted
entries, each with a channel of one place; tokens in contexts. Operations: Acquire,
release. Hard: entries that are deleted and created again, cancellation in the instant
of entry, tokens that outlive their holder. Right when: operations on one plugin never
overlap, entries are counted, nobody is kept out for ever.

**Lifecycle controller and runtime registry** (`plugins/lifecycle`,
`plugins/runtime/runtime_registry.go`, 3.9k lines). State: desired and shown state of a
plugin, the registered and the retired managers, goroutines that wait for the gate, a
timer or a process. Operations: Enable, Disable, Reload, RecoverFromDeadLetter, start on
demand, crash handling with backoff, the observer of a late stop, Close, StopAll. Hard:
what was decided before a wait is stale after it, stops that fail, starts that fail
after the swap, crashes of a process that is being replaced, shutdown. Right when: no
process is orphaned, one runtime is up, a disabled plugin stays down, a crash is always
acted on, shutdown ends and leaves nothing.

**Runtime manager** (`plugins/runtime`, 4.5k lines). State: the process, its snapshot,
pending requests and event sessions, service calls, timers. Operations: Start, Stop,
DeliverEvent, frames from the plugin, deadlines, detach, crash. Hard: frames against
deadlines against exits. Right when: every session completes once, no answer is
credited to another session, cleanup completes before a restart.

**Conversation registry** (`bot/conversation`, 0.5k lines). State: waiting sessions by
route, by owner and by parent request, each with a timer, a parent's count and lifetime.
Operations: Wait, HasWaiting, TryRoute, BeginInput, Finish, CompleteParent, the two
timers, the watcher of a process, Close. Hard: a timer against the answer that ends its
session; a plugin that detaches before it waits; a process that dies with sessions
open. Right when: an answer goes to one session, an expired one is told once and in
time, indexes agree with sessions, Close drains every timer once.

**Ingress and chat policy** (`bot/pipeline/chatpolicy`, 1.2k). State: lanes of
conversations, 16 deep, 16 running at once, the admission flag. Operations: Enqueue,
the runner of a lane, StopAdmission, Drain. Hard: a lane that ends while an event is put
into it, the stop between admission and insertion. Right when: order within a conversation,
never more than the limit at once, the drain waits for all that was admitted.

**Outbound router and limiter** (`bot/pipeline/outbound`, 1.3k). State: a FIFO of
waiters and the entries of a sliding window, a timer, limits that can change. Operations:
Wait, TryReserve, cancel, SetLimit, the timer. Hard: a head that is cancelled in the moment
it gets its turn, a limit that changes under waiters. Right when: at most the limit in every
window, no overtaking, the turn passes on.

**OneBot 11 adapter** (`bot/adapters/onebot11`, 5.3k). State: the lifecycle under way
(its context, its wait group), the forward connection, the sessions of reverse
connections, the shown state of both transports. Operations: Start, Reload, Stop with a
time limit, the supervisor that dials and waits, the attachment and replacement of a reverse
session, workers. Hard: `WaitGroup.Add` against `Wait`, a Start during a Stop that timed
out, sessions of an earlier lifecycle. Right when: one lifecycle at a time, nothing
joins while it is torn down, what is shown agrees with the connections, all ends.

**QQ official adapter** (`bot/adapters/qqofficial`, 2.2k). State: the loop that dials,
identifies or resumes and reads; the session id and sequence number; a generation.
Operations: Reload, SetEnabled, Stop, the loop. Hard: a reload while a connection is
opened with the old settings, a session that must not be resumed. Right when: one
connection with the settings last applied, a resume only of a valid session.

**Adapter registry and reconnect backoff** (`bot/adapters`, 1.8k): a map filled at the start, and
arithmetic with jitter. **Event bridge** (`bot/pipeline/bridge`, 0.8k): conversion and
observability records.

**Installation and removal** (`plugins/lifecycle/install*.go`, 2.4k). State: the directory,
the metadata, the catalog, the backup and staging directories, the job. Operations: install,
replace, develop, remove, cancel, recovery at the start. Hard: every step can fail after
the old version was stopped and moved, the rollback can fail too, the process can be
killed between two renames. Right when: after the operation, or the recovery, there is the
old version or the new one, and what was reported is true.

**Message statistics** (`bot/messagestats`, 0.9k). State: counters in memory, a batch under
way, the table, offline intervals of an adapter. Operations: record, flush every 30 s,
query, Stop, recovery. Hard: a flush that fails and is merged back while messages arrive.
Right when: no message is counted twice or lost except by a kill, intervals do not overlap.

**Browsers of plugins** (`browser`, 1.6k). State: sessions, launches under way, profiles,
owners. Operations: Launch, Close, CloseAll, PurgePlugin, lifetimes. Hard: a launch that
finishes when its plugin was purged, a cleanup that fails and is tried again. Right when:
every browser has an owner or is being closed, two never share a profile.

**Rendering** (`render`, 4.2k lines). State: a bounded queue and slots, a runner with one
browser that requests share, its profile. Operations: Render, RefreshChromiumRunner, Close.
Hard: a browser that is started for one request whose context ends, that dies, or is reset
by a failing render while another uses it; a refresh that takes every slot among requests
that give up. Right when: one browser at a time, owned by the runner in use; slots counted
exactly; every call returns, and Close leaves nothing.

**End of the server and event streams** (`app/app_run.go`, `app/app_close.go`,
`management/events`, `platform/pubsub`, 1.4k lines). State: the context of the run, the phases of
Close with their budgets, the status last broadcast, subscribers with their channels.
Operations: Run, requestShutdown, the announcement, Stream.Run and Shutdown, Close. Hard:
subscribers that join, are slow or leave while the stop is announced, phases that overrun
and go on in the background. Right when: "stopping" is the last thing a subscriber is
told, the database is closed last, the server ends whatever hangs.

**Management log** (`platform/logging`, 2.0k lines). State: a bounded queue, a batch, the
subscribers, the table, a spool file. Operations: Append, the writer, Flush, the replay of
the spool, Close. Hard: overflow, a database that refuses a batch, a spool that grows while
it is rewritten, kills between saving and rewriting, lines that are half written. Right
when: no log is lost without a report or shown twice, Flush and Close are answered.

**Plugin SDK for Go** (`src/sdk/go`, 2.6k lines): the other end of the pipes of a runtime
manager, in the process of a plugin. State: the semaphore of handlers, the lifetime of each
event, the actions that wait for an answer and those that gave up, the terminal. Operations:
the reader, the goroutine of an event, Call, Result, Fail, Send, Detach, shutdown. Hard: a
deadline against the answer of an action, goroutines of a handler that outlive it, a
terminal that has to wait for all actions of its event. Right when: every answer of the host is
recognised, a terminal is the last frame of its event, permits are counted, everything ends.

**Plugin actions** (`plugins/actions`, 2.6k): handlers of what plugins ask for.
**Catalog, market, settings, plugin storage, permissions, governance, menu, parser**
(`plugins`, `bot`, 6k): lookups, parsing, single-statement updates.
**Management API** (`management`, 5k): handlers over the other components.
**Authentication** (`platform/auth`, 1.2k): sessions, login limits.
**Configuration, storage, backup, recovery, updates** (`config`, `storage`,
`operations`, `releaseupdate`, 9k): files and transactions.
**Command line, launcher, web interface, tools and the Vue kit of plugin pages** (`cli`,
`src/launcher`, `src/web`, `src/sdk/vue`, `src/tools`): other programs, or text processing.

## Plan

Built, in the order of importance in which it was written:

1. `Dispatcher`, its types and all its safety properties proved.
2. `TaskExecutor` over the abstract `TaskRecords`; its safety and the refinement proved.
3. `Scheduler`, its safety proved; 4. `OperationGate`, proved; 5. `Lifecycle`, its
   safety proved.
6. `PluginRuntime`: the manager that `Lifecycle` takes as abstract, in detail; proved.
7. `Conversation`, with the ingress that routes answers and the deliveries that call it; proved.
8. `WindowLimiter`, its order of turns proved; `Ingress`, its safety proved.
9. `PackageChange`: installation, replacement and removal with rollback and kills; proved.
10. `MessageStats`, `BrowserSessions`, `QQGateway`, `OneBotShell`; proved.
11. `RenderWorker`, `Shutdown`, `LogStream`; proved.
12. `PluginSDK`: the plugin's side of the protocol `PluginRuntime` speaks; proved.

Left, in the order in which it is worth doing:

1. `PluginRuntime` as a refinement of the manager inside `Lifecycle`.
2. The restore of a backup and its rollback; login limits; the capture gate and the
   limits of the renderer; the preparation of an update and its recovery.
3. Heartbeats and sequence numbers of the QQ adapter; the API calls of OneBot.

The abstract specifications are the history of tasks (`TaskRecords`), exclusion for the gate
(`Exclusion`, proved), and "the old version or the new one" (`LastGoodKept` and `OutcomeTrue`
of `PackageChange`).

Components that do not share state stand side by side in `Bot` and `Platform`, and in a run of
`MCBot` or `MCPlatform` every behaviour is one of exactly one of them, so that one run explores
them without multiplying their states.

## Modules

### Dispatcher

One plugin slot per generation: `<<p, g>>` is the g-th `pluginSlot` of plugin p.
A delivery `<<e, p>>` is the `dispatchItem` of event e for p together with its
`Completion`. Events are calls of `Dispatch` (messages in layers, or broadcast),
`DispatchToPlugin`, `DispatchScheduledEvent` or `DispatchToProcess`.

| state | code |
|---|---|
| `current`, `retired`, `closed`, `closing` | `Dispatcher.slots`, `retired`, `closed`, `closing` |
| `accepting`, `canceled`, `exited`, `ready` | `pluginSlot.accepting`, its context, `done`, the runtime's `ReadyForEvents` |
| `eventQueue`, `controlQueue`, `pendingEvents`, `pendingControl` | the channels and the counters under `queueMu` |
| `pendingByLane`, `lanes`, `polled` | locals of `worker`: parked items, `laneQueue.present`, "the control queue was found empty" |
| `call`, `todo`, `pin`, `layer` | a call inside or outside `admissionMu`, the targets left, the expected slot, the layer |
| `open`, `stopLayer` | the goroutine `advanceLayers` |
| `status`, `result`, `background`, `records` | a delivery from admission to release, detached runs, `RecordRunResult` |

Every lock region is one action. A worker's `select` is split where it matters:
`PollControl` looks at the control queue alone, `PullControl` and `PullEvent` are the
branches of the select, so a control event that arrives between the two can be
overtaken. `log` and `overtook` are history variables for two properties.
`Subscribes`, `Declares`, `Priority`, `Block` are constants per slot: a plugin's
version decides them, and a reload makes a new generation. The runtime behind a
slot is only `ready` or not, and answers with a member of `Answers` or an error.

### TaskExecutor, TaskRecords

`TaskRecords` is what the history of tasks promises: a record appears as pending,
only moves forward, keeps its first outcome, and becomes interrupted by a restart.
`TaskExecutor` is the executor, the registry, the persistence goroutine and the
table, with kills (`Stop`) and starts (`Hydrate`); `Records == INSTANCE TaskRecords
WITH record <- disk` maps its table to the history, and `RecordsKept` is the abstract
specification as a property. `submit[t] = "send"` is a call about to send on the
channel with the mutex held; `ExecutorFree` says nobody holds it. `SaveTask` is the upsert with
its CASE on statuses (`sqlcqueries/tasks.sql:4`): an outcome is not overwritten by an
unfinished status.

### Scheduler

`jobs` and `table` are the two copies, `mutation` is what the holder of
`mutationMu` still has to do (the table is written first, the map after), `loop` is
the tick loop with its copy of the jobs it found due, and `runs` counts triggered
runs whose result is still to come. Cron expressions are periods and time zones are
phases: `NextRun` is the first moment of a schedule strictly after a given one,
which is what the loop, a restart and a change of zone depend on. The code searches for it
four times 365 days ahead and no further (`cron.go:50`), so `HasNext` says whether it lies within
`Horizon`. Without it a creation is refused (`UpsertSave` has the guard), a job that was fired
is left as it is, enabled and due (`AdvanceFails`), and the start of the service ends, with the
rows before it already saved (`HydrateFails`).

### OperationGate

One call of `Acquire` per element of `Acquisitions`; the entry a call creates has the
call's name. `references`, `gate` and `entries` are the counter, the channel and the
map. The critical sections of `Acquire` and of the release are the actions: `Refer`
(count under the mutex), `Enter` (put the value in the channel), `Retract` (the
context was done at once, take it back), `Release`, `Leave`, `Forget` (under the
mutex again). `Reenter` is the nested case by the token in the context.

### Lifecycle

One plugin. `jobs` holds a record per goroutine: its kind (a management call, the work
it launched, a crash callback, a backoff timer, an observer), where it is, the
manager it was started for, and the crash count it carries. `gate` is the goroutine
inside the operation gate; the use of a plain lock is what `GateExcludes` of
`Plugin_proofs` justifies. A manager is abstract: `state` (the snapshot), `proc`
(none, live, exited but not yet noticed, killed and dying), `crashes`, `restart`. Its
`Start` succeeds, or fails with or without leaving a process; its `Stop` has the
outcomes of `StopOutcomes`. `item` and `retired` are the registry, `slot` the manager the
dispatcher delivers to. The long operations are split where the code waits or can fail:
a start into preparation, process, handshake and activation; a reload into start of
the new manager, swap, and retirement of the old one; a management call into its
change of desired state and the launch of work.

### PluginRuntime

`plugins/runtime.Manager` in detail. `proc`, `snap` and `os` are the current process, the
snapshot and the operating system's view; `reader`, `watched`, `reaping` the goroutines of a
process; `session`, `detached`, `pending`, `executing` an event and the actions the plugin
asks for while it handles it; `out` the pipe of the plugin's output; `view`, `asked`,
`answered` what the plugin knows. The plugin keeps the protocol, but may write a
line that is no frame, close its output or exit at any moment, and any timer may fire. Each
critical section of `Manager.mu` is an action. A plugin ends an event with one of `Terminals`:
a result, an error, or a message, which is an action frame without a parent; with `Concurrency`
above one it may work on several events. `Lifecycle` takes the same manager as
abstract: its `Start`, `Stop` and crash callback have the outcomes found here.

### PluginSDK

The Go SDK, with the host at the other end of the pipes. `reader` is the loop that reads
frames and its shutdown, `handler` the goroutine of an event, `permits` the semaphore,
`lifetime` what ended the context of an event. `call` is where `Actions.Call` is for an action
and `response` its channel; `pending`, `retired` and `unsettled` are the maps of the client
and of the event; `terminal` and `kind` where `writeTerminal` is and what it was given;
`detached` what the plugin believes of the background and `background` what the host does;
`rejected` the calls a shutdown still has to fail. `written`, `taken`, `inbox` are
the pipes, `late` notes an action written behind its terminal. An action may be called by a
goroutine that outlives its handler. The host answers an action with a result or an
error, in any order, or ignores it because it has ended the event; `PluginRuntime` is
the detailed model of when it does which.

### Conversation

`proc` are plugin processes, `stage` a message on its way through the ingress, the
dispatcher and its delivery, `entries`, `routes`, `owned`, `parents` the maps of the
registry, `fired` the timer callbacks that wait for its mutex. An instant is what is left
until it. `TryRoute` is the ingress asking for a waiting session, `Wait` and the others are
called by deliveries, so that a session that is left alone, a message that arrives twice in
one lane and a process that dies are steps of the same model. `asked` is the `session.wait` of
a delivery that is not answered yet. A delivery may ask again when it has its answer, in the
foreground; the code also runs several requests of one delivery at the same time, but each
meets the others only in the critical section of `Wait`, which is one action, so that in
the model they come one after the other.

### WindowLimiter, Ingress

`WindowLimiter`: `queue` of waiters and `records` of admissions with their ages, for one
target, pruned from the oldest on as far as they have expired; `closed` counts closes of the
channel `ready` of a waiter, `used` is an independent count of admissions per window. Every critical section of the mutex is an action.

`Ingress`: a lane per conversation, named after the event that made it so that a lane that
ended and a new one of the same conversation differ; `taken` the slots in use, `active` the
admitted handlers, `caller` the shutdown. The filters of the pipeline let an event
through or consume it; `handed` is what reached the bridge, in its order.

### QQGateway, OneBotShell

`QQGateway`: the connection loop (`loop`, `conn`, `frame`, `err`) beside the calls that change
its settings (`epoch`), switch it off or stop it. `session` and `lastSeq` name the settings
they were made under, which is what a resume must not mix up.

`OneBotShell`: the supervisor (`loop`, `conn`), reverse sessions (`sessions`, `reverseConn`,
`severed`), workers, and the calls `Start`, `Reload`, `Stop`, whose steps are separate where
the code unlocks. `life` numbers lifecycles and `over` holds those cancelled: goroutines of an
old one may still run when a Stop gave up waiting. `early` marks a session that was attached
before its Start had marked the transport as primed.

### PackageChange

One plugin's package: `target`, `previous`, `retained` are the directory, the backup and the
working roots; `row`, `desired`, `catalog`, `process` what the tables, the catalog and the
process say. `pc` walks through an operation step by step; each step may fail, the failure
leads into the rollback, whose steps may fail too; the server may be killed between any
two steps and recovers at the next start. `failure` and `status` are what the task reports.

### BrowserSessions

`stage` of a launch, `sessions` and `profiles` the maps of the manager, `timer` a lifetime,
`call` the closes under way (`Close`, `CloseAll`, `PurgePlugin`, a timer, a failed launch).
Starting and ending a browser may fail.

### MessageStats

`pending`, `state`, `offline` in memory, `batch` taken by a flush, `hours`, `intervals`, `runs`
the tables, `io` the holder of `ioMu`, `view` what a query has read so far. `Flushing` says that
a batch is taken; `Unknown`, the zero value of the state, is an adapter that was not observed yet. A unit of time is
the thirty seconds of `Least`. `counted` is the sum that must come out in the end.

### RenderWorker

`pc` is where a request is between its admission and its return, `using` the runner it has
read and `tab` the browser it renders in; `runners` are the `chromiumRunner`s with the mutex
`mu` each holds while a browser starts, `running` and `disk` the browsers and profiles that
exist. `refresh` holds the slots a refresh has taken so far. `expired` are the requests whose
context is done; a browser may die at any moment (`BrowserDies`, external). A request whose
context ends while the browser starts leaves a watcher (`watched`) that cancels it. The page
is outside: a render succeeds or fails.

### Shutdown

`run`, `worker` and `server` are `App.Run` and what it supervises; `once`, `intent` and
`announcement` the announcement made before anything is cancelled; `phase`, `stage` and `late`
the phases of Close, the closers and those whose budget is used up. `client`, `frame`,
`channel`, `told` are the subscribers of the management events; `snapshotMu` and
`lastBroadcast` the publisher of the status. A probe, a write to a client, a worker and a
closer may take for ever. The phases between the workers and the persistence are left out:
for this order they are closers like the workers.

### LogStream

`queue`, `writer` and `flush` are the queue, the batch and a call of Flush; `spool` the lines
of the file, `replay` the copy a replay works on, `table` the rows. The database and every
operation on the file may fail. An append that fails or is killed may leave a part of its line
(`Torn`); the next log is written behind it and cannot be read any more. `garbled` names such
logs: they are the one loss that `LogsKept` excepts without a report, because the code
puts the line aside without one. A kill keeps table and file; the logs that were only in
memory go to `lost`. The insert is `INSERT OR IGNORE` (`sqlcqueries/logging.sql:2`), so that
a replay may repeat what a kill interrupted.

### Bot, Platform

`Bot` holds the ingress, the limiter, the conversations, the two adapters, the statistics and
the log; `Platform` the gate, the runtime manager, the SDK, packages, browsers, the renderer and
the end of the server. They declare the constants and variables of all of these - with a name of
its own where two components use the same one: the `queue` of the limiter is `waiters` there, and
the `loop` of the QQ gateway `qqLoop` - make an instance of each component's module, and state
the properties that the runs check and the theorems prove. `BotAssumption` and
`PlatformAssumption` put the assumptions of the components together.

### MC modules

`MCDispatchShutdown`, `MCTaskExecutor`, `MCScheduler`, `MCLifecycle`, `MCPluginLate` and
`MCPluginDetach` only give the constants. `MCDispatch` also gives four initial states, one
for each situation it looks at, in which the plugins and events of the others are set aside:
a call that has returned, an operation that is never taken up.
`MCBot` and `MCPlatform` begin with every component of `Bot` and `Platform` in an initial state;
the variable `component`, chosen at the start, names the one that runs, while the others stay as
they are. So an invariant of a component holds of the run exactly when it holds of that
component, and the liveness properties are read as "if the component that runs is this one". The
SDK runs in two ways, with two events or with an action of one event, since both
at once are too many states.
Definitions named `...Mutant` in the modules are the same definitions
with one plausible mistake in them; no specification uses one. They show that each
property can fail: with the mutant in the place of the definition TLC finds it violated.

## Runs

| run | what it asks | bounds |
|---|---|---|
| `dispatch_shutdown` | layers, atomic admission, no cycle of gates and lanes, accepted deliveries settle, Close returns | two plugins, a chat message and a command whose layers run in opposite orders over them, one executor each, a shutdown at any moment (113,164 states) |
| `dispatch` | exact counters and bounds, FIFO lanes, preference of control events; layers agree with the slots that got the message; a worker ends only when done; Close finds every slot, scheduled runs are recorded once | two plugins of two generations, in four situations: three ordinary events and a control event on two executors, queues of two and one; a message during reload, drain or deregistration; a conversation answer, and a scheduled run with DrainAll and Close, during any operation and a crash |
| `tasks` | answers of Submit, order of the history, nothing unsettled after Close, accepted tasks settle | two submissions, a queue of one, two saves waiting, two stops of the process |
| `scheduler` | fired once unless the schedule has no next run, removed stays removed, memory equals table, due fires | one id, a period of one and one of three, which the search of two may not reach, two zones, three revisions, one run of a job that reports a result, a clock of two ticks, a crash (465,582 states) |
| `lifecycle` | no orphan and one runtime, recovery always pending and disabled stays down, a crash settles and shutdown ends | two calls of any kind, two faults, three managers, five goroutines, dead letter after two crashes |
| `bot` | limiter, conversations, ingress, QQ and OneBot connections, statistics, management log | see below |
| `platform` | gate, manager, SDK, packages, browsers, renderer, end of the server | see below |
| `scheduler_shared`, `lifecycle_observer`, `lifecycle_dead_letter`, `plugin_late_reply`, `plugin_detach_lost` | violations, see below | one id used by two plugins; the calls and faults of one disagreement; two events that end with messages; one event that is detached |

The instances of `MCBot` and `MCPlatform`:

| component | bounds | properties |
|---|---|---|
| limiter | three callers, limits of one in two units and two in one, changed at any moment | `AdmittedInTurn`; every waiter is served or leaves (`EverythingReturns`) |
| conversation | two messages of one actor that ask for a wait any number of times, two processes of one plugin, two sessions, a wait of 2 and a lifetime of 3 | `SessionsAttended`, `ExpiredInTime` |
| ingress | three events, two of one conversation, one slot, lanes of one, one shutdown | `IngressSound` |
| QQ | three changes of settings, a Stop | `ConnectionCurrent` |
| OneBot | a forward or a reverse transport, two lifecycles, two reverse connections | `AdapterSound` |
| gate | three calls on one plugin, any of them cancelled, nested calls | `Exclusion`, `EntriesCounted` |
| runtime | one event with one action, two processes, concurrency of two, events that end with a result, an error or a message | `EventsAccounted`, `CrashReportedOnce` |
| SDK, two events | two events and one permit, one of them detached | `SdkSound` |
| SDK, one handler | one event with an action and a detach | `SdkSound` |
| package | one operation on a plugin that is installed or not, failures, kills | `PackageSound`: `LastGoodKept` and `OutcomeTrue` |
| browser | two launches of one plugin for one profile, two ways to launch, one call, two closers | `BrowsersOwned` |
| statistics | two units of time, two messages, two runs of the service | `StatisticsSound` |
| logs | two logs, a queue of one, batches of two, one kill | `LogsKept` |
| render | two requests, one or two slots, a queue of one, a refresh, one Close | `RendersSound` |
| end of the server | one subscriber with a channel of one, one handler that asks for the stop, one publication before it | `StopSound` |

`EverythingReturns` and `EverythingEnds` are the liveness of the two runs: a limiter whose
head is cancelled passes the turn on, a drain returns, an adapter comes to rest with its
settings applied, a log that was admitted leaves the memory; at the gate nobody waits for ever,
deliveries and background events end, a failed process is reaped, the handlers, calls and
terminals of a plugin end, browsers end, renders and a
Close of the renderer return, and the server ends when it is asked to.

Why the bounds are enough. The hazards of the dispatcher need two plugins (for a cycle),
two messages (for an order), three events on one slot (one running, one parked, one
queued) and two generations (for a stale slot). In `dispatch_shutdown` the priorities put
high before low for the chat message and low before high for the command, in different lanes; an
executor that took its latest delivery first would leave each message waiting for the other
(the mutant of `AcceptedSettle`), while the queues in the order of admission, and targets that
are enqueued in the order of their layers, exclude it. A third message or plugin repeats what two
do: each property relates two deliveries, two slots or two layers; three layers are
covered by the proof of `LayerOrder`, which has no bound. A queue of one with two
submissions makes "full" and "one parked" both happen; the proofs hold for any capacity.
The scheduler's clock gives each schedule a moment before and after every mutation; of
the moments at which a schedule of period three is fired or restored, some have their next run
within the horizon of two and others have not, so that one planned run is fired twice in the
run; the scheduler was also checked with two runs that report (1.6 million states). Three calls on one gate are a holder, a waiter and one that comes after the entry is gone; the
proofs hold for any number. In the lifecycle two calls and two faults are enough for a
crash during a reload, a failed stop followed by a start, and two crashes in one cycle;
the three managers are the old, the new and one created after a removal, and a sixth
goroutine adds no state. In the limiter the third caller is the one behind a cancelled
head; in the ingress the second event of a lane comes when it is ending or waiting, and the
event of another one waits for the slot (several handlers at once are covered by the proof); two
processes of a plugin are the old one and the one after a reload; two lifecycles and two
reverse connections are an old and a new one; two processes of a manager are one that
crashed and its successor; two requests of the renderer are one that fails in a browser
and one that uses it; a second log comes behind a torn or an unreplayed one (the logs are
alike, so `MCBot` has one of them always admitted first). In the statistics two units of time
end an interval that is long enough; one that begins after the startup grace of two is left to
the proof. The renderer was also checked with three requests (12.4 million states), the end of the server with two
subscribers and two publications (15.2 million) and the log with three logs (6.7 million),
without an error; these take too long to be run each time. One operation on a package is
enough since each starts from all states an earlier one may leave: `Init` of
`PackageChange` begins with the plugin absent or present, with its row or without.

Every configuration turns the deadlock check off: the bounds on events, faults and calls make
behaviours stop, and in `bot` and `platform` a component that is finished stops. What must not stop
is stated by the liveness properties.

## Fairness

- `Dispatcher`: weak fairness of `Progress`, the steps of goroutines that are running:
  callers inside `admissionMu`, workers, executors, `advanceLayers`, Close. It is one
  condition on the disjunction - as long as something can run, something runs - and so
  weaker than fairness to each goroutine. `DeliverEvent` has a deadline, so that a
  delivery ends. Calls, registry operations, crashes and the shutdown are not forced.
- `TaskExecutor`: weak fairness of a submission that holds the mutex, of the worker, the
  persistence goroutine and Close. Job functions are assumed to return.
- `Scheduler`: weak fairness of the second half of a mutation and of the loop; strong
  fairness of the loop's wait for `mutationMu`, since `sync.Mutex` hands itself to a
  waiter that starves.
- `OperationGate`: weak fairness of every call already in `Acquire` or the release; an
  operation ends by its deadline.
- `Conversation`: weak fairness of `Progress`, the timers, the watchers of processes and Close;
  no delivery has to return.
- `Lifecycle`, `BrowserSessions`: weak fairness of `Progress`, the steps of
  goroutines, timers that have fired, processes that were killed. Waits for the gate are
  bounded by the deadline of the operation inside; a call of a plugin is not forced.
- `PluginRuntime`: weak fairness of `Progress` (readers, watchers, deliveries with their
  deadlines, actions, reaping), and of the steps of a Start and of a Stop under way.
- `PluginSDK`: weak fairness of `Progress`: timers, the goroutines of the SDK, the reader's
  shutdown, and a handler that returns when its context has ended, as `src/docs/plugin`
  asks of it. The host is not forced to answer anything.
- `WindowLimiter`: weak fairness of the clock and of each caller that can proceed.
- `Ingress`: weak fairness of the runners together (handlers return, as their contexts have
  deadlines) and of each caller of a shutdown.
- `QQGateway`: weak fairness of the loop, of the cancellation by Stop and of the call under way;
  a connection need not fail or answer by itself.
- `OneBotShell`: weak fairness of the supervisor and of a call under way, of each reverse session
  that was told to end, and of workers, which end when their context does.
- `RenderWorker`: weak fairness of `Progress`, the steps of requests, of a refresh and of Close;
  a render ends by its time limit.
- `Shutdown`: weak fairness of `Progress`: the run, the announcement, the phases with their
  budgets, the steps of subscribers. Probes, writes, workers and closers may hang.
- `LogStream`: weak fairness of the writer, of the replay, of Close and of the overflow of each
  log; strong fairness of the end of the replays, since the select between the ticker and
  `flushStop` is random (`platform/logging/stream.go`).
- `PackageChange` and `MessageStats` have no liveness property.

## Proofs

TLAPS checks every theorem below for all values of the constants that satisfy the named
assumptions of the modules: `ConstantsAssumption` (`Dispatcher`), `TaskAssumption`
(`TaskExecutor`), `SchedulerAssumption`, `BoundsPositive` (`Lifecycle`),
`AcquisitionsAreFinite`, `PluginOfIsAFunction`, `NoneIsNoAcquisition` (`OperationGate`),
`IngressAssumption` (the events of a conversation arrive in the order of their numbers),
`RuntimeAssumption`, `SdkAssumption`, `PackageAssumption`, `BrowserAssumption` (a profile belongs
to one plugin), `RenderAssumption` (finitely many requests), `ShutdownAssumption`,
`GatewayAssumption`, `ShellAssumption`, `MessageAssumption`, `LogsAssumption`,
`ConversationAssumption` (a wait is no longer than the absolute lifetime) and
`LimiterAssumption`. They
give the constants their types, keep `None` and other marks apart from values, and say that there
is at least one place, slot, manager or
goroutine; TLC evaluates them in the runs, those of the last twelve through `BotAssumption` and
`PlatformAssumption`. The bounds of the models (`MaxGen`, `MaxStops`, `MaxFaults`...)
are constants too, so the theorems hold for any. Two theorems have a hypothesis that the code does
not enforce: `OneCreator` (scheduler) and `PluginsAwait` (conversations); both are explained
where they are used, and under the disagreements below.

Every safety property that a passing run checks, invariant or action property, is stated by a
theorem under the name it has in the run. The theorems about the parts of `Bot` and `Platform` are
about `Talk!Spec`, `Runtime!Spec` and so on: the specification of that component alone, with the
names its state has there, which is what a behaviour of the run does once its component is chosen.

**Dispatcher** (`Dispatcher_proofs`, in three parts: layers, queues, slots).

- `TypeCorrect`: `Spec => []TypeOK`. The type invariant is inductive.
- `LayersOrdered`: `[]LayerOrder`. The property says nothing of a delivery that waits in two
  places or of a goroutine that counted a layer wrongly, so the invariant is
  `IInv == TypeOK /\ QueuesSound /\ CallsSound /\ LayersSound`: what waits is in exactly one
  queue or lane with the status that belongs there, so that a worker never starts a
  completed delivery again; a call touches only deliveries of its own that nobody has
  touched, so that layers do not change after they were opened; and every layer before
  `open` has completed, with `stopLayer` the first that stopped.
- `LanesOrdered`: `[]LanesSound`. A FIFO of lanes cannot be shown from the queues alone, since
  a worker moves a delivery from its channel to a lane and from there to an executor while
  others arrive. `LInv` counts the stages a delivery has before it and says that of two of one
  lane and kind the one admitted first is never behind (`StagesInOrder`); a queue keeps the
  order of admissions (`QueuesInOrder`); what waits can be found where its status says
  (`Placed`); one delivery per lane and no more than `Concurrency` run (`LanesExclusive`,
  `Capacity`); the counters are the cardinalities of what waits (`Counted`).
- `ControlFirst`: `[]ControlOvertakenOnce`. `Overtaking` adds that after an overtaking the
  worker has not polled again and the control queue is not empty.
- `AdmittedInOneOrder`: `[]SameAdmissionOrder`. `Admission` adds that one call at a time is
  admitting, and that its deliveries are the last of every log.
- `WorkersEndEmpty`: `[]ExitComplete`, from `LInv` and `ExitedKnown`: a worker that may end has
  empty queues, and `Placed` says that nothing waits anywhere else.
- `ClosedCompletely`: `[]ShutdownComplete`. `SlotsFound`: a slot whose worker lives is
  registered, retired, held by the Deregister that took it out, or found by Close.
  `RunsSound` and `RunsRecorded`: a run goes to the background only as it settles, and was
  recorded once when it is finished.
- `LayersOfPolicies`: `[]LayersFollowPolicy`. The layers are computed from slots that may be
  replaced before they are used. `Policies` speaks about the slots they were made from,
  `Pinned` says that admission puts a delivery into that slot or into none. The lemma
  `LaterIsBehind` shows that numbering layers by the classes ahead agrees with the order.

**Tasks** (`TaskExecutor_proofs`).

- `TasksTyped`, `SendsFindRoom`, `StartsBeforeClose`: `[]TypeOK`, `[]SendNeverBlocks` and the
  action property `NoStartAfterClose`. The admission only counts; `PInv` says what it counts
  (`PlacesReserved`: the jobs in the channel, the one submission that holds the mutex, the job
  taken and not yet given back). A live context means an executor that is not closed.
- `AnswersKept`, `TableKeepsRecords`: `[]AnswersHold`, and `Spec => RecordsKept`, the refinement
  of `TaskRecords`. The table lags behind the memory, so `RInv` relates them through the queue
  of saves: `Owing` is the set of tasks whose outcome is still to come, the saves that may be
  queued are the first one while its Submit waits and an outcome when nothing is owed, and the
  table has an unfinished status for every task that is owed an outcome. Every save is then a
  step of `TaskRecords` or changes nothing.
- `ClosedSettled`: `[]SettledWhenClosed`. `CInv` adds the order in which a shutdown proceeds
  (`Closing`: what is over at each of its stages), that every record without an
  outcome belongs to a task that is owed one (`ShownOwed`), and, unless a save failed, that
  the last queued save of a task, or the row when none is queued, is what the registry shows
  (`TableFollows`).

**Scheduler** (`Scheduler_proofs`).

- `SchedulerTyped`: `[]TypeOK`; its invariant `FInv` also says that revisions are unique and
  never above the last one issued (`Revisions`), that a copy in the tick loop was due and is
  the job itself while the revision is the same (`CopiesSound`), and that what has fired lies
  before the next time of the job but for the one being moved and those that could not be
  (`FiredBehind`).
- `RunsFireOnceIfDated`: the action property `FiredOnceIfDated`, from `FInv`, also when plugins
  share an id and for any search limit. A planned run fires again only when its schedule had no
  next run (`HasNext`) at the time of each earlier firing, which is then the third case of
  `FiredBehind`, for the job in memory and for the copies that the loop has yet to fire.
- `TableFollowsEngine`, `RemovalsStand`: `[]EngineMatchesTable`, `[]RemovedStaysRemoved`, under
  the hypothesis `OneCreator` that each id is used by one plugin. The code does not enforce it,
  and `scheduler_shared` shows that the properties need it. A mutation writes the table first
  and the map later, so `TableMatches` compares the table with the job as the mutation under
  way will leave it (`Pending`); `RemovalsKept` says that no mutation under way is about a
  removed job and that the last schedule acknowledged is in the table.

**Operation gate** (`Plugin_proofs`, first part).

- `GateTyped`, `GateExcludes`, `EntriesAreCounted`: `[]TypeOK`, `[]Exclusion`,
  `[]EntriesCounted`. The invariant adds to the types: a call that refers to an entry refers
  to the one in the map (`Refers`), an entry belongs to the plugin of its creator (`OwnEntry`),
  the counter is the number of users (`Counted`), the value in a channel is that of the
  call inside (`Channel`), a nested call runs under a holder (`Nested`).

**Lifecycle** (`Lifecycle_proofs`).

- `LifecycleTyped`, `ProcessesReachable`, `IntentKept`: `[]TypeOK`, `[]ProcessesOwned`,
  `[]IntentFollowed`, for any number of managers, goroutines, calls and faults. The two
  properties speak about moments when nobody is inside the gate; what they say is false in the
  middle of a reload. The invariant therefore says what the goroutine inside may have done:
  which manager it works on and that the plugin is still wanted (`HolderFits`), and the
  one manager beside the registered one that a reload may have up (`Swaps`). `Owned` and
  `Pending` are the properties with that goroutine counted in. `ManagersFit` ties the process
  of a manager to the state it shows and its crashes to the faults spent; `JobsFit` ties
  a goroutine to the places of its kind and the places inside the gate to its holder.

**Ingress** (`Ingress_proofs`).

- `IngressTyped`, `ConversationsOrdered`: `[]TypeOK`, `[]IngressSound`, for any events,
  conversations, shutdowns, slots and depth of the lanes. The order of a conversation goes over
  several lanes, since a lane ends when it is empty and the next event makes a new one. The
  invariant says that a conversation has one lane at a time and it is the one in the map
  (`OneLane`), and puts its events in one line (`Line`): what was handed over, the event of the
  runner, what is queued behind it, and what is still to arrive (`ArrivedInOrder`).
  `SlotsHeld` counts the slots by the runners that hold one. `DrainedOnce` is inductive beside
  the types: the channel was closed exactly when admission has stopped and no handler is inside.

**Conversations** (`Ingress_proofs`, second part).

- `SessionsStayAttended`, `SessionsExpireInTime`: `[]SessionsAttended` and the action property
  `ExpiredInTime`, when plugins await the answer of `session.wait` before they detach the event
  (`PluginsAwait`; without it a session may be left to its timer, see below). The first one says
  that somebody will end or extend each session, but not who. `TalkInv` says that: a message that
  is at a process names one that was started (`AtProcess`); a session has the parent and the phase
  that its delivery is responsible for, or the answer that is being handled (`Followed`); routes,
  owners and parents are exactly the indexes of the live sessions (`Indexed`), within the
  limits (`Fitting`); the next expiry of a session is not after the absolute one, and its timer
  is armed or has fired (`TimersSet`). The second property then
  follows, since a timer that was overtaken by an answer finds another time in the session.

**Limiter** (`Ingress_proofs`, third part).

- `WindowAdmitsInTurn`: the action property `AdmittedInTurn`, for any callers and limits. Who
  waits has one place in the queue and only the head was told, once (`Lined`); and what counts in
  the window is a tail of the records whose head is the oldest (`Recorded`, `Counting`), so that
  pruning from the front forgets no admission that the independent count still sees. A change
  of the limit to a shorter window keeps this (`CountFewer`).

**Runtime manager** (`Plugin_proofs`, second part).

- `EventsStayAccounted`, `CrashesReportedOnce`: `[]EventsAccounted` and the action property
  `CrashReportedOnce`. That a plugin that keeps to the protocol is not killed for a frame it
  sent is a fact about what is in the pipe, so the invariant `RuntimeInv` follows the frames:
  each was sent once, was not served yet, and a terminal is the last of its event
  (`FramesKept`); what was served is known to the plugin (`ServedOnce`); and of an event that
  the host has ended only frames are on the way that it knows to ignore (`LateFrames`). The
  others tie the manager together: who holds the lifecycle gate and what it found
  (`GateHeld`), that the current process is the last one and what is noted is of it
  (`ProcessesKept`), which events it has and how they end (`EventsHeld`, `EventsEnd`), and the
  counters (`ActionsKept`, `DetachedKept`). A failure, an exit and a Stop all end the events
  in the same way; the lemmas about `SessionsEnd` and `Retiring` are shared by their steps.

**Plugin SDK** (`Plugin_proofs`, third part).

- `SdkKeepsProtocol`: `[]SdkSound`. Until the shutdown the client has an entry for every action
  that may still be answered (`KnowsAnswers`), an event that is not cut short has the actions
  without an answer in the set its terminal waits for (`WaitsForAnswers`), and the permits are
  those of running handlers, of which there are finitely many (`Goroutines`).

**Packages** (`Platform_proofs`, first part).

- `PackageKeepsLastGood`: `[]PackageSound`, for any number of operations one after the other.
  An operation can fail at each of its steps, and the rollback at each of its own. The invariant says for every place what the transaction remembers (`Places`),
  where the package from before and the candidate are (`Disk`), and what has been undone so far
  as long as only one thing has failed (`Undoing`); `Ended` relates the state of the failure
  that is reported to what is left, and `Removal` does so for a removal.

**Browsers** (`Platform_proofs`, second part).

- `BrowsersKeepOwners`: `[]BrowsersOwned`. A browser has a session, a session its
  profile and its launch until that is settled (`Registered`); a call that closes a session
  works on one that exists or is settled (`Closing`); while a purge or CloseAll is under way
  there are no sessions but those it has still to close (`Purges`, `ClosesAll`), because
  launches that come later are refused.

**Rendering** (`Platform_proofs`, third part).

- `RendersKeepOneBrowser`: `[]RendersSound`, for any finite set of requests and any number of
  slots. `Locked` says who has the lock of the lifecycle and how far a refresh or Close is;
  `Owned` that only the current runner, or the one it replaces while it is being replaced, has a
  browser; `Attending` that a request uses the current runner, which holds since a refresh and
  Close wait until they have every slot or no request is active; `SlotsCounted` counts both.

**End of the server** (`Platform_proofs`, fourth part).

- `ShutdownKeepsOrder`: `[]StopSound`. `Phased` orders the phases of Close behind the end of
  Run; `Announcing` says that who is still a subscriber when the stream closes was told, unless the
  budget was used up; `Ordered` that in what a subscriber is still to be written, the frame in its
  hands and its channel, nothing comes after the stop, and that the stop is there when it is the
  last broadcast.

**QQ gateway** (`Bot_proofs`, first part).

- `GatewayKeepsConnection`: `[]ConnectionCurrent`. A connection made with other settings is
  cancelled, has no session, and its sequence numbers are nobody's (`Replaced`); what ends a
  connection that is shown as connected is about to show it, or is a failure the loop finds
  (`ShownSound`).

**OneBot adapter** (`Bot_proofs`, second part).

- `ShellKeepsLifecycle`: `[]AdapterSound`. `Supervised` says what the place of the supervisor
  means for the lifecycle, `Called` what the place of the call does: a Start never meets a
  supervisor, and when it marks the transports every session alive is one that came early.

**Message statistics** (`Bot_proofs`, third part).

- `StatisticsStaySound`: `[]StatisticsSound`. Each message is in the memory, in the batch or in the
  table (`NothingLost`), also for a query that reads while a flush commits (`Viewed`). The intervals
  of the table, of a batch and of the memory stand in one line (`InLine`) before the one that goes
  on (`BeforeSince`), of which the table may have an open row (`Opened`); what a flush took agrees with
  the memory it left (`Took`), so that committing it or merging it back keeps the line.

**Management log** (`Bot_proofs`, fourth part).

- `LogsStayKept`: `[]LogsKept`. A log is queued while it is in the queue or in the batch, in one
  place only (`InOnePlace`), and shown when it is over (`ShownOnce`). A Flush waits for a mark:
  what it promised is not behind the mark (`Awaited`). The lines of a replay are the beginning of the
  spool, and those it has passed are in the table (`Replayed`), which makes the rewrite safe although
  logs are appended meanwhile. `Accounted` says where everything is that was shown or is over.

Work on the proofs corrected the models. The first form of
`LayersFollowPolicy` was false for constants in which the ingress resolves the command of an event
that slots also declare; the property now asks the same question as the code (`IsCommandOf`). In the lifecycle a
backoff restart whose activation fails after its process had gone was disabled, because two
values were asked of the manager's state; the code stops the manager and then marks it stopped
(`plugins/lifecycle/crash_recovery.go:191`), which `StopEffects` now separates. The same step was
possible without a goroutine left for the crash callback it starts. In the package model, the
status of an installation and the removal of its working root were written as CASEs whose
conditions overlap, which leaves open what they mean; they are now the sequence of tests that the code makes.
The limiter dropped every expired record and every place of a caller at once, where the code drops
a prefix and one place; the proofs show that this comes to the same. The model of the QQ gateway
remembered of a connection something that no step read. The statistics left the
state of an adapter after a restart as "no value", which no test of its fields can be asked of;
it is the zero value, as in the code.

Only model-checked are the liveness properties: `AcceptedSettle` of the dispatcher and of the tasks, `DueFires`,
`CrashSettles`, `EverythingReturns` and `EverythingEnds`. They follow from fairness, which means
`ENABLED` and rules that the installed backends do not have. Neither checked nor proved is that the
manager inside `Lifecycle` behaves as `PluginRuntime` does; the two were compared by reading.
What a recursive definition computes for every input
would need induction over data, which the installed backends do not give; no module here declares
a RECURSIVE operator, so all of them remain open to proofs.

## Disagreements with the documentation

Five runs are expected to fail; each shows a real sequence of steps of the code.

1. `scheduler_shared`. The upsert of a job keeps the `plugin_id` of an existing row while
   the engine in memory gives the job to the plugin that asks. When two plugins
   use one task id, unregistering the second removes the job from memory, not
   from the table, and it is back after a restart, against "UnregisterByPlugin removes
   all jobs for a given plugin." (`scheduler/scheduler.go:393`).
2. `lifecycle_observer`. A disable whose stop is late leaves an observer behind. An enable
   that gets the gate first starts the same manager again; the observer finds its
   manager still registered and stops the new process, although it should act "only if it
   still owns this plugin generation" (`plugins/lifecycle/observability.go:125`).
3. `lifecycle_dead_letter`. A crash callback carries its crash count. If a reload gets the
   gate first, begins a new cycle and fails to start, the callback finds the count 0,
   falls back to the one it carries and enters dead_letter: recovery is required without
   the crashes in one cycle that `docs/plugin/lifecycle.md:31` asks for.

4. `plugin_late_reply`. A plugin may end an event with a message: an action frame without
   `parent_request_id`. If the deadline of the event has passed, the host takes this frame for
   an action: with concurrency above one, or unless exactly one other event is pending, it kills
   the process for a violation; with one pending, it executes the message as an action of that
   event. `src/docs/plugin/protocol.md:44` says that late frames are ignored, as late results
   and errors are (`plugins/runtime/manager_start.go:295`).
5. `plugin_detach_lost`. `Detach` notes the move to the background only if its own call sees the
   answer. If the context given to it ends first, the host may have moved the event; the
   `Send` that follows ends the event with a message, which the host punishes for a background
   event, although `Send` is to turn into an action and a result
   (`src/docs/plugin/protocol.md:259`, `src/sdk/go/detach.go:62`).

Some more were seen, for which there is no run of their own:

- The same lost `Detach` leaves the event in one of the host's background slots until the
  background deadline, since the SDK's own deadline is still that of the foreground.
- A goroutine that outlives its handler can call an action after the event was retired: its
  entry stays in `pending` if the host ignores the action, since only an answer or the end of
  the process removes it then.
- When a job has fired and its schedule has no next run within the search, the log says
  "已暂停，请修改时间设置后重新启用" (paused, to be enabled again after the schedule was changed;
  `scheduler/scheduler.go:271`), but nothing is changed: the job is still enabled and due, so that
  each tick fires the same planned run again. The search covers 1460 days (`cron.go:50`) and a
  leap day comes 1461 days after the one before, so `0 0 29 2 *` is such a schedule from its
  firing to the end of the day. A restart in that time fires it as an overdue job; when
  the configured time zone has changed so that the moment of a job not yet due has passed in
  the new one, such a schedule makes Hydrate fail, and with it the start.
  `FiredOnceIfDated` and `DueFires` except exactly these jobs; in the run `scheduler` such a job
  is fired more than once.

- A kill of the update between moving `build_info.json` aside and moving the new one in leaves
  an installation of unknown version, for which `update apply` is refused
  (`releaseupdate/apply.go:110`), although `src/docs/release/delivery-and-upgrade.md:149`
  says that it can be run again. A kill after the new one is in, before the record is removed, leaves
  the record marked as applying (`releaseupdate/prepared.go:103`). Read, not modelled.
- A disable followed at once by an enable finds the manager running and publishes nothing, so
  that the catalog shows "starting" for a running plugin and management actions are
  refused (`plugins/lifecycle/runtime_lifecycle.go:88`).
- A wait that a plugin asks for before it detaches its event "takes effect at the detach"
  (`src/docs/plugin/protocol.md:111`). If the goroutine of the action reaches the registry only
  after the detach, the wait is accepted, since only the context is looked at
  (`bot/conversation/registry.go:116`), and nothing makes it wait: it stays registered until
  its timer. Plugins that await the answer of `session.wait` before they detach never meet
  this; `PluginsAwait` assumes them.
- When the stop of the running plugin fails during a replacement the task reports that
  nothing was changed, although the plugin has been stopped
  (`src/docs/plugin/store-and-development.md:84`, `plugins/lifecycle/install_transaction.go:121`).
- Cancel reads the status of a task and writes "cancelled" later. A rollback that failed in
  between is overwritten and its required recovery is not shown
  (`plugins/lifecycle/install.go:198`, `src/contracts/error-codes.yaml:449`). `OutcomeTrue` is
  about what the installation itself reports.
- Reload of the QQ adapter records "connecting" after it has released its mutex and can
  overwrite the "connected" of the connection made with the new settings. A sequence
  number observed after an invalid session stays until the next READY; only a heartbeat could
  carry it.
- A reverse OneBot connection that is attached and ready before Start has marked its transport
  as primed is shown as "listening" until it is replaced or dropped; `SessionsShown` excepts
  such sessions by `early`. A Reload whose Stop times out leaves the adapter stopped, and the
  reloads that follow are refused; that is reported as "restart required", in agreement with
  `src/docs/user/configuration.md:34`.

- A log that is written behind a part of a line is lost: the line is put aside as unreadable,
  or, if a replay is under way, the rewrite cuts the file at the number of lines it has read
  and drops it, although appends during a replay are to be kept (`src/docs/dev/logging.md:9`,
  `platform/logging/spool.go:130`). It takes an append that fails halfway.
- A render that fails resets the browser its runner has at that moment, which may be newer than
  the one it failed in, and another render fails with it. A request that is cancelled in the
  instant the startup succeeds leaves a browser that is dead, so the next render fails once
  (`render/chromium_runner.go:585`).
- The publication of "stopping" can wait behind a readiness probe that holds `snapshotMu`, until
  its budget is used up. A subscriber that joins between two changes of the status gets
  a snapshot that does not count as broadcast, and may show it until the next change
  (`management/events/service_status.go`).

## What is not modelled

Parts with no module are listed above and in the components of `PROJECT.json`, with the
reason. The modules map about 8,200 of the repository's 90,000 lines of code: most of the rest
is handlers, conversion, parsing, generated code, the launcher and the web interface,
which keep no state that several steps could bring out of order. Inside the modelled parts:

- Dispatcher: `UpdateCommands`, the execution of the actions in an answer (outbound
  messages), statistics and log records except the one result of a scheduled run.
- Tasks: the texts and progress values of a task, its log.
- Scheduler: the syntax of cron expressions (a schedule recurs, or has its next run beyond the
  search), last error and duration of a run, overflow of revisions.
- Lifecycle: installation, removal and manifest refresh, which take the same gate; the time
  limits of shutdown phases, which are in `Shutdown` (StopAll waits for the workers here, in the
  code it may start when their phase has timed out); the cancellation of the run context and Close are one
  step; a save of the desired state that fails is a call without effect; a management call
  is atomic under its gate up to the launch of its work. Faults have budgets: exits of a
  process, failures of the runtime and failed stops are counted by `MaxFaults`, failing starts
  are free.
- PluginRuntime: the retirement of finished service calls, how long expired events are
  remembered, ping, a process that does not read its input, lines over the size limit.
- PluginSDK: the waits and callbacks of conversations, services, the validation of frames,
  limits on pending and retired actions, a pipe that cannot be written, the handshake.
- Conversation: an absolute lifetime shorter than a wait, a chat for each route, a clock that
  is set back (`bot/conversation/registry.go:345`), two requests of one delivery that are
  pending at the same time: they come one after the other. What this could leave out is a
  detach between two of them, which `PluginsAwait` excludes anyhow.
- Limiter: routing, the sender's I/O, the pruning of idle targets.
- Ingress: parsing of commands, menus, permissions and cooldown notices.
- PackageChange: the download and validation of sources, templates and webhooks, jobs still
  queued at Close, the deadline of a job.
- MessageStats: the notifier, ranges and groups of a query. BrowserSessions: the files of a
  browser and the discovery of its endpoint.
- RenderWorker: templates, artifacts, the gate of captures, changes of the limits, what a page
  does; the refusal of a full queue, which two requests do not reach.
- Shutdown: the phases between the workers and the persistence, other kinds of frames,
  the HTTP handlers.
- LogStream: the history in memory and its subscribers' buffers, retention, the diagnostics,
  the mode without a repository, SetRepository and ConfigureSpool at the start.
- QQGateway: heartbeats, tokens and their refresh, the conversion of events, sending.
- OneBotShell: frames and API calls, the HTTP and webhook transports, marks of refused
  credentials of the other transports, the cancellation of the application's context, a
  reload between the route's check that the reverse transport is enabled and the attachment.
  Some neighbouring critical sections are one step: the mark of a connection and the start of
  its worker, the end of a connection and its removal, the supervisor's departure and
  its cancel.

## Reading and running

Start with `OperationGate` (short; its proofs are the first part of `Plugin_proofs`), then `TaskRecords` and
`TaskExecutor`, `WindowLimiter`, `Scheduler`, `Dispatcher`, `Lifecycle`; the modules of the
other components can be read in any order. `PROJECT.json` maps each definition to the lines it models
and lists runs, mutants, hazards and theorems.

    tlc -workers 2 -config MCLifecycle.cfg MCLifecycle
    tlapm Plugin_proofs.tla

The longest runs take one to four minutes with two workers (`bot`, `platform`,
`dispatch_shutdown`, `lifecycle`, `scheduler`), the others less than one; each proof module
takes between one and ten minutes from nothing.
