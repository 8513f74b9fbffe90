------------------------------ MODULE Dispatcher ------------------------------
(***************************************************************************)
(* The event dispatcher of the bot pipeline: the registry of plugin slots, *)
(* the admission of events onto bounded queues, the per-slot worker that   *)
(* keeps one delivery per lane, the layered (priority) delivery of         *)
(* messages, and the retirement of slots by Register, SwapPlugin,          *)
(* DrainPlugin, Deregister, DrainAll and Close.                            *)
(*                                                                         *)
(* A slot <<p, g>> is the g-th pluginSlot created for plugin p; a delivery *)
(* <<e, p>> is the dispatchItem and Completion of event e for plugin p.    *)
(* Payloads, logs, statistics and outbound actions are abstracted away.    *)
(***************************************************************************)
EXTENDS Naturals, Sequences, FiniteSets

CONSTANTS
  Plugins,             \* plugin ids
  Events,              \* one element per call of a Dispatch method
  Lanes,               \* lane keys; an event without a target has its own
  MaxGen,              \* bound: slots created for one plugin
  EventLimit,          \* queueSize
  ControlLimit,        \* controlQueueSize
  InitiallyRegistered, \* plugins whose first slot exists initially
  Kind,                \* [Events -> {"message","broadcast","direct","process"}]
  Target,              \* [Events -> Plugins], used by "direct" and "process"
  Control,             \* events for which isControlEvent is true
  Scheduled,           \* direct events that carry a scheduler run
  Cancelable,          \* events whose caller may cancel its context
  Lane,                \* [Events -> Lanes]
  Subscribes,          \* [Events -> SUBSET Slots]: slotAcceptsEvent
  Resolved,            \* events whose command ingress resolved per plugin
  CommandTargets,      \* [Events -> SUBSET Plugins], of a resolved command
  Declares,            \* [Events -> SUBSET Slots]: slotDeclaresCommand
  Priority,            \* [Slots -> Nat]: messagePolicy.Priority
  Block,               \* slots whose messagePolicy.Block is true
  Concurrency,         \* [Slots -> Nat \ {0}]
  Answers,             \* what DeliverEvent may answer in an instance
  Ops,                 \* [Plugins -> SUBSET ...]: those an instance explores
  MayShutDown          \* whether an instance explores the shutdown

Slots == Plugins \X (1..MaxGen)
Deliveries == Events \X Plugins

\* "queued": in a channel; "parked": in pendingByLane; "settled": the completion
\* is finished; "released": the worker has freed the lane.
Statuses == {"none", "rejected", "queued", "parked", "started", "delivering",
             "settled", "released"}
\* "pass" is a success without a propagation answer.
Results == {"none", "pass", "stop", "continue", "failed", "canceled", "skipped"}

ASSUME ConstantsAssumption ==
  /\ IsFiniteSet(Plugins) /\ Plugins # {}
  /\ MaxGen \in Nat \ {0} /\ EventLimit \in Nat \ {0} /\ ControlLimit \in Nat \ {0}
  /\ InitiallyRegistered \subseteq Plugins
  /\ Kind \in [Events -> {"message", "broadcast", "direct", "process"}]
  /\ Target \in [Events -> Plugins]
  /\ Control \subseteq Events /\ Cancelable \subseteq Events
  /\ Scheduled \subseteq {e \in Events : Kind[e] = "direct"}
  /\ \A e \in Control : Kind[e] # "message"
  /\ Lane \in [Events -> Lanes]
  /\ Subscribes \in [Events -> SUBSET Slots]
  /\ Declares \in [Events -> SUBSET Slots]
  /\ Resolved \subseteq Events
  /\ CommandTargets \in [Events -> SUBSET Plugins]
  /\ Priority \in [Slots -> Nat] /\ Block \subseteq Slots
  /\ Concurrency \in [Slots -> Nat \ {0}]
  /\ Answers \subseteq {"pass", "stop", "continue", "failed"} /\ Answers # {}
  /\ Ops \in [Plugins -> SUBSET {"register", "swap", "drain", "deregister", "crash"}]
  /\ MayShutDown \in BOOLEAN

VARIABLES
  \* the registry (Dispatcher.mu)
  created,     \* [Plugins -> 0..MaxGen]: slots created so far
  current,     \* [Plugins -> 0..MaxGen]: generation in d.slots, 0 if none
  retired,     \* d.retired
  closed,      \* d.closed
  closing,     \* d.closing is closed
  \* the slots
  accepting,   \* slots with accepting = true (their channels are open)
  canceled,    \* slots whose ctx is canceled
  exited,      \* slots whose done channel is closed
  ready,       \* slots whose runtime answers ReadyForEvents
  eventQueue, controlQueue,       \* [Slots -> Seq(Deliveries)]: the channels
  pendingEvents, pendingControl,  \* [Slots -> Nat]: counters under queueMu
  \* the worker of each slot
  pendingByLane, \* [Slots -> [Lanes -> Seq(Deliveries)]]
  lanes,         \* [Slots -> SUBSET Lanes]: laneQueue.present
  polled,        \* slots whose worker found no control item and is in select
  \* the calls of Dispatch*, admissionMu is held by the one that is "admitting"
  call, todo,    \* phase of each call, and its targets not yet enqueued
  pin,           \* [Deliveries -> 0..MaxGen]: enqueueOptions.expected / owner
  layer,         \* [Deliveries -> Nat]: 0 without a layer, 1 without a gate
  open,          \* [Events -> Nat]: advanceLayers' current layer, 0 before it
  stopLayer,     \* [Events -> Nat]: layer that stopped propagation, 0 if none
  \* the deliveries
  status, gen, result,
  background,    \* deliveries with a detachedRuns goroutine
  records,       \* [Deliveries -> Nat]: RecordRunResult calls
  \* the registry operation in progress for each plugin, and the shutdown
  op, opGen, shutdown, closeSet,
  \* history
  log,           \* [Slots -> Seq(Deliveries)]: deliveries in admission order
  overtook       \* [Slots -> Nat]: ordinary items pulled past a control item

registry == <<created, current, retired, closed, closing>>
slotVars == <<accepting, canceled, exited, ready>>
queues == <<eventQueue, controlQueue, pendingEvents, pendingControl>>
worker == <<pendingByLane, lanes, polled, overtook>>
calls == <<call, todo, pin, layer, open, stopLayer, gen, log>>
ends == <<result, background, records>>
opVars == <<op, opGen, shutdown, closeSet>>
vars == <<registry, slotVars, queues, worker, calls, status, ends, opVars>>

-----------------------------------------------------------------------------
Current(p) == <<p, current[p]>>
SlotOf(d) == <<d[2], gen[d]>>
Live == {s \in Slots : s[2] <= created[s[1]] /\ s \notin exited}

\* slotIsDeliverable
Deliverable(p) == current[p] > 0 /\ Current(p) \in ready

\* commandTargets: the deliverable plugins a command is addressed to.
CommandTargetsOf(e) ==
  IF e \in Resolved
  THEN {p \in CommandTargets[e] : Deliverable(p)}
  ELSE {p \in Plugins : Deliverable(p) /\ Current(p) \in Declares[e]}

\* The routes that rebuildMessageRoutesLocked derives in every registry change.
Subscribers(e) == {p \in Plugins : Deliverable(p) /\ Current(p) \in Subscribes[e]}

\* selectTargets: a command is never broadcast when ingress named its targets.
SelectTargets(e) ==
  IF CommandTargetsOf(e) # {} THEN CommandTargetsOf(e)
  ELSE IF e \in Resolved /\ CommandTargets[e] # {} THEN {}
  ELSE Subscribers(e)

\* messageCandidates: prioritised subscribers see a command before its targets.
BeforeCommand(e) ==
  IF CommandTargetsOf(e) = {} THEN {}
  ELSE {p \in Subscribers(e) \ CommandTargetsOf(e) : Priority[Current(p)] > 0}
MessageCandidates(e) == SelectTargets(e) \union BeforeCommand(e)

\* The layer of a candidate: one more than the number of distinct
\* (beforeCommand, Priority) classes that candidateLess puts ahead of its own.
LayerClass(e, p) == <<p \in BeforeCommand(e), Priority[Current(p)]>>
Ahead(c1, c2) == IF c1[1] = c2[1] THEN c1[2] > c2[2] ELSE c1[1]
LayerOf(e, p) ==
  LET classes == {LayerClass(e, q) : q \in MessageCandidates(e)}
  IN  1 + Cardinality({c \in classes : Ahead(c, LayerClass(e, p))})

LastLayer(e, k) == \A p \in Plugins : layer[<<e, p>>] <= k

\* advanceLayers: what stops propagation, by the policy of the selected slot.
Stops(d) == \/ result[d] = "stop"
            \/ result[d] = "pass" /\ <<d[2], pin[d]>> \in Block

Waiting(d) == status[d] \in {"queued", "parked"}
Finished(d) == status[d] \in {"rejected", "settled", "released"}
Accepted(d) == status[d] \notin {"none", "rejected"}

Active(s) == {d \in Deliveries : /\ SlotOf(d) = s
                                 /\ status[d] \in {"started", "delivering", "settled"}}
ActiveLanes(s) == {Lane[d[1]] : d \in Active(s)}
HasCapacity(s) == Cardinality(Active(s)) < Concurrency[s]

-----------------------------------------------------------------------------
Init ==
  /\ created = [p \in Plugins |-> IF p \in InitiallyRegistered THEN 1 ELSE 0]
  /\ current = created
  /\ accepting = InitiallyRegistered \X {1} /\ ready = accepting
  /\ retired = {} /\ canceled = {} /\ exited = {} /\ polled = {}
  /\ closed = FALSE /\ closing = FALSE
  /\ eventQueue = [s \in Slots |-> <<>>] /\ controlQueue = [s \in Slots |-> <<>>]
  /\ pendingEvents = [s \in Slots |-> 0] /\ pendingControl = [s \in Slots |-> 0]
  /\ pendingByLane = [s \in Slots |-> [l \in Lanes |-> <<>>]]
  /\ lanes = [s \in Slots |-> {}]
  /\ call = [e \in Events |-> "idle"] /\ todo = [e \in Events |-> {}]
  /\ pin = [d \in Deliveries |-> 0] /\ layer = [d \in Deliveries |-> 0]
  /\ open = [e \in Events |-> 0] /\ stopLayer = [e \in Events |-> 0]
  /\ status = [d \in Deliveries |-> "none"] /\ gen = [d \in Deliveries |-> 0]
  /\ result = [d \in Deliveries |-> "none"]
  /\ background = {} /\ records = [d \in Deliveries |-> 0]
  /\ op = [p \in Plugins |-> "idle"] /\ opGen = [p \in Plugins |-> 0]
  /\ shutdown = "running" /\ closeSet = {}
  /\ log = [s \in Slots |-> <<>>] /\ overtook = [s \in Slots |-> 0]

-----------------------------------------------------------------------------
(* Admission.                                                              *)

\* Mutant: nobody takes admissionMu.
AdmissionFreeMutant == TRUE
AdmissionFree == \A x \in Events : call[x] # "admitting"

\* dispatchLayered up to the first enqueueTarget: with admissionMu held, the
\* candidates, their slots and their layers are fixed under one read lock.
DispatchLayered(e) ==
  /\ Kind[e] = "message" /\ call[e] = "idle" /\ AdmissionFree
  /\ IF closed \/ MessageCandidates(e) = {}
     THEN /\ call' = [call EXCEPT ![e] = "returned"]
          /\ UNCHANGED <<todo, pin, layer>>
     ELSE /\ call' = [call EXCEPT ![e] = "admitting"]
          /\ todo' = [todo EXCEPT ![e] = MessageCandidates(e)]
          /\ pin' = [d \in Deliveries |->
                       IF d[1] = e /\ d[2] \in MessageCandidates(e)
                       THEN current[d[2]] ELSE pin[d]]
          /\ layer' = [d \in Deliveries |->
                       IF d[1] = e /\ d[2] \in MessageCandidates(e)
                       THEN LayerOf(e, d[2]) ELSE layer[d]]
  /\ UNCHANGED <<registry, slotVars, queues, worker, open, stopLayer, gen, log,
                 status, ends, opVars>>

\* Dispatch of any other event, or dispatchOne: the targets are known before
\* the call has admissionMu.
TargetsOf(e) == IF Kind[e] = "broadcast" THEN SelectTargets(e) ELSE {Target[e]}
DispatchSelect(e) ==
  /\ Kind[e] \in {"broadcast", "direct"} /\ call[e] = "idle"
  /\ todo' = [todo EXCEPT ![e] = TargetsOf(e)]
  /\ call' = [call EXCEPT ![e] = IF TargetsOf(e) = {} THEN "returned" ELSE "selected"]
  /\ UNCHANGED <<registry, slotVars, queues, worker, pin, layer, open, stopLayer,
                 gen, log, status, ends, opVars>>

\* enqueueTargets takes admissionMu.
EnqueueTargets(e) ==
  /\ call[e] = "selected" /\ AdmissionFree
  /\ call' = [call EXCEPT ![e] = "admitting"]
  /\ UNCHANGED <<registry, slotVars, queues, worker, todo, pin, layer, open, stopLayer,
                 gen, log, status, ends, opVars>>

\* DispatchToProcess: the caller holds the Done channel of one process of the
\* plugin, the one of any slot created so far.
DispatchToProcess(e) ==
  /\ Kind[e] = "process" /\ call[e] = "idle" /\ AdmissionFree
  /\ \E g \in 1..created[Target[e]] :
       pin' = [pin EXCEPT ![<<e, Target[e]>>] = g]
  /\ todo' = [todo EXCEPT ![e] = {Target[e]}]
  /\ call' = [call EXCEPT ![e] = "admitting"]
  /\ UNCHANGED <<registry, slotVars, queues, worker, layer, open, stopLayer,
                 gen, log, status, ends, opVars>>

\* enqueueTarget and tryEnqueue, in one step because mu and queueMu are held.
\* Mutant: the slot selected by the caller is not compared.
SameGenerationMutant(d) == pin[d] \in 0..MaxGen
SameGeneration(d) == pin[d] \in {0, current[d[2]]}
HasRoom(d, s) == IF d[1] \in Control THEN pendingControl[s] < ControlLimit
                 ELSE pendingEvents[s] < EventLimit
Admissible(d) ==
  /\ Deliverable(d[2]) /\ SameGeneration(d)
  /\ Current(d[2]) \in accepting /\ HasRoom(d, Current(d[2]))

\* Targets are enqueued in the order of the layers.
NextTarget(d) ==
  /\ call[d[1]] = "admitting" /\ d[2] \in todo[d[1]]
  /\ \A q \in todo[d[1]] : layer[d] <= layer[<<d[1], q>>]

EnqueueAccept(d) ==
  LET s == Current(d[2]) IN
  /\ NextTarget(d) /\ Admissible(d)
  /\ todo' = [todo EXCEPT ![d[1]] = @ \ {d[2]}]
  /\ IF d[1] \in Control
     THEN /\ controlQueue' = [controlQueue EXCEPT ![s] = Append(@, d)]
          /\ pendingControl' = [pendingControl EXCEPT ![s] = @ + 1]
          /\ UNCHANGED <<eventQueue, pendingEvents>>
     ELSE /\ eventQueue' = [eventQueue EXCEPT ![s] = Append(@, d)]
          /\ pendingEvents' = [pendingEvents EXCEPT ![s] = @ + 1]
          /\ UNCHANGED <<controlQueue, pendingControl>>
  /\ gen' = [gen EXCEPT ![d] = s[2]]
  /\ status' = [status EXCEPT ![d] = "queued"]
  /\ log' = [log EXCEPT ![s] = Append(@, d)]
  /\ UNCHANGED <<registry, slotVars, worker, call, pin, layer, open, stopLayer,
                 ends, opVars>>

\* Every refusal finishes the completion without success. A refused scheduled
\* run is recorded by the lifecycle's trigger handler.
Refuse(d) == /\ status' = [status EXCEPT ![d] = "rejected"]
             /\ result' = [result EXCEPT ![d] = "failed"]

EnqueueReject(d) ==
  /\ NextTarget(d) /\ (~Admissible(d) \/ d[1] \in Cancelable)
  /\ todo' = [todo EXCEPT ![d[1]] = @ \ {d[2]}]
  /\ Refuse(d)
  /\ records' = [records EXCEPT ![d] = IF d[1] \in Scheduled THEN @ + 1 ELSE @]
  /\ UNCHANGED <<registry, slotVars, queues, worker, call, pin, layer, open,
                 stopLayer, gen, log, background, opVars>>

\* The call starts advanceLayers when it has gated layers, frees admissionMu.
FirstLayer(e) == IF LastLayer(e, 1) THEN 0 ELSE 1

DispatchReturn(e) ==
  /\ call[e] = "admitting" /\ todo[e] = {}
  /\ call' = [call EXCEPT ![e] = "returned"]
  /\ open' = [open EXCEPT ![e] = FirstLayer(e)]
  /\ UNCHANGED <<registry, slotVars, queues, worker, todo, pin, layer, stopLayer,
                 gen, log, status, ends, opVars>>

-----------------------------------------------------------------------------
(* The worker of a slot.                                                   *)

\* startReadyLanes runs to its end before the worker looks at anything else.
Startable(s, l) == /\ l \in lanes[s] /\ l \notin ActiveLanes(s)
                   /\ pendingByLane[s][l] # <<>> /\ HasCapacity(s)
LanesStarted(s) == s \in Live /\ \A l \in Lanes : ~Startable(s, l)

\* markStarted: the counters bound the items accepted and not yet started.
MarkStarted(d, s) ==
  IF d[1] \in Control
  THEN pendingControl' = [pendingControl EXCEPT ![s] = IF @ > 0 THEN @ - 1 ELSE @]
       /\ UNCHANGED pendingEvents
  ELSE pendingEvents' = [pendingEvents EXCEPT ![s] = IF @ > 0 THEN @ - 1 ELSE @]
       /\ UNCHANGED pendingControl

\* At most one lane is startable: the one whose completion was just handled.
StartReadyLane(s, l) ==
  /\ s \in Live /\ Startable(s, l)
  /\ LET d == Head(pendingByLane[s][l]) IN
     /\ status' = [status EXCEPT ![d] = "started"] /\ MarkStarted(d, s)
  /\ pendingByLane' = [pendingByLane EXCEPT ![s][l] = Tail(@)]
  /\ lanes' = [lanes EXCEPT ![s] = IF Len(pendingByLane[s][l]) = 1 THEN @ \ {l} ELSE @]
  /\ UNCHANGED <<registry, slotVars, eventQueue, controlQueue, polled, overtook,
                 calls, ends, opVars>>

\* The worker's enqueue: start the item, or keep it behind its lane.
\* Mutant: the lane of the item may be active.
CanStartMutant(s, l) == pendingByLane[s][l] = <<>> /\ HasCapacity(s)
CanStart(s, l) ==
  l \notin ActiveLanes(s) /\ pendingByLane[s][l] = <<>> /\ HasCapacity(s)
WorkerEnqueue(s, d) ==
  LET l == Lane[d[1]] IN
  IF CanStart(s, l)
  THEN /\ status' = [status EXCEPT ![d] = "started"] /\ MarkStarted(d, s)
       /\ UNCHANGED <<pendingByLane, lanes>>
  ELSE /\ pendingByLane' = [pendingByLane EXCEPT ![s][l] = Append(@, d)]
       /\ lanes' = [lanes EXCEPT ![s] = IF l \in ActiveLanes(s) THEN @ ELSE @ \union {l}]
       /\ status' = [status EXCEPT ![d] = "parked"]
       /\ UNCHANGED <<pendingEvents, pendingControl>>

\* The non-blocking receive that prefers the control queue. A closed, empty
\* queue reads as empty here, and turns the worker's queue variable to nil.
PollControl(s) ==
  /\ LanesStarted(s) /\ HasCapacity(s) /\ s \notin polled
  /\ controlQueue[s] = <<>>
  /\ polled' = polled \union {s}
  /\ UNCHANGED <<registry, slotVars, queues, pendingByLane, lanes, overtook, calls,
                 status, ends, opVars>>

\* By the first receive or by the select.
PullControl(s) ==
  /\ LanesStarted(s) /\ HasCapacity(s) /\ controlQueue[s] # <<>>
  /\ controlQueue' = [controlQueue EXCEPT ![s] = Tail(@)]
  /\ polled' = polled \ {s} /\ overtook' = [overtook EXCEPT ![s] = 0]
  /\ WorkerEnqueue(s, Head(controlQueue[s]))
  /\ UNCHANGED <<registry, slotVars, eventQueue, calls, ends, opVars>>

\* Mutant: one select over both queues, without the first receive.
InSelectMutant(s) == TRUE
InSelect(s) == s \in polled

\* Mutant: the newest item is taken first.
PullEventMutant(s) ==
  LET n == Len(eventQueue[s]) IN
  /\ LanesStarted(s) /\ HasCapacity(s) /\ InSelect(s) /\ n > 0
  /\ eventQueue' = [eventQueue EXCEPT ![s] = SubSeq(@, 1, n - 1)]
  /\ polled' = polled \ {s}
  /\ overtook' = [overtook EXCEPT ![s] = IF controlQueue[s] = <<>> THEN 0 ELSE @ + 1]
  /\ WorkerEnqueue(s, eventQueue[s][n])
  /\ UNCHANGED <<registry, slotVars, controlQueue, calls, ends, opVars>>

PullEvent(s) ==
  /\ LanesStarted(s) /\ HasCapacity(s) /\ InSelect(s) /\ eventQueue[s] # <<>>
  /\ eventQueue' = [eventQueue EXCEPT ![s] = Tail(@)]
  /\ polled' = polled \ {s}
  /\ overtook' = [overtook EXCEPT ![s] = IF controlQueue[s] = <<>> THEN 0 ELSE @ + 1]
  /\ WorkerEnqueue(s, Head(eventQueue[s]))
  /\ UNCHANGED <<registry, slotVars, controlQueue, calls, ends, opVars>>

\* The select handles a lane's completion: the lane is free again, and back
\* among the ready lanes when more items wait for it.
RequeueLane(s, l) == IF pendingByLane[s][l] = <<>> THEN lanes[s] ELSE lanes[s] \union {l}

HandleCompletion(s, d) ==
  /\ LanesStarted(s) /\ SlotOf(d) = s /\ status[d] = "settled"
  /\ s \in polled \/ ~HasCapacity(s)
  /\ status' = [status EXCEPT ![d] = "released"]
  /\ lanes' = [lanes EXCEPT ![s] = RequeueLane(s, Lane[d[1]])]
  /\ polled' = polled \ {s}
  /\ UNCHANGED <<registry, slotVars, queues, pendingByLane, overtook, calls, ends,
                 opVars>>

\* Both queues are closed and drained, nothing is active and nothing waits:
\* the worker cancels the slot's context and closes done.
\* Mutant: the ordinary queue is closed but may still hold items.
DrainedMutant(s) == /\ s \notin accepting /\ Active(s) = {} /\ controlQueue[s] = <<>>
                    /\ \A l \in Lanes : pendingByLane[s][l] = <<>>
Drained(s) == /\ s \notin accepting /\ Active(s) = {}
              /\ eventQueue[s] = <<>> /\ controlQueue[s] = <<>>
              /\ \A l \in Lanes : pendingByLane[s][l] = <<>>

WorkerExit(s) ==
  /\ LanesStarted(s) /\ Drained(s)
  /\ canceled' = canceled \union {s} /\ exited' = exited \union {s}
  /\ polled' = polled \ {s}
  /\ UNCHANGED <<registry, accepting, ready, queues, pendingByLane, lanes, overtook,
                 calls, status, ends, opVars>>

-----------------------------------------------------------------------------
(* deliverLaneItem, on an executor goroutine of the slot.                  *)

\* Mutant: the gates open when the layer goroutine starts.
GateOpenMutant(d) == layer[d] <= 1 \/ open[d[1]] > 0
GateOpen(d) == layer[d] <= 1 \/ open[d[1]] >= layer[d]
GateSkips(d) == layer[d] > 1 /\ stopLayer[d[1]] \in 1..(layer[d] - 1)

Settle(d, r) == /\ status' = [status EXCEPT ![d] = "settled"]
                /\ result' = [result EXCEPT ![d] = r]
Record(d) == records' = [records EXCEPT ![d] = IF d[1] \in Scheduled THEN @ + 1 ELSE @]

\* Up to DeliverEvent: cancellation ends the wait at the gate.
PassGate(d) ==
  /\ status[d] = "started"
  /\ \/ SlotOf(d) \in canceled /\ Settle(d, "canceled") /\ Record(d)
     \/ /\ SlotOf(d) \notin canceled /\ GateOpen(d) /\ GateSkips(d)
        /\ Settle(d, "skipped") /\ UNCHANGED records
     \/ /\ SlotOf(d) \notin canceled /\ GateOpen(d) /\ ~GateSkips(d)
        /\ SlotOf(d) \notin ready
        /\ Settle(d, "failed") /\ Record(d)
     \/ /\ SlotOf(d) \notin canceled /\ GateOpen(d) /\ ~GateSkips(d)
        /\ SlotOf(d) \in ready
        /\ status' = [status EXCEPT ![d] = "delivering"] /\ UNCHANGED <<result, records>>
  /\ UNCHANGED <<registry, slotVars, queues, worker, calls, background, opVars>>

Detach(d) == Settle(d, "pass") /\ background' = background \union {d} /\ UNCHANGED records

\* DeliverEvent returns, at the latest at the event's deadline: with an answer,
\* an error, or (a scheduled run) moved to the background by event.detach.
DeliverReturn(d) ==
  /\ status[d] = "delivering"
  /\ \/ /\ \E r \in Answers : Settle(d, r)
        /\ Record(d) /\ UNCHANGED background
     \/ SlotOf(d) \in canceled /\ Settle(d, "canceled") /\ Record(d) /\ UNCHANGED background
     \/ d[1] \in Scheduled /\ Detach(d)
  /\ UNCHANGED <<registry, slotVars, queues, worker, calls, opVars>>

\* The detachedRuns goroutine: the background event ended, or Close released it.
BackgroundEnd(d) ==
  /\ d \in background /\ background' = background \ {d}
  /\ Record(d) \/ (closing /\ UNCHANGED records)
  /\ UNCHANGED <<registry, slotVars, queues, worker, calls, status, result, opVars>>

\* advanceLayers: every delivery of the layer has completed, so the next gate
\* opens, with skip set once some delivery has stopped propagation.
AdvanceLayer(e) ==
  LET members == {d \in Deliveries : d[1] = e /\ layer[d] = open[e]} IN
  /\ open[e] > 0 /\ ~LastLayer(e, open[e] - 1)
  /\ \A d \in members : Finished(d)
  /\ open' = [open EXCEPT ![e] = @ + 1]
  /\ stopLayer' = [stopLayer EXCEPT ![e] =
                     IF @ = 0 /\ (\E d \in members : Stops(d)) THEN open[e] ELSE @]
  /\ UNCHANGED <<registry, slotVars, queues, worker, call, todo, pin, layer, gen, log,
                 status, ends, opVars>>

-----------------------------------------------------------------------------
(* The registry. The lifecycle serialises the operations of one plugin.    *)

NewSlot(p) ==
  /\ created[p] < MaxGen
  /\ created' = [created EXCEPT ![p] = @ + 1]
  /\ current' = [current EXCEPT ![p] = created[p] + 1]
  /\ retired' = IF current[p] > 0 THEN retired \union {Current(p)} ELSE retired
  /\ accepting' = accepting \union {<<p, created[p] + 1>>}
  /\ ready' = ready \union {<<p, created[p] + 1>>}

SetOp(p, phase, g) ==
  op' = [op EXCEPT ![p] = phase] /\ opGen' = [opGen EXCEPT ![p] = g]

\* Register and SwapPlugin publish an initialised runtime under mu; the queues
\* of the slot they replace are closed after the unlock.
Publish(p) ==
  /\ op[p] = "idle" /\ ~closed /\ NewSlot(p)
  /\ \E kind \in {"register", "swap"} \intersect Ops[p] :
       IF current[p] > 0 THEN SetOp(p, kind, current[p]) ELSE UNCHANGED <<op, opGen>>
  /\ UNCHANGED <<closed, closing, canceled, exited, queues, worker, calls, status,
                 ends, shutdown, closeSet>>

\* closeQueues; Register and Deregister also cancel what the slot holds.
CloseReplaced(p) ==
  /\ op[p] \in {"register", "swap", "deregister"}
  /\ accepting' = accepting \ {<<p, opGen[p]>>}
  /\ IF op[p] = "swap" THEN UNCHANGED canceled
     ELSE canceled' = canceled \union {<<p, opGen[p]>>}
  /\ CASE op[p] = "register" -> SetOp(p, "idle", 0)
       [] op[p] = "swap" -> SetOp(p, "draining swapped", opGen[p])
       [] op[p] = "deregister" -> SetOp(p, "awaiting exit", opGen[p])
  /\ UNCHANGED <<registry, exited, ready, queues, worker, calls, status, ends,
                 shutdown, closeSet>>

\* DrainPlugin closes the queues of the registered slot in place.
DrainPlugin(p) ==
  /\ "drain" \in Ops[p] /\ op[p] = "idle" /\ current[p] > 0
  /\ accepting' = accepting \ {Current(p)}
  /\ SetOp(p, "draining", current[p])
  /\ UNCHANGED <<registry, canceled, exited, ready, queues, worker, calls, status,
                 ends, shutdown, closeSet>>

\* Drain.Wait returns when the worker is done or the budget expires, and
\* cancels the slot either way. The owner then stops the old process and, for
\* DrainPlugin, deregisters the plugin.
DrainWait(p) ==
  /\ op[p] \in {"draining", "draining swapped"}
  /\ canceled' = canceled \union {<<p, opGen[p]>>}
  /\ IF op[p] = "draining" THEN SetOp(p, "drained", opGen[p]) ELSE SetOp(p, "idle", 0)
  /\ UNCHANGED <<registry, accepting, exited, ready, queues, worker, calls, status,
                 ends, shutdown, closeSet>>

Deregister(p) ==
  /\ op[p] = "drained" \/ ("deregister" \in Ops[p] /\ op[p] = "idle")
  /\ IF current[p] = 0
     THEN SetOp(p, "idle", 0) /\ UNCHANGED current
     ELSE SetOp(p, "deregister", current[p]) /\ current' = [current EXCEPT ![p] = 0]
  /\ UNCHANGED <<created, retired, closed, closing, slotVars, queues, worker, calls,
                 status, ends, shutdown, closeSet>>

DeregisterReturn(p) ==
  /\ op[p] = "awaiting exit" /\ <<p, opGen[p]>> \in exited
  /\ SetOp(p, "idle", 0)
  /\ UNCHANGED <<registry, slotVars, queues, worker, calls, status, ends, shutdown,
                 closeSet>>

\* retireSlotLocked's goroutine.
ForgetRetired(s) ==
  /\ s \in retired /\ s \in exited
  /\ retired' = retired \ {s}
  /\ UNCHANGED <<created, current, closed, closing, slotVars, queues, worker, calls,
                 status, ends, opVars>>

\* The runtime of a slot stops running: a crash, or a stop by its owner.
RuntimeStops(s) ==
  /\ "crash" \in Ops[s[1]] /\ s \in ready
  /\ ready' = ready \ {s}
  /\ UNCHANGED <<registry, accepting, canceled, exited, queues, worker, calls, status,
                 ends, opVars>>

-----------------------------------------------------------------------------
(* Shutdown: DrainAll with its budget, StopAll, then Close.                *)

RegisteredSlots == {Current(p) : p \in {q \in Plugins : current[q] > 0}}

\* Mutant: slots replaced by Register or SwapPlugin are forgotten.
SlotsToCloseMutant == RegisteredSlots
SlotsToClose == RegisteredSlots \union retired

DrainAll ==
  /\ MayShutDown /\ shutdown = "running"
  /\ shutdown' = "draining" /\ closed' = TRUE
  /\ closeSet' = SlotsToClose
  /\ accepting' = accepting \ closeSet'
  /\ UNCHANGED <<created, current, retired, closing, canceled, exited, ready, queues,
                 worker, calls, status, ends, op, opGen>>

\* Drain.Wait for one slot; the shared budget may have expired.
DrainAllWait(s) ==
  /\ shutdown = "draining" /\ s \in closeSet
  /\ canceled' = canceled \union {s} /\ closeSet' = closeSet \ {s}
  /\ UNCHANGED <<registry, accepting, exited, ready, queues, worker, calls, status,
                 ends, op, opGen, shutdown>>

\* StopAll has stopped the runtimes it could; Close then empties the registry.
\* It does not depend on DrainAll, whose phase may have spent its budget before.
Close ==
  /\ (shutdown = "draining" /\ closeSet = {}) \/ (shutdown = "running" /\ MayShutDown)
  /\ AdmissionFree
  /\ shutdown' = "closing" /\ closed' = TRUE /\ closing' = TRUE
  /\ closeSet' = SlotsToClose
  /\ current' = [p \in Plugins |-> 0] /\ retired' = {}
  /\ UNCHANGED <<created, slotVars, queues, worker, calls, status, ends, op, opGen>>

CloseSlot(s) ==
  /\ shutdown = "closing" /\ s \in closeSet /\ (s \in accepting \/ s \notin canceled)
  /\ accepting' = accepting \ {s} /\ canceled' = canceled \union {s}
  /\ UNCHANGED <<registry, exited, ready, queues, worker, calls, status, ends, opVars>>

\* Close waits for the workers, then layersDone, then detachedRuns.
CloseReturn ==
  /\ shutdown = "closing" /\ closeSet \subseteq exited
  /\ \A e \in Events : open[e] > 0 => LastLayer(e, open[e] - 1)
  /\ background = {}
  /\ shutdown' = "closed"
  /\ UNCHANGED <<registry, slotVars, queues, worker, calls, status, ends, op, opGen,
                 closeSet>>

-----------------------------------------------------------------------------
BeginCall(e) == DispatchLayered(e) \/ DispatchSelect(e) \/ DispatchToProcess(e)

CallStep(e) ==
  \/ EnqueueTargets(e) \/ DispatchReturn(e)
  \/ \E p \in Plugins : EnqueueAccept(<<e, p>>) \/ EnqueueReject(<<e, p>>)

WorkerStep(s) ==
  \/ \E l \in Lanes : StartReadyLane(s, l)
  \/ PollControl(s) \/ PullControl(s) \/ PullEvent(s) \/ WorkerExit(s)
  \/ \E d \in Deliveries : HandleCompletion(s, d)

DeliveryStep(d) == PassGate(d) \/ DeliverReturn(d) \/ BackgroundEnd(d)

RegistryStep(p) ==
  \/ Publish(p) \/ CloseReplaced(p) \/ DrainPlugin(p) \/ DrainWait(p)
  \/ Deregister(p) \/ DeregisterReturn(p)

ShutdownStep ==
  \/ DrainAll \/ Close \/ CloseReturn
  \/ \E s \in Slots : DrainAllWait(s) \/ CloseSlot(s)

Next ==
  \/ \E e \in Events : BeginCall(e) \/ CallStep(e) \/ AdvanceLayer(e)
  \/ \E s \in Slots : WorkerStep(s) \/ ForgetRetired(s) \/ RuntimeStops(s)
  \/ \E d \in Deliveries : DeliveryStep(d)
  \/ \E p \in Plugins : RegistryStep(p)
  \/ ShutdownStep

\* As long as a goroutine can run, some goroutine runs: callers inside admissionMu,
\* workers, executors and layer goroutines, Close. This is less than fairness
\* to each of them, and enough, because every one of them has finitely much to
\* do. DeliverEvent returns by its deadline. Nothing forces a new call, a
\* registry operation, a crash, a shutdown, or the end of a drain's budget.
Progress ==
  \/ \E e \in Events : CallStep(e) \/ AdvanceLayer(e)
  \/ \E d \in Deliveries : DeliveryStep(d)
  \/ \E s \in Slots : WorkerStep(s) \/ CloseSlot(s)
  \/ \E p \in Plugins : CloseReplaced(p) \/ DeregisterReturn(p)
  \/ CloseReturn

Spec == Init /\ [][Next]_vars
FairSpec == Spec /\ WF_vars(Progress)

-----------------------------------------------------------------------------
(* Properties.                                                             *)

TypeRegistry ==
  /\ created \in [Plugins -> 0..MaxGen] /\ current \in [Plugins -> 0..MaxGen]
  /\ retired \subseteq Slots /\ closed \in BOOLEAN /\ closing \in BOOLEAN
TypeSlots ==
  /\ accepting \subseteq Slots /\ canceled \subseteq Slots
  /\ exited \subseteq Slots /\ ready \subseteq Slots
TypeQueues ==
  /\ eventQueue \in [Slots -> Seq(Deliveries)]
  /\ controlQueue \in [Slots -> Seq(Deliveries)]
  /\ pendingEvents \in [Slots -> Nat] /\ pendingControl \in [Slots -> Nat]
TypeWorker ==
  /\ pendingByLane \in [Slots -> [Lanes -> Seq(Deliveries)]]
  /\ lanes \in [Slots -> SUBSET Lanes] /\ polled \subseteq Slots
  /\ overtook \in [Slots -> Nat]
TypeCalls ==
  /\ call \in [Events -> {"idle", "selected", "admitting", "returned"}]
  /\ todo \in [Events -> SUBSET Plugins]
  /\ pin \in [Deliveries -> 0..MaxGen] /\ gen \in [Deliveries -> 0..MaxGen]
  /\ layer \in [Deliveries -> Nat]
  /\ open \in [Events -> Nat] /\ stopLayer \in [Events -> Nat]
  /\ log \in [Slots -> Seq(Deliveries)]
TypeDeliveries ==
  /\ status \in [Deliveries -> Statuses] /\ result \in [Deliveries -> Results]
  /\ background \subseteq Deliveries /\ records \in [Deliveries -> Nat]
TypeOps ==
  /\ op \in [Plugins -> {"idle", "register", "swap", "draining swapped", "draining",
                         "drained", "deregister", "awaiting exit"}]
  /\ opGen \in [Plugins -> 0..MaxGen]
  /\ \A p \in Plugins : op[p] # "idle" => opGen[p] > 0
  /\ shutdown \in {"running", "draining", "closing", "closed"}
  /\ closeSet \subseteq Slots
TypeOK ==
  /\ TypeRegistry /\ TypeSlots /\ TypeQueues /\ TypeWorker
  /\ TypeCalls /\ TypeDeliveries /\ TypeOps

\* The counters under queueMu are exactly the accepted deliveries that have not
\* started, so a send inside queueMu and mu never finds its channel full: items
\* parked behind a lane still count although the channel has room again.
QueuesBounded ==
  \A s \in Slots :
    LET held == {d \in Deliveries : SlotOf(d) = s /\ Waiting(d)} IN
    /\ pendingControl[s] = Cardinality({d \in held : d[1] \in Control})
    /\ pendingEvents[s] = Cardinality({d \in held : d[1] \notin Control})
    /\ Len(eventQueue[s]) <= EventLimit /\ Len(controlQueue[s]) <= ControlLimit

\* Within one lane, and apart from control events, a delivery starts only when
\* every one admitted before it has completed, whatever the worker's capacity,
\* and a slot never runs more than its concurrency.
LaneFIFO ==
  \A s \in Slots :
    /\ Cardinality(Active(s)) <= Concurrency[s]
    /\ \A i, j \in DOMAIN log[s] :
         ( /\ i < j /\ Lane[log[s][i][1]] = Lane[log[s][j][1]]
           /\ (log[s][i][1] \in Control) = (log[s][j][1] \in Control)
           /\ ~Waiting(log[s][j]) )
         => status[log[s][i]] = "released"

\* The queues of a slot are counted exactly and its lanes keep their order,
\* although items move from a channel to a lane and back (worker.go:19-160).
LanesSound == QueuesBounded /\ LaneFIFO

\* The worker's two receives keep control events ahead: while one waits in its
\* channel, at most one ordinary event (a race with the select) is pulled.
ControlOvertakenOnce == \A s \in Slots : overtook[s] <= 1

\* A message is handed to a layer only when every delivery of the layers ahead
\* has completed and none of them stopped propagation; a delivery is skipped
\* only because one ahead of it did.
LayerOrder ==
  \A d \in Deliveries : Accepted(d) /\ layer[d] > 0 =>
    LET ahead == {x \in Deliveries : x[1] = d[1] /\ layer[x] \in 1..(layer[d] - 1)} IN
    /\ (status[d] = "delivering" \/ result[d] \in {"pass", "stop", "continue"}) =>
         \A x \in ahead : Finished(x) /\ ~Stops(x)
    /\ result[d] = "skipped" => \E x \in ahead : Finished(x) /\ Stops(x)

\* The layers of one message agree with the policies of the slots that really
\* hold its deliveries, even when plugins are swapped during its admission: a
\* delivery comes first by a higher priority, or, with any priority at all, before
\* the plugins the message is a command of.
IsCommandOf(e, s) == IF e \in Resolved THEN s[1] \in CommandTargets[e] ELSE s \in Declares[e]
LayersFollowPolicy ==
  \A e \in Events : \A p, q \in Plugins :
    LET d == <<e, p>>   x == <<e, q>> IN
    ( /\ Kind[e] = "message" /\ Accepted(d) /\ Accepted(x) /\ layer[d] < layer[x] )
    => \/ Priority[SlotOf(d)] > Priority[SlotOf(x)]
       \/ /\ Priority[SlotOf(d)] > 0
          /\ ~IsCommandOf(e, SlotOf(d)) /\ IsCommandOf(e, SlotOf(x))

\* Any two events reach all the plugins they share in one order: admission of
\* one event is not interleaved with another's.
SameAdmissionOrder ==
  \A s, t \in Slots : \A i, j \in DOMAIN log[s] : \A k, m \in DOMAIN log[t] :
    (i < j /\ log[s][i][1] = log[t][m][1] /\ log[s][j][1] = log[t][k][1]) => m < k

\* A worker ends only when every delivery its slot accepted has completed: what
\* Drain.Wait, Deregister and Close wait for before a process is stopped.
ExitComplete ==
  \A s \in exited : s \notin accepting
    /\ \A d \in Deliveries : Accepted(d) /\ SlotOf(d) = s => status[d] = "released"

\* When Close has returned nothing of the dispatcher runs any more: every slot
\* it found, registered or retired, has ended with its deliveries and detached
\* runs. The only worker left is that of a Deregister that took its slot out of
\* the registry first and still waits for it.
CloseComplete ==
  shutdown = "closed" =>
    /\ closeSet \subseteq exited
    /\ \A s \in Live : op[s[1]] \in {"deregister", "awaiting exit"} /\ opGen[s[1]] = s[2]
    /\ \A d \in Deliveries : Accepted(d) /\ SlotOf(d) \in closeSet =>
         status[d] = "released" /\ d \notin background

\* Every scheduled run is recorded exactly once, when its event really ends;
\* only one still in the background when Close begins may go unrecorded.
RunsRecorded ==
  \A d \in Deliveries :
    IF d[1] \in Scheduled /\ Finished(d) /\ d \notin background
    THEN records[d] = 1 \/ (records[d] = 0 /\ closing)
    ELSE records[d] = 0

\* A shutdown that overlaps reloads, deregistrations and detached runs leaves
\* neither a worker nor an unrecorded end behind (Close, DrainAll, worker.go:218).
ShutdownComplete == CloseComplete /\ RunsRecorded

\* No cycle of gates, lanes and capacity can hold an accepted delivery back:
\* each completes, whatever the mix of layers, commands and registry changes;
\* and Close returns, as its cancellation releases the items at gates, in
\* queues and in lanes.
AcceptedSettle ==
  /\ \A d \in Deliveries : Waiting(d) ~> (status[d] = "released")
  /\ (shutdown = "closing") ~> (shutdown = "closed")

=============================================================================
