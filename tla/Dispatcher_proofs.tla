--------------------------- MODULE Dispatcher_proofs ---------------------------
(***************************************************************************)
(* Machine-checked proofs about the dispatcher, for any number of plugins, *)
(* events, lanes, slots, priorities, concurrency and queue sizes.          *)
(*                                                                         *)
(* The first part proves the types and LayerOrder, the second the order of *)
(* the queues and lanes (LanesSound, ControlOvertakenOnce and              *)
(* SameAdmissionOrder), the third what holds between deliveries and the    *)
(* slots they belong to (ExitComplete, ShutdownComplete and                *)
(* LayersFollowPolicy).  Each part starts with its invariant and builds    *)
(* upon that of the part before.                                           *)
(***************************************************************************)
EXTENDS Dispatcher, FiniteSetTheorems, TLAPS

-----------------------------------------------------------------------------
(***************************************************************************)
(* Part 1: types and layers.                                               *)
(*                                                                         *)
(* The inductive invariant is QueuesSound /\ CallsSound /\ LayersSound:    *)
(* a delivery that waits is in exactly one place (so that a worker never   *)
(* starts a completed one again), a call touches only its own untouched    *)
(* deliveries, and advanceLayers has counted every layer it has passed.    *)
(***************************************************************************)

(* Types.                                                                  *)

LEMMA ConstantTypes ==
  /\ MaxGen \in Nat /\ 0 \in 0..MaxGen /\ 1 \in 0..MaxGen
  /\ \A e \in Events : Target[e] \in Plugins
  /\ InitiallyRegistered \subseteq Plugins
  BY ConstantsAssumption DEF ConstantsAssumption

LEMMA CandidatesType ==
  ASSUME NEW e \in Events PROVE MessageCandidates(e) \subseteq Plugins
  BY ConstantsAssumption
  DEF MessageCandidates, SelectTargets, BeforeCommand, CommandTargetsOf, Subscribers,
      ConstantsAssumption

\* The layer number dispatchLayered gives a candidate is a positive integer.
LEMMA LayerOfType ==
  ASSUME NEW e \in Events, NEW p PROVE LayerOf(e, p) \in Nat /\ LayerOf(e, p) >= 1
<1> DEFINE M == MessageCandidates(e)
           f == [q \in M |-> LayerClass(e, q)]
           classes == {LayerClass(e, q) : q \in M}
           ahead == {c \in classes : Ahead(c, LayerClass(e, p))}
<1>1. M \subseteq Plugins
  BY CandidatesType
<1>2. IsFiniteSet(M)
  BY <1>1, ConstantsAssumption, FS_Subset DEF ConstantsAssumption
<1>3. f \in Surjection(M, classes)
  BY DEF Surjection
<1>4. IsFiniteSet(ahead)
  <2> HIDE DEF M, f
  <2>1. IsFiniteSet(classes)
    BY <1>2, <1>3, FS_Surjection
  <2> QED
    BY <2>1, FS_Subset
<1>5. Cardinality(ahead) \in Nat
  BY <1>4, FS_CardinalityType
<1> QED
  BY <1>5 DEF LayerOf

LEMMA HeadType ==
  ASSUME NEW S, NEW q \in Seq(S), q # <<>> PROVE Head(q) \in S /\ Tail(q) \in Seq(S)
  OBVIOUS

LEMMA SlotType ==
  /\ \A p \in Plugins, g \in 0..MaxGen : g > 0 => <<p, g>> \in Slots
  /\ \A s \in Slots : s[1] \in Plugins /\ s[2] \in 0..MaxGen /\ s[2] > 0 /\ s = <<s[1], s[2]>>
  BY ConstantsAssumption DEF Slots, ConstantsAssumption

LEMMA DeliveryType ==
  /\ \A e \in Events, p \in Plugins : <<e, p>> \in Deliveries
  /\ \A d \in Deliveries : d[1] \in Events /\ d[2] \in Plugins /\ Lane[d[1]] \in Lanes
  BY ConstantsAssumption DEF Deliveries, ConstantsAssumption

LEMMA CounterType ==
  ASSUME NEW S, NEW f \in [S -> Nat], NEW s \in S
  PROVE  /\ [f EXCEPT ![s] = IF @ > 0 THEN @ - 1 ELSE @] \in [S -> Nat]
         /\ [f EXCEPT ![s] = @ + 1] \in [S -> Nat]
<1>1. [f EXCEPT ![s] = IF @ > 0 THEN @ - 1 ELSE @] \in [S -> Nat]
  OBVIOUS
<1>2. [f EXCEPT ![s] = @ + 1] \in [S -> Nat]
  OBVIOUS
<1> QED
  BY <1>1, <1>2

LEMMA AppendType ==
  ASSUME NEW S, NEW T, NEW f \in [S -> Seq(T)], NEW s \in S, NEW x \in T
  PROVE  [f EXCEPT ![s] = Append(@, x)] \in [S -> Seq(T)]
OBVIOUS

LEMMA MarkStartedType ==
  ASSUME TypeQueues, NEW d, NEW s \in Slots, MarkStarted(d, s)
  PROVE  pendingEvents' \in [Slots -> Nat] /\ pendingControl' \in [Slots -> Nat]
<1>1. CASE d[1] \in Control
  <2>1. pendingControl' = [pendingControl EXCEPT ![s] = IF @ > 0 THEN @ - 1 ELSE @]
    BY <1>1 DEF MarkStarted
  <2>2. pendingEvents' = pendingEvents
    BY <1>1 DEF MarkStarted
  <2> QED
    BY <2>1, <2>2, CounterType DEF TypeQueues
<1>2. CASE d[1] \notin Control
  <2>1. pendingEvents' = [pendingEvents EXCEPT ![s] = IF @ > 0 THEN @ - 1 ELSE @]
    BY <1>2 DEF MarkStarted
  <2>2. pendingControl' = pendingControl
    BY <1>2 DEF MarkStarted
  <2> QED
    BY <2>1, <2>2, CounterType DEF TypeQueues
<1> QED
  BY <1>1, <1>2

LEMMA WorkerEnqueueType ==
  ASSUME TypeWorker, TypeQueues, TypeDeliveries, NEW s \in Slots, NEW d \in Deliveries,
         WorkerEnqueue(s, d)
  PROVE  /\ pendingByLane' \in [Slots -> [Lanes -> Seq(Deliveries)]]
         /\ lanes' \in [Slots -> SUBSET Lanes]
         /\ pendingEvents' \in [Slots -> Nat] /\ pendingControl' \in [Slots -> Nat]
         /\ status' \in [Deliveries -> Statuses]
<1>1. CASE CanStart(s, Lane[d[1]])
  BY <1>1, MarkStartedType DEF WorkerEnqueue, TypeWorker, TypeDeliveries, Statuses
<1>2. CASE ~CanStart(s, Lane[d[1]])
  <2> DEFINE l == Lane[d[1]]
  <2>1. l \in Lanes
    BY DeliveryType
  <2>2. /\ pendingByLane' = [pendingByLane EXCEPT ![s][l] = Append(@, d)]
        /\ lanes' = [lanes EXCEPT ![s] = IF l \in ActiveLanes(s) THEN @ ELSE @ \union {l}]
        /\ status' = [status EXCEPT ![d] = "parked"]
        /\ UNCHANGED <<pendingEvents, pendingControl>>
    BY <1>2 DEF WorkerEnqueue
  <2> HIDE DEF l
  <2>3. pendingByLane' \in [Slots -> [Lanes -> Seq(Deliveries)]]
    BY <2>1, <2>2 DEF TypeWorker
  <2>4. lanes' \in [Slots -> SUBSET Lanes]
    BY <2>1, <2>2 DEF TypeWorker
  <2> QED
    BY <2>2, <2>3, <2>4 DEF TypeQueues, TypeDeliveries, Statuses
<1> QED
  BY <1>1, <1>2

\* The parts of TypeOK over variables a step leaves alone.
LEMMA TypeUnchanged ==
  /\ TypeRegistry /\ UNCHANGED registry => TypeRegistry'
  /\ TypeSlots /\ UNCHANGED slotVars => TypeSlots'
  /\ TypeQueues /\ UNCHANGED queues => TypeQueues'
  /\ TypeWorker /\ UNCHANGED worker => TypeWorker'
  /\ TypeCalls /\ UNCHANGED calls => TypeCalls'
  /\ TypeDeliveries /\ UNCHANGED <<status, ends>> => TypeDeliveries'
  /\ TypeOps /\ UNCHANGED opVars => TypeOps'
<1>1. TypeRegistry /\ UNCHANGED registry => TypeRegistry'
  BY DEF TypeRegistry, registry
<1>2. TypeSlots /\ UNCHANGED slotVars => TypeSlots'
  BY DEF TypeSlots, slotVars
<1>3. TypeQueues /\ UNCHANGED queues => TypeQueues'
  BY DEF TypeQueues, queues
<1>4. TypeWorker /\ UNCHANGED worker => TypeWorker'
  BY DEF TypeWorker, worker
<1>5. TypeCalls /\ UNCHANGED calls => TypeCalls'
  BY DEF TypeCalls, calls
<1>6. TypeDeliveries /\ UNCHANGED <<status, ends>> => TypeDeliveries'
  BY DEF TypeDeliveries, ends
<1>7. TypeOps /\ UNCHANGED opVars => TypeOps'
  BY DEF TypeOps, opVars
<1> QED
  BY <1>1, <1>2, <1>3, <1>4, <1>5, <1>6, <1>7

LEMMA TypeInit == Init => TypeOK
<1> SUFFICES ASSUME Init PROVE TypeOK
  OBVIOUS
<1>1. TypeRegistry /\ TypeSlots
  <2>1. InitiallyRegistered \X {1} \subseteq Slots
    BY SlotType, ConstantTypes
  <2> QED
    BY <2>1, ConstantTypes DEF Init, TypeRegistry, TypeSlots
<1>2. TypeQueues /\ TypeWorker
  BY DEF Init, TypeQueues, TypeWorker
<1>3. TypeCalls
  BY ConstantsAssumption DEF Init, TypeCalls, ConstantsAssumption
<1>4. TypeDeliveries
  BY DEF Init, TypeDeliveries, Statuses, Results
<1>5. TypeOps
  BY ConstantsAssumption DEF Init, TypeOps, ConstantsAssumption
<1> QED
  BY <1>1, <1>2, <1>3, <1>4, <1>5 DEF TypeOK

LEMMA TypeStep == TypeOK /\ [Next]_vars => TypeOK'
<1> SUFFICES ASSUME TypeOK, [Next]_vars PROVE TypeOK'
  OBVIOUS
<1>1. ASSUME NEW e \in Events, BeginCall(e) PROVE TypeOK'
  <2>1. CASE DispatchLayered(e)
    <3>1. TypeCalls'
      <4> DEFINE M == MessageCandidates(e)
      <4>1. CASE closed \/ M = {}
        BY <2>1, <4>1 DEF TypeOK, TypeCalls, DispatchLayered
      <4>2. CASE ~(closed \/ M = {})
        <5>1. /\ call' = [call EXCEPT ![e] = "admitting"]
              /\ todo' = [todo EXCEPT ![e] = M]
              /\ UNCHANGED <<open, stopLayer, gen, log>>
          BY <2>1, <4>2 DEF DispatchLayered
        <5>2. pin' \in [Deliveries -> 0..MaxGen]
          <6> DEFINE F(d) == IF d[1] = e /\ d[2] \in M THEN current[d[2]] ELSE pin[d]
          <6>1. pin' = [d \in Deliveries |-> F(d)]
            BY <2>1, <4>2 DEF DispatchLayered
          <6>2. \A d \in Deliveries : F(d) \in 0..MaxGen
            BY DeliveryType DEF TypeOK, TypeCalls, TypeRegistry
          <6> HIDE DEF F
          <6> QED
            BY <6>1, <6>2
        <5>3. layer' \in [Deliveries -> Nat]
          <6> DEFINE F(d) == IF d[1] = e /\ d[2] \in M THEN LayerOf(e, d[2]) ELSE layer[d]
          <6>1. layer' = [d \in Deliveries |-> F(d)]
            BY <2>1, <4>2 DEF DispatchLayered
          <6>2. \A d \in Deliveries : F(d) \in Nat
            BY LayerOfType DEF TypeOK, TypeCalls
          <6> HIDE DEF F
          <6> QED
            BY <6>1, <6>2
        <5>4. M \subseteq Plugins
          BY CandidatesType
        <5> QED
          BY <5>1, <5>2, <5>3, <5>4 DEF TypeOK, TypeCalls
      <4> QED
        BY <4>1, <4>2
    <3> QED
      BY <2>1, <3>1, TypeUnchanged DEF TypeOK, DispatchLayered
  <2>2. CASE DispatchSelect(e)
    <3>1. TypeCalls'
      BY <2>2, ConstantsAssumption
      DEF TypeOK, TypeCalls, calls, DispatchSelect, TargetsOf, SelectTargets,
          CommandTargetsOf, Subscribers, ConstantsAssumption
    <3> QED
      BY <2>2, <3>1, TypeUnchanged DEF TypeOK, DispatchSelect
  <2>3. CASE DispatchToProcess(e)
    <3>1. TypeCalls'
      <4> PICK g \in 1..created[Target[e]] : pin' = [pin EXCEPT ![<<e, Target[e]>>] = g]
        BY <2>3 DEF DispatchToProcess
      <4>1. g \in 0..MaxGen
        BY ConstantTypes DEF TypeOK, TypeRegistry
      <4>2. pin' \in [Deliveries -> 0..MaxGen]
        BY <4>1 DEF TypeOK, TypeCalls
      <4> QED
        BY <2>3, <4>2, ConstantTypes DEF TypeOK, TypeCalls, DispatchToProcess
    <3> QED
      BY <2>3, <3>1, TypeUnchanged DEF TypeOK, DispatchToProcess
  <2> QED
    BY <1>1, <2>1, <2>2, <2>3 DEF BeginCall
<1>2. ASSUME NEW e \in Events, CallStep(e) PROVE TypeOK'
  <2>1. CASE EnqueueTargets(e)
    <3>1. TypeCalls'
      BY <2>1 DEF TypeOK, TypeCalls, calls, EnqueueTargets
    <3> QED
      BY <2>1, <3>1, TypeUnchanged DEF TypeOK, EnqueueTargets
  <2>2. CASE DispatchReturn(e)
    <3>1. TypeCalls'
      BY <2>2 DEF TypeOK, TypeCalls, calls, DispatchReturn, FirstLayer
    <3> QED
      BY <2>2, <3>1, TypeUnchanged DEF TypeOK, DispatchReturn
  <2>3. ASSUME NEW p \in Plugins, EnqueueAccept(<<e, p>>) PROVE TypeOK'
    <3> DEFINE d == <<e, p>>
               s == Current(p)
    <3>a. d \in Deliveries /\ d[1] = e /\ d[2] = p
      BY DeliveryType
    <3>b. s \in Slots /\ s[2] \in 0..MaxGen
      BY <2>3, SlotType
      DEF TypeOK, TypeRegistry, EnqueueAccept, Admissible, Deliverable, Current
    <3> HIDE DEF d, s
    <3>c. EnqueueAccept(d) /\ s = Current(d[2])
      BY <2>3, <3>a DEF d, s
    <3>1. TypeQueues'
      <4>1. CASE d[1] \in Control
        <5>1. controlQueue' = [controlQueue EXCEPT ![s] = Append(@, d)]
          BY <3>c, <4>1 DEF EnqueueAccept
        <5>2. pendingControl' = [pendingControl EXCEPT ![s] = @ + 1]
          BY <3>c, <4>1 DEF EnqueueAccept
        <5>3. UNCHANGED <<eventQueue, pendingEvents>>
          BY <3>c, <4>1 DEF EnqueueAccept
        <5> QED
          BY <3>a, <3>b, <5>1, <5>2, <5>3, CounterType, AppendType DEF TypeOK, TypeQueues
      <4>2. CASE d[1] \notin Control
        <5>1. eventQueue' = [eventQueue EXCEPT ![s] = Append(@, d)]
          BY <3>c, <4>2 DEF EnqueueAccept
        <5>2. pendingEvents' = [pendingEvents EXCEPT ![s] = @ + 1]
          BY <3>c, <4>2 DEF EnqueueAccept
        <5>3. UNCHANGED <<controlQueue, pendingControl>>
          BY <3>c, <4>2 DEF EnqueueAccept
        <5> QED
          BY <3>a, <3>b, <5>1, <5>2, <5>3, CounterType, AppendType DEF TypeOK, TypeQueues
      <4> QED
        BY <4>1, <4>2
    <3>2. TypeCalls'
      BY <3>a, <3>b, <3>c DEF TypeOK, TypeCalls, EnqueueAccept
    <3>3. TypeDeliveries'
      BY <2>3 DEF TypeOK, TypeDeliveries, ends, EnqueueAccept, Statuses
    <3> QED
      BY <2>3, <3>1, <3>2, <3>3, TypeUnchanged DEF TypeOK, EnqueueAccept
  <2>4. ASSUME NEW p \in Plugins, EnqueueReject(<<e, p>>) PROVE TypeOK'
    <3>1. TypeCalls'
      BY <2>4 DEF TypeOK, TypeCalls, calls, EnqueueReject
    <3>2. TypeDeliveries'
      <4> DEFINE d == <<e, p>>
      <4> HIDE DEF d
      <4>1. EnqueueReject(d)
        BY <2>4 DEF d
      <4>2. records' \in [Deliveries -> Nat] /\ UNCHANGED background
        <5>1. records' = IF d[1] \in Scheduled THEN [records EXCEPT ![d] = @ + 1]
                         ELSE [records EXCEPT ![d] = @]
          BY <4>1 DEF EnqueueReject
        <5>2. d \in Deliveries
          BY DeliveryType DEF d
        <5>3. UNCHANGED background
          BY <4>1 DEF EnqueueReject
        <5> QED
          BY <5>1, <5>2, <5>3, CounterType DEF TypeOK, TypeDeliveries
      <4>3. status' \in [Deliveries -> Statuses] /\ result' \in [Deliveries -> Results]
        BY <4>1 DEF TypeOK, TypeDeliveries, EnqueueReject, Refuse, Statuses, Results
      <4> QED
        BY <4>2, <4>3 DEF TypeOK, TypeDeliveries
    <3> QED
      BY <2>4, <3>1, <3>2, TypeUnchanged DEF TypeOK, EnqueueReject
  <2> QED
    BY <1>2, <2>1, <2>2, <2>3, <2>4 DEF CallStep
<1>3. ASSUME NEW e \in Events, AdvanceLayer(e) PROVE TypeOK'
  <2>1. CASE AdvanceLayer(e)
    <3>1. TypeCalls'
      BY <2>1 DEF TypeOK, TypeCalls, calls, AdvanceLayer
    <3> QED
      BY <2>1, <3>1, TypeUnchanged DEF TypeOK, AdvanceLayer
  <2> QED
    BY <1>3, <2>1
<1>4. ASSUME NEW s \in Slots, WorkerStep(s) PROVE TypeOK'
  <2>1. ASSUME NEW l \in Lanes, StartReadyLane(s, l) PROVE TypeOK'
    <3>1. TypeQueues'
      BY <2>1, MarkStartedType DEF TypeOK, TypeQueues, StartReadyLane
    <3>2. TypeWorker'
      BY <2>1, HeadType DEF TypeOK, TypeWorker, worker, StartReadyLane, Startable
    <3>3. TypeDeliveries'
      BY <2>1 DEF TypeOK, TypeDeliveries, ends, StartReadyLane, Statuses
    <3> QED
      BY <2>1, <3>1, <3>2, <3>3, TypeUnchanged DEF TypeOK, StartReadyLane
  <2>2. CASE PollControl(s)
    <3>1. TypeWorker'
      BY <2>2 DEF TypeOK, TypeWorker, worker, PollControl
    <3> QED
      BY <2>2, <3>1, TypeUnchanged DEF TypeOK, PollControl
  <2>3. CASE PullControl(s)
    <3> DEFINE d == Head(controlQueue[s])
    <3>a. d \in Deliveries /\ Tail(controlQueue[s]) \in Seq(Deliveries)
      BY <2>3, HeadType DEF TypeOK, TypeQueues, PullControl
    <3>b. WorkerEnqueue(s, d)
      BY <2>3 DEF PullControl
    <3> HIDE DEF d
    <3>1. TypeQueues'
      BY <2>3, <3>a, <3>b, WorkerEnqueueType DEF TypeOK, TypeQueues, PullControl
    <3>2. TypeWorker'
      BY <2>3, <3>a, <3>b, WorkerEnqueueType DEF TypeOK, TypeWorker, PullControl
    <3>3. TypeDeliveries'
      BY <2>3, <3>a, <3>b, WorkerEnqueueType DEF TypeOK, TypeDeliveries, ends, PullControl
    <3> QED
      BY <2>3, <3>1, <3>2, <3>3, TypeUnchanged DEF TypeOK, PullControl
  <2>4. CASE PullEvent(s)
    <3> DEFINE d == Head(eventQueue[s])
    <3>a. d \in Deliveries /\ Tail(eventQueue[s]) \in Seq(Deliveries)
      BY <2>4, HeadType DEF TypeOK, TypeQueues, PullEvent
    <3>b. WorkerEnqueue(s, d)
      BY <2>4 DEF PullEvent
    <3> HIDE DEF d
    <3>1. TypeQueues'
      BY <2>4, <3>a, <3>b, WorkerEnqueueType DEF TypeOK, TypeQueues, PullEvent
    <3>2. TypeWorker'
      BY <2>4, <3>a, <3>b, WorkerEnqueueType DEF TypeOK, TypeWorker, PullEvent
    <3>3. TypeDeliveries'
      BY <2>4, <3>a, <3>b, WorkerEnqueueType DEF TypeOK, TypeDeliveries, ends, PullEvent
    <3> QED
      BY <2>4, <3>1, <3>2, <3>3, TypeUnchanged DEF TypeOK, PullEvent
  <2>5. CASE WorkerExit(s)
    <3>1. TypeSlots'
      BY <2>5 DEF TypeOK, TypeSlots, slotVars, WorkerExit
    <3>2. TypeWorker'
      BY <2>5 DEF TypeOK, TypeWorker, worker, WorkerExit
    <3> QED
      BY <2>5, <3>1, <3>2, TypeUnchanged DEF TypeOK, WorkerExit
  <2>6. ASSUME NEW d \in Deliveries, HandleCompletion(s, d) PROVE TypeOK'
    <3>1. TypeWorker'
      BY <2>6, DeliveryType DEF TypeOK, TypeWorker, worker, HandleCompletion, RequeueLane
    <3>2. TypeDeliveries'
      BY <2>6 DEF TypeOK, TypeDeliveries, ends, HandleCompletion, Statuses
    <3> QED
      BY <2>6, <3>1, <3>2, TypeUnchanged DEF TypeOK, HandleCompletion
  <2> QED
    BY <1>4, <2>1, <2>2, <2>3, <2>4, <2>5, <2>6 DEF WorkerStep
<1>5. ASSUME NEW d \in Deliveries, DeliveryStep(d) PROVE TypeOK'
  <2>1. CASE PassGate(d)
    <3>1. TypeDeliveries'
      BY <2>1
      DEF TypeOK, TypeDeliveries, ends, PassGate, Settle, Record, Statuses, Results
    <3> QED
      BY <2>1, <3>1, TypeUnchanged DEF TypeOK, PassGate
  <2>2. CASE DeliverReturn(d)
    <3>1. TypeDeliveries'
      BY <2>2, ConstantsAssumption
      DEF TypeOK, TypeDeliveries, ends, DeliverReturn, Detach, Settle, Record,
          Statuses, Results, ConstantsAssumption
    <3> QED
      BY <2>2, <3>1, TypeUnchanged DEF TypeOK, DeliverReturn
  <2>3. CASE BackgroundEnd(d)
    <3>1. TypeDeliveries'
      BY <2>3 DEF TypeOK, TypeDeliveries, ends, BackgroundEnd, Record
    <3> QED
      BY <2>3, <3>1, TypeUnchanged DEF TypeOK, BackgroundEnd
  <2> QED
    BY <1>5, <2>1, <2>2, <2>3 DEF DeliveryStep
<1>6. ASSUME NEW p \in Plugins, RegistryStep(p) PROVE TypeOK'
  <2>1. CASE Publish(p)
    <3>1. TypeRegistry'
      BY <2>1, SlotType, ConstantsAssumption
      DEF TypeOK, TypeRegistry, registry, Publish, NewSlot, Current,
          ConstantsAssumption
    <3>2. TypeSlots'
      <4>1. <<p, created[p] + 1>> \in Slots
        BY <2>1, SlotType, ConstantTypes DEF TypeOK, TypeRegistry, Publish, NewSlot
      <4> QED
        BY <2>1, <4>1 DEF TypeOK, TypeSlots, Publish, NewSlot
    <3>3. TypeOps'
      BY <2>1 DEF TypeOK, TypeOps, opVars, Publish, TypeRegistry, SetOp
    <3> QED
      BY <2>1, <3>1, <3>2, <3>3, TypeUnchanged DEF TypeOK, Publish
  <2>2. CASE CloseReplaced(p)
    <3>1. TypeSlots'
      <4>1. <<p, opGen[p]>> \in Slots
        BY <2>2, SlotType DEF TypeOK, TypeOps, CloseReplaced
      <4> QED
        BY <2>2, <4>1 DEF TypeOK, TypeSlots, CloseReplaced
    <3>2. TypeOps'
      BY <2>2, ConstantTypes DEF TypeOK, TypeOps, opVars, CloseReplaced, SetOp
    <3> QED
      BY <2>2, <3>1, <3>2, TypeUnchanged DEF TypeOK, CloseReplaced
  <2>3. CASE DrainPlugin(p)
    <3>1. TypeSlots'
      BY <2>3 DEF TypeOK, TypeSlots, slotVars, DrainPlugin
    <3>2. TypeOps'
      BY <2>3 DEF TypeOK, TypeOps, opVars, DrainPlugin, TypeRegistry, SetOp
    <3> QED
      BY <2>3, <3>1, <3>2, TypeUnchanged DEF TypeOK, DrainPlugin
  <2>4. CASE DrainWait(p)
    <3>1. TypeSlots'
      BY <2>4, SlotType DEF TypeOK, TypeSlots, DrainWait, TypeOps
    <3>2. TypeOps'
      BY <2>4, ConstantTypes DEF TypeOK, TypeOps, opVars, DrainWait, SetOp
    <3> QED
      BY <2>4, <3>1, <3>2, TypeUnchanged DEF TypeOK, DrainWait
  <2>5. CASE Deregister(p)
    <3>1. TypeRegistry'
      BY <2>5, ConstantsAssumption
      DEF TypeOK, TypeRegistry, registry, Deregister, ConstantsAssumption
    <3>2. TypeOps'
      <4>1. CASE current[p] = 0
        <5>1. SetOp(p, "idle", 0) /\ UNCHANGED <<shutdown, closeSet>>
          BY <2>5, <4>1 DEF Deregister
        <5> QED
          BY <5>1, ConstantTypes DEF TypeOK, TypeOps, SetOp
      <4>2. CASE current[p] # 0
        <5>1. SetOp(p, "deregister", current[p]) /\ UNCHANGED <<shutdown, closeSet>>
          BY <2>5, <4>2 DEF Deregister
        <5>2. current[p] \in 0..MaxGen /\ current[p] > 0
          BY <4>2 DEF TypeOK, TypeRegistry
        <5> QED
          BY <5>1, <5>2 DEF TypeOK, TypeOps, SetOp
      <4> QED
        BY <4>1, <4>2
    <3> QED
      BY <2>5, <3>1, <3>2, TypeUnchanged DEF TypeOK, Deregister
  <2>6. CASE DeregisterReturn(p)
    <3>1. TypeOps'
      BY <2>6, ConstantTypes DEF TypeOK, TypeOps, opVars, DeregisterReturn, SetOp
    <3> QED
      BY <2>6, <3>1, TypeUnchanged DEF TypeOK, DeregisterReturn
  <2> QED
    BY <1>6, <2>1, <2>2, <2>3, <2>4, <2>5, <2>6 DEF RegistryStep
<1>7. CASE ShutdownStep
  <2>1. CASE DrainAll
    <3>1. TypeRegistry'
      BY <2>1 DEF TypeOK, TypeRegistry, registry, DrainAll
    <3>2. TypeSlots'
      BY <2>1 DEF TypeOK, TypeSlots, slotVars, DrainAll
    <3>3. TypeOps'
      BY <2>1, SlotType
      DEF TypeOK, TypeOps, opVars, DrainAll, TypeRegistry, SlotsToClose,
          RegisteredSlots, Current
    <3> QED
      BY <2>1, <3>1, <3>2, <3>3, TypeUnchanged DEF TypeOK, DrainAll
  <2>2. CASE Close
    <3>1. TypeRegistry'
      BY <2>2, ConstantsAssumption
      DEF TypeOK, TypeRegistry, registry, Close, ConstantsAssumption
    <3>2. TypeOps'
      BY <2>2, SlotType
      DEF TypeOK, TypeOps, opVars, Close, TypeRegistry, SlotsToClose,
          RegisteredSlots, Current
    <3> QED
      BY <2>2, <3>1, <3>2, TypeUnchanged DEF TypeOK, Close
  <2>3. CASE CloseReturn
    <3>1. TypeOps'
      BY <2>3 DEF TypeOK, TypeOps, opVars, CloseReturn
    <3> QED
      BY <2>3, <3>1, TypeUnchanged DEF TypeOK, CloseReturn
  <2>4. ASSUME NEW s \in Slots, DrainAllWait(s) PROVE TypeOK'
    <3>1. TypeSlots'
      BY <2>4 DEF TypeOK, TypeSlots, slotVars, DrainAllWait
    <3>2. TypeOps'
      BY <2>4 DEF TypeOK, TypeOps, opVars, DrainAllWait
    <3> QED
      BY <2>4, <3>1, <3>2, TypeUnchanged DEF TypeOK, DrainAllWait
  <2>5. ASSUME NEW s \in Slots, CloseSlot(s) PROVE TypeOK'
    <3>1. TypeSlots'
      BY <2>5 DEF TypeOK, TypeSlots, slotVars, CloseSlot
    <3> QED
      BY <2>5, <3>1, TypeUnchanged DEF TypeOK, CloseSlot
  <2> QED
    BY <1>7, <2>1, <2>2, <2>3, <2>4, <2>5 DEF ShutdownStep
<1>8. ASSUME NEW s \in Slots, ForgetRetired(s) PROVE TypeOK'
  <2>1. CASE ForgetRetired(s)
    <3>1. TypeRegistry'
      BY <2>1 DEF TypeOK, TypeRegistry, registry, ForgetRetired
    <3> QED
      BY <2>1, <3>1, TypeUnchanged DEF TypeOK, ForgetRetired
  <2> QED
    BY <1>8, <2>1
<1>9. ASSUME NEW s \in Slots, RuntimeStops(s) PROVE TypeOK'
  <2>1. CASE RuntimeStops(s)
    <3>1. TypeSlots'
      BY <2>1 DEF TypeOK, TypeSlots, slotVars, RuntimeStops
    <3> QED
      BY <2>1, <3>1, TypeUnchanged DEF TypeOK, RuntimeStops
  <2> QED
    BY <1>9, <2>1
<1>10. CASE UNCHANGED vars
  BY <1>10, TypeUnchanged DEF TypeOK, vars
<1> QED
  BY <1>1, <1>2, <1>3, <1>4, <1>5, <1>6, <1>7, <1>8, <1>9, <1>10 DEF Next

\* Every reachable state of the dispatcher is well typed.
THEOREM TypeCorrect == Spec => []TypeOK
  BY TypeInit, TypeStep, PTL DEF Spec

-----------------------------------------------------------------------------
(* Layers.                                                                 *)

Holds(q, s, st) ==
  /\ \A i \in 1..Len(q) : status[q[i]] = st /\ SlotOf(q[i]) = s
  /\ \A i, j \in 1..Len(q) : q[i] = q[j] => i = j

\* What a channel holds is queued, what waits behind a lane is parked, and
\* nothing is held twice.
EventsSound(s) ==
  /\ Holds(eventQueue[s], s, "queued")
  /\ \A i \in 1..Len(eventQueue[s]) : eventQueue[s][i][1] \notin Control
ControlSound(s) ==
  /\ Holds(controlQueue[s], s, "queued")
  /\ \A i \in 1..Len(controlQueue[s]) : controlQueue[s][i][1] \in Control
LaneSound(s, l) ==
  /\ Holds(pendingByLane[s][l], s, "parked")
  /\ \A i \in 1..Len(pendingByLane[s][l]) : Lane[pendingByLane[s][l][i][1]] = l
QueuesSound ==
  \A s \in Slots : EventsSound(s) /\ ControlSound(s) /\ \A l \in Lanes : LaneSound(s, l)

\* A delivery has no status before its call admits it, and no layer before its
\* call selects it; only a call that has returned opens layers.
CallsSound ==
  /\ \A d \in Deliveries :
       /\ call[d[1]] \in {"idle", "selected"} =>
            status[d] = "none" /\ result[d] = "none" /\ layer[d] = 0
       /\ d[2] \in todo[d[1]] => status[d] = "none"
       /\ status[d] = "none" => result[d] = "none"
  /\ \A e \in Events :
       /\ call[e] \in {"idle", "returned"} => todo[e] = {}
       /\ open[e] > 0 => call[e] = "returned"

Reached(d) == status[d] = "delivering" \/ result[d] \in {"pass", "stop", "continue"}
StoppedAt(e, k) ==
  \E x \in Deliveries : x[1] = e /\ layer[x] = k /\ Finished(x) /\ Stops(x)

\* The layers before open have completed; stopLayer is the first of them that
\* stopped propagation; a delivery passed its gate only when it was open.
LayersSound ==
  /\ \A x \in Deliveries : layer[x] \in 1..(open[x[1]] - 1) =>
       Finished(x) /\ (Stops(x) => stopLayer[x[1]] \in 1..layer[x])
  /\ \A e \in Events : stopLayer[e] > 0 =>
       stopLayer[e] < open[e] /\ StoppedAt(e, stopLayer[e])
  /\ \A d \in Deliveries :
       /\ Reached(d) /\ layer[d] > 1 => open[d[1]] >= layer[d] /\ ~GateSkips(d)
       /\ result[d] = "skipped" =>
            \E k \in 1..(layer[d] - 1) : StoppedAt(d[1], k)

IInv == TypeOK /\ QueuesSound /\ CallsSound /\ LayersSound

-----------------------------------------------------------------------------
(* Sequences.                                                              *)

LEMMA TailItems ==
  ASSUME NEW S, NEW q \in Seq(S), q # <<>>
  PROVE  /\ Tail(q) \in Seq(S) /\ Head(q) \in S /\ Head(q) = q[1] /\ 1 \in 1..Len(q)
         /\ \A i \in 1..Len(Tail(q)) : Tail(q)[i] = q[i + 1] /\ i + 1 \in 1..Len(q)
OBVIOUS

LEMMA AppendItems ==
  ASSUME NEW S, NEW q \in Seq(S), NEW x \in S
  PROVE  /\ Append(q, x) \in Seq(S) /\ Len(Append(q, x)) = Len(q) + 1 /\ Len(q) \in Nat
         /\ \A i \in 1..Len(q) : Append(q, x)[i] = q[i]
         /\ Append(q, x)[Len(q) + 1] = x
OBVIOUS

LEMMA ItemsType ==
  ASSUME TypeOK, NEW s \in Slots
  PROVE  /\ eventQueue[s] \in Seq(Deliveries) /\ controlQueue[s] \in Seq(Deliveries)
         /\ \A l \in Lanes : pendingByLane[s][l] \in Seq(Deliveries)
BY DEF TypeOK, TypeQueues, TypeWorker

-----------------------------------------------------------------------------
(* QueuesSound.                                                            *)

\* One queue whose items a step does not touch.
LEMMA HoldsKept ==
  ASSUME NEW q \in Seq(Deliveries), NEW s, NEW st, Holds(q, s, st),
         \A d \in Deliveries : status[d] = st /\ SlotOf(d) = s =>
           status'[d] = st /\ gen'[d] = gen[d]
  PROVE  /\ \A i \in 1..Len(q) : status'[q[i]] = st /\ <<q[i][2], gen'[q[i]]>> = s
         /\ \A i, j \in 1..Len(q) : q[i] = q[j] => i = j
<1>1. \A i \in 1..Len(q) : q[i] \in Deliveries
  OBVIOUS
<1> QED
  BY <1>1 DEF Holds, SlotOf

\* A step that moves no item and leaves the waiting deliveries as they are.
LEMMA QueuesKept ==
  ASSUME TypeOK, QueuesSound, UNCHANGED <<eventQueue, controlQueue, pendingByLane>>,
         \A d \in Deliveries : Waiting(d) => status'[d] = status[d] /\ gen'[d] = gen[d]
  PROVE  QueuesSound'
<1> SUFFICES ASSUME NEW s \in Slots
             PROVE  /\ EventsSound(s)' /\ ControlSound(s)'
                    /\ \A l \in Lanes : LaneSound(s, l)'
  BY DEF QueuesSound
<1>1. EventsSound(s) /\ ControlSound(s) /\ \A l \in Lanes : LaneSound(s, l)
  BY DEF QueuesSound
<1>2. EventsSound(s)'
  BY <1>1, HoldsKept, ItemsType DEF EventsSound, Holds, Waiting, SlotOf
<1>3. ControlSound(s)'
  BY <1>1, HoldsKept, ItemsType DEF ControlSound, Holds, Waiting, SlotOf
<1>4. ASSUME NEW l \in Lanes PROVE LaneSound(s, l)'
  BY <1>1, HoldsKept, ItemsType DEF LaneSound, Holds, Waiting, SlotOf
<1> QED
  BY <1>2, <1>3, <1>4

\* One queue that receives a delivery it did not hold.
LEMMA HoldsAppend ==
  ASSUME NEW q \in Seq(Deliveries), NEW s, NEW st, Holds(q, s, st),
         NEW d \in Deliveries, status[d] # st, status'[d] = st, <<d[2], gen'[d]>> = s,
         \A x \in Deliveries : status[x] = st /\ SlotOf(x) = s =>
           status'[x] = st /\ gen'[x] = gen[x],
         NEW r, r = Append(q, d)
  PROVE  /\ \A i \in 1..Len(r) : status'[r[i]] = st /\ <<r[i][2], gen'[r[i]]>> = s
         /\ \A i, j \in 1..Len(r) : r[i] = r[j] => i = j
         /\ \A i \in 1..Len(r) : r[i] = d \/ \E j \in 1..Len(q) : r[i] = q[j]
<1>1. \A i \in 1..Len(r) :
        (i \in 1..Len(q) /\ r[i] = q[i]) \/ (i = Len(q) + 1 /\ r[i] = d)
  BY AppendItems
<1>2. /\ \A i \in 1..Len(q) : status'[q[i]] = st /\ <<q[i][2], gen'[q[i]]>> = s
      /\ \A i, j \in 1..Len(q) : q[i] = q[j] => i = j
  BY HoldsKept
<1>3. \A i \in 1..Len(q) : q[i] # d
  <2>1. \A i \in 1..Len(q) : status[q[i]] = st
    BY DEF Holds
  <2> QED
    BY <2>1
<1>4. \A i \in 1..Len(r) : status'[r[i]] = st /\ <<r[i][2], gen'[r[i]]>> = s
  BY <1>1, <1>2
<1>5. \A i, j \in 1..Len(r) : r[i] = r[j] => i = j
  BY <1>1, <1>2, <1>3
<1>6. \A i \in 1..Len(r) : r[i] = d \/ \E j \in 1..Len(q) : r[i] = q[j]
  BY <1>1
<1> QED
  BY <1>4, <1>5, <1>6

\* One queue that loses its head.
LEMMA HoldsTail ==
  ASSUME NEW q \in Seq(Deliveries), q # <<>>, NEW s, NEW st, Holds(q, s, st),
         \A x \in Deliveries : status[x] = st /\ SlotOf(x) = s /\ x # Head(q) =>
           status'[x] = st /\ gen'[x] = gen[x],
         NEW r, r = Tail(q)
  PROVE  /\ \A i \in 1..Len(r) : status'[r[i]] = st /\ <<r[i][2], gen'[r[i]]>> = s
         /\ \A i, j \in 1..Len(r) : r[i] = r[j] => i = j
         /\ \A i \in 1..Len(r) : \E j \in 1..Len(q) : r[i] = q[j]
         /\ Head(q) \in Deliveries /\ status[Head(q)] = st /\ SlotOf(Head(q)) = s
<1>1. /\ Head(q) \in Deliveries /\ Head(q) = q[1] /\ 1 \in 1..Len(q)
      /\ \A i \in 1..Len(r) : r[i] = q[i + 1] /\ i + 1 \in 1..Len(q) /\ i + 1 # 1
  BY TailItems
<1>2. /\ \A i \in 1..Len(q) : q[i] \in Deliveries /\ status[q[i]] = st /\ SlotOf(q[i]) = s
      /\ \A i, j \in 1..Len(q) : q[i] = q[j] => i = j
  BY DEF Holds
<1>3. \A i \in 1..Len(r) : r[i] # Head(q) /\ \E j \in 1..Len(q) : r[i] = q[j]
  BY <1>1, <1>2
<1>4. \A i \in 1..Len(r) : status'[r[i]] = st /\ <<r[i][2], gen'[r[i]]>> = s
  BY <1>2, <1>3 DEF SlotOf
<1>5. \A i, j \in 1..Len(r) : r[i] = r[j] => i = j
  BY <1>1, <1>2
<1> QED
  BY <1>1, <1>2, <1>3, <1>4, <1>5

\* An admitted delivery is new, so it is held nowhere else.
LEMMA QueuesAccept ==
  ASSUME TypeOK, QueuesSound, CallsSound, NEW d \in Deliveries, EnqueueAccept(d)
  PROVE  QueuesSound'
<1> DEFINE s == Current(d[2])
<1>1. /\ s \in Slots /\ status[d] = "none" /\ <<d[2], gen'[d]>> = s /\ status'[d] = "queued"
      /\ gen' = [gen EXCEPT ![d] = s[2]] /\ status' = [status EXCEPT ![d] = "queued"]
      /\ UNCHANGED pendingByLane
  <2>1. /\ gen' = [gen EXCEPT ![d] = s[2]] /\ status' = [status EXCEPT ![d] = "queued"]
        /\ UNCHANGED pendingByLane /\ current[d[2]] > 0
    BY DEF EnqueueAccept, worker, Admissible, Deliverable
  <2>2. s \in Slots /\ s = <<d[2], s[2]>>
    BY <2>1, SlotType, DeliveryType DEF TypeOK, TypeRegistry, Current
  <2>3. status[d] = "none"
    BY DeliveryType DEF CallsSound, EnqueueAccept, NextTarget
  <2>4. gen'[d] = s[2] /\ status'[d] = "queued"
    BY <2>1 DEF TypeOK, TypeCalls, TypeDeliveries
  <2> QED
    BY <2>1, <2>2, <2>3, <2>4
<1>2. \A x \in Deliveries : Waiting(x) => status'[x] = status[x] /\ gen'[x] = gen[x]
  BY <1>1 DEF Waiting, TypeOK, TypeDeliveries, TypeCalls
<1> HIDE DEF s
<1> SUFFICES ASSUME NEW t \in Slots
             PROVE  /\ EventsSound(t)' /\ ControlSound(t)'
                    /\ \A l \in Lanes : LaneSound(t, l)'
  BY DEF QueuesSound
<1>3. EventsSound(t) /\ ControlSound(t) /\ \A l \in Lanes : LaneSound(t, l)
  BY DEF QueuesSound
<1>4. ASSUME NEW l \in Lanes PROVE LaneSound(t, l)'
  BY <1>1, <1>2, <1>3, HoldsKept, ItemsType DEF LaneSound, Holds, Waiting, SlotOf
<1>5. EventsSound(t)'
  <2>1. CASE eventQueue'[t] = eventQueue[t]
    BY <1>2, <1>3, <2>1, HoldsKept, ItemsType DEF EventsSound, Holds, Waiting, SlotOf
  <2>2. CASE eventQueue'[t] # eventQueue[t]
    <3>1. d[1] \notin Control /\ t = s /\ eventQueue'[t] = Append(eventQueue[t], d)
      BY <1>1, <2>2 DEF TypeOK, TypeQueues, EnqueueAccept, s
    <3>2. /\ Holds(eventQueue[t], t, "queued") /\ eventQueue[t] \in Seq(Deliveries)
          /\ \A i \in 1..Len(eventQueue[t]) : eventQueue[t][i][1] \notin Control
      BY <1>3, ItemsType DEF EventsSound
    <3> QED
      BY <1>1, <1>2, <3>1, <3>2, HoldsAppend DEF EventsSound, Holds, Waiting, SlotOf
  <2> QED
    BY <2>1, <2>2
<1>6. ControlSound(t)'
  <2>1. CASE controlQueue'[t] = controlQueue[t]
    BY <1>2, <1>3, <2>1, HoldsKept, ItemsType DEF ControlSound, Holds, Waiting, SlotOf
  <2>2. CASE controlQueue'[t] # controlQueue[t]
    <3>1. d[1] \in Control /\ t = s /\ controlQueue'[t] = Append(controlQueue[t], d)
      BY <1>1, <2>2 DEF TypeOK, TypeQueues, EnqueueAccept, s
    <3>2. /\ Holds(controlQueue[t], t, "queued") /\ controlQueue[t] \in Seq(Deliveries)
          /\ \A i \in 1..Len(controlQueue[t]) : controlQueue[t][i][1] \in Control
      BY <1>3, ItemsType DEF ControlSound
    <3> QED
      BY <1>1, <1>2, <3>1, <3>2, HoldsAppend DEF ControlSound, Holds, Waiting, SlotOf
  <2> QED
    BY <2>1, <2>2
<1> QED
  BY <1>4, <1>5, <1>6

\* What the worker's enqueue does to a delivery just received.
LEMMA QueuesWorkerEnqueue ==
  ASSUME TypeOK, QueuesSound, UNCHANGED gen,
         NEW s \in Slots, NEW d \in Deliveries, status[d] = "queued", SlotOf(d) = s,
         WorkerEnqueue(s, d)
  PROVE  /\ \A x \in Deliveries : x # d => status'[x] = status[x]
         /\ \A t \in Slots, l \in Lanes : LaneSound(t, l)'
<1>1. /\ status'[d] \in {"started", "parked"}
      /\ \A x \in Deliveries : x # d => status'[x] = status[x]
  BY DEF WorkerEnqueue, TypeOK, TypeDeliveries
<1>2. \A x \in Deliveries : status[x] = "parked" => status'[x] = "parked" /\ gen'[x] = gen[x]
  BY <1>1
<1>3. ASSUME NEW t \in Slots, NEW l \in Lanes PROVE LaneSound(t, l)'
  <2>1. LaneSound(t, l) /\ pendingByLane[t][l] \in Seq(Deliveries)
    BY ItemsType DEF QueuesSound
  <2>2. CASE pendingByLane'[t][l] = pendingByLane[t][l]
    <3> DEFINE q == pendingByLane[t][l]
    <3>1. Holds(q, t, "parked") /\ \A i \in 1..Len(q) : Lane[q[i][1]] = l
      BY <2>1 DEF LaneSound
    <3>2. /\ \A i \in 1..Len(q) : status'[q[i]] = "parked" /\ <<q[i][2], gen'[q[i]]>> = t
          /\ \A i, j \in 1..Len(q) : q[i] = q[j] => i = j
      BY <1>2, <2>1, <3>1, HoldsKept
    <3> QED
      BY <2>2, <3>1, <3>2 DEF LaneSound, Holds, SlotOf
  <2>3. CASE pendingByLane'[t][l] # pendingByLane[t][l]
    <3>1. ~CanStart(s, Lane[d[1]])
      BY <2>3 DEF WorkerEnqueue
    <3>2. /\ pendingByLane' = [pendingByLane EXCEPT ![s][Lane[d[1]]] = Append(@, d)]
          /\ status' = [status EXCEPT ![d] = "parked"]
      BY <3>1 DEF WorkerEnqueue
    <3>3. status'[d] = "parked"
      BY <3>2 DEF TypeOK, TypeDeliveries
    <3>4. t = s /\ l = Lane[d[1]] /\ pendingByLane'[t][l] = Append(pendingByLane[t][l], d)
      BY <2>3, <3>2, DeliveryType DEF TypeOK, TypeWorker
    <3>5. /\ Holds(pendingByLane[t][l], t, "parked")
          /\ \A i \in 1..Len(pendingByLane[t][l]) : Lane[pendingByLane[t][l][i][1]] = l
      BY <2>1 DEF LaneSound
    <3>6. <<d[2], gen'[d]>> = t
      BY <3>4 DEF SlotOf
    <3> QED
      <4> DEFINE q == pendingByLane[t][l]   r == Append(q, d)
      <4>1. status[d] # "parked"
        OBVIOUS
      <4>a. /\ q \in Seq(Deliveries) /\ r = Append(q, d) /\ Holds(q, t, "parked")
            /\ \A i \in 1..Len(q) : Lane[q[i][1]] = l
            /\ pendingByLane'[t][l] = r
        BY <2>1, <3>4, <3>5
      <4> HIDE DEF q, r
      <4>2. /\ \A i \in 1..Len(r) : status'[r[i]] = "parked" /\ <<r[i][2], gen'[r[i]]>> = t
            /\ \A i, j \in 1..Len(r) : r[i] = r[j] => i = j
            /\ \A i \in 1..Len(r) : r[i] = d \/ \E j \in 1..Len(q) : r[i] = q[j]
        BY <1>2, <3>3, <3>6, <4>1, <4>a, HoldsAppend DEF Holds, SlotOf
      <4>3. \A i \in 1..Len(r) : Lane[r[i][1]] = l
        BY <3>4, <4>2, <4>a
      <4> QED
        BY <4>2, <4>3, <4>a DEF LaneSound, Holds, SlotOf
  <2> QED
    BY <2>2, <2>3
<1> QED
  BY <1>1, <1>3

\* The worker receives the head of one of its channels.
LEMMA QueuesPull ==
  ASSUME TypeOK, QueuesSound, NEW s \in Slots, PullControl(s) \/ PullEvent(s)
  PROVE  QueuesSound'
<1>1. CASE PullControl(s)
  <2> DEFINE d == Head(controlQueue[s])
  <2>1. /\ controlQueue[s] # <<>> /\ controlQueue' = [controlQueue EXCEPT ![s] = Tail(@)]
        /\ UNCHANGED <<eventQueue, gen>> /\ WorkerEnqueue(s, d)
    BY <1>1 DEF PullControl, calls
  <2>2. /\ d \in Deliveries /\ d[1] \in Control /\ status[d] = "queued" /\ SlotOf(d) = s
    BY <2>1, TailItems, ItemsType DEF QueuesSound, ControlSound, Holds
  <2> HIDE DEF d
  <2>3. /\ \A x \in Deliveries : x # d => status'[x] = status[x]
        /\ \A t \in Slots, l \in Lanes : LaneSound(t, l)'
    BY <2>1, <2>2, QueuesWorkerEnqueue
  <2> SUFFICES ASSUME NEW t \in Slots PROVE EventsSound(t)' /\ ControlSound(t)'
    BY <2>3 DEF QueuesSound
  <2>4. EventsSound(t) /\ ControlSound(t)
    BY DEF QueuesSound
  <2>5. EventsSound(t)'
    <3>1. \A i \in 1..Len(eventQueue[t]) : eventQueue[t][i] \in Deliveries /\ eventQueue[t][i] # d
      BY <2>2, <2>4, ItemsType DEF EventsSound
    <3> QED
      BY <2>1, <2>3, <2>4, <3>1 DEF EventsSound, Holds, SlotOf
  <2>6. ControlSound(t)'
    <3>1. CASE t = s
      <4>1. controlQueue'[t] = Tail(controlQueue[t])
        BY <2>1, <3>1 DEF TypeOK, TypeQueues
      <4>2. /\ Holds(controlQueue[t], t, "queued") /\ controlQueue[t] \in Seq(Deliveries)
            /\ \A i \in 1..Len(controlQueue[t]) : controlQueue[t][i][1] \in Control
        BY <2>4, ItemsType DEF ControlSound
      <4> QED
        <5> DEFINE q == controlQueue[t]   r == Tail(q)
        <5>1. q # <<>> /\ \A x \in Deliveries : x # Head(q) =>
                status'[x] = status[x] /\ gen'[x] = gen[x]
          BY <2>1, <2>3, <3>1 DEF d
        <5>2. /\ q \in Seq(Deliveries) /\ r = Tail(q) /\ Holds(q, t, "queued")
              /\ \A i \in 1..Len(q) : q[i][1] \in Control
              /\ controlQueue'[t] = r
          BY <4>1, <4>2
        <5> HIDE DEF q, r
        <5>3. /\ \A i \in 1..Len(r) : status'[r[i]] = "queued" /\ <<r[i][2], gen'[r[i]]>> = t
              /\ \A i, j \in 1..Len(r) : r[i] = r[j] => i = j
              /\ \A i \in 1..Len(r) : \E j \in 1..Len(q) : r[i] = q[j]
          BY <5>1, <5>2, HoldsTail DEF Holds, SlotOf
        <5>4. \A i \in 1..Len(r) : r[i][1] \in Control
          BY <5>2, <5>3
        <5> QED
          BY <5>2, <5>3, <5>4 DEF ControlSound, Holds, SlotOf
    <3>2. CASE t # s
      <4>1. controlQueue'[t] = controlQueue[t]
        BY <2>1, <3>2 DEF TypeOK, TypeQueues
      <4>2. \A x \in Deliveries : SlotOf(x) = t => status'[x] = status[x] /\ gen'[x] = gen[x]
        BY <2>1, <2>2, <2>3, <3>2
      <4> QED
        BY <2>4, <4>1, <4>2, HoldsKept, ItemsType DEF ControlSound, Holds, SlotOf
    <3> QED
      BY <3>1, <3>2
  <2> QED
    BY <2>5, <2>6
<1>2. CASE PullEvent(s)
  <2> DEFINE d == Head(eventQueue[s])
  <2>1. /\ eventQueue[s] # <<>> /\ eventQueue' = [eventQueue EXCEPT ![s] = Tail(@)]
        /\ UNCHANGED <<controlQueue, gen>> /\ WorkerEnqueue(s, d)
    BY <1>2 DEF PullEvent, calls
  <2>2. /\ d \in Deliveries /\ d[1] \notin Control /\ status[d] = "queued" /\ SlotOf(d) = s
    BY <2>1, TailItems, ItemsType DEF QueuesSound, EventsSound, Holds
  <2> HIDE DEF d
  <2>3. /\ \A x \in Deliveries : x # d => status'[x] = status[x]
        /\ \A t \in Slots, l \in Lanes : LaneSound(t, l)'
    BY <2>1, <2>2, QueuesWorkerEnqueue
  <2> SUFFICES ASSUME NEW t \in Slots PROVE EventsSound(t)' /\ ControlSound(t)'
    BY <2>3 DEF QueuesSound
  <2>4. EventsSound(t) /\ ControlSound(t)
    BY DEF QueuesSound
  <2>5. ControlSound(t)'
    <3>1. \A i \in 1..Len(controlQueue[t]) :
            controlQueue[t][i] \in Deliveries /\ controlQueue[t][i] # d
      BY <2>2, <2>4, ItemsType DEF ControlSound
    <3> QED
      BY <2>1, <2>3, <2>4, <3>1 DEF ControlSound, Holds, SlotOf
  <2>6. EventsSound(t)'
    <3>1. CASE t = s
      <4>1. eventQueue'[t] = Tail(eventQueue[t])
        BY <2>1, <3>1 DEF TypeOK, TypeQueues
      <4>2. /\ Holds(eventQueue[t], t, "queued") /\ eventQueue[t] \in Seq(Deliveries)
            /\ \A i \in 1..Len(eventQueue[t]) : eventQueue[t][i][1] \notin Control
        BY <2>4, ItemsType DEF EventsSound
      <4> QED
        <5> DEFINE q == eventQueue[t]   r == Tail(q)
        <5>1. q # <<>> /\ \A x \in Deliveries : x # Head(q) =>
                status'[x] = status[x] /\ gen'[x] = gen[x]
          BY <2>1, <2>3, <3>1 DEF d
        <5>2. /\ q \in Seq(Deliveries) /\ r = Tail(q) /\ Holds(q, t, "queued")
              /\ \A i \in 1..Len(q) : q[i][1] \notin Control
              /\ eventQueue'[t] = r
          BY <4>1, <4>2
        <5> HIDE DEF q, r
        <5>3. /\ \A i \in 1..Len(r) : status'[r[i]] = "queued" /\ <<r[i][2], gen'[r[i]]>> = t
              /\ \A i, j \in 1..Len(r) : r[i] = r[j] => i = j
              /\ \A i \in 1..Len(r) : \E j \in 1..Len(q) : r[i] = q[j]
          BY <5>1, <5>2, HoldsTail DEF Holds, SlotOf
        <5>4. \A i \in 1..Len(r) : r[i][1] \notin Control
          BY <5>2, <5>3
        <5> QED
          BY <5>2, <5>3, <5>4 DEF EventsSound, Holds, SlotOf
    <3>2. CASE t # s
      <4>1. eventQueue'[t] = eventQueue[t]
        BY <2>1, <3>2 DEF TypeOK, TypeQueues
      <4>2. \A x \in Deliveries : SlotOf(x) = t => status'[x] = status[x] /\ gen'[x] = gen[x]
        BY <2>1, <2>2, <2>3, <3>2
      <4> QED
        <5> DEFINE q == eventQueue[t]
        <5>1. /\ q \in Seq(Deliveries) /\ Holds(q, t, "queued") /\ eventQueue'[t] = q
              /\ \A i \in 1..Len(q) : q[i][1] \notin Control
          BY <2>4, <4>1, ItemsType DEF EventsSound
        <5> HIDE DEF q
        <5>2. /\ \A i \in 1..Len(q) : status'[q[i]] = "queued" /\ <<q[i][2], gen'[q[i]]>> = t
              /\ \A i, j \in 1..Len(q) : q[i] = q[j] => i = j
          BY <4>2, <5>1, HoldsKept
        <5> QED
          BY <5>1, <5>2 DEF EventsSound, Holds, SlotOf
    <3> QED
      BY <3>1, <3>2
  <2> QED
    BY <2>5, <2>6
<1> QED
  BY <1>1, <1>2

\* A lane that is free again starts the first delivery parked behind it.
LEMMA QueuesStartReadyLane ==
  ASSUME TypeOK, QueuesSound, NEW s \in Slots, NEW m \in Lanes, StartReadyLane(s, m)
  PROVE  QueuesSound'
<1> DEFINE d == Head(pendingByLane[s][m])
<1>1. /\ pendingByLane[s][m] # <<>> /\ status' = [status EXCEPT ![d] = "started"]
      /\ pendingByLane' = [pendingByLane EXCEPT ![s][m] = Tail(@)]
      /\ UNCHANGED <<eventQueue, controlQueue, gen>>
  BY DEF StartReadyLane, Startable, calls
<1>2. /\ d \in Deliveries /\ status[d] = "parked" /\ SlotOf(d) = s /\ Lane[d[1]] = m
  BY <1>1, TailItems, ItemsType DEF QueuesSound, LaneSound, Holds
<1>3. \A x \in Deliveries : x # d => status'[x] = status[x] /\ gen'[x] = gen[x]
  BY <1>1 DEF TypeOK, TypeDeliveries
<1> SUFFICES ASSUME NEW t \in Slots
             PROVE  /\ EventsSound(t)' /\ ControlSound(t)'
                    /\ \A l \in Lanes : LaneSound(t, l)'
  BY DEF QueuesSound
<1>4. EventsSound(t) /\ ControlSound(t) /\ \A l \in Lanes : LaneSound(t, l)
  BY DEF QueuesSound
<1>5. \A x \in Deliveries : status[x] = "queued" => status'[x] = status[x] /\ gen'[x] = gen[x]
  BY <1>2, <1>3
<1>6. EventsSound(t)'
  BY <1>1, <1>4, <1>5, HoldsKept, ItemsType DEF EventsSound, Holds, SlotOf
<1>7. ControlSound(t)'
  BY <1>1, <1>4, <1>5, HoldsKept, ItemsType DEF ControlSound, Holds, SlotOf
<1>8. ASSUME NEW l \in Lanes PROVE LaneSound(t, l)'
  <2>1. /\ Holds(pendingByLane[t][l], t, "parked") /\ pendingByLane[t][l] \in Seq(Deliveries)
        /\ \A i \in 1..Len(pendingByLane[t][l]) : Lane[pendingByLane[t][l][i][1]] = l
    BY <1>4, ItemsType DEF LaneSound
  <2>2. CASE t = s /\ l = m
    <3>1. pendingByLane'[t][l] = Tail(pendingByLane[t][l])
      BY <1>1, <2>2 DEF TypeOK, TypeWorker
    <3> QED
      <4> DEFINE q == pendingByLane[t][l]   r == Tail(q)
      <4>1. q # <<>> /\ \A x \in Deliveries : x # Head(q) =>
              status'[x] = status[x] /\ gen'[x] = gen[x]
        BY <1>1, <1>3, <2>2
      <4>a. /\ q \in Seq(Deliveries) /\ r = Tail(q) /\ Holds(q, t, "parked")
            /\ \A i \in 1..Len(q) : Lane[q[i][1]] = l
            /\ pendingByLane'[t][l] = r
        BY <2>1, <3>1
      <4> HIDE DEF q, r
      <4>2. /\ \A i \in 1..Len(r) : status'[r[i]] = "parked" /\ <<r[i][2], gen'[r[i]]>> = t
            /\ \A i, j \in 1..Len(r) : r[i] = r[j] => i = j
            /\ \A i \in 1..Len(r) : \E j \in 1..Len(q) : r[i] = q[j]
        BY <4>1, <4>a, HoldsTail DEF Holds, SlotOf
      <4>3. \A i \in 1..Len(r) : Lane[r[i][1]] = l
        BY <4>2, <4>a
      <4> QED
        BY <4>2, <4>3, <4>a DEF LaneSound, Holds, SlotOf
  <2>3. CASE t # s \/ l # m
    <3>1. pendingByLane'[t][l] = pendingByLane[t][l]
      BY <1>1, <2>3 DEF TypeOK, TypeWorker
    <3>2. \A i \in 1..Len(pendingByLane[t][l]) :
            pendingByLane[t][l][i] \in Deliveries /\ pendingByLane[t][l][i] # d
      BY <1>2, <2>1, <2>3 DEF Holds
    <3> HIDE DEF d
    <3> QED
      BY <1>3, <2>1, <3>1, <3>2 DEF LaneSound, Holds, SlotOf
  <2> QED
    BY <2>2, <2>3
<1> QED
  BY <1>6, <1>7, <1>8

-----------------------------------------------------------------------------
(* CallsSound and LayersSound.                                             *)

\* A step of no call: nothing is admitted or refused.
CallsQuiet ==
  /\ UNCHANGED <<call, todo, layer>>
  /\ \A d \in Deliveries : (status[d] = "none") <=> (status'[d] = "none")
  /\ \A d \in Deliveries : status[d] = "none" => result'[d] = result[d]
  /\ \A e \in Events : open'[e] > 0 => open[e] > 0

LEMMA CallsKept ==
  ASSUME CallsSound, CallsQuiet PROVE CallsSound'
<1>1. /\ call' = call /\ todo' = todo /\ layer' = layer
      /\ \A d \in Deliveries : (status[d] = "none") <=> (status'[d] = "none")
      /\ \A d \in Deliveries : status[d] = "none" => result'[d] = result[d]
      /\ \A e \in Events : open'[e] > 0 => open[e] > 0
  BY DEF CallsQuiet
<1>2. ASSUME NEW d \in Deliveries
      PROVE  /\ call'[d[1]] \in {"idle", "selected"} =>
                  status'[d] = "none" /\ result'[d] = "none" /\ layer'[d] = 0
             /\ d[2] \in todo'[d[1]] => status'[d] = "none"
             /\ status'[d] = "none" => result'[d] = "none"
  BY <1>1 DEF CallsSound
<1>3. ASSUME NEW e \in Events
      PROVE  /\ call'[e] \in {"idle", "returned"} => todo'[e] = {}
             /\ open'[e] > 0 => call'[e] = "returned"
  BY <1>1 DEF CallsSound
<1> QED
  BY <1>2, <1>3 DEF CallsSound

\* A step that opens no layer: completed deliveries keep their result, a
\* delivery goes on only past an open gate and is skipped only by its gate.
LayersQuiet ==
  /\ UNCHANGED <<pin, layer, open, stopLayer>>
  /\ \A d \in Deliveries :
       /\ Finished(d) => Finished(d)' /\ result'[d] = result[d]
       /\ Reached(d)' => Reached(d) \/ (GateOpen(d) /\ ~GateSkips(d))
       /\ result'[d] = "skipped" => result[d] = "skipped" \/ GateSkips(d)

LEMMA StoppedAtKept ==
  ASSUME LayersQuiet, NEW e, NEW k, StoppedAt(e, k) PROVE StoppedAt(e, k)'
<1>1. PICK x \in Deliveries : x[1] = e /\ layer[x] = k /\ Finished(x) /\ Stops(x)
  BY DEF StoppedAt
<1>2. layer'[x] = k /\ Finished(x)' /\ Stops(x)'
  BY <1>1 DEF LayersQuiet, Stops
<1> QED
  BY <1>1, <1>2 DEF StoppedAt

LEMMA LayersKept ==
  ASSUME TypeOK, LayersSound, LayersQuiet PROVE LayersSound'
<1>1. layer' = layer /\ open' = open /\ stopLayer' = stopLayer /\ pin' = pin
  BY DEF LayersQuiet
<1>2. ASSUME NEW x \in Deliveries, layer'[x] \in 1..(open'[x[1]] - 1)
      PROVE  Finished(x)' /\ (Stops(x)' => stopLayer'[x[1]] \in 1..layer'[x])
  <2>1. Finished(x) /\ (Stops(x) => stopLayer[x[1]] \in 1..layer[x])
    BY <1>1, <1>2 DEF LayersSound
  <2>2. Finished(x)' /\ (Stops(x)' <=> Stops(x))
    BY <1>1, <2>1 DEF LayersQuiet, Stops
  <2> QED
    BY <1>1, <2>1, <2>2
<1>3. ASSUME NEW e \in Events, stopLayer'[e] > 0
      PROVE  stopLayer'[e] < open'[e] /\ StoppedAt(e, stopLayer[e])'
  BY <1>1, <1>3, StoppedAtKept DEF LayersSound
<1>4. ASSUME NEW d \in Deliveries
      PROVE  /\ Reached(d)' /\ layer'[d] > 1 => open'[d[1]] >= layer'[d] /\ ~GateSkips(d)'
             /\ result'[d] = "skipped" =>
                  \E k \in 1..(layer'[d] - 1) : StoppedAt(d[1], k)'
  <2>1. GateSkips(d)' <=> GateSkips(d)
    BY <1>1 DEF GateSkips
  <2>2. ASSUME Reached(d)', layer'[d] > 1
        PROVE  open'[d[1]] >= layer'[d] /\ ~GateSkips(d)'
    <3>1. CASE Reached(d)
      BY <1>1, <2>1, <2>2, <3>1 DEF LayersSound
    <3>2. CASE GateOpen(d) /\ ~GateSkips(d)
      BY <1>1, <2>1, <2>2, <3>2, DeliveryType DEF GateOpen, TypeOK, TypeCalls
    <3> QED
      BY <2>2, <3>1, <3>2 DEF LayersQuiet
  <2>3. ASSUME result'[d] = "skipped"
        PROVE  \E k \in 1..(layer'[d] - 1) : StoppedAt(d[1], k)'
    <3>1. \E k \in 1..(layer[d] - 1) : StoppedAt(d[1], k)
      <4>1. CASE result[d] = "skipped"
        BY <4>1 DEF LayersSound
      <4>2. CASE GateSkips(d)
        <5>1. stopLayer[d[1]] \in 1..(layer[d] - 1) /\ d[1] \in Events
          BY <4>2, DeliveryType DEF GateSkips
        <5> QED
          BY <5>1 DEF LayersSound
      <4> QED
        BY <2>3, <4>1, <4>2 DEF LayersQuiet
    <3> QED
      BY <1>1, <3>1, StoppedAtKept
  <2> QED
    BY <2>2, <2>3
<1> QED
  BY <1>1, <1>2, <1>3, <1>4 DEF LayersSound

\* Steps of one delivery d in a status where it waits or runs.
Moves(d, from, to) ==
  /\ status[d] \in from /\ status'[d] \in to
  /\ \A x \in Deliveries : x # d => status'[x] = status[x] /\ result'[x] = result[x]
  /\ UNCHANGED <<call, todo, pin, layer, open, stopLayer>>

LEMMA MoveQuiet ==
  ASSUME NEW d \in Deliveries,
         Moves(d, {"queued", "parked", "started", "delivering", "settled"},
                  {"parked", "started", "delivering", "settled", "released"}),
         status[d] = "settled" => status'[d] = "released" /\ result'[d] = result[d],
         Reached(d)' => Reached(d) \/ (GateOpen(d) /\ ~GateSkips(d)),
         result'[d] = "skipped" => result[d] = "skipped" \/ GateSkips(d)
  PROVE  CallsQuiet /\ LayersQuiet
<1>1. /\ status[d] \in {"queued", "parked", "started", "delivering", "settled"}
      /\ status'[d] \in {"parked", "started", "delivering", "settled", "released"}
      /\ \A x \in Deliveries : x # d => status'[x] = status[x] /\ result'[x] = result[x]
      /\ call' = call /\ todo' = todo /\ pin' = pin /\ layer' = layer /\ open' = open
      /\ stopLayer' = stopLayer
  BY DEF Moves
<1>2. CallsQuiet
  BY <1>1 DEF CallsQuiet
<1>3. ASSUME NEW x \in Deliveries
      PROVE  /\ Finished(x) => Finished(x)' /\ result'[x] = result[x]
             /\ Reached(x)' => Reached(x) \/ (GateOpen(x) /\ ~GateSkips(x))
             /\ result'[x] = "skipped" => result[x] = "skipped" \/ GateSkips(x)
  <2>1. CASE x = d
    <3>1. Finished(x) => Finished(x)' /\ result'[x] = result[x]
      BY <1>1, <2>1 DEF Finished
    <3> QED
      BY <2>1, <3>1
  <2>2. CASE x # d
    BY <1>1, <2>2 DEF Finished, Reached
  <2> QED
    BY <2>1, <2>2
<1> QED
  BY <1>1, <1>2, <1>3 DEF LayersQuiet

\* What the worker receives or starts has not gone through its gate.
LEMMA StartMoves ==
  ASSUME TypeOK, NEW d \in Deliveries, status[d] \in {"queued", "parked"},
         status' = [status EXCEPT ![d] = "started"]
           \/ status' = [status EXCEPT ![d] = "parked"],
         UNCHANGED <<result, call, todo, pin, layer, open, stopLayer>>
  PROVE  CallsQuiet /\ LayersQuiet
<1>1. /\ status'[d] \in {"started", "parked"} /\ result'[d] = result[d]
      /\ \A x \in Deliveries : x # d => status'[x] = status[x] /\ result'[x] = result[x]
  BY DEF TypeOK, TypeDeliveries
<1>2. Moves(d, {"queued", "parked", "started", "delivering", "settled"},
               {"parked", "started", "delivering", "settled", "released"})
  BY <1>1 DEF Moves
<1>3. Reached(d)' => Reached(d)
  BY <1>1 DEF Reached
<1> QED
  BY <1>1, <1>2, <1>3, MoveQuiet

LEMMA StepMoves ==
  ASSUME TypeOK, NEW d \in Deliveries, DeliveryStep(d)
  PROVE  CallsQuiet /\ LayersQuiet
<1>1. UNCHANGED <<call, todo, pin, layer, open, stopLayer>>
  BY DEF DeliveryStep, PassGate, DeliverReturn, BackgroundEnd, calls
<1>2. CASE BackgroundEnd(d)
  BY <1>1, <1>2 DEF BackgroundEnd, CallsQuiet, LayersQuiet, Finished, Reached
<1>3. ASSUME status[d] \in {"started", "delivering"},
             NEW r, Settle(d, r), r = "skipped" => GateSkips(d),
             r \in {"pass", "stop", "continue"} => status[d] = "delivering"
      PROVE  CallsQuiet /\ LayersQuiet
  <2>1. /\ status'[d] = "settled" /\ result'[d] = r
        /\ \A x \in Deliveries : x # d => status'[x] = status[x] /\ result'[x] = result[x]
    BY <1>3 DEF Settle, TypeOK, TypeDeliveries
  <2>2. Moves(d, {"queued", "parked", "started", "delivering", "settled"},
                 {"parked", "started", "delivering", "settled", "released"})
    BY <1>1, <1>3, <2>1 DEF Moves
  <2>3. Reached(d)' => Reached(d)
    BY <1>3, <2>1 DEF Reached
  <2> QED
    BY <1>3, <2>1, <2>2, <2>3, MoveQuiet
<1>4. CASE PassGate(d)
  <2>1. CASE Settle(d, "canceled") \/ Settle(d, "failed")
    BY <1>3, <1>4, <2>1 DEF PassGate
  <2>2. CASE Settle(d, "skipped") /\ GateSkips(d)
    BY <1>3, <1>4, <2>2 DEF PassGate
  <2>3. CASE /\ status' = [status EXCEPT ![d] = "delivering"] /\ UNCHANGED result
             /\ GateOpen(d) /\ ~GateSkips(d)
    <3>1. /\ status[d] = "started" /\ status'[d] = "delivering" /\ result'[d] = result[d]
          /\ \A x \in Deliveries : x # d => status'[x] = status[x] /\ result'[x] = result[x]
      BY <1>4, <2>3 DEF PassGate, TypeOK, TypeDeliveries
    <3>2. Moves(d, {"queued", "parked", "started", "delivering", "settled"},
                   {"parked", "started", "delivering", "settled", "released"})
      BY <1>1, <3>1 DEF Moves
    <3> QED
      BY <2>3, <3>1, <3>2, MoveQuiet
  <2> QED
    BY <1>4, <2>1, <2>2, <2>3 DEF PassGate
<1>5. CASE DeliverReturn(d)
  <2>1. status[d] = "delivering"
    BY <1>5 DEF DeliverReturn
  <2>2. \/ \E r \in Answers : Settle(d, r)
        \/ Settle(d, "canceled") \/ Settle(d, "pass")
    BY <1>5 DEF DeliverReturn, Detach
  <2>3. PICK r \in {"pass", "stop", "continue", "failed", "canceled"} : Settle(d, r)
    BY <2>2, ConstantsAssumption DEF ConstantsAssumption
  <2> QED
    BY <1>3, <2>1, <2>3
<1> QED
  BY <1>2, <1>4, <1>5 DEF DeliveryStep

\* The worker's steps.
LEMMA WorkerKeeps ==
  ASSUME TypeOK, QueuesSound, NEW s \in Slots, WorkerStep(s)
  PROVE  QueuesSound' /\ CallsQuiet /\ LayersQuiet
<1>1. UNCHANGED <<result, call, todo, pin, layer, open, stopLayer, gen>>
  BY DEF WorkerStep, StartReadyLane, PollControl, PullControl, PullEvent, WorkerExit,
         HandleCompletion, calls, ends
<1>2. ASSUME NEW l \in Lanes, StartReadyLane(s, l)
      PROVE  QueuesSound' /\ CallsQuiet /\ LayersQuiet
  <2> DEFINE d == Head(pendingByLane[s][l])
  <2>1. pendingByLane[s][l] # <<>> /\ status' = [status EXCEPT ![d] = "started"]
    BY <1>2 DEF StartReadyLane, Startable
  <2>2. d \in Deliveries /\ status[d] = "parked"
    BY <2>1, TailItems, ItemsType DEF QueuesSound, LaneSound, Holds
  <2> HIDE DEF d
  <2> QED
    BY <1>1, <1>2, <2>1, <2>2, StartMoves, QueuesStartReadyLane
<1>3. ASSUME NEW d \in Deliveries, status[d] = "queued", WorkerEnqueue(s, d)
      PROVE  CallsQuiet /\ LayersQuiet
  <2>1. \/ status' = [status EXCEPT ![d] = "started"]
        \/ status' = [status EXCEPT ![d] = "parked"]
    BY <1>3 DEF WorkerEnqueue
  <2> QED
    BY <1>1, <1>3, <2>1, StartMoves
<1>4. CASE PullControl(s)
  <2>1. controlQueue[s] # <<>> /\ WorkerEnqueue(s, Head(controlQueue[s]))
    BY <1>4 DEF PullControl
  <2>2. Head(controlQueue[s]) \in Deliveries /\ status[Head(controlQueue[s])] = "queued"
    BY <2>1, TailItems, ItemsType DEF QueuesSound, ControlSound, Holds
  <2> QED
    BY <1>3, <1>4, <2>1, <2>2, QueuesPull
<1>5. CASE PullEvent(s)
  <2>1. eventQueue[s] # <<>> /\ WorkerEnqueue(s, Head(eventQueue[s]))
    BY <1>5 DEF PullEvent
  <2>2. Head(eventQueue[s]) \in Deliveries /\ status[Head(eventQueue[s])] = "queued"
    BY <2>1, TailItems, ItemsType DEF QueuesSound, EventsSound, Holds
  <2> QED
    BY <1>3, <1>5, <2>1, <2>2, QueuesPull
<1>6. CASE PollControl(s) \/ WorkerExit(s)
  <2>1. UNCHANGED <<status, eventQueue, controlQueue, pendingByLane>>
    BY <1>6 DEF PollControl, WorkerExit, queues
  <2>2. QueuesSound'
    BY <1>1, <2>1, QueuesKept
  <2> QED
    BY <1>1, <2>1, <2>2 DEF CallsQuiet, LayersQuiet, Finished, Reached
<1>7. ASSUME NEW d \in Deliveries, HandleCompletion(s, d)
      PROVE  QueuesSound' /\ CallsQuiet /\ LayersQuiet
  <2>1. /\ status[d] = "settled" /\ status'[d] = "released"
        /\ \A x \in Deliveries : x # d => status'[x] = status[x] /\ result'[x] = result[x]
        /\ UNCHANGED <<eventQueue, controlQueue, pendingByLane>>
    BY <1>1, <1>7 DEF HandleCompletion, TypeOK, TypeDeliveries, queues
  <2>2. QueuesSound'
    BY <1>1, <2>1, QueuesKept DEF Waiting
  <2>3. Moves(d, {"queued", "parked", "started", "delivering", "settled"},
                 {"parked", "started", "delivering", "settled", "released"})
    BY <1>1, <2>1 DEF Moves
  <2>4. Reached(d)' => Reached(d)
    BY <1>1, <2>1 DEF Reached
  <2> QED
    BY <1>1, <2>1, <2>2, <2>3, <2>4, MoveQuiet
<1> QED
  BY <1>2, <1>4, <1>5, <1>6, <1>7 DEF WorkerStep

\* A call that admits or refuses one of its deliveries.
LEMMA EnqueueKeeps ==
  ASSUME TypeOK, CallsSound, NEW d \in Deliveries, EnqueueAccept(d) \/ EnqueueReject(d)
  PROVE  CallsSound' /\ LayersQuiet
<1>1. /\ d[1] \in Events /\ d[2] \in Plugins /\ d = <<d[1], d[2]>>
      /\ call[d[1]] = "admitting" /\ d[2] \in todo[d[1]]
      /\ status[d] = "none" /\ result[d] = "none"
  BY DeliveryType DEF EnqueueAccept, EnqueueReject, NextTarget, CallsSound, Deliveries
<1>2. /\ todo' = [todo EXCEPT ![d[1]] = @ \ {d[2]}]
      /\ UNCHANGED <<call, pin, layer, open, stopLayer>>
  BY DEF EnqueueAccept, EnqueueReject
<1>3. /\ status'[d] \in {"queued", "rejected"} /\ result'[d] \in {"none", "failed"}
      /\ \A x \in Deliveries : x # d => status'[x] = status[x] /\ result'[x] = result[x]
  BY <1>1 DEF EnqueueAccept, EnqueueReject, Refuse, ends, TypeOK, TypeDeliveries
<1>4. \A x \in Deliveries : x[2] \in todo'[x[1]] => x # d /\ x[2] \in todo[x[1]]
  BY <1>1, <1>2, DeliveryType DEF TypeOK, TypeCalls
<1>5. CallsSound'
  <2>1. ASSUME NEW x \in Deliveries
        PROVE  /\ call'[x[1]] \in {"idle", "selected"} =>
                    status'[x] = "none" /\ result'[x] = "none" /\ layer'[x] = 0
               /\ x[2] \in todo'[x[1]] => status'[x] = "none"
               /\ status'[x] = "none" => result'[x] = "none"
    BY <1>1, <1>2, <1>3, <1>4 DEF CallsSound
  <2>2. ASSUME NEW e \in Events
        PROVE  /\ call'[e] \in {"idle", "returned"} => todo'[e] = {}
               /\ open'[e] > 0 => call'[e] = "returned"
    BY <1>1, <1>2 DEF CallsSound, TypeOK, TypeCalls
  <2> QED
    BY <2>1, <2>2 DEF CallsSound
<1>6. ASSUME NEW x \in Deliveries
      PROVE  /\ Finished(x) => Finished(x)' /\ result'[x] = result[x]
             /\ Reached(x)' => Reached(x)
             /\ result'[x] = "skipped" => result[x] = "skipped"
  <2>1. CASE x = d
    BY <1>1, <1>3, <2>1 DEF Finished, Reached
  <2>2. CASE x # d
    BY <1>3, <2>2 DEF Finished, Reached
  <2> QED
    BY <2>1, <2>2
<1> QED
  BY <1>2, <1>5, <1>6 DEF LayersQuiet

\* DispatchReturn opens the first layer of a call that had none open.
LEMMA ReturnKeeps ==
  ASSUME TypeOK, CallsSound, LayersSound, NEW e \in Events, DispatchReturn(e)
  PROVE  CallsSound' /\ LayersSound'
<1>1. /\ call[e] = "admitting" /\ todo[e] = {} /\ call' = [call EXCEPT ![e] = "returned"]
      /\ UNCHANGED <<todo, pin, layer, stopLayer, status, result>>
      /\ \A x \in Events : x # e => open'[x] = open[x] /\ call'[x] = call[x]
      /\ open'[e] \in {0, 1} /\ call'[e] = "returned"
  BY DEF DispatchReturn, FirstLayer, ends, TypeOK, TypeCalls
<1>2. open[e] = 0 /\ stopLayer[e] = 0
  <2>1. open[e] \in Nat /\ stopLayer[e] \in Nat
    BY DEF TypeOK, TypeCalls
  <2>2. ~(open[e] > 0)
    BY <1>1 DEF CallsSound
  <2>3. stopLayer[e] > 0 => stopLayer[e] < open[e]
    BY DEF LayersSound
  <2> QED
    BY <2>1, <2>2, <2>3
<1>3. CallsSound'
  BY <1>1, DeliveryType DEF CallsSound
<1>4. \A x, k : StoppedAt(x, k) <=> StoppedAt(x, k)'
  BY <1>1 DEF StoppedAt, Finished, Stops
<1>5. ASSUME NEW x \in Deliveries, layer'[x] \in 1..(open'[x[1]] - 1)
      PROVE  Finished(x)' /\ (Stops(x)' => stopLayer'[x[1]] \in 1..layer'[x])
  <2>1. x[1] # e
    BY <1>1, <1>5 DEF TypeOK, TypeCalls
  <2> QED
    BY <1>1, <1>5, <2>1, DeliveryType DEF LayersSound, Finished, Stops
<1>6. ASSUME NEW x \in Events, stopLayer'[x] > 0
      PROVE  stopLayer'[x] < open'[x] /\ StoppedAt(x, stopLayer[x])'
  BY <1>1, <1>2, <1>4, <1>6 DEF LayersSound
<1>7. ASSUME NEW d \in Deliveries
      PROVE  /\ Reached(d)' /\ layer'[d] > 1 => open'[d[1]] >= layer'[d] /\ ~GateSkips(d)'
             /\ result'[d] = "skipped" =>
                  \E k \in 1..(layer'[d] - 1) : StoppedAt(d[1], k)'
  <2>1. open'[d[1]] >= open[d[1]]
    <3>1. d[1] \in Events /\ open[d[1]] \in Nat
      BY DeliveryType DEF TypeOK, TypeCalls
    <3> QED
      BY <1>1, <1>2, <3>1
  <2>2. /\ Reached(d) <=> Reached(d)'
        /\ GateSkips(d) <=> GateSkips(d)'
    BY <1>1 DEF Reached, GateSkips
  <2>3. open[d[1]] \in Nat /\ open'[d[1]] \in Nat /\ layer[d] \in Nat
    BY <1>1, DeliveryType DEF TypeOK, TypeCalls
  <2> QED
    BY <1>1, <1>4, <2>1, <2>2, <2>3 DEF LayersSound
<1>8. layer' = layer /\ stopLayer' = stopLayer
  BY <1>1
<1> QED
  BY <1>3, <1>5, <1>6, <1>7, <1>8 DEF LayersSound

\* AdvanceLayer: the open layer has completed, the next one opens.
LEMMA AdvanceKeeps ==
  ASSUME TypeOK, CallsSound, LayersSound, NEW e \in Events, AdvanceLayer(e)
  PROVE  CallsSound' /\ LayersSound'
<1> DEFINE members == {d \in Deliveries : d[1] = e /\ layer[d] = open[e]}
<1>1. /\ open[e] > 0 /\ open' = [open EXCEPT ![e] = @ + 1]
      /\ \A d \in Deliveries : d[1] = e /\ layer[d] = open[e] => Finished(d)
      /\ UNCHANGED <<call, todo, pin, layer, status, result>>
  BY DEF AdvanceLayer, ends
<1>2. /\ \A x \in Events : x # e => open'[x] = open[x] /\ stopLayer'[x] = stopLayer[x]
      /\ open'[e] = open[e] + 1
      /\ stopLayer'[e] = IF stopLayer[e] = 0 /\ (\E d \in members : Stops(d))
                         THEN open[e] ELSE stopLayer[e]
  BY DEF AdvanceLayer, TypeOK, TypeCalls
<1>3. /\ \A x \in Events : open[x] \in Nat /\ stopLayer[x] \in Nat
      /\ \A d \in Deliveries : layer[d] \in Nat
  BY DEF TypeOK, TypeCalls
<1>4. CallsQuiet
  <2>1. \A x \in Events : open'[x] > 0 => open[x] > 0
    BY <1>1, <1>2
  <2> QED
    BY <1>1, <2>1 DEF CallsQuiet
<1>5. \A x, k : StoppedAt(x, k) <=> StoppedAt(x, k)'
  BY <1>1 DEF StoppedAt, Finished, Stops
<1>6. ASSUME NEW x \in Deliveries, layer'[x] \in 1..(open'[x[1]] - 1)
      PROVE  Finished(x)' /\ (Stops(x)' => stopLayer'[x[1]] \in 1..layer'[x])
  <2>1. Finished(x) <=> Finished(x)'
    BY <1>1 DEF Finished
  <2>2. Stops(x) <=> Stops(x)'
    BY <1>1 DEF Stops
  <2>3. CASE x[1] # e
    BY <1>1, <1>2, <1>6, <2>1, <2>2, <2>3, DeliveryType DEF LayersSound
  <2>4. CASE x[1] = e /\ layer[x] = open[e]
    <3>1. Finished(x)
      BY <1>1, <2>4
    <3>2. ASSUME Stops(x) PROVE stopLayer'[e] \in 1..layer[x]
      <4>1. stopLayer[e] = 0 => stopLayer'[e] = open[e]
        BY <1>2, <2>4, <3>2
      <4>2. stopLayer[e] # 0 => stopLayer'[e] = stopLayer[e] /\ stopLayer[e] < open[e]
        BY <1>2, <1>3 DEF LayersSound
      <4> QED
        BY <1>1, <1>3, <2>4, <4>1, <4>2
    <3> QED
      BY <1>1, <2>1, <2>2, <2>4, <3>1, <3>2
  <2>5. CASE x[1] = e /\ layer[x] # open[e]
    <3>1. layer[x] \in 1..(open[e] - 1)
      BY <1>1, <1>2, <1>3, <1>6, <2>5
    <3>2. Finished(x) /\ (Stops(x) => stopLayer[e] \in 1..layer[x])
      BY <2>5, <3>1 DEF LayersSound
    <3>3. stopLayer[e] > 0 => stopLayer'[e] = stopLayer[e]
      BY <1>2
    <3> QED
      BY <1>1, <1>3, <2>1, <2>2, <2>5, <3>2, <3>3
  <2> QED
    BY <2>3, <2>4, <2>5
<1>7. ASSUME NEW x \in Events, stopLayer'[x] > 0
      PROVE  stopLayer'[x] < open'[x] /\ StoppedAt(x, stopLayer[x])'
  <2>1. CASE x # e \/ stopLayer'[x] = stopLayer[x]
    <3>1. stopLayer[x] < open[x] /\ StoppedAt(x, stopLayer[x])
      BY <1>2, <1>7, <2>1 DEF LayersSound
    <3> QED
      BY <1>2, <1>3, <1>5, <2>1, <3>1
  <2>2. CASE x = e /\ stopLayer'[x] # stopLayer[x]
    <3>1. stopLayer'[e] = open[e] /\ \E d \in members : Stops(d)
      BY <1>2, <2>2
    <3>2. StoppedAt(e, open[e])
      BY <1>1, <3>1 DEF StoppedAt
    <3> QED
      BY <1>2, <1>3, <1>5, <2>2, <3>1, <3>2
  <2> QED
    BY <2>1, <2>2
<1>8. ASSUME NEW d \in Deliveries
      PROVE  /\ Reached(d)' /\ layer'[d] > 1 => open'[d[1]] >= layer'[d] /\ ~GateSkips(d)'
             /\ result'[d] = "skipped" =>
                  \E k \in 1..(layer'[d] - 1) : StoppedAt(d[1], k)'
  <2>1. ASSUME Reached(d)', layer'[d] > 1
        PROVE  open'[d[1]] >= layer'[d] /\ ~GateSkips(d)'
    <3>1. open[d[1]] >= layer[d] /\ ~GateSkips(d) /\ layer[d] > 1
      BY <1>1, <2>1 DEF LayersSound, Reached
    <3>2. CASE d[1] # e
      BY <1>1, <1>2, <3>1, <3>2, DeliveryType DEF GateSkips
    <3>3. CASE d[1] = e
      <4>1. stopLayer[e] \notin 1..(layer[d] - 1)
        BY <3>1, <3>3 DEF GateSkips
      <4>2. stopLayer'[e] \notin 1..(layer[d] - 1)
        BY <1>2, <1>3, <3>1, <3>3, <4>1
      <4> QED
        BY <1>1, <1>2, <1>3, <3>1, <3>3, <4>2 DEF GateSkips
    <3> QED
      BY <3>2, <3>3
  <2>2. ASSUME result'[d] = "skipped"
        PROVE  \E k \in 1..(layer'[d] - 1) : StoppedAt(d[1], k)'
    BY <1>1, <1>5, <2>2 DEF LayersSound
  <2> QED
    BY <2>1, <2>2
<1> QED
  BY <1>4, <1>6, <1>7, <1>8, CallsKept DEF LayersSound

\* A call that begins: nothing has happened yet to the deliveries it selects.
LEMMA BeginKeepsLayers ==
  ASSUME TypeOK, CallsSound, LayersSound, NEW e \in Events, call[e] = "idle",
         UNCHANGED <<status, result, open, stopLayer>>,
         \A d \in Deliveries : d[1] # e => pin'[d] = pin[d] /\ layer'[d] = layer[d]
  PROVE  LayersSound'
<1>1. /\ \A d \in Deliveries : d[1] = e => status[d] = "none" /\ result[d] = "none"
      /\ open[e] = 0
  <2>1. open[e] \in Nat /\ ~(open[e] > 0)
    BY DEF CallsSound, TypeOK, TypeCalls
  <2>2. ASSUME NEW d \in Deliveries, d[1] = e PROVE status[d] = "none" /\ result[d] = "none"
    BY <2>2 DEF CallsSound
  <2> QED
    BY <2>1, <2>2
<1>2. open' = open /\ stopLayer' = stopLayer /\ status' = status /\ result' = result
  OBVIOUS
<1>3. \A d \in Deliveries : d[1] = e => ~Finished(d) /\ ~Reached(d) /\ result[d] # "skipped"
  BY <1>1 DEF Finished, Reached
<1>4. ASSUME NEW x, NEW k, StoppedAt(x, k) PROVE StoppedAt(x, k)'
  <2>1. PICK d \in Deliveries : d[1] = x /\ layer[d] = k /\ Finished(d) /\ Stops(d)
    BY <1>4 DEF StoppedAt
  <2>2. layer'[d] = k /\ Finished(d)' /\ Stops(d)'
    BY <1>2, <1>3, <2>1 DEF Finished, Stops
  <2> QED
    BY <2>1, <2>2 DEF StoppedAt
<1>5. ASSUME NEW x \in Deliveries, layer'[x] \in 1..(open'[x[1]] - 1)
      PROVE  Finished(x)' /\ (Stops(x)' => stopLayer'[x[1]] \in 1..layer'[x])
  <2>1. x[1] # e
    BY <1>1, <1>5 DEF TypeOK, TypeCalls
  <2>2. layer'[x] = layer[x] /\ (Stops(x)' <=> Stops(x)) /\ (Finished(x)' <=> Finished(x))
    BY <1>2, <2>1 DEF Stops, Finished
  <2> QED
    BY <1>2, <1>5, <2>2 DEF LayersSound
<1>6. ASSUME NEW x \in Events, stopLayer'[x] > 0
      PROVE  stopLayer'[x] < open'[x] /\ StoppedAt(x, stopLayer[x])'
  BY <1>2, <1>4, <1>6 DEF LayersSound
<1>7. ASSUME NEW d \in Deliveries
      PROVE  /\ Reached(d)' /\ layer'[d] > 1 => open'[d[1]] >= layer'[d] /\ ~GateSkips(d)'
             /\ result'[d] = "skipped" =>
                  \E k \in 1..(layer'[d] - 1) : StoppedAt(d[1], k)'
  <2>1. Reached(d)' <=> Reached(d)
    BY <1>2 DEF Reached
  <2>2. CASE d[1] = e
    BY <1>2, <1>3, <2>1, <2>2
  <2>3. CASE d[1] # e
    <3>1. layer'[d] = layer[d] /\ (GateSkips(d)' <=> GateSkips(d))
      BY <1>2, <2>3 DEF GateSkips
    <3> QED
      BY <1>2, <1>4, <2>1, <3>1 DEF LayersSound
  <2> QED
    BY <2>2, <2>3
<1> QED
  BY <1>5, <1>6, <1>7, <1>2 DEF LayersSound

LEMMA BeginKeeps ==
  ASSUME TypeOK, CallsSound, LayersSound, NEW e \in Events, BeginCall(e)
  PROVE  CallsSound' /\ LayersSound'
<1>1. /\ call[e] = "idle" /\ todo[e] = {} /\ open[e] \in Nat /\ ~(open[e] > 0)
      /\ \A d \in Deliveries : d[1] = e =>
           status[d] = "none" /\ result[d] = "none" /\ layer[d] = 0
  BY DEF BeginCall, DispatchLayered, DispatchSelect, DispatchToProcess, CallsSound,
         TypeOK, TypeCalls
<1>2. /\ UNCHANGED <<status, result, open, stopLayer>>
      /\ \A x \in Events : x # e => call'[x] = call[x] /\ todo'[x] = todo[x]
      /\ \/ call'[e] = "returned" /\ todo'[e] = {}
         \/ call'[e] = "admitting"
         \/ call'[e] = "selected"
      /\ call'[e] = "selected" => UNCHANGED layer
  <2>1. CASE DispatchLayered(e)
    BY <1>1, <2>1 DEF DispatchLayered, ends, TypeOK, TypeCalls
  <2>2. CASE DispatchSelect(e)
    BY <1>1, <2>2 DEF DispatchSelect, ends, TypeOK, TypeCalls
  <2>3. CASE DispatchToProcess(e)
    BY <1>1, <2>3 DEF DispatchToProcess, ends, TypeOK, TypeCalls
  <2> QED
    BY <2>1, <2>2, <2>3 DEF BeginCall
<1>3. \A d \in Deliveries : d[1] # e => pin'[d] = pin[d] /\ layer'[d] = layer[d]
  <2>1. CASE DispatchLayered(e)
    BY <2>1 DEF DispatchLayered, TypeOK, TypeCalls
  <2>2. CASE DispatchSelect(e)
    BY <2>2 DEF DispatchSelect
  <2>3. CASE DispatchToProcess(e)
    BY <2>3 DEF DispatchToProcess, TypeOK, TypeCalls
  <2> QED
    BY <2>1, <2>2, <2>3 DEF BeginCall
<1>4. ASSUME NEW d \in Deliveries
      PROVE  /\ call'[d[1]] \in {"idle", "selected"} =>
                  status'[d] = "none" /\ result'[d] = "none" /\ layer'[d] = 0
             /\ d[2] \in todo'[d[1]] => status'[d] = "none"
             /\ status'[d] = "none" => result'[d] = "none"
  <2>1. CASE d[1] = e
    BY <1>1, <1>2, <2>1
  <2>2. CASE d[1] # e
    BY <1>2, <1>3, <2>2, DeliveryType DEF CallsSound
  <2> QED
    BY <2>1, <2>2
<1>5. ASSUME NEW x \in Events
      PROVE  /\ call'[x] \in {"idle", "returned"} => todo'[x] = {}
             /\ open'[x] > 0 => call'[x] = "returned"
  BY <1>1, <1>2 DEF CallsSound
<1>6. LayersSound'
  BY <1>1, <1>2, <1>3, BeginKeepsLayers
<1> QED
  BY <1>4, <1>5, <1>6 DEF CallsSound

\* EnqueueTargets only takes admissionMu.
LEMMA TakeKeeps ==
  ASSUME TypeOK, CallsSound, NEW e \in Events, EnqueueTargets(e)
  PROVE  CallsSound' /\ LayersQuiet
<1>1. /\ call[e] = "selected" /\ UNCHANGED <<todo, pin, layer, open, stopLayer, status, result>>
      /\ call'[e] = "admitting" /\ \A x \in Events : x # e => call'[x] = call[x]
  BY DEF EnqueueTargets, ends, TypeOK, TypeCalls
<1>2. CallsSound'
  BY <1>1, DeliveryType DEF CallsSound
<1> QED
  BY <1>1, <1>2 DEF LayersQuiet, Finished, Reached

-----------------------------------------------------------------------------
LEMMA LayersInit == Init => IInv
<1> SUFFICES ASSUME Init PROVE QueuesSound /\ CallsSound /\ LayersSound
  BY TypeInit DEF IInv
<1>1. QueuesSound
  BY DEF Init, QueuesSound, EventsSound, ControlSound, LaneSound, Holds
<1>2. CallsSound
  BY DeliveryType DEF Init, CallsSound
<1>3. LayersSound
  BY DeliveryType DEF Init, LayersSound, Reached
<1> QED
  BY <1>1, <1>2, <1>3

LEMMA LayersStep == IInv /\ [Next]_vars => IInv'
<1> SUFFICES ASSUME IInv, [Next]_vars PROVE QueuesSound' /\ CallsSound' /\ LayersSound'
  BY TypeStep DEF IInv
<1> USE DEF IInv
<1>1. ASSUME NEW e \in Events, BeginCall(e) PROVE QueuesSound' /\ CallsSound' /\ LayersSound'
  <2>1. UNCHANGED <<eventQueue, controlQueue, pendingByLane, status, gen>>
    BY <1>1 DEF BeginCall, DispatchLayered, DispatchSelect, DispatchToProcess, queues, worker
  <2>2. QueuesSound'
    BY <2>1, QueuesKept
  <2> QED
    BY <1>1, <2>2, BeginKeeps
<1>2. ASSUME NEW e \in Events, CallStep(e) PROVE QueuesSound' /\ CallsSound' /\ LayersSound'
  <2>1. CASE EnqueueTargets(e) \/ DispatchReturn(e)
    <3>1. UNCHANGED <<eventQueue, controlQueue, pendingByLane, status, gen>>
      BY <2>1 DEF EnqueueTargets, DispatchReturn, queues, worker
    <3>2. QueuesSound'
      BY <3>1, QueuesKept
    <3> QED
      BY <2>1, <3>2, TakeKeeps, ReturnKeeps, LayersKept
  <2>2. ASSUME NEW d \in Deliveries, EnqueueAccept(d)
        PROVE QueuesSound' /\ CallsSound' /\ LayersSound'
    BY <2>2, QueuesAccept, EnqueueKeeps, LayersKept
  <2>3. ASSUME NEW d \in Deliveries, EnqueueReject(d)
        PROVE QueuesSound' /\ CallsSound' /\ LayersSound'
    <3>1. /\ UNCHANGED <<eventQueue, controlQueue, pendingByLane, gen>>
          /\ status[d] = "none" /\ status' = [status EXCEPT ![d] = "rejected"]
      BY <2>3, DeliveryType
      DEF EnqueueReject, NextTarget, Refuse, CallsSound, queues, worker
    <3>2. \A x \in Deliveries : Waiting(x) => status'[x] = status[x]
      BY <3>1 DEF Waiting, TypeOK, TypeDeliveries
    <3>3. QueuesSound'
      BY <3>1, <3>2, QueuesKept
    <3> QED
      BY <2>3, <3>3, EnqueueKeeps, LayersKept
  <2> QED
    BY <1>2, <2>1, <2>2, <2>3, DeliveryType DEF CallStep
<1>3. ASSUME NEW e \in Events, AdvanceLayer(e)
      PROVE QueuesSound' /\ CallsSound' /\ LayersSound'
  <2>1. UNCHANGED <<eventQueue, controlQueue, pendingByLane, status, gen>>
    BY <1>3 DEF AdvanceLayer, queues, worker
  <2>2. QueuesSound'
    BY <2>1, QueuesKept
  <2> QED
    BY <1>3, <2>2, AdvanceKeeps
<1>4. ASSUME NEW s \in Slots, WorkerStep(s)
      PROVE QueuesSound' /\ CallsSound' /\ LayersSound'
  BY <1>4, WorkerKeeps, CallsKept, LayersKept
<1>5. ASSUME NEW d \in Deliveries, DeliveryStep(d)
      PROVE QueuesSound' /\ CallsSound' /\ LayersSound'
  <2>1. /\ UNCHANGED <<eventQueue, controlQueue, pendingByLane, gen>>
        /\ \A x \in Deliveries : Waiting(x) => status'[x] = status[x]
    BY <1>5 DEF DeliveryStep, PassGate, DeliverReturn, BackgroundEnd, Settle, Detach,
                Waiting, queues, worker, calls, TypeOK, TypeDeliveries
  <2>2. QueuesSound'
    BY <2>1, QueuesKept
  <2> QED
    BY <1>5, <2>2, StepMoves, CallsKept, LayersKept
<1>6. CASE UNCHANGED <<queues, pendingByLane, calls, status, ends>>
  <2>1. QueuesSound'
    BY <1>6, QueuesKept DEF queues, calls
  <2>2. CallsQuiet /\ LayersQuiet
    BY <1>6 DEF CallsQuiet, LayersQuiet, Finished, Reached, calls, ends
  <2> QED
    BY <2>1, <2>2, CallsKept, LayersKept
<1>7. ASSUME NEW p \in Plugins, RegistryStep(p)
      PROVE UNCHANGED <<queues, pendingByLane, calls, status, ends>>
  BY <1>7 DEF RegistryStep, Publish, CloseReplaced, DrainPlugin, DrainWait, Deregister,
              DeregisterReturn, worker
<1>8. ASSUME ShutdownStep
      PROVE UNCHANGED <<queues, pendingByLane, calls, status, ends>>
  BY <1>8 DEF ShutdownStep, DrainAll, Close, CloseReturn, DrainAllWait, CloseSlot, worker
<1>9. ASSUME NEW s \in Slots, ForgetRetired(s) \/ RuntimeStops(s)
      PROVE UNCHANGED <<queues, pendingByLane, calls, status, ends>>
  BY <1>9 DEF ForgetRetired, RuntimeStops, worker
<1>10. ASSUME UNCHANGED vars
       PROVE UNCHANGED <<queues, pendingByLane, calls, status, ends>>
  BY <1>10 DEF vars, worker
<1> QED
  BY <1>1, <1>2, <1>3, <1>4, <1>5, <1>6, <1>7, <1>8, <1>9, <1>10 DEF Next

\* The inductive invariant, for the theorems that build on it.
LEMMA LayersInvariant == Spec => []IInv
  BY LayersInit, LayersStep, PTL DEF Spec

LEMMA LayersImply == IInv => LayerOrder
<1> SUFFICES ASSUME IInv, NEW d \in Deliveries, Accepted(d), layer[d] > 0,
                    NEW ahead, ahead = {x \in Deliveries :
                                          x[1] = d[1] /\ layer[x] \in 1..(layer[d] - 1)}
             PROVE  /\ Reached(d) => \A x \in ahead : Finished(x) /\ ~Stops(x)
                    /\ result[d] = "skipped" => \E x \in ahead : Finished(x) /\ Stops(x)
  BY DEF LayerOrder, Reached
<1>1. ASSUME Reached(d), NEW x \in ahead PROVE Finished(x) /\ ~Stops(x)
  <2>1. /\ x \in Deliveries /\ x[1] = d[1] /\ layer[x] \in 1..(layer[d] - 1)
        /\ layer[d] \in Nat /\ layer[x] \in Nat /\ open[d[1]] \in Nat
    BY DeliveryType DEF IInv, TypeOK, TypeCalls
  <2>2. open[d[1]] >= layer[d] /\ ~GateSkips(d)
    BY <1>1, <2>1 DEF IInv, LayersSound
  <2>3. Finished(x) /\ (Stops(x) => stopLayer[d[1]] \in 1..layer[x])
    BY <2>1, <2>2 DEF IInv, LayersSound
  <2>4. stopLayer[d[1]] \notin 1..(layer[d] - 1)
    BY <2>1, <2>2 DEF GateSkips
  <2> QED
    BY <2>1, <2>3, <2>4
<1>2. ASSUME result[d] = "skipped" PROVE \E x \in ahead : Finished(x) /\ Stops(x)
  BY <1>2 DEF IInv, LayersSound, StoppedAt
<1> QED
  BY <1>1, <1>2

\* A message reaches a layer only when every delivery of the layers ahead has
\* completed and none of them stopped propagation, and is skipped only because
\* one of them did, whatever the plugins, policies and registry operations.
THEOREM LayersOrdered == Spec => []LayerOrder
  BY LayersInvariant, LayersImply, PTL

-----------------------------------------------------------------------------
(***************************************************************************)
(* Part 2: queues and lanes.                                               *)
(*                                                                         *)
(* LanesSound, ControlOvertakenOnce and SameAdmissionOrder are invariants  *)
(* of the dispatcher.                                                      *)
(*                                                                         *)
(* A delivery goes through the stages of its slot: the channel, the lane   *)
(* it is parked behind, the worker that runs it, and its release. The      *)
(* inductive invariant says that two deliveries of one lane go through     *)
(* them in the order of their admission (StagesInOrder), which needs the   *)
(* order of every queue (QueuesInOrder) and that a waiting delivery can be *)
(* found in its queue (Placed); that a lane and a worker run what they     *)
(* have room for (LanesExclusive, Capacity); and that the counters count.  *)
(***************************************************************************)
Running(d) == status[d] \in {"started", "delivering", "settled"}
Channel(d) == IF d[1] \in Control THEN controlQueue[SlotOf(d)] ELSE eventQueue[SlotOf(d)]
Parked(d) == pendingByLane[SlotOf(d)][Lane[d[1]]]
Has(q, d) == \E i \in 1..Len(q) : q[i] = d

\* The converse of QueuesSound: what waits can be found again.
Placed ==
  \A d \in Deliveries :
    /\ Accepted(d) => SlotOf(d) \in Slots
    /\ status[d] = "queued" => Has(Channel(d), d)
    /\ status[d] = "parked" => Has(Parked(d), d)

\* A slot logs what it has accepted, once.
LogSound ==
  \A s \in Slots :
    /\ \A i \in 1..Len(log[s]) : Accepted(log[s][i]) /\ SlotOf(log[s][i]) = s
    /\ \A i, j \in 1..Len(log[s]) : log[s][i] = log[s][j] => i = j

\* A delivery passes the stages 3 (channel), 2 (parked), 1 (runs) and 0.
Stage(d) == IF status[d] = "queued" THEN 3
            ELSE IF status[d] = "parked" THEN 2
            ELSE IF Running(d) THEN 1 ELSE 0
Alike(d, x) == Lane[d[1]] = Lane[x[1]] /\ (d[1] \in Control <=> x[1] \in Control)

\* Of two alike, the one admitted first is ahead, and only one of them runs.
StagesInOrder ==
  \A s \in Slots : \A a, b \in 1..Len(log[s]) :
    a < b /\ Alike(log[s][a], log[s][b]) =>
      /\ Stage(log[s][a]) <= Stage(log[s][b])
      /\ Stage(log[s][b]) = 1 => Stage(log[s][a]) = 0

\* A queue holds the deliveries of one lane in the order of their admission.
Follows(q, l) ==
  \A i, j \in 1..Len(q) : \A a, b \in 1..Len(l) :
    i < j /\ q[i] = l[a] /\ q[j] = l[b] /\ Alike(q[i], q[j]) => a < b
QueuesInOrder ==
  \A s \in Slots :
    /\ Follows(eventQueue[s], log[s]) /\ Follows(controlQueue[s], log[s])
    /\ \A l \in Lanes : Follows(pendingByLane[s][l], log[s])

\* One delivery per lane runs, and no more than the slot's concurrency.
LanesExclusive ==
  \A s \in Slots : \A d, x \in Active(s) : Lane[d[1]] = Lane[x[1]] => d = x
Capacity ==
  \A s \in Slots : IsFiniteSet(Active(s)) /\ Cardinality(Active(s)) <= Concurrency[s]

\* The counters count, and bound, what waits.
HeldControl(s) == {d \in Deliveries : SlotOf(d) = s /\ Waiting(d) /\ d[1] \in Control}
HeldEvents(s) == {d \in Deliveries : SlotOf(d) = s /\ Waiting(d) /\ d[1] \notin Control}
Counted ==
  \A s \in Slots :
    /\ IsFiniteSet(HeldControl(s)) /\ pendingControl[s] = Cardinality(HeldControl(s))
    /\ IsFiniteSet(HeldEvents(s)) /\ pendingEvents[s] = Cardinality(HeldEvents(s))
    /\ pendingControl[s] <= ControlLimit /\ pendingEvents[s] <= EventLimit

OrderSound == LogSound /\ StagesInOrder /\ QueuesInOrder
CountsSound == LanesExclusive /\ Capacity /\ Counted
LInv == IInv /\ Placed /\ OrderSound /\ CountsSound

-----------------------------------------------------------------------------
(* Steps that leave the queues alone.                                      *)

LEMMA LogType ==
  ASSUME TypeOK, NEW s \in Slots
  PROVE  log[s] \in Seq(Deliveries) /\ \A i \in 1..Len(log[s]) : log[s][i] \in Deliveries
<1>1. log[s] \in Seq(Deliveries)
  BY DEF TypeOK, TypeCalls
<1> QED
  BY <1>1

\* The deliveries that wait and that run are the same as before.
SameHolders ==
  \A d \in Deliveries :
    /\ Waiting(d)' <=> Waiting(d)
    /\ Running(d)' <=> Running(d)
    /\ Waiting(d) \/ Running(d) => gen'[d] = gen[d]

LEMMA CountsKept ==
  ASSUME CountsSound, SameHolders, UNCHANGED <<pendingEvents, pendingControl>>
  PROVE  CountsSound'
<1>1. ASSUME NEW s \in Slots
      PROVE  /\ Active(s)' = Active(s)
             /\ HeldControl(s)' = HeldControl(s) /\ HeldEvents(s)' = HeldEvents(s)
  <2>1. ASSUME NEW d \in Deliveries
        PROVE  /\ (SlotOf(d) = s /\ Running(d))' <=> (SlotOf(d) = s /\ Running(d))
               /\ (SlotOf(d) = s /\ Waiting(d))' <=> (SlotOf(d) = s /\ Waiting(d))
    BY DEF SameHolders, SlotOf
  <2>2. Active(s)' = Active(s)
    BY <2>1 DEF Active, Running
  <2>3. HeldControl(s)' = HeldControl(s)
    BY <2>1 DEF HeldControl
  <2>4. HeldEvents(s)' = HeldEvents(s)
    BY <2>1 DEF HeldEvents
  <2> QED
    BY <2>2, <2>3, <2>4
<1>2. LanesExclusive'
  BY <1>1 DEF CountsSound, LanesExclusive
<1>3. Capacity'
  BY <1>1 DEF CountsSound, Capacity
<1>4. Counted'
  BY <1>1 DEF CountsSound, Counted
<1> QED
  BY <1>2, <1>3, <1>4 DEF CountsSound

\* A step of no worker and no admission.
LaneQuiet ==
  /\ UNCHANGED <<queues, pendingByLane, gen, log>>
  /\ \A d \in Deliveries :
       \/ status'[d] = status[d]
       \/ Running(d) /\ Running(d)'
       \/ status[d] = "none" /\ status'[d] = "rejected"

LEMMA QuietKeeps ==
  ASSUME TypeOK, Placed, OrderSound, CountsSound, LaneQuiet
  PROVE  Placed' /\ OrderSound' /\ CountsSound'
<1>1. /\ eventQueue' = eventQueue /\ controlQueue' = controlQueue
      /\ UNCHANGED <<pendingEvents, pendingControl>>
      /\ pendingByLane' = pendingByLane /\ gen' = gen /\ log' = log
  BY DEF LaneQuiet, queues
<1>2. ASSUME NEW d \in Deliveries
      PROVE  /\ status'[d] = "queued" <=> status[d] = "queued"
             /\ status'[d] = "parked" <=> status[d] = "parked"
             /\ Running(d)' <=> Running(d)
             /\ Accepted(d)' <=> Accepted(d)
  BY DEF LaneQuiet, Running, Accepted
<1>3. Placed'
  BY <1>1, <1>2 DEF Placed, Channel, Parked, SlotOf, Has
<1>4. LogSound'
  BY <1>1, <1>2, LogType DEF OrderSound, LogSound, SlotOf
<1>5. StagesInOrder'
  <2>1. \A d \in Deliveries : Stage(d)' = Stage(d)
    BY <1>2 DEF Stage
  <2> QED
    BY <1>1, <2>1, LogType DEF OrderSound, StagesInOrder
<1>6. QueuesInOrder'
  BY <1>1 DEF OrderSound, QueuesInOrder
<1>7. CountsSound'
  <2>1. SameHolders
    BY <1>1, <1>2 DEF SameHolders, Waiting
  <2> QED
    BY <1>1, <2>1, CountsKept
<1> QED
  BY <1>3, <1>4, <1>5, <1>6, <1>7 DEF OrderSound

-----------------------------------------------------------------------------
(* Queues and their order.                                                 *)

LEMMA HasAppend ==
  ASSUME NEW q \in Seq(Deliveries), NEW d \in Deliveries
  PROVE  Has(Append(q, d), d) /\ \A x : Has(q, x) => Has(Append(q, d), x)
<1>1. /\ Len(Append(q, d)) = Len(q) + 1 /\ Len(q) \in Nat
      /\ \A i \in 1..Len(q) : Append(q, d)[i] = q[i]
      /\ Append(q, d)[Len(q) + 1] = d
  BY AppendItems
<1> QED
  BY <1>1 DEF Has

LEMMA HasTail ==
  ASSUME NEW q \in Seq(Deliveries), q # <<>>, NEW x, Has(q, x), x # Head(q)
  PROVE  Has(Tail(q), x)
<1>1. PICK i \in 1..Len(q) : q[i] = x
  BY DEF Has
<1>2. i # 1 /\ i - 1 \in 1..Len(Tail(q)) /\ Tail(q)[i - 1] = q[i]
  BY <1>1
<1> QED
  BY <1>1, <1>2 DEF Has

LEMMA FollowsTail ==
  ASSUME NEW q \in Seq(Deliveries), q # <<>>, NEW l, Follows(q, l)
  PROVE  Follows(Tail(q), l)
<1>1. \A i \in 1..Len(Tail(q)) : Tail(q)[i] = q[i + 1] /\ i + 1 \in 1..Len(q)
  BY TailItems
<1> QED
  BY <1>1 DEF Follows

\* A delivery just admitted is the last of its queue and of its log.
LEMMA FollowsLogged ==
  ASSUME NEW q \in Seq(Deliveries), NEW l \in Seq(Deliveries), Follows(q, l),
         NEW d \in Deliveries, ~Has(q, d), ~Has(l, d)
  PROVE  Follows(q, Append(l, d)) /\ Follows(Append(q, d), Append(l, d))
<1> DEFINE r == Append(q, d)   k == Append(l, d)
<1>1. /\ Len(r) = Len(q) + 1 /\ Len(q) \in Nat /\ r[Len(q) + 1] = d
      /\ \A i \in 1..Len(q) : r[i] = q[i] /\ q[i] # d
  BY AppendItems DEF Has
<1>2. /\ Len(k) = Len(l) + 1 /\ Len(l) \in Nat /\ k[Len(l) + 1] = d
      /\ \A i \in 1..Len(l) : k[i] = l[i] /\ l[i] # d
  BY AppendItems DEF Has
<1> HIDE DEF r, k
<1>3. \A x : \A a \in 1..Len(k) : x # d /\ x = k[a] => a \in 1..Len(l) /\ x = l[a]
  BY <1>2
<1>4. \A a \in 1..Len(k) : d = k[a] => a = Len(l) + 1
  BY <1>2
<1>5. Follows(q, k)
  BY <1>1, <1>3 DEF Follows
<1>6. Follows(r, k)
  <2> SUFFICES ASSUME NEW i \in 1..Len(r), NEW j \in 1..Len(r), i < j,
                      NEW a \in 1..Len(k), NEW b \in 1..Len(k),
                      r[i] = k[a], r[j] = k[b], Alike(r[i], r[j])
               PROVE  a < b
    BY DEF Follows
  <2>1. i \in 1..Len(q) /\ r[i] = q[i] /\ q[i] # d /\ a \in 1..Len(l) /\ q[i] = l[a]
    BY <1>1, <1>3
  <2>2. CASE j = Len(q) + 1
    BY <1>1, <1>2, <1>4, <2>1, <2>2
  <2>3. CASE j # Len(q) + 1
    <3>1. j \in 1..Len(q) /\ r[j] = q[j] /\ q[j] # d
      BY <1>1, <2>3
    <3>2. b \in 1..Len(l) /\ q[j] = l[b]
      BY <1>3, <3>1
    <3> QED
      BY <2>1, <3>1, <3>2 DEF Follows
  <2> QED
    BY <2>2, <2>3
<1> QED
  BY <1>5, <1>6 DEF r, k

\* A delivery is parked behind those admitted before it.
LEMMA FollowsParked ==
  ASSUME NEW q \in Seq(Deliveries), NEW l, Follows(q, l), NEW d \in Deliveries,
         \A i \in 1..Len(q) : \A a, b \in 1..Len(l) :
           q[i] = l[a] /\ d = l[b] /\ Alike(q[i], d) => a < b
  PROVE  Follows(Append(q, d), l)
<1> DEFINE r == Append(q, d)
<1>1. /\ Len(r) = Len(q) + 1 /\ Len(q) \in Nat /\ r[Len(q) + 1] = d
      /\ \A i \in 1..Len(q) : r[i] = q[i]
  BY AppendItems
<1> HIDE DEF r
<1> SUFFICES ASSUME NEW i \in 1..Len(r), NEW j \in 1..Len(r), i < j,
                    NEW a \in 1..Len(l), NEW b \in 1..Len(l),
                    r[i] = l[a], r[j] = l[b], Alike(r[i], r[j])
             PROVE  a < b
  BY DEF Follows, r
<1>2. i \in 1..Len(q) /\ r[i] = q[i]
  BY <1>1
<1>3. CASE j = Len(q) + 1
  BY <1>1, <1>2, <1>3
<1>4. CASE j # Len(q) + 1
  <2>1. j \in 1..Len(q) /\ r[j] = q[j]
    BY <1>1, <1>4
  <2> QED
    BY <1>2, <2>1 DEF Follows
<1> QED
  BY <1>3, <1>4

\* One delivery goes to a lower stage, behind none of its lane.
LEMMA StagesMove ==
  ASSUME TypeOK, OrderSound, UNCHANGED <<log, gen>>,
         NEW d \in Deliveries, NEW n \in 0..2, Stage(d)' = n, n <= Stage(d),
         Accepted(d)',
         \A x \in Deliveries : x # d => status'[x] = status[x],
         \A s \in Slots : \A a, b \in 1..Len(log[s]) :
           a < b /\ log[s][b] = d /\ Alike(log[s][a], d) =>
             Stage(log[s][a]) <= n /\ (n = 1 => Stage(log[s][a]) = 0)
  PROVE  LogSound' /\ StagesInOrder'
<1>1. \A x \in Deliveries : x # d => Stage(x)' = Stage(x) /\ (Accepted(x)' <=> Accepted(x))
  BY DEF Stage, Running, Accepted
<1>2. \A x \in Deliveries : Stage(x) \in 0..3
  BY DEF Stage
<1>3. LogSound'
  BY <1>1, LogType DEF OrderSound, LogSound, SlotOf
<1>4. StagesInOrder'
  <2> SUFFICES ASSUME NEW s \in Slots, NEW a \in 1..Len(log[s]), NEW b \in 1..Len(log[s]),
                      a < b, Alike(log[s][a], log[s][b])
               PROVE  /\ Stage(log[s][a])' <= Stage(log[s][b])'
                      /\ Stage(log[s][b])' = 1 => Stage(log[s][a])' = 0
    BY DEF StagesInOrder
  <2> PICK x \in Deliveries, y \in Deliveries : x = log[s][a] /\ y = log[s][b]
    BY LogType
  <2>1. /\ x # y
        /\ Stage(x) <= Stage(y) /\ (Stage(y) = 1 => Stage(x) = 0)
        /\ y = d => Stage(x) <= n /\ (n = 1 => Stage(x) = 0)
    BY DEF OrderSound, LogSound, StagesInOrder
  <2>2. Stage(x)' <= Stage(y)' /\ (Stage(y)' = 1 => Stage(x)' = 0)
    <3>1. CASE y = d
      BY <1>1, <2>1, <3>1
    <3>2. CASE x = d
      BY <1>1, <1>2, <2>1, <3>2
    <3>3. CASE x # d /\ y # d
      BY <1>1, <2>1, <3>3
    <3> QED
      BY <3>1, <3>2, <3>3
  <2> QED
    BY <2>2
<1> QED
  BY <1>3, <1>4

-----------------------------------------------------------------------------
(* Counters, lanes and capacity.                                           *)

LEMMA LimitTypes ==
  /\ EventLimit \in Nat /\ ControlLimit \in Nat
  /\ \A s \in Slots : Concurrency[s] \in Nat
  BY ConstantsAssumption DEF ConstantsAssumption

\* One delivery more, or one less, in a counted set.
LEMMA CountAdd ==
  ASSUME NEW S, NEW d, IsFiniteSet(S), d \notin S
  PROVE  /\ IsFiniteSet(S \union {d}) /\ Cardinality(S) \in Nat
         /\ Cardinality(S \union {d}) = Cardinality(S) + 1
  BY FS_AddElement, FS_CardinalityType

LEMMA CountRemove ==
  ASSUME NEW S, NEW d, IsFiniteSet(S)
  PROVE  /\ IsFiniteSet(S \ {d}) /\ Cardinality(S) \in Nat
         /\ Cardinality(S \ {d}) <= Cardinality(S)
         /\ d \in S => Cardinality(S) > 0 /\ Cardinality(S \ {d}) = Cardinality(S) - 1
<1>1. /\ IsFiniteSet(S \ {d})
      /\ Cardinality(S \ {d}) = IF d \in S THEN Cardinality(S) - 1 ELSE Cardinality(S)
  BY FS_RemoveElement
<1>2. Cardinality(S) \in Nat /\ Cardinality(S \ {d}) \in Nat
  BY <1>1, FS_CardinalityType
<1> QED
  BY <1>1, <1>2

\* The worker starts a delivery of a free lane.
LEMMA StartCounts ==
  ASSUME TypeOK, CountsSound, UNCHANGED gen, NEW s \in Slots, NEW d \in Deliveries,
         SlotOf(d) = s, Waiting(d), status' = [status EXCEPT ![d] = "started"],
         MarkStarted(d, s), Lane[d[1]] \notin ActiveLanes(s), HasCapacity(s)
  PROVE  CountsSound'
<1>1. /\ ~Running(d) /\ Running(d)' /\ ~Waiting(d)' /\ SlotOf(d)' = s
      /\ \A x \in Deliveries : x # d =>
           (Running(x)' <=> Running(x)) /\ (Waiting(x)' <=> Waiting(x))
      /\ \A x \in Deliveries : SlotOf(x)' = SlotOf(x)
  BY DEF Running, Waiting, SlotOf, TypeOK, TypeDeliveries
<1>2. ASSUME NEW t \in Slots
      PROVE  /\ Active(t)' = IF t = s THEN Active(t) \union {d} ELSE Active(t)
             /\ HeldControl(t)' = HeldControl(t) \ {d}
             /\ HeldEvents(t)' = HeldEvents(t) \ {d}
  <2>1. Active(t)' = IF t = s THEN Active(t) \union {d} ELSE Active(t)
    BY <1>1 DEF Active, Running
  <2>2. HeldControl(t)' = HeldControl(t) \ {d}
    BY <1>1 DEF HeldControl
  <2>3. HeldEvents(t)' = HeldEvents(t) \ {d}
    BY <1>1 DEF HeldEvents
  <2> QED
    BY <2>1, <2>2, <2>3
<1>3. d \notin Active(s)
  BY <1>1 DEF Active, Running
<1>4. LanesExclusive'
  <2>1. \A x \in Active(s) : Lane[x[1]] # Lane[d[1]]
    BY DEF ActiveLanes
  <2> SUFFICES ASSUME NEW t \in Slots, NEW x \in Active(t)', NEW y \in Active(t)',
                      Lane[x[1]] = Lane[y[1]]
               PROVE  x = y
    BY DEF LanesExclusive
  <2> QED
    BY <1>2, <2>1 DEF CountsSound, LanesExclusive
<1>5. Capacity'
  <2> SUFFICES ASSUME NEW t \in Slots
               PROVE  IsFiniteSet(Active(t)') /\ Cardinality(Active(t)') <= Concurrency[t]
    BY DEF Capacity
  <2>1. IsFiniteSet(Active(t)) /\ Cardinality(Active(t)) <= Concurrency[t]
    BY DEF CountsSound, Capacity
  <2>2. CASE t = s
    <3> DEFINE S == Active(t)
    <3>1. /\ IsFiniteSet(S) /\ d \notin S /\ Active(t)' = S \union {d}
          /\ Cardinality(S) < Concurrency[t]
      BY <1>2, <1>3, <2>1, <2>2 DEF HasCapacity
    <3> HIDE DEF S
    <3>2. /\ IsFiniteSet(S \union {d}) /\ Cardinality(S) \in Nat
          /\ Cardinality(S \union {d}) = Cardinality(S) + 1
      BY <3>1, CountAdd
    <3> QED
      BY <3>1, <3>2, LimitTypes
  <2>3. CASE t # s
    BY <1>2, <2>1, <2>3
  <2> QED
    BY <2>2, <2>3
<1>6. Counted'
  <2> SUFFICES ASSUME NEW t \in Slots
               PROVE  /\ IsFiniteSet(HeldControl(t)') /\ IsFiniteSet(HeldEvents(t)')
                      /\ pendingControl'[t] = Cardinality(HeldControl(t)')
                      /\ pendingEvents'[t] = Cardinality(HeldEvents(t)')
                      /\ pendingControl'[t] <= ControlLimit /\ pendingEvents'[t] <= EventLimit
    BY DEF Counted
  <2>1. /\ IsFiniteSet(HeldControl(t)) /\ pendingControl[t] = Cardinality(HeldControl(t))
        /\ IsFiniteSet(HeldEvents(t)) /\ pendingEvents[t] = Cardinality(HeldEvents(t))
        /\ pendingControl[t] <= ControlLimit /\ pendingEvents[t] <= EventLimit
    BY DEF CountsSound, Counted
  <2>2. /\ d \in HeldControl(t) <=> t = s /\ d[1] \in Control
        /\ d \in HeldEvents(t) <=> t = s /\ d[1] \notin Control
    BY DEF HeldControl, HeldEvents
  <2>3. /\ pendingControl'[t] = IF t = s /\ d[1] \in Control /\ pendingControl[t] > 0
                                THEN pendingControl[t] - 1 ELSE pendingControl[t]
        /\ pendingEvents'[t] = IF t = s /\ d[1] \notin Control /\ pendingEvents[t] > 0
                               THEN pendingEvents[t] - 1 ELSE pendingEvents[t]
    BY DEF MarkStarted, TypeOK, TypeQueues
  <2>4. d \notin HeldControl(t) => HeldControl(t)' = HeldControl(t)
    BY <1>2
  <2>5. d \notin HeldEvents(t) => HeldEvents(t)' = HeldEvents(t)
    BY <1>2
  <2>6. /\ IsFiniteSet(HeldControl(t)') /\ Cardinality(HeldControl(t)) \in Nat
        /\ d \in HeldControl(t) => Cardinality(HeldControl(t)) > 0
             /\ Cardinality(HeldControl(t)') = Cardinality(HeldControl(t)) - 1
    <3> DEFINE S == HeldControl(t)
    <3>1. IsFiniteSet(S) /\ HeldControl(t)' = S \ {d}
      BY <1>2, <2>1
    <3> HIDE DEF S
    <3>2. /\ IsFiniteSet(S \ {d}) /\ Cardinality(S) \in Nat
          /\ d \in S => Cardinality(S) > 0 /\ Cardinality(S \ {d}) = Cardinality(S) - 1
      BY <3>1, CountRemove
    <3> QED
      BY <3>1, <3>2 DEF S
  <2>7. /\ IsFiniteSet(HeldEvents(t)') /\ Cardinality(HeldEvents(t)) \in Nat
        /\ d \in HeldEvents(t) => Cardinality(HeldEvents(t)) > 0
             /\ Cardinality(HeldEvents(t)') = Cardinality(HeldEvents(t)) - 1
    <3> DEFINE S == HeldEvents(t)
    <3>1. IsFiniteSet(S) /\ HeldEvents(t)' = S \ {d}
      BY <1>2, <2>1
    <3> HIDE DEF S
    <3>2. /\ IsFiniteSet(S \ {d}) /\ Cardinality(S) \in Nat
          /\ d \in S => Cardinality(S) > 0 /\ Cardinality(S \ {d}) = Cardinality(S) - 1
      BY <3>1, CountRemove
    <3> QED
      BY <3>1, <3>2 DEF S
  <2>8. pendingControl'[t] = Cardinality(HeldControl(t)') /\ pendingControl'[t] <= ControlLimit
    BY <2>1, <2>2, <2>3, <2>4, <2>6, LimitTypes
  <2>9. pendingEvents'[t] = Cardinality(HeldEvents(t)') /\ pendingEvents'[t] <= EventLimit
    BY <2>1, <2>2, <2>3, <2>5, <2>7, LimitTypes
  <2> QED
    BY <2>6, <2>7, <2>8, <2>9
<1> QED
  BY <1>4, <1>5, <1>6 DEF CountsSound

\* The worker releases the lane of a delivery.
LEMMA ReleaseCounts ==
  ASSUME TypeOK, CountsSound, UNCHANGED <<gen, pendingEvents, pendingControl>>,
         NEW d \in Deliveries, Running(d), status' = [status EXCEPT ![d] = "released"]
  PROVE  CountsSound'
<1>1. /\ ~Running(d)' /\ ~Waiting(d)' /\ ~Waiting(d)
      /\ \A x \in Deliveries : x # d =>
           (Running(x)' <=> Running(x)) /\ (Waiting(x)' <=> Waiting(x))
      /\ \A x \in Deliveries : SlotOf(x)' = SlotOf(x)
  BY DEF Running, Waiting, SlotOf, TypeOK, TypeDeliveries
<1>2. ASSUME NEW t \in Slots
      PROVE  /\ Active(t)' = Active(t) \ {d}
             /\ HeldControl(t)' = HeldControl(t) /\ HeldEvents(t)' = HeldEvents(t)
  <2>1. Active(t)' = Active(t) \ {d}
    BY <1>1 DEF Active, Running
  <2>2. HeldControl(t)' = HeldControl(t)
    BY <1>1 DEF HeldControl
  <2>3. HeldEvents(t)' = HeldEvents(t)
    BY <1>1 DEF HeldEvents
  <2> QED
    BY <2>1, <2>2, <2>3
<1>3. LanesExclusive'
  BY <1>2 DEF CountsSound, LanesExclusive
<1>4. Capacity'
  <2> SUFFICES ASSUME NEW t \in Slots
               PROVE  IsFiniteSet(Active(t)') /\ Cardinality(Active(t)') <= Concurrency[t]
    BY DEF Capacity
  <2>1. IsFiniteSet(Active(t)) /\ Cardinality(Active(t)) <= Concurrency[t]
    BY DEF CountsSound, Capacity
  <2> DEFINE S == Active(t)
  <2>2. IsFiniteSet(S) /\ Active(t)' = S \ {d} /\ Cardinality(S) <= Concurrency[t]
    BY <1>2, <2>1
  <2> HIDE DEF S
  <2>3. /\ IsFiniteSet(S \ {d}) /\ Cardinality(S) \in Nat
        /\ Cardinality(S \ {d}) <= Cardinality(S)
    BY <2>2, CountRemove
  <2>4. Cardinality(S \ {d}) \in Nat
    BY <2>3, FS_CardinalityType
  <2> QED
    BY <2>2, <2>3, <2>4, LimitTypes
<1>5. Counted'
  BY <1>2 DEF CountsSound, Counted
<1> QED
  BY <1>3, <1>4, <1>5 DEF CountsSound

\* A slot admits a delivery while it has room.
LEMMA AcceptCounts ==
  ASSUME TypeOK, CallsSound, CountsSound, NEW d \in Deliveries, EnqueueAccept(d)
  PROVE  CountsSound'
<1> DEFINE s == Current(d[2])
<1>1. /\ s \in Slots /\ status[d] = "none" /\ HasRoom(d, s)
      /\ SlotOf(d)' = s /\ Waiting(d)' /\ ~Running(d)'
      /\ \A x \in Deliveries : x # d =>
           status'[x] = status[x] /\ SlotOf(x)' = SlotOf(x)
  <2>1. /\ gen' = [gen EXCEPT ![d] = s[2]] /\ status' = [status EXCEPT ![d] = "queued"]
        /\ current[d[2]] > 0 /\ HasRoom(d, s)
    BY DEF EnqueueAccept, Admissible, Deliverable
  <2>2. s \in Slots /\ s = <<d[2], s[2]>>
    BY <2>1, SlotType, DeliveryType DEF TypeOK, TypeRegistry, Current
  <2>3. status[d] = "none"
    BY DeliveryType DEF CallsSound, EnqueueAccept, NextTarget
  <2>4. gen'[d] = s[2] /\ status'[d] = "queued"
    BY <2>1 DEF TypeOK, TypeCalls, TypeDeliveries
  <2>5. \A x \in Deliveries : x # d => status'[x] = status[x] /\ gen'[x] = gen[x]
    BY <2>1 DEF TypeOK, TypeCalls, TypeDeliveries
  <2> QED
    BY <2>1, <2>2, <2>3, <2>4, <2>5 DEF SlotOf, Waiting, Running
<1>2. /\ \A t \in Slots : pendingControl'[t] = IF t = s /\ d[1] \in Control
                            THEN pendingControl[t] + 1 ELSE pendingControl[t]
      /\ \A t \in Slots : pendingEvents'[t] = IF t = s /\ d[1] \notin Control
                            THEN pendingEvents[t] + 1 ELSE pendingEvents[t]
  BY DEF EnqueueAccept, TypeOK, TypeQueues
<1> HIDE DEF s
<1>3. ASSUME NEW t \in Slots
      PROVE  /\ Active(t)' = Active(t)
             /\ HeldControl(t)' = IF t = s /\ d[1] \in Control
                                  THEN HeldControl(t) \union {d} ELSE HeldControl(t)
             /\ HeldEvents(t)' = IF t = s /\ d[1] \notin Control
                                 THEN HeldEvents(t) \union {d} ELSE HeldEvents(t)
             /\ d \notin HeldControl(t) /\ d \notin HeldEvents(t)
  <2>1. ~Waiting(d) /\ ~Running(d) /\ \A x \in Deliveries : x # d =>
          (Waiting(x)' <=> Waiting(x)) /\ (Running(x)' <=> Running(x)) /\ SlotOf(x)' = SlotOf(x)
    BY <1>1 DEF Waiting, Running
  <2>2. Active(t)' = Active(t)
    BY <1>1, <2>1 DEF Active, Running
  <2>3. HeldControl(t)' = IF t = s /\ d[1] \in Control
                          THEN HeldControl(t) \union {d} ELSE HeldControl(t)
    BY <1>1, <2>1 DEF HeldControl
  <2>4. HeldEvents(t)' = IF t = s /\ d[1] \notin Control
                         THEN HeldEvents(t) \union {d} ELSE HeldEvents(t)
    BY <1>1, <2>1 DEF HeldEvents
  <2>5. d \notin HeldControl(t) /\ d \notin HeldEvents(t)
    BY <2>1 DEF HeldControl, HeldEvents
  <2> QED
    BY <2>2, <2>3, <2>4, <2>5
<1>4. LanesExclusive' /\ Capacity'
  BY <1>3 DEF CountsSound, LanesExclusive, Capacity
<1>5. Counted'
  <2> SUFFICES ASSUME NEW t \in Slots
               PROVE  /\ IsFiniteSet(HeldControl(t)') /\ IsFiniteSet(HeldEvents(t)')
                      /\ pendingControl'[t] = Cardinality(HeldControl(t)')
                      /\ pendingEvents'[t] = Cardinality(HeldEvents(t)')
                      /\ pendingControl'[t] <= ControlLimit /\ pendingEvents'[t] <= EventLimit
    BY DEF Counted
  <2>1. /\ IsFiniteSet(HeldControl(t)) /\ pendingControl[t] = Cardinality(HeldControl(t))
        /\ IsFiniteSet(HeldEvents(t)) /\ pendingEvents[t] = Cardinality(HeldEvents(t))
        /\ pendingControl[t] <= ControlLimit /\ pendingEvents[t] <= EventLimit
        /\ pendingControl[t] \in Nat /\ pendingEvents[t] \in Nat
    BY DEF CountsSound, Counted, TypeOK, TypeQueues
  <2>2. /\ IsFiniteSet(HeldControl(t)') /\ pendingControl'[t] = Cardinality(HeldControl(t)')
        /\ pendingControl'[t] <= ControlLimit
    <3>1. CASE t = s /\ d[1] \in Control
      BY <1>1, <1>2, <1>3, <2>1, <3>1, CountAdd, LimitTypes DEF HasRoom
    <3>2. CASE ~(t = s /\ d[1] \in Control)
      BY <1>2, <1>3, <2>1, <3>2
    <3> QED
      BY <3>1, <3>2
  <2>3. /\ IsFiniteSet(HeldEvents(t)') /\ pendingEvents'[t] = Cardinality(HeldEvents(t)')
        /\ pendingEvents'[t] <= EventLimit
    <3>1. CASE t = s /\ d[1] \notin Control
      BY <1>1, <1>2, <1>3, <2>1, <3>1, CountAdd, LimitTypes DEF HasRoom
    <3>2. CASE ~(t = s /\ d[1] \notin Control)
      BY <1>2, <1>3, <2>1, <3>2
    <3> QED
      BY <3>1, <3>2
  <2> QED
    BY <2>2, <2>3
<1> QED
  BY <1>4, <1>5 DEF CountsSound

-----------------------------------------------------------------------------
(* The steps of a worker.                                                  *)

\* What PullControl and PullEvent have in common: a worker with capacity takes
\* the head of a channel.
Receives(s, d) ==
  /\ SlotOf(d) = s /\ status[d] = "queued" /\ HasCapacity(s) /\ WorkerEnqueue(s, d)
  /\ Channel(d) \in Seq(Deliveries) /\ Channel(d) # <<>> /\ d = Head(Channel(d))
  /\ UNCHANGED <<gen, log>>
  /\ \A x \in Deliveries : SlotOf(x) \in Slots =>
       \/ Channel(x)' = Channel(x)
       \/ Channel(x) = Channel(d) /\ Channel(x)' = Tail(Channel(d))
  /\ \A x \in Deliveries : SlotOf(x) = s /\ Alike(x, d) => Channel(x) = Channel(d)
  /\ \A t \in Slots :
       /\ Follows(eventQueue[t], log[t]) => Follows(eventQueue'[t], log[t])
       /\ Follows(controlQueue[t], log[t]) => Follows(controlQueue'[t], log[t])

LEMMA PullReceives ==
  ASSUME TypeOK, QueuesSound, NEW s \in Slots, PullControl(s) \/ PullEvent(s)
  PROVE  \E d \in Deliveries : Receives(s, d)
<1>1. CASE PullControl(s)
  <2> DEFINE d == Head(controlQueue[s])
  <2>1. /\ controlQueue[s] # <<>> /\ controlQueue' = [controlQueue EXCEPT ![s] = Tail(@)]
        /\ eventQueue' = eventQueue /\ gen' = gen /\ log' = log
        /\ WorkerEnqueue(s, d) /\ HasCapacity(s)
    BY <1>1 DEF PullControl, calls
  <2>2. /\ controlQueue[s] \in Seq(Deliveries)
        /\ d \in Deliveries /\ d[1] \in Control /\ status[d] = "queued" /\ SlotOf(d) = s
    BY <2>1, TailItems, ItemsType DEF QueuesSound, ControlSound, Holds
  <2>3. \A t \in Slots : controlQueue'[t] = IF t = s THEN Tail(controlQueue[t]) ELSE controlQueue[t]
    BY <2>1 DEF TypeOK, TypeQueues
  <2>4. ASSUME NEW t \in Slots, Follows(controlQueue[t], log[t])
        PROVE  Follows(controlQueue'[t], log[t])
    BY <2>1, <2>2, <2>3, <2>4, FollowsTail
  <2>5. Channel(d) = controlQueue[s]
    BY <2>2 DEF Channel
  <2>6. ASSUME NEW x \in Deliveries, SlotOf(x) \in Slots
        PROVE  \/ Channel(x)' = Channel(x)
               \/ Channel(x) = Channel(d) /\ Channel(x)' = Tail(Channel(d))
    BY <2>1, <2>3, <2>5, <2>6 DEF Channel, SlotOf
  <2>7. \A x \in Deliveries : SlotOf(x) = s /\ Alike(x, d) => Channel(x) = Channel(d)
    BY <2>2, <2>5 DEF Channel, Alike
  <2> HIDE DEF d
  <2>8. Channel(d) # <<>> /\ d = Head(Channel(d))
    BY <2>1, <2>5 DEF d
  <2> QED
    BY <2>1, <2>2, <2>4, <2>5, <2>6, <2>7, <2>8 DEF Receives
<1>2. CASE PullEvent(s)
  <2> DEFINE d == Head(eventQueue[s])
  <2>1. /\ eventQueue[s] # <<>> /\ eventQueue' = [eventQueue EXCEPT ![s] = Tail(@)]
        /\ controlQueue' = controlQueue /\ gen' = gen /\ log' = log
        /\ WorkerEnqueue(s, d) /\ HasCapacity(s)
    BY <1>2 DEF PullEvent, calls
  <2>2. /\ eventQueue[s] \in Seq(Deliveries)
        /\ d \in Deliveries /\ d[1] \notin Control /\ status[d] = "queued" /\ SlotOf(d) = s
    BY <2>1, TailItems, ItemsType DEF QueuesSound, EventsSound, Holds
  <2>3. \A t \in Slots : eventQueue'[t] = IF t = s THEN Tail(eventQueue[t]) ELSE eventQueue[t]
    BY <2>1 DEF TypeOK, TypeQueues
  <2>4. ASSUME NEW t \in Slots, Follows(eventQueue[t], log[t])
        PROVE  Follows(eventQueue'[t], log[t])
    BY <2>1, <2>2, <2>3, <2>4, FollowsTail
  <2>5. Channel(d) = eventQueue[s]
    BY <2>2 DEF Channel
  <2>6. ASSUME NEW x \in Deliveries, SlotOf(x) \in Slots
        PROVE  \/ Channel(x)' = Channel(x)
               \/ Channel(x) = Channel(d) /\ Channel(x)' = Tail(Channel(d))
    BY <2>1, <2>3, <2>5, <2>6 DEF Channel, SlotOf
  <2>7. \A x \in Deliveries : SlotOf(x) = s /\ Alike(x, d) => Channel(x) = Channel(d)
    BY <2>2, <2>5 DEF Channel, Alike
  <2> HIDE DEF d
  <2>8. Channel(d) # <<>> /\ d = Head(Channel(d))
    BY <2>1, <2>5 DEF d
  <2> QED
    BY <2>1, <2>2, <2>4, <2>5, <2>6, <2>7, <2>8 DEF Receives
<1> QED
  BY <1>1, <1>2

\* Whatever else waits in a queue was admitted after its head.
LEMMA HeadIsFirst ==
  ASSUME NEW q \in Seq(Deliveries), q # <<>>, NEW l \in Seq(Deliveries), Follows(q, l),
         NEW x, Has(q, x), x # Head(q), Alike(Head(q), x),
         NEW a \in 1..Len(l), NEW b \in 1..Len(l), l[a] = x, l[b] = Head(q)
  PROVE  b < a
<1>1. PICK i \in 1..Len(q) : q[i] = x
  BY DEF Has
<1>2. Head(q) = q[1] /\ 1 \in 1..Len(q)
  BY TailItems
<1>3. 1 < i
  BY <1>1, <1>2
<1> QED
  BY <1>1, <1>2, <1>3 DEF Follows

\* Nothing parked or running in its lane is left when a delivery starts.
LEMMA FreeLane ==
  ASSUME Placed, NEW s \in Slots, NEW d \in Deliveries, CanStart(s, Lane[d[1]]),
         NEW x \in Deliveries, SlotOf(x) = s, Alike(x, d)
  PROVE  Stage(x) \in {0, 3}
<1>1. status[x] # "parked"
  BY DEF Placed, Parked, Has, CanStart, Alike
<1>2. ~Running(x)
  BY DEF CanStart, ActiveLanes, Active, Running, Alike
<1> QED
  BY <1>1, <1>2 DEF Stage

LEMMA ReceiveKeeps ==
  ASSUME TypeOK, QueuesSound, Placed, OrderSound, CountsSound,
         NEW s \in Slots, NEW d \in Deliveries, Receives(s, d)
  PROVE  Placed' /\ OrderSound' /\ CountsSound'
<1> DEFINE l == Lane[d[1]]
<1>1. /\ SlotOf(d) = s /\ status[d] = "queued" /\ HasCapacity(s) /\ WorkerEnqueue(s, d)
      /\ gen' = gen /\ log' = log /\ l \in Lanes
  BY DeliveryType DEF Receives
<1>2. /\ \A x \in Deliveries : x # d => status'[x] = status[x]
      /\ status'[d] = IF CanStart(s, l) THEN "started" ELSE "parked"
  BY <1>1 DEF WorkerEnqueue, TypeOK, TypeDeliveries
<1>3. \A t \in Slots, m \in Lanes : pendingByLane'[t][m] =
        IF t = s /\ m = l /\ ~CanStart(s, l) THEN Append(pendingByLane[t][m], d)
        ELSE pendingByLane[t][m]
  <2>1. CASE CanStart(s, l)
    BY <1>1, <2>1 DEF WorkerEnqueue
  <2>2. CASE ~CanStart(s, l)
    <3>1. pendingByLane' = [pendingByLane EXCEPT ![s][l] = Append(@, d)]
      BY <1>1, <2>2 DEF WorkerEnqueue
    <3> HIDE DEF l
    <3> QED
      BY <1>1, <2>2, <3>1 DEF TypeOK, TypeWorker
  <2> QED
    BY <2>1, <2>2
<1>4. ASSUME NEW t \in Slots, NEW a \in 1..Len(log[t]), NEW b \in 1..Len(log[t]), a < b,
             log[t][b] = d, Alike(log[t][a], d)
      PROVE  /\ log[t][a] \in Deliveries /\ SlotOf(log[t][a]) = s
             /\ Stage(log[t][a]) <= 2 /\ (CanStart(s, l) => Stage(log[t][a]) = 0)
  <2> PICK x \in Deliveries : x = log[t][a]
    BY LogType
  <2>1. t = s /\ SlotOf(x) = s /\ x # d /\ Alike(x, d)
    BY <1>1, <1>4 DEF OrderSound, LogSound
  <2>2. status[x] # "queued"
    <3> SUFFICES ASSUME status[x] = "queued" PROVE FALSE
      OBVIOUS
    <3> DEFINE q == Channel(d)
    <3>1. q \in Seq(Deliveries) /\ q # <<>> /\ d = Head(q) /\ Has(q, x)
      BY <2>1 DEF Receives, Placed
    <3>2. log[s] \in Seq(Deliveries) /\ Follows(q, log[s])
      BY <1>1, LogType DEF OrderSound, QueuesInOrder, Channel
    <3>3. Alike(d, x)
      BY <2>1 DEF Alike
    <3> HIDE DEF q
    <3>4. b < a
      BY <1>4, <2>1, <3>1, <3>2, <3>3, HeadIsFirst
    <3> QED
      BY <1>4, <3>4
  <2>3. Stage(x) <= 2 /\ Stage(x) # 3
    BY <2>2 DEF Stage
  <2> QED
    BY <2>1, <2>3, FreeLane
<1>5. Placed'
  <2> SUFFICES ASSUME NEW x \in Deliveries
               PROVE  /\ Accepted(x)' => SlotOf(x)' \in Slots
                      /\ status'[x] = "queued" => Has(Channel(x)', x)
                      /\ status'[x] = "parked" => Has(Parked(x)', x)
    BY DEF Placed, Has
  <2>1. Accepted(x)' => Accepted(x) /\ SlotOf(x) \in Slots /\ SlotOf(x)' = SlotOf(x)
    BY <1>1, <1>2 DEF Accepted, Placed, SlotOf
  <2>2. ASSUME status'[x] = "queued" PROVE Has(Channel(x)', x)
    <3>1. x # d /\ status[x] = "queued" /\ Accepted(x)
      BY <1>2, <2>2 DEF Accepted
    <3>2. Has(Channel(x), x) /\ SlotOf(x) \in Slots
      BY <3>1 DEF Placed
    <3>3. CASE Channel(x)' = Channel(x)
      BY <3>2, <3>3
    <3>4. CASE Channel(x) = Channel(d) /\ Channel(x)' = Tail(Channel(d))
      BY <3>1, <3>2, <3>4, HasTail DEF Receives
    <3> QED
      BY <3>2, <3>3, <3>4 DEF Receives
  <2>3. ASSUME status'[x] = "parked" PROVE Has(Parked(x)', x)
    <3>1. CASE x = d
      <4>1. ~CanStart(s, l) /\ pendingByLane'[s][l] = Append(pendingByLane[s][l], d)
        BY <1>1, <1>2, <1>3, <2>3, <3>1
      <4>2. Has(pendingByLane'[s][l], d)
        BY <1>1, <4>1, HasAppend, ItemsType
      <4>3. Parked(d)' = pendingByLane'[s][l]
        BY <1>1 DEF Parked, SlotOf
      <4> QED
        BY <3>1, <4>2, <4>3
    <3>2. CASE x # d
      <4>1. status[x] = "parked" /\ Accepted(x)
        BY <1>2, <2>3, <3>2 DEF Accepted
      <4>2. Has(Parked(x), x) /\ SlotOf(x) \in Slots /\ Lane[x[1]] \in Lanes
        BY <4>1, DeliveryType DEF Placed
      <4>3. Parked(x)' = Parked(x) \/ Parked(x)' = Append(Parked(x), d)
        BY <1>1, <1>3, <4>2 DEF Parked, SlotOf
      <4>4. Parked(x) \in Seq(Deliveries)
        BY <4>2, ItemsType DEF Parked
      <4> QED
        BY <4>2, <4>3, <4>4, HasAppend
    <3> QED
      BY <3>1, <3>2
  <2> QED
    BY <2>1, <2>2, <2>3
<1>6. LogSound' /\ StagesInOrder'
  <2>1. Stage(d) = 3 /\ Stage(d)' = (IF CanStart(s, l) THEN 1 ELSE 2) /\ Accepted(d)'
    BY <1>1, <1>2 DEF Stage, Running, Accepted
  <2>2. CASE CanStart(s, l)
    BY <1>1, <1>2, <1>4, <2>1, <2>2, StagesMove
  <2>3. CASE ~CanStart(s, l)
    BY <1>1, <1>2, <1>4, <2>1, <2>3, StagesMove
  <2> QED
    BY <2>2, <2>3
<1>7. QueuesInOrder'
  <2> SUFFICES ASSUME NEW t \in Slots
               PROVE  /\ Follows(eventQueue'[t], log[t]) /\ Follows(controlQueue'[t], log[t])
                      /\ \A m \in Lanes : Follows(pendingByLane'[t][m], log[t])
    BY <1>1 DEF QueuesInOrder, Follows
  <2>1. /\ Follows(eventQueue[t], log[t]) /\ Follows(controlQueue[t], log[t])
        /\ \A m \in Lanes : Follows(pendingByLane[t][m], log[t])
    BY DEF OrderSound, QueuesInOrder
  <2>2. ASSUME NEW m \in Lanes PROVE Follows(pendingByLane'[t][m], log[t])
    <3> DEFINE q == pendingByLane[t][m]
    <3>1. q \in Seq(Deliveries) /\ Follows(q, log[t]) /\ log[t] \in Seq(Deliveries)
      BY <2>1, ItemsType, LogType
    <3>2. CASE t = s /\ m = l /\ ~CanStart(s, l)
      <4>1. ASSUME NEW i \in 1..Len(q), NEW a \in 1..Len(log[t]), NEW b \in 1..Len(log[t]),
                   q[i] = log[t][a], d = log[t][b], Alike(q[i], d)
            PROVE  a < b
        <5>1. /\ q[i] \in Deliveries /\ q[i] # d /\ Stage(q[i]) = 2 /\ Stage(d) = 3
              /\ Alike(d, q[i])
          BY <1>1, <3>1, <4>1 DEF QueuesSound, LaneSound, Holds, Stage, Alike
        <5>2. ~(b < a)
          BY <4>1, <5>1 DEF OrderSound, StagesInOrder
        <5> QED
          BY <4>1, <5>1, <5>2
      <4>2. Follows(Append(q, d), log[t])
        <5> HIDE DEF q
        <5> QED
          BY <3>1, <4>1, FollowsParked
      <4> QED
        BY <1>3, <3>2, <4>2
    <3>3. CASE ~(t = s /\ m = l /\ ~CanStart(s, l))
      BY <1>3, <3>1, <3>3
    <3> QED
      BY <3>2, <3>3
  <2> QED
    BY <2>1, <2>2 DEF Receives
<1>8. CountsSound'
  <2>1. CASE CanStart(s, l)
    <3>1. /\ Waiting(d) /\ l \notin ActiveLanes(s)
          /\ status' = [status EXCEPT ![d] = "started"] /\ MarkStarted(d, s)
      BY <1>1, <2>1 DEF WorkerEnqueue, CanStart, Waiting
    <3> QED
      BY <1>1, <3>1, StartCounts
  <2>2. CASE ~CanStart(s, l)
    <3>1. UNCHANGED <<pendingEvents, pendingControl>>
      BY <1>1, <2>2 DEF WorkerEnqueue
    <3>2. SameHolders
      BY <1>1, <1>2, <2>2 DEF SameHolders, Waiting, Running
    <3> QED
      BY <3>1, <3>2, CountsKept
  <2> QED
    BY <2>1, <2>2
<1> QED
  BY <1>5, <1>6, <1>7, <1>8 DEF OrderSound

\* A free lane starts the first delivery parked behind it.
LEMMA ReadyLaneKeeps ==
  ASSUME TypeOK, QueuesSound, Placed, OrderSound, CountsSound,
         NEW s \in Slots, NEW l \in Lanes, StartReadyLane(s, l)
  PROVE  Placed' /\ OrderSound' /\ CountsSound'
<1> DEFINE q == pendingByLane[s][l]
<1>1. /\ q \in Seq(Deliveries) /\ q # <<>> /\ Head(q) \in Deliveries /\ Follows(q, log[s])
      /\ status[Head(q)] = "parked" /\ SlotOf(Head(q)) = s /\ Lane[Head(q)[1]] = l
  <2>1. q # <<>>
    BY DEF StartReadyLane, Startable
  <2>2. q \in Seq(Deliveries) /\ Follows(q, log[s])
    BY ItemsType DEF OrderSound, QueuesInOrder
  <2> QED
    BY <2>1, <2>2, TailItems DEF QueuesSound, LaneSound, Holds
<1> PICK d \in Deliveries : d = Head(q)
  BY <1>1
<1>2. /\ status' = [status EXCEPT ![d] = "started"] /\ MarkStarted(d, s)
      /\ pendingByLane' = [pendingByLane EXCEPT ![s][l] = Tail(@)]
      /\ eventQueue' = eventQueue /\ controlQueue' = controlQueue /\ gen' = gen /\ log' = log
      /\ l \notin ActiveLanes(s) /\ HasCapacity(s)
  BY DEF StartReadyLane, Startable, calls
<1>3. /\ status'[d] = "started" /\ \A x \in Deliveries : x # d => status'[x] = status[x]
      /\ \A t \in Slots, m \in Lanes : pendingByLane'[t][m] =
           IF t = s /\ m = l THEN Tail(q) ELSE pendingByLane[t][m]
  BY <1>2 DEF TypeOK, TypeDeliveries, TypeWorker
<1> HIDE DEF q
<1>4. Placed'
  <2> SUFFICES ASSUME NEW x \in Deliveries
               PROVE  /\ Accepted(x)' => SlotOf(x)' \in Slots
                      /\ status'[x] = "queued" => Has(Channel(x)', x)
                      /\ status'[x] = "parked" => Has(Parked(x)', x)
    BY DEF Placed, Has
  <2>1. Accepted(x)' => Accepted(x) /\ SlotOf(x) \in Slots /\ SlotOf(x)' = SlotOf(x)
    BY <1>1, <1>2, <1>3 DEF Accepted, Placed, SlotOf
  <2>2. ASSUME status'[x] = "queued" PROVE Has(Channel(x)', x)
    BY <1>2, <1>3, <2>2 DEF Placed, Channel, SlotOf
  <2>3. ASSUME status'[x] = "parked" PROVE Has(Parked(x)', x)
    <3>1. x # d /\ status[x] = "parked" /\ Accepted(x)
      BY <1>3, <2>3 DEF Accepted
    <3>2. Has(Parked(x), x) /\ SlotOf(x) \in Slots /\ Lane[x[1]] \in Lanes
      BY <3>1, DeliveryType DEF Placed
    <3>3. Parked(x)' = IF SlotOf(x) = s /\ Lane[x[1]] = l THEN Tail(q) ELSE Parked(x)
      BY <1>2, <1>3, <3>2 DEF Parked, SlotOf
    <3>4. SlotOf(x) = s /\ Lane[x[1]] = l => Parked(x) = q
      BY DEF Parked, q
    <3> QED
      BY <1>1, <3>1, <3>2, <3>3, <3>4, HasTail
  <2> QED
    BY <2>1, <2>2, <2>3
<1>5. LogSound' /\ StagesInOrder'
  <2>1. Stage(d) = 2 /\ Stage(d)' = 1 /\ Accepted(d)'
    BY <1>1, <1>3 DEF Stage, Running, Accepted
  <2>2. ASSUME NEW t \in Slots, NEW a \in 1..Len(log[t]), NEW b \in 1..Len(log[t]), a < b,
               log[t][b] = d, Alike(log[t][a], d)
        PROVE  Stage(log[t][a]) <= 1 /\ Stage(log[t][a]) = 0
    <3> PICK x \in Deliveries : x = log[t][a]
      BY LogType
    <3>1. t = s /\ SlotOf(x) = s /\ x # d /\ Alike(d, x) /\ Lane[x[1]] = l
      BY <1>1, <2>2 DEF OrderSound, LogSound, Alike
    <3>2. Stage(x) <= 2
      BY <2>1, <2>2 DEF OrderSound, StagesInOrder
    <3>3. status[x] # "parked"
      <4> SUFFICES ASSUME status[x] = "parked" PROVE FALSE
        OBVIOUS
      <4>1. Has(q, x)
        BY <3>1 DEF Placed, Parked, q
      <4>2. log[s] \in Seq(Deliveries)
        BY LogType
      <4>3. b < a
        BY <1>1, <2>2, <3>1, <4>1, <4>2, HeadIsFirst
      <4> QED
        BY <2>2, <4>3
    <3>4. ~Running(x)
      BY <1>2, <3>1 DEF ActiveLanes, Active, Running
    <3>5. Stage(x) = 0
      BY <3>2, <3>3, <3>4 DEF Stage
    <3> QED
      BY <3>5
  <2> QED
    BY <1>2, <1>3, <2>1, <2>2, StagesMove
<1>6. QueuesInOrder'
  <2>1. ASSUME NEW t \in Slots, NEW m \in Lanes PROVE Follows(pendingByLane'[t][m], log[t])
    <3>1. Follows(pendingByLane[t][m], log[t])
      BY DEF OrderSound, QueuesInOrder
    <3>2. CASE t = s /\ m = l
      BY <1>1, <1>3, <3>2, FollowsTail
    <3>3. CASE ~(t = s /\ m = l)
      BY <1>3, <3>1, <3>3
    <3> QED
      BY <3>2, <3>3
  <2>2. ASSUME NEW t \in Slots
        PROVE  Follows(eventQueue'[t], log'[t]) /\ Follows(controlQueue'[t], log'[t])
    BY <1>2 DEF OrderSound, QueuesInOrder
  <2>3. ASSUME NEW t \in Slots, NEW m \in Lanes PROVE Follows(pendingByLane'[t][m], log'[t])
    BY <1>2, <2>1
  <2> QED
    BY <2>2, <2>3 DEF QueuesInOrder
<1>7. CountsSound'
  BY <1>1, <1>2, StartCounts DEF Waiting
<1> QED
  BY <1>4, <1>5, <1>6, <1>7 DEF OrderSound

\* The completion of a delivery frees its lane.
LEMMA CompletionKeeps ==
  ASSUME TypeOK, Placed, OrderSound, CountsSound,
         NEW s \in Slots, NEW d \in Deliveries, HandleCompletion(s, d)
  PROVE  Placed' /\ OrderSound' /\ CountsSound'
<1>1. /\ status[d] = "settled" /\ status' = [status EXCEPT ![d] = "released"]
      /\ eventQueue' = eventQueue /\ controlQueue' = controlQueue
      /\ UNCHANGED <<pendingEvents, pendingControl>>
      /\ pendingByLane' = pendingByLane /\ gen' = gen /\ log' = log
  BY DEF HandleCompletion, queues, calls
<1>2. status'[d] = "released" /\ \A x \in Deliveries : x # d => status'[x] = status[x]
  BY <1>1 DEF TypeOK, TypeDeliveries
<1>3. Placed'
  <2> SUFFICES ASSUME NEW x \in Deliveries
               PROVE  /\ Accepted(x)' => SlotOf(x)' \in Slots
                      /\ status'[x] = "queued" => Has(Channel(x)', x)
                      /\ status'[x] = "parked" => Has(Parked(x)', x)
    BY DEF Placed, Has
  <2>1. /\ Accepted(x)' <=> Accepted(x)
        /\ status'[x] \in {"queued", "parked"} => status[x] = status'[x]
    BY <1>1, <1>2 DEF Accepted
  <2> QED
    BY <1>1, <2>1 DEF Placed, Channel, Parked, SlotOf
<1>4. LogSound' /\ StagesInOrder'
  <2>1. Stage(d) = 1 /\ Stage(d)' = 0 /\ Accepted(d)'
    BY <1>1, <1>2 DEF Stage, Running, Accepted
  <2>2. ASSUME NEW t \in Slots, NEW a \in 1..Len(log[t]), NEW b \in 1..Len(log[t]), a < b,
               log[t][b] = d, Alike(log[t][a], d)
        PROVE  Stage(log[t][a]) <= 0
    BY <2>1, <2>2 DEF OrderSound, StagesInOrder
  <2> QED
    BY <1>1, <1>2, <2>1, <2>2, StagesMove
<1>5. QueuesInOrder'
  BY <1>1 DEF OrderSound, QueuesInOrder
<1>6. CountsSound'
  BY <1>1, ReleaseCounts DEF Running
<1> QED
  BY <1>3, <1>4, <1>5, <1>6 DEF OrderSound

-----------------------------------------------------------------------------
(* Admission.                                                              *)

\* An admitted delivery is new, and goes to the end of a channel and of a log.
LEMMA AcceptNew ==
  ASSUME TypeOK, CallsSound, OrderSound, NEW d \in Deliveries, EnqueueAccept(d)
  PROVE  LET s == Current(d[2]) IN
         /\ s \in Slots /\ status[d] = "none" /\ status'[d] = "queued" /\ SlotOf(d)' = s
         /\ \A x \in Deliveries : x # d => status'[x] = status[x] /\ SlotOf(x)' = SlotOf(x)
         /\ \A t \in Slots : log'[t] = IF t = s THEN Append(log[t], d) ELSE log[t]
         /\ \A t \in Slots : ~Has(log[t], d)
         /\ \A t \in Slots : eventQueue'[t] = IF t = s /\ d[1] \notin Control
                               THEN Append(eventQueue[t], d) ELSE eventQueue[t]
         /\ \A t \in Slots : controlQueue'[t] = IF t = s /\ d[1] \in Control
                               THEN Append(controlQueue[t], d) ELSE controlQueue[t]
<1> DEFINE s == Current(d[2])
<1>1. /\ gen' = [gen EXCEPT ![d] = s[2]] /\ status' = [status EXCEPT ![d] = "queued"]
      /\ log' = [log EXCEPT ![s] = Append(@, d)] /\ current[d[2]] > 0
  BY DEF EnqueueAccept, Admissible, Deliverable
<1>2. s \in Slots /\ s = <<d[2], s[2]>>
  BY <1>1, SlotType, DeliveryType DEF TypeOK, TypeRegistry, Current
<1>3. status[d] = "none"
  BY DeliveryType DEF CallsSound, EnqueueAccept, NextTarget
<1>4. /\ gen'[d] = s[2] /\ status'[d] = "queued"
      /\ \A x \in Deliveries : x # d => status'[x] = status[x] /\ gen'[x] = gen[x]
  BY <1>1 DEF TypeOK, TypeCalls, TypeDeliveries
<1>5. \A t \in Slots : ~Has(log[t], d)
  BY <1>3 DEF OrderSound, LogSound, Has, Accepted
<1>6. \A t \in Slots : eventQueue'[t] = IF t = s /\ d[1] \notin Control
                         THEN Append(eventQueue[t], d) ELSE eventQueue[t]
  BY DEF EnqueueAccept, TypeOK, TypeQueues
<1>7. \A t \in Slots : controlQueue'[t] = IF t = s /\ d[1] \in Control
                         THEN Append(controlQueue[t], d) ELSE controlQueue[t]
  BY DEF EnqueueAccept, TypeOK, TypeQueues
<1> HIDE DEF s
<1>8. \A t \in Slots : log'[t] = IF t = s THEN Append(log[t], d) ELSE log[t]
  BY <1>1 DEF TypeOK, TypeCalls
<1>9. SlotOf(d)' = s /\ \A x \in Deliveries : x # d => SlotOf(x)' = SlotOf(x)
  BY <1>2, <1>4 DEF SlotOf
<1> QED
  BY <1>2, <1>3, <1>4, <1>5, <1>6, <1>7, <1>8, <1>9 DEF s

LEMMA AcceptKeeps ==
  ASSUME TypeOK, CallsSound, QueuesSound, Placed, OrderSound, CountsSound,
         NEW d \in Deliveries, EnqueueAccept(d)
  PROVE  Placed' /\ OrderSound' /\ CountsSound'
<1> DEFINE s == Current(d[2])
<1>1. /\ s \in Slots /\ status[d] = "none" /\ status'[d] = "queued" /\ SlotOf(d)' = s
      /\ \A x \in Deliveries : x # d => status'[x] = status[x] /\ SlotOf(x)' = SlotOf(x)
      /\ \A t \in Slots : log'[t] = IF t = s THEN Append(log[t], d) ELSE log[t]
      /\ \A t \in Slots : ~Has(log[t], d)
  BY AcceptNew
<1>2. /\ \A t \in Slots : eventQueue'[t] = IF t = s /\ d[1] \notin Control
                            THEN Append(eventQueue[t], d) ELSE eventQueue[t]
      /\ \A t \in Slots : controlQueue'[t] = IF t = s /\ d[1] \in Control
                            THEN Append(controlQueue[t], d) ELSE controlQueue[t]
      /\ pendingByLane' = pendingByLane
  BY AcceptNew DEF EnqueueAccept, worker
<1> PICK c \in Slots : c = s
  BY <1>1
<1> HIDE DEF s
<1>3. Placed'
  <2> SUFFICES ASSUME NEW x \in Deliveries
               PROVE  /\ Accepted(x)' => SlotOf(x)' \in Slots
                      /\ status'[x] = "queued" => Has(Channel(x)', x)
                      /\ status'[x] = "parked" => Has(Parked(x)', x)
    BY DEF Placed, Has
  <2>1. CASE x = d
    <3>1. d[1] \in Control => Channel(d)' = Append(controlQueue[s], d)
      BY <1>1, <1>2 DEF Channel
    <3>2. d[1] \notin Control => Channel(d)' = Append(eventQueue[s], d)
      BY <1>1, <1>2 DEF Channel
    <3>3. Has(Channel(d)', d)
      <4>1. /\ controlQueue[c] \in Seq(Deliveries) /\ Has(Append(controlQueue[c], d), d)
            /\ eventQueue[c] \in Seq(Deliveries) /\ Has(Append(eventQueue[c], d), d)
        BY ItemsType, HasAppend
      <4> QED
        BY <3>1, <3>2, <4>1
    <3> QED
      BY <1>1, <2>1, <3>3
  <2>2. CASE x # d
    <3>1. status'[x] = status[x] /\ SlotOf(x)' = SlotOf(x)
      BY <1>1, <2>2
    <3>2. Accepted(x)' => Accepted(x) /\ SlotOf(x) \in Slots
      BY <3>1 DEF Accepted, Placed
    <3>3. ASSUME SlotOf(x) \in Slots
          PROVE  /\ Channel(x) \in Seq(Deliveries)
                 /\ Channel(x)' = Channel(x) \/ Channel(x)' = Append(Channel(x), d)
      <4>1. CASE x[1] \in Control
        <5>1. Channel(x) = controlQueue[SlotOf(x)] /\ Channel(x)' = controlQueue'[SlotOf(x)]
          BY <3>1, <4>1 DEF Channel
        <5> QED
          BY <1>2, <3>3, <5>1, ItemsType
      <4>2. CASE x[1] \notin Control
        <5>1. Channel(x) = eventQueue[SlotOf(x)] /\ Channel(x)' = eventQueue'[SlotOf(x)]
          BY <3>1, <4>2 DEF Channel
        <5> QED
          BY <1>2, <3>3, <5>1, ItemsType
      <4> QED
        BY <4>1, <4>2
    <3>4. ASSUME status'[x] = "queued" PROVE Has(Channel(x)', x)
      <4>1. Has(Channel(x), x) /\ SlotOf(x) \in Slots
        BY <3>1, <3>2, <3>4 DEF Placed, Accepted
      <4> QED
        BY <3>3, <4>1, HasAppend
    <3>5. Parked(x)' = Parked(x)
      BY <1>2, <3>1 DEF Parked
    <3>6. status'[x] = "parked" => Has(Parked(x), x)
      BY <3>1 DEF Placed
    <3> QED
      BY <3>1, <3>2, <3>4, <3>5, <3>6
  <2> QED
    BY <2>1, <2>2
<1>4. ASSUME NEW t \in Slots
      PROVE  /\ log'[t] \in Seq(Deliveries)
             /\ \A i \in 1..Len(log'[t]) :
                  \/ i \in 1..Len(log[t]) /\ log'[t][i] = log[t][i] /\ log[t][i] # d
                       /\ log[t][i] \in Deliveries
                  \/ t = s /\ i = Len(log[t]) + 1 /\ log'[t][i] = d
             /\ Len(log[t]) \in Nat
  <2>1. /\ log[t] \in Seq(Deliveries) /\ Len(log[t]) \in Nat
        /\ \A i \in 1..Len(log[t]) : log[t][i] # d /\ log[t][i] \in Deliveries
    BY <1>1, LogType DEF Has
  <2>2. CASE t = s
    <3> DEFINE l == log[t]   r == Append(l, d)
    <3>1. log'[t] = r /\ l \in Seq(Deliveries)
      BY <1>1, <2>1, <2>2
    <3>2. /\ r \in Seq(Deliveries) /\ Len(r) = Len(l) + 1 /\ r[Len(l) + 1] = d
          /\ \A i \in 1..Len(l) : r[i] = l[i]
      BY <3>1, AppendItems
    <3>3. \A i \in 1..Len(l) : l[i] # d /\ l[i] \in Deliveries
      BY <2>1
    <3>4. Len(l) \in Nat
      BY <2>1
    <3> HIDE DEF r
    <3> QED
      BY <2>2, <3>1, <3>2, <3>3, <3>4
  <2>3. CASE t # s
    BY <1>1, <2>1, <2>3
  <2> QED
    BY <2>2, <2>3
<1>5. LogSound'
  <2>1. ASSUME NEW t \in Slots, NEW i \in 1..Len(log'[t]), NEW x \in Deliveries,
               x = log'[t][i]
        PROVE  Accepted(x)' /\ SlotOf(x)' = t
    <3>1. CASE x = d
      BY <1>1, <1>4, <2>1, <3>1 DEF Accepted
    <3>2. CASE x # d
      BY <1>1, <1>4, <2>1, <3>2 DEF Accepted, OrderSound, LogSound
    <3> QED
      BY <3>1, <3>2
  <2>2. \A t \in Slots : \A i, j \in 1..Len(log'[t]) : log'[t][i] = log'[t][j] => i = j
    BY <1>4 DEF OrderSound, LogSound
  <2>3. \A t \in Slots : \A i \in 1..Len(log'[t]) : log'[t][i] \in Deliveries
    BY <1>4
  <2> QED
    BY <2>1, <2>2, <2>3 DEF LogSound, Accepted, SlotOf
<1>6. StagesInOrder'
  <2> SUFFICES ASSUME NEW t \in Slots, NEW a \in 1..Len(log'[t]), NEW b \in 1..Len(log'[t]),
                      a < b, Alike(log'[t][a], log'[t][b]),
                      NEW x \in Deliveries, x = log'[t][a],
                      NEW y \in Deliveries, y = log'[t][b]
               PROVE  Stage(x)' <= Stage(y)' /\ (Stage(y)' = 1 => Stage(x)' = 0)
    <3>1. \A u \in Slots : \A i \in 1..Len(log'[u]) : log'[u][i] \in Deliveries
      BY <1>4
    <3> QED
      BY <3>1 DEF StagesInOrder, Stage, Running
  <2>1. /\ Stage(d)' = 3 /\ Stage(x)' \in 0..3
        /\ \A z \in Deliveries : z # d => Stage(z)' = Stage(z)
    BY <1>1 DEF Stage, Running
  <2>2. a \in 1..Len(log[t]) /\ x = log[t][a] /\ x # d
    BY <1>4
  <2>3. CASE y = d
    BY <2>1, <2>3
  <2>4. CASE y # d
    <3>1. b \in 1..Len(log[t]) /\ y = log[t][b]
      BY <1>4, <2>4
    <3> QED
      BY <2>1, <2>2, <2>4, <3>1 DEF OrderSound, StagesInOrder
  <2> QED
    BY <2>3, <2>4
<1>7. QueuesInOrder'
  <2>1. ASSUME NEW t \in Slots, NEW q \in Seq(Deliveries), Follows(q, log[t]), ~Has(q, d)
        PROVE  Follows(q, log'[t]) /\ (t = s => Follows(Append(q, d), log'[t]))
    <3>1. log[t] \in Seq(Deliveries) /\ ~Has(log[t], d)
      BY <1>1, LogType
    <3>2. Follows(q, Append(log[t], d)) /\ Follows(Append(q, d), Append(log[t], d))
      BY <2>1, <3>1, FollowsLogged
    <3> QED
      BY <1>1, <2>1, <3>2
  <2>2. ASSUME NEW t \in Slots
        PROVE  /\ ~Has(eventQueue[t], d) /\ ~Has(controlQueue[t], d)
               /\ \A m \in Lanes : ~Has(pendingByLane[t][m], d)
    BY <1>1 DEF QueuesSound, EventsSound, ControlSound, LaneSound, Holds, Has
  <2>3. ASSUME NEW t \in Slots
        PROVE  Follows(eventQueue'[t], log'[t]) /\ Follows(controlQueue'[t], log'[t])
    <3>1. /\ eventQueue[t] \in Seq(Deliveries) /\ Follows(eventQueue[t], log[t])
          /\ controlQueue[t] \in Seq(Deliveries) /\ Follows(controlQueue[t], log[t])
      BY ItemsType DEF OrderSound, QueuesInOrder
    <3>2. Follows(eventQueue'[t], log'[t])
      BY <1>2, <2>1, <2>2, <3>1
    <3>3. Follows(controlQueue'[t], log'[t])
      BY <1>2, <2>1, <2>2, <3>1
    <3> QED
      BY <3>2, <3>3
  <2>4. ASSUME NEW t \in Slots, NEW m \in Lanes PROVE Follows(pendingByLane'[t][m], log'[t])
    <3>1. pendingByLane[t][m] \in Seq(Deliveries) /\ Follows(pendingByLane[t][m], log[t])
      BY ItemsType DEF OrderSound, QueuesInOrder
    <3> QED
      BY <1>2, <2>1, <2>2, <3>1
  <2> QED
    BY <2>3, <2>4 DEF QueuesInOrder
<1>8. CountsSound'
  BY AcceptCounts
<1> QED
  BY <1>3, <1>5, <1>6, <1>7, <1>8 DEF OrderSound

-----------------------------------------------------------------------------
(* The queues of a slot.                                                   *)

LEMMA LanesInit == Init => LInv
<1> SUFFICES ASSUME Init PROVE Placed /\ OrderSound /\ CountsSound
  BY LayersInit DEF LInv
<1>1. /\ \A d \in Deliveries : status[d] = "none"
      /\ \A s \in Slots : log[s] = <<>> /\ eventQueue[s] = <<>> /\ controlQueue[s] = <<>>
      /\ \A s \in Slots : pendingControl[s] = 0 /\ pendingEvents[s] = 0
      /\ \A s \in Slots, l \in Lanes : pendingByLane[s][l] = <<>>
  BY DEF Init
<1>2. Placed
  BY <1>1 DEF Placed, Accepted
<1>3. OrderSound
  BY <1>1 DEF OrderSound, LogSound, StagesInOrder, QueuesInOrder, Follows
<1>4. \A s \in Slots : Active(s) = {} /\ HeldControl(s) = {} /\ HeldEvents(s) = {}
  BY <1>1 DEF Active, HeldControl, HeldEvents, Waiting
<1>5. IsFiniteSet({}) /\ Cardinality({}) = 0
  BY FS_EmptySet
<1>6. CountsSound
  <2>1. LanesExclusive
    BY <1>4 DEF LanesExclusive
  <2>2. Capacity
    BY <1>4, <1>5, LimitTypes DEF Capacity
  <2>3. Counted
    <3> SUFFICES ASSUME NEW s \in Slots
                 PROVE  /\ IsFiniteSet(HeldControl(s)) /\ IsFiniteSet(HeldEvents(s))
                        /\ pendingControl[s] = Cardinality(HeldControl(s))
                        /\ pendingEvents[s] = Cardinality(HeldEvents(s))
                        /\ pendingControl[s] <= ControlLimit /\ pendingEvents[s] <= EventLimit
      BY DEF Counted
    <3>1. HeldControl(s) = {} /\ HeldEvents(s) = {}
      BY <1>4
    <3>2. pendingControl[s] = 0 /\ pendingEvents[s] = 0
      BY <1>1
    <3> QED
      BY <1>5, <3>1, <3>2, LimitTypes
  <2> QED
    BY <2>1, <2>2, <2>3 DEF CountsSound
<1> QED
  BY <1>2, <1>3, <1>6

\* A step of DeliverEvent moves a delivery that runs.
LEMMA DeliveryQuiet ==
  ASSUME TypeOK, NEW d \in Deliveries, DeliveryStep(d) PROVE LaneQuiet
<1>1. UNCHANGED <<queues, pendingByLane, gen, log>>
  BY DEF DeliveryStep, PassGate, DeliverReturn, BackgroundEnd, queues, worker, calls
<1>2. CASE PassGate(d)
  <2>1. status[d] = "started" /\ status' \in {[status EXCEPT ![d] = "settled"],
                                               [status EXCEPT ![d] = "delivering"]}
    BY <1>2 DEF PassGate, Settle
  <2>2. Running(d) /\ Running(d)' /\ \A x \in Deliveries : x # d => status'[x] = status[x]
    BY <2>1 DEF Running, TypeOK, TypeDeliveries
  <2> QED
    BY <1>1, <2>2 DEF LaneQuiet
<1>3. CASE DeliverReturn(d)
  <2>1. status[d] = "delivering" /\ status' = [status EXCEPT ![d] = "settled"]
    BY <1>3 DEF DeliverReturn, Settle, Detach
  <2>2. Running(d) /\ Running(d)' /\ \A x \in Deliveries : x # d => status'[x] = status[x]
    BY <2>1 DEF Running, TypeOK, TypeDeliveries
  <2> QED
    BY <1>1, <2>2 DEF LaneQuiet
<1>4. CASE BackgroundEnd(d)
  BY <1>1, <1>4 DEF LaneQuiet, BackgroundEnd
<1> QED
  BY <1>2, <1>3, <1>4 DEF DeliveryStep

LEMMA LanesStep == LInv /\ [Next]_vars => LInv'
<1> SUFFICES ASSUME LInv, [Next]_vars PROVE Placed' /\ OrderSound' /\ CountsSound'
  BY LayersStep DEF LInv
<1>0. TypeOK /\ QueuesSound /\ CallsSound /\ Placed /\ OrderSound /\ CountsSound
  BY DEF LInv, IInv
<1>1. ASSUME LaneQuiet PROVE Placed' /\ OrderSound' /\ CountsSound'
  BY <1>0, <1>1, QuietKeeps
<1>2. ASSUME NEW e \in Events, BeginCall(e) PROVE LaneQuiet
  BY <1>2 DEF BeginCall, DispatchLayered, DispatchSelect, DispatchToProcess, LaneQuiet,
              queues, worker
<1>3. ASSUME NEW e \in Events, CallStep(e) PROVE Placed' /\ OrderSound' /\ CountsSound'
  <2>1. CASE EnqueueTargets(e) \/ DispatchReturn(e)
    <3>1. LaneQuiet
      BY <2>1 DEF EnqueueTargets, DispatchReturn, LaneQuiet, queues, worker
    <3> QED
      BY <1>1, <3>1
  <2>2. ASSUME NEW d \in Deliveries, EnqueueAccept(d)
        PROVE  Placed' /\ OrderSound' /\ CountsSound'
    BY <1>0, <2>2, AcceptKeeps
  <2>3. ASSUME NEW d \in Deliveries, EnqueueReject(d)
        PROVE  Placed' /\ OrderSound' /\ CountsSound'
    <3>1. status[d] = "none" /\ status' = [status EXCEPT ![d] = "rejected"]
      BY <1>0, <2>3, DeliveryType DEF EnqueueReject, NextTarget, Refuse, CallsSound
    <3>2. \A x \in Deliveries : \/ status'[x] = status[x]
                                \/ status[x] = "none" /\ status'[x] = "rejected"
      BY <1>0, <3>1 DEF TypeOK, TypeDeliveries
    <3>3. LaneQuiet
      BY <2>3, <3>2 DEF EnqueueReject, LaneQuiet, queues, worker
    <3> QED
      BY <1>1, <3>3
  <2> QED
    BY <1>3, <2>1, <2>2, <2>3, DeliveryType DEF CallStep
<1>4. ASSUME NEW e \in Events, AdvanceLayer(e) PROVE LaneQuiet
  BY <1>4 DEF AdvanceLayer, LaneQuiet, queues, worker
<1>5. ASSUME NEW s \in Slots, WorkerStep(s) PROVE Placed' /\ OrderSound' /\ CountsSound'
  <2>1. ASSUME NEW l \in Lanes, StartReadyLane(s, l)
        PROVE  Placed' /\ OrderSound' /\ CountsSound'
    BY <1>0, <2>1, ReadyLaneKeeps
  <2>2. CASE PollControl(s) \/ WorkerExit(s)
    <3>1. LaneQuiet
      BY <2>2 DEF PollControl, WorkerExit, LaneQuiet, queues, calls
    <3> QED
      BY <1>1, <3>1
  <2>3. CASE PullControl(s) \/ PullEvent(s)
    BY <1>0, <2>3, PullReceives, ReceiveKeeps
  <2>4. ASSUME NEW d \in Deliveries, HandleCompletion(s, d)
        PROVE  Placed' /\ OrderSound' /\ CountsSound'
    BY <1>0, <2>4, CompletionKeeps
  <2> QED
    BY <1>5, <2>1, <2>2, <2>3, <2>4 DEF WorkerStep
<1>6. ASSUME NEW d \in Deliveries, DeliveryStep(d) PROVE LaneQuiet
  BY <1>0, <1>6, DeliveryQuiet
<1>7. ASSUME NEW p \in Plugins, RegistryStep(p) PROVE LaneQuiet
  BY <1>7 DEF RegistryStep, Publish, CloseReplaced, DrainPlugin, DrainWait, Deregister,
              DeregisterReturn, LaneQuiet, queues, worker, calls
<1>8. ASSUME ShutdownStep PROVE LaneQuiet
  BY <1>8 DEF ShutdownStep, DrainAll, Close, CloseReturn, DrainAllWait, CloseSlot,
              LaneQuiet, queues, worker, calls
<1>9. ASSUME NEW s \in Slots, ForgetRetired(s) \/ RuntimeStops(s) PROVE LaneQuiet
  BY <1>9 DEF ForgetRetired, RuntimeStops, LaneQuiet, queues, worker, calls
<1>10. ASSUME UNCHANGED vars PROVE LaneQuiet
  BY <1>10 DEF vars, LaneQuiet, queues, worker, calls
<1> QED
  BY <1>1, <1>2, <1>3, <1>4, <1>5, <1>6, <1>7, <1>8, <1>9, <1>10 DEF Next

LEMMA LanesInvariant == Spec => []LInv
  BY LanesInit, LanesStep, PTL DEF Spec

\* A queue without repetitions, of deliveries that a set holds, is no longer
\* than the set is large.
LEMMA QueueLength ==
  ASSUME NEW q \in Seq(Deliveries), NEW S, IsFiniteSet(S),
         \A i \in 1..Len(q) : q[i] \in S,
         \A i, j \in 1..Len(q) : q[i] = q[j] => i = j
  PROVE  Len(q) <= Cardinality(S)
<1> DEFINE f == [i \in 1..Len(q) |-> q[i]]
<1>1. f \in Injection(1..Len(q), S)
  BY DEF Injection, IsInjective
<1>2. Len(q) \in Nat
  OBVIOUS
<1>3. Cardinality(1..Len(q)) <= Cardinality(S)
  <2> HIDE DEF f
  <2> QED
    BY <1>1, FS_Injection
<1>4. \A n \in Nat : Cardinality(1..n) = n
  <2> SUFFICES ASSUME NEW n \in Nat PROVE Cardinality(1..n) = n
    OBVIOUS
  <2>1. Cardinality(1..n) = IF 1 > n THEN 0 ELSE n - 1 + 1
    BY FS_Interval
  <2> QED
    BY <2>1
<1> QED
  BY <1>2, <1>3, <1>4

LEMMA LanesImply == LInv => LanesSound
<1> SUFFICES ASSUME LInv PROVE QueuesBounded /\ LaneFIFO
  BY DEF LanesSound
<1>1. QueuesBounded
  <2> SUFFICES ASSUME NEW s \in Slots
               PROVE  /\ pendingControl[s] = Cardinality(HeldControl(s))
                      /\ pendingEvents[s] = Cardinality(HeldEvents(s))
                      /\ Len(eventQueue[s]) <= EventLimit
                      /\ Len(controlQueue[s]) <= ControlLimit
    <3>1. ASSUME NEW s \in Slots
          PROVE  LET held == {d \in Deliveries : SlotOf(d) = s /\ Waiting(d)} IN
                 /\ {d \in held : d[1] \in Control} = HeldControl(s)
                 /\ {d \in held : d[1] \notin Control} = HeldEvents(s)
      BY DEF HeldControl, HeldEvents
    <3> QED
      BY <3>1 DEF QueuesBounded
  <2>1. /\ IsFiniteSet(HeldControl(s)) /\ pendingControl[s] = Cardinality(HeldControl(s))
        /\ IsFiniteSet(HeldEvents(s)) /\ pendingEvents[s] = Cardinality(HeldEvents(s))
        /\ pendingControl[s] <= ControlLimit /\ pendingEvents[s] <= EventLimit
        /\ pendingControl[s] \in Nat /\ pendingEvents[s] \in Nat
    BY DEF LInv, IInv, CountsSound, Counted, TypeOK, TypeQueues
  <2>2. eventQueue[s] \in Seq(Deliveries) /\ controlQueue[s] \in Seq(Deliveries)
    BY ItemsType DEF LInv, IInv
  <2>3. /\ \A i \in 1..Len(eventQueue[s]) : eventQueue[s][i] \in HeldEvents(s)
        /\ \A i, j \in 1..Len(eventQueue[s]) : eventQueue[s][i] = eventQueue[s][j] => i = j
    BY <2>2 DEF LInv, IInv, QueuesSound, EventsSound, Holds, HeldEvents, Waiting
  <2>4. /\ \A i \in 1..Len(controlQueue[s]) : controlQueue[s][i] \in HeldControl(s)
        /\ \A i, j \in 1..Len(controlQueue[s]) : controlQueue[s][i] = controlQueue[s][j] => i = j
    BY <2>2 DEF LInv, IInv, QueuesSound, ControlSound, Holds, HeldControl, Waiting
  <2>5. Len(eventQueue[s]) <= pendingEvents[s] /\ Len(controlQueue[s]) <= pendingControl[s]
    BY <2>1, <2>2, <2>3, <2>4, QueueLength
  <2> QED
    BY <2>1, <2>2, <2>5, LimitTypes
<1>2. LaneFIFO
  <2> SUFFICES ASSUME NEW s \in Slots
               PROVE  /\ Cardinality(Active(s)) <= Concurrency[s]
                      /\ \A i, j \in 1..Len(log[s]) :
                           i < j /\ Alike(log[s][i], log[s][j]) /\ ~Waiting(log[s][j])
                             => status[log[s][i]] = "released"
    <3>1. ASSUME NEW s \in Slots PROVE DOMAIN log[s] = 1..Len(log[s])
      BY LogType DEF LInv, IInv
    <3> QED
      BY <3>1 DEF LaneFIFO, Alike
  <2>1. Cardinality(Active(s)) <= Concurrency[s]
    BY DEF LInv, CountsSound, Capacity
  <2>2. ASSUME NEW i \in 1..Len(log[s]), NEW j \in 1..Len(log[s]), i < j,
               Alike(log[s][i], log[s][j]), ~Waiting(log[s][j])
        PROVE  status[log[s][i]] = "released"
    <3> PICK x \in Deliveries, y \in Deliveries : x = log[s][i] /\ y = log[s][j]
      BY LogType DEF LInv, IInv
    <3>1. /\ Accepted(x) /\ Stage(x) <= Stage(y) /\ (Stage(y) = 1 => Stage(x) = 0)
      BY <2>2 DEF LInv, OrderSound, LogSound, StagesInOrder
    <3>2. Stage(y) \in {0, 1} /\ Stage(x) \in 0..3
      BY <2>2 DEF Stage, Waiting
    <3>3. Stage(x) = 0
      BY <3>1, <3>2
    <3>4. status[x] \in Statuses
      BY DEF LInv, IInv, TypeOK, TypeDeliveries
    <3> QED
      BY <3>1, <3>3, <3>4 DEF Stage, Running, Accepted, Statuses
  <2> QED
    BY <2>1, <2>2
<1> QED
  BY <1>1, <1>2

\* The counters under queueMu count what waits and keep it within its limits, a
\* slot runs no more than its concurrency, and each of its lanes keeps the order
\* of admission, for any queue sizes, lanes and concurrency.
THEOREM LanesOrdered == Spec => []LanesSound
  BY LanesInvariant, LanesImply, PTL

-----------------------------------------------------------------------------
(* Control events.                                                         *)

\* An ordinary event that overtook a control event was pulled by a select; the
\* worker polls the control queue before its next select.
Overtaking ==
  \A s \in Slots :
    /\ overtook[s] \in {0, 1}
    /\ overtook[s] = 1 => s \notin polled /\ controlQueue[s] # <<>>

\* A step that receives nothing and does not poll.
OvertakeQuiet ==
  /\ overtook' = overtook /\ polled' \subseteq polled
  /\ \A s \in Slots : controlQueue[s] # <<>> => controlQueue'[s] # <<>>

LEMMA OvertakingStep == TypeOK /\ Overtaking /\ [Next]_vars => Overtaking'
<1> SUFFICES ASSUME TypeOK, Overtaking, [Next]_vars PROVE Overtaking'
  OBVIOUS
<1>1. ASSUME OvertakeQuiet PROVE Overtaking'
  BY <1>1 DEF OvertakeQuiet, Overtaking
<1>2. ASSUME UNCHANGED <<queues, worker>> PROVE OvertakeQuiet
  BY <1>2 DEF OvertakeQuiet, queues, worker
<1>3. ASSUME NEW e \in Events, BeginCall(e) PROVE UNCHANGED <<queues, worker>>
  BY <1>3 DEF BeginCall, DispatchLayered, DispatchSelect, DispatchToProcess
<1>4. ASSUME NEW e \in Events, CallStep(e) PROVE OvertakeQuiet
  <2>1. CASE EnqueueTargets(e) \/ DispatchReturn(e)
    BY <1>2, <2>1 DEF EnqueueTargets, DispatchReturn
  <2>2. ASSUME NEW d \in Deliveries, EnqueueAccept(d) PROVE OvertakeQuiet
    <3>1. /\ overtook' = overtook /\ polled' = polled
          /\ \/ controlQueue' = controlQueue
             \/ controlQueue' = [controlQueue EXCEPT ![Current(d[2])] = Append(@, d)]
      BY <2>2 DEF EnqueueAccept, worker
    <3>2. \A s \in Slots : controlQueue[s] # <<>> => Append(controlQueue[s], d) # <<>>
      <4> SUFFICES ASSUME NEW s \in Slots PROVE Append(controlQueue[s], d) # <<>>
        OBVIOUS
      <4>1. controlQueue[s] \in Seq(Deliveries)
        BY ItemsType
      <4>2. Len(Append(controlQueue[s], d)) = Len(controlQueue[s]) + 1 /\ Len(controlQueue[s]) \in Nat
        BY <4>1, AppendItems
      <4> QED
        BY <4>2
    <3> QED
      BY <3>1, <3>2 DEF OvertakeQuiet, TypeOK, TypeQueues
  <2>3. ASSUME NEW d \in Deliveries, EnqueueReject(d) PROVE OvertakeQuiet
    BY <1>2, <2>3 DEF EnqueueReject
  <2> QED
    BY <1>4, <2>1, <2>2, <2>3, DeliveryType DEF CallStep
<1>5. ASSUME NEW e \in Events, AdvanceLayer(e) PROVE UNCHANGED <<queues, worker>>
  BY <1>5 DEF AdvanceLayer
<1>6. ASSUME NEW s \in Slots, WorkerStep(s) PROVE Overtaking'
  <2>1. CASE PollControl(s)
    <3>1. /\ controlQueue[s] = <<>> /\ polled' = polled \union {s}
          /\ overtook' = overtook /\ controlQueue' = controlQueue
      BY <2>1 DEF PollControl, queues
    <3> QED
      BY <3>1 DEF Overtaking
  <2>2. CASE PullControl(s)
    <3>1. /\ controlQueue' = [controlQueue EXCEPT ![s] = Tail(@)] /\ polled' = polled \ {s}
          /\ overtook' = [overtook EXCEPT ![s] = 0]
      BY <2>2 DEF PullControl
    <3> QED
      BY <3>1 DEF Overtaking, TypeOK, TypeQueues, TypeWorker
  <2>3. CASE PullEvent(s)
    <3>1. /\ controlQueue' = controlQueue /\ polled' = polled \ {s} /\ s \in polled
          /\ overtook' = [overtook EXCEPT ![s] = IF controlQueue[s] = <<>> THEN 0 ELSE @ + 1]
      BY <2>3 DEF PullEvent, InSelect
    <3>2. overtook[s] = 0
      BY <3>1 DEF Overtaking
    <3> QED
      BY <3>1, <3>2 DEF Overtaking, TypeOK, TypeWorker
  <2>4. CASE WorkerExit(s)
    BY <1>1, <2>4 DEF WorkerExit, OvertakeQuiet, queues
  <2>5. ASSUME NEW d \in Deliveries, HandleCompletion(s, d) PROVE Overtaking'
    BY <1>1, <2>5 DEF HandleCompletion, OvertakeQuiet, queues
  <2>6. ASSUME NEW l \in Lanes, StartReadyLane(s, l) PROVE Overtaking'
    BY <1>1, <2>6 DEF StartReadyLane, OvertakeQuiet
  <2> QED
    BY <1>6, <2>1, <2>2, <2>3, <2>4, <2>5, <2>6 DEF WorkerStep
<1>7. ASSUME NEW d \in Deliveries, DeliveryStep(d) PROVE UNCHANGED <<queues, worker>>
  BY <1>7 DEF DeliveryStep, PassGate, DeliverReturn, BackgroundEnd
<1>8. ASSUME NEW p \in Plugins, RegistryStep(p) PROVE UNCHANGED <<queues, worker>>
  BY <1>8 DEF RegistryStep, Publish, CloseReplaced, DrainPlugin, DrainWait, Deregister,
              DeregisterReturn
<1>9. ASSUME ShutdownStep PROVE UNCHANGED <<queues, worker>>
  BY <1>9 DEF ShutdownStep, DrainAll, Close, CloseReturn, DrainAllWait, CloseSlot
<1>10. ASSUME NEW s \in Slots, ForgetRetired(s) \/ RuntimeStops(s)
       PROVE  UNCHANGED <<queues, worker>>
  BY <1>10 DEF ForgetRetired, RuntimeStops
<1>11. ASSUME UNCHANGED vars PROVE UNCHANGED <<queues, worker>>
  BY <1>11 DEF vars
<1> QED
  BY <1>1, <1>2, <1>3, <1>4, <1>5, <1>6, <1>7, <1>8, <1>9, <1>10, <1>11 DEF Next

\* While a control event waits in its channel at most one ordinary event is
\* received before it, whatever the sizes and the load of the two queues.
THEOREM ControlFirst == Spec => []ControlOvertakenOnce
<1>1. Init => Overtaking
  BY DEF Init, Overtaking
<1>2. Overtaking => ControlOvertakenOnce
  BY DEF Overtaking, ControlOvertakenOnce
<1> QED
  BY <1>1, <1>2, OvertakingStep, TypeCorrect, PTL DEF Spec

-----------------------------------------------------------------------------
(* The order of admission.                                                 *)

\* admissionMu has one holder, whose event is the last of every log it is in.
Admission ==
  /\ \A e, f \in Events : call[e] = "admitting" /\ call[f] = "admitting" => e = f
  /\ \A s \in Slots : \A i \in 1..Len(log[s]) :
       call[log[s][i][1]] = "admitting" => i = Len(log[s])

\* A call that does not take admissionMu and a step of no call.
AdmissionQuiet ==
  log' = log /\ \A e \in Events : call'[e] = "admitting" => call[e] = "admitting"

LEMMA LoggedEvents ==
  ASSUME TypeOK, OrderSound, NEW s \in Slots, NEW i \in 1..Len(log[s])
  PROVE  /\ log[s][i][1] \in Events /\ Accepted(log[s][i]) /\ log[s][i] \in Deliveries
         /\ log[s][i] = <<log[s][i][1], s[1]>>
<1> PICK d \in Deliveries : d = log[s][i]
  BY LogType
<1>1. SlotOf(d) = s /\ Accepted(d)
  BY DEF OrderSound, LogSound
<1>2. d = <<d[1], d[2]>> /\ d[2] = s[1] /\ d[1] \in Events
  BY <1>1, DeliveryType DEF SlotOf, Deliveries
<1> QED
  BY <1>1, <1>2

\* Taking admissionMu: the event has been admitted nowhere yet.
LEMMA TakesAdmission ==
  ASSUME TypeOK, CallsSound, OrderSound, Admission, AdmissionFree, log' = log,
         NEW e \in Events, call[e] \in {"idle", "selected"},
         \A f \in Events : f # e => call'[f] = call[f]
  PROVE  Admission'
<1>1. \A f \in Events : call[f] # "admitting"
  BY DEF AdmissionFree
<1>2. ASSUME NEW s \in Slots, NEW i \in 1..Len(log[s]) PROVE call'[log[s][i][1]] # "admitting"
  <2>1. log[s][i][1] \in Events /\ log[s][i][1] # e
    BY LoggedEvents DEF CallsSound, Accepted
  <2> QED
    BY <1>1, <2>1
<1> QED
  BY <1>1, <1>2 DEF Admission

LEMMA AdmissionStep == LInv /\ Admission /\ [Next]_vars => Admission'
<1> SUFFICES ASSUME LInv, Admission, [Next]_vars PROVE Admission'
  OBVIOUS
<1>0. TypeOK /\ CallsSound /\ OrderSound
  BY DEF LInv, IInv
<1>1. ASSUME AdmissionQuiet PROVE Admission'
  BY <1>0, <1>1, LoggedEvents DEF AdmissionQuiet, Admission
<1>2. ASSUME UNCHANGED calls PROVE AdmissionQuiet
  BY <1>2 DEF AdmissionQuiet, calls
<1>3. ASSUME NEW e \in Events, BeginCall(e) PROVE Admission'
  <2>1. CASE DispatchSelect(e)
    <3>1. AdmissionQuiet
      BY <1>0, <2>1 DEF DispatchSelect, AdmissionQuiet, TypeOK, TypeCalls
    <3> QED
      BY <1>1, <3>1
  <2>2. CASE DispatchLayered(e) \/ DispatchToProcess(e)
    <3>1. /\ call[e] = "idle" /\ AdmissionFree /\ log' = log
          /\ \A f \in Events : f # e => call'[f] = call[f]
      BY <1>0, <2>2 DEF DispatchLayered, DispatchToProcess, TypeOK, TypeCalls
    <3> QED
      BY <1>0, <3>1, TakesAdmission
  <2> QED
    BY <1>3, <2>1, <2>2 DEF BeginCall
<1>4. ASSUME NEW e \in Events, CallStep(e) PROVE Admission'
  <2>1. CASE EnqueueTargets(e)
    <3>1. /\ call[e] = "selected" /\ AdmissionFree /\ log' = log
          /\ \A f \in Events : f # e => call'[f] = call[f]
      BY <1>0, <2>1 DEF EnqueueTargets, TypeOK, TypeCalls
    <3> QED
      BY <1>0, <3>1, TakesAdmission
  <2>2. CASE DispatchReturn(e)
    <3>1. AdmissionQuiet
      BY <1>0, <2>2 DEF DispatchReturn, AdmissionQuiet, TypeOK, TypeCalls
    <3> QED
      BY <1>1, <3>1
  <2>3. ASSUME NEW d \in Deliveries, EnqueueAccept(d) PROVE Admission'
    <3> DEFINE s == Current(d[2])
    <3>1. /\ call' = call /\ call[d[1]] = "admitting" /\ s \in Slots /\ s[1] = d[2]
          /\ d[1] \in Events /\ d = <<d[1], d[2]>>
      <4>1. call' = call /\ call[d[1]] = "admitting"
        BY <2>3 DEF EnqueueAccept, NextTarget
      <4>2. s \in Slots
        BY <1>0, <2>3, AcceptNew
      <4>3. s[1] = d[2]
        BY DEF Current
      <4>4. d[1] \in Events /\ d = <<d[1], d[2]>>
        BY DeliveryType DEF Deliveries
      <4> QED
        BY <4>1, <4>2, <4>3, <4>4
    <3>2. /\ \A t \in Slots : log'[t] = IF t = s THEN Append(log[t], d) ELSE log[t]
          /\ \A t \in Slots : ~Has(log[t], d)
      BY <1>0, <2>3, AcceptNew
    <3> HIDE DEF s
    <3> SUFFICES ASSUME NEW t \in Slots, NEW i \in 1..Len(log'[t]),
                        call[log'[t][i][1]] = "admitting"
                 PROVE  i = Len(log'[t])
      BY <3>1 DEF Admission
    <3>3. CASE t # s
      BY <3>2, <3>3 DEF Admission
    <3>4. CASE t = s
      <4> DEFINE l == log[t]
      <4>1. l \in Seq(Deliveries) /\ log'[t] = Append(l, d)
        BY <1>0, <3>2, <3>4, LogType
      <4>2. ASSUME i \in 1..Len(l) PROVE FALSE
        <5>1. log'[t][i] = l[i]
          BY <4>1, <4>2
        <5>2. l[i][1] \in Events /\ l[i] = <<l[i][1], t[1]>>
          BY <1>0, <4>2, LoggedEvents
        <5>3. l[i][1] = d[1]
          BY <3>1, <5>1, <5>2 DEF Admission
        <5>4. l[i] = d
          BY <3>1, <3>4, <5>2, <5>3
        <5> QED
          BY <3>2, <4>2, <5>4 DEF Has
      <4> QED
        BY <4>1, <4>2
    <3> QED
      BY <3>3, <3>4
  <2>4. ASSUME NEW d \in Deliveries, EnqueueReject(d) PROVE Admission'
    <3>1. AdmissionQuiet
      BY <2>4 DEF EnqueueReject, AdmissionQuiet
    <3> QED
      BY <1>1, <3>1
  <2> QED
    BY <1>4, <2>1, <2>2, <2>3, <2>4, DeliveryType DEF CallStep
<1>5. ASSUME NEW e \in Events, AdvanceLayer(e) PROVE AdmissionQuiet
  BY <1>5 DEF AdvanceLayer, AdmissionQuiet
<1>6. ASSUME NEW s \in Slots, WorkerStep(s) PROVE UNCHANGED calls
  BY <1>6 DEF WorkerStep, StartReadyLane, PollControl, PullControl, PullEvent, WorkerExit,
              HandleCompletion
<1>7. ASSUME NEW d \in Deliveries, DeliveryStep(d) PROVE UNCHANGED calls
  BY <1>7 DEF DeliveryStep, PassGate, DeliverReturn, BackgroundEnd
<1>8. ASSUME NEW p \in Plugins, RegistryStep(p) PROVE UNCHANGED calls
  BY <1>8 DEF RegistryStep, Publish, CloseReplaced, DrainPlugin, DrainWait, Deregister,
              DeregisterReturn
<1>9. ASSUME ShutdownStep PROVE UNCHANGED calls
  BY <1>9 DEF ShutdownStep, DrainAll, Close, CloseReturn, DrainAllWait, CloseSlot
<1>10. ASSUME NEW s \in Slots, ForgetRetired(s) \/ RuntimeStops(s) PROVE UNCHANGED calls
  BY <1>10 DEF ForgetRetired, RuntimeStops
<1>11. ASSUME UNCHANGED vars PROVE UNCHANGED calls
  BY <1>11 DEF vars
<1> QED
  BY <1>1, <1>2, <1>3, <1>4, <1>5, <1>6, <1>7, <1>8, <1>9, <1>10, <1>11 DEF Next

LEMMA AdmissionInit == Init => Admission
<1> SUFFICES ASSUME Init PROVE Admission
  OBVIOUS
<1>1. \A s \in Slots : Len(log[s]) = 0
  BY DEF Init
<1>2. \A e \in Events : call[e] = "idle"
  BY DEF Init
<1> QED
  BY <1>1, <1>2 DEF Admission

\* An admission appends to one log, where its event comes last; every other
\* log that has the event has it last too.
LEMMA OrderAccept ==
  ASSUME TypeOK, CallsSound, OrderSound, OrderSound', Admission, Admission',
         SameAdmissionOrder, NEW d \in Deliveries, EnqueueAccept(d)
  PROVE  SameAdmissionOrder'
<1> PICK c \in Slots : c = Current(d[2])
  BY AcceptNew
<1>1. \A t \in Slots : log'[t] = IF t = c THEN Append(log[t], d) ELSE log[t]
  BY AcceptNew
<1>2. call'[d[1]] = "admitting"
  BY DEF EnqueueAccept, NextTarget
<1>3. ASSUME NEW t \in Slots, NEW i \in 1..Len(log'[t])
      PROVE  /\ i \in Nat /\ i <= Len(log'[t]) /\ Len(log'[t]) \in Nat
             /\ log'[t][i][1] = d[1] => i = Len(log'[t])
             /\ log'[t][i][1] # d[1] => i \in 1..Len(log[t]) /\ log'[t][i] = log[t][i]
  <2>1. log[t] \in Seq(Deliveries) /\ Len(log[t]) \in Nat
    BY LogType
  <2>2. log'[t][i][1] = d[1] => i = Len(log'[t])
    BY <1>2 DEF Admission
  <2>3. CASE t # c
    BY <1>1, <2>1, <2>2, <2>3
  <2>4. CASE t = c
    <3>1. log'[t] = Append(log[t], d)
      BY <1>1, <2>4
    <3>2. i \in 1..Len(log[t]) \/ i = Len(log[t]) + 1
      BY <2>1, <3>1
    <3>3. i = Len(log[t]) + 1 => log'[t][i] = d
      BY <2>1, <3>1
    <3>4. i \in 1..Len(log[t]) => log'[t][i] = log[t][i]
      BY <2>1, <3>1
    <3>5. Len(log'[t]) = Len(log[t]) + 1
      BY <2>1, <3>1
    <3> QED
      BY <2>1, <2>2, <3>2, <3>3, <3>4, <3>5
  <2> QED
    BY <2>3, <2>4
<1>4. \A t \in Slots : DOMAIN log'[t] = 1..Len(log'[t])
  <2> TAKE t \in Slots
  <2>1. log[t] \in Seq(Deliveries)
    BY LogType
  <2>2. CASE t = c
    <3>1. log'[t] = Append(log[t], d)
      BY <1>1, <2>2
    <3> QED
      BY <2>1, <3>1
  <2>3. CASE t # c
    <3>1. log'[t] = log[t]
      BY <1>1, <2>3
    <3> QED
      BY <2>1, <3>1
  <2> QED
    BY <2>2, <2>3
<1>5. ASSUME NEW s \in Slots, NEW t \in Slots,
             NEW i \in 1..Len(log'[s]), NEW j \in 1..Len(log'[s]),
             NEW k \in 1..Len(log'[t]), NEW m \in 1..Len(log'[t]),
             i < j, log'[s][i][1] = log'[t][m][1], log'[s][j][1] = log'[t][k][1]
      PROVE  m < k
  <2>1. CASE log'[s][i][1] = d[1]
    <3>1. i = Len(log'[s]) /\ j <= Len(log'[s]) /\ i \in Nat /\ j \in Nat
      BY <1>3, <2>1
    <3> QED
      BY <1>5, <3>1
  <2>2. CASE log'[s][i][1] # d[1] /\ log'[s][j][1] = d[1]
    <3>1. k = Len(log'[t]) /\ m <= Len(log'[t]) /\ m \in Nat /\ k \in Nat
      BY <1>3, <1>5, <2>2
    <3>2. m # k
      BY <1>5, <2>2
    <3> QED
      BY <3>1, <3>2
  <2>3. CASE log'[s][i][1] # d[1] /\ log'[s][j][1] # d[1]
    <3>1. /\ i \in 1..Len(log[s]) /\ log'[s][i] = log[s][i]
          /\ j \in 1..Len(log[s]) /\ log'[s][j] = log[s][j]
      BY <1>3, <2>3
    <3>2. /\ k \in 1..Len(log[t]) /\ log'[t][k] = log[t][k]
          /\ m \in 1..Len(log[t]) /\ log'[t][m] = log[t][m]
      BY <1>3, <1>5, <2>3
    <3>3. \A a, b \in 1..Len(log[s]) : \A u, v \in 1..Len(log[t]) :
            (a < b /\ log[s][a][1] = log[t][v][1] /\ log[s][b][1] = log[t][u][1]) => v < u
      <4>1. DOMAIN log[s] = 1..Len(log[s]) /\ DOMAIN log[t] = 1..Len(log[t])
        BY LogType
      <4> QED
        BY <4>1 DEF SameAdmissionOrder
    <3> QED
      BY <1>5, <3>1, <3>2, <3>3
  <2> QED
    BY <2>1, <2>2, <2>3
<1>6. ASSUME NEW s \in Slots, NEW t \in Slots,
             NEW i \in DOMAIN log'[s], NEW j \in DOMAIN log'[s],
             NEW k \in DOMAIN log'[t], NEW m \in DOMAIN log'[t],
             i < j, log'[s][i][1] = log'[t][m][1], log'[s][j][1] = log'[t][k][1]
      PROVE  m < k
  BY <1>4, <1>5, <1>6
<1> QED
  BY <1>6, Zenon DEF SameAdmissionOrder

\* Only an admission writes a log.
LEMMA LogStep ==
  ASSUME TypeOK, [Next]_vars
  PROVE  log' = log \/ \E d \in Deliveries : EnqueueAccept(d)
<1>1. ASSUME NEW e \in Events, BeginCall(e) PROVE log' = log
  BY <1>1 DEF BeginCall, DispatchLayered, DispatchSelect, DispatchToProcess
<1>2. ASSUME NEW e \in Events, CallStep(e)
      PROVE  log' = log \/ \E d \in Deliveries : EnqueueAccept(d)
  <2>1. EnqueueTargets(e) \/ DispatchReturn(e) => log' = log
    BY DEF EnqueueTargets, DispatchReturn
  <2>2. \A d \in Deliveries : EnqueueReject(d) => log' = log
    BY DEF EnqueueReject
  <2> QED
    BY <1>2, <2>1, <2>2, DeliveryType DEF CallStep
<1>3. ASSUME NEW e \in Events, AdvanceLayer(e) PROVE log' = log
  BY <1>3 DEF AdvanceLayer
<1>4. ASSUME NEW s \in Slots, WorkerStep(s) PROVE log' = log
  BY <1>4 DEF WorkerStep, StartReadyLane, PollControl, PullControl, PullEvent, WorkerExit,
              HandleCompletion, calls
<1>5. ASSUME NEW d \in Deliveries, DeliveryStep(d) PROVE log' = log
  BY <1>5 DEF DeliveryStep, PassGate, DeliverReturn, BackgroundEnd, calls
<1>6. ASSUME NEW p \in Plugins, RegistryStep(p) PROVE log' = log
  BY <1>6 DEF RegistryStep, Publish, CloseReplaced, DrainPlugin, DrainWait, Deregister,
              DeregisterReturn, calls
<1>7. ASSUME ShutdownStep PROVE log' = log
  BY <1>7 DEF ShutdownStep, DrainAll, Close, CloseReturn, DrainAllWait, CloseSlot, calls
<1>8. ASSUME NEW s \in Slots, ForgetRetired(s) \/ RuntimeStops(s) PROVE log' = log
  BY <1>8 DEF ForgetRetired, RuntimeStops, calls
<1>9. ASSUME UNCHANGED vars PROVE log' = log
  BY <1>9 DEF vars, calls
<1> QED
  BY <1>1, <1>2, <1>3, <1>4, <1>5, <1>6, <1>7, <1>8, <1>9 DEF Next

\* Any two events reach all the plugins they share in one order, whatever the
\* calls that dispatch them and the slots that come and go meanwhile.
THEOREM AdmittedInOneOrder == Spec => []SameAdmissionOrder
<1> DEFINE Ordered == LInv /\ Admission /\ SameAdmissionOrder
<1>1. Init => Ordered
  <2> SUFFICES ASSUME Init PROVE SameAdmissionOrder
    BY LanesInit, AdmissionInit
  <2>1. \A s \in Slots : log[s] = <<>>
    BY DEF Init
  <2>2. \A s \in Slots : DOMAIN log[s] = {}
    BY <2>1
  <2> QED
    BY <2>2 DEF SameAdmissionOrder
<1>2. Ordered /\ [Next]_vars => Ordered'
  <2> SUFFICES ASSUME LInv, Admission, SameAdmissionOrder, [Next]_vars PROVE Ordered'
    OBVIOUS
  <2>1. LInv' /\ Admission'
    BY LanesStep, AdmissionStep
  <2>2. TypeOK /\ CallsSound /\ OrderSound /\ OrderSound'
    BY <2>1 DEF LInv, IInv
  <2>3. ASSUME log' = log PROVE SameAdmissionOrder'
    BY <2>3 DEF SameAdmissionOrder
  <2>4. ASSUME NEW d \in Deliveries, EnqueueAccept(d) PROVE SameAdmissionOrder'
    BY <2>1, <2>2, <2>4, OrderAccept
  <2> QED
    BY <2>1, <2>2, <2>3, <2>4, LogStep
<1>3. Ordered => SameAdmissionOrder
  OBVIOUS
<1> QED
  BY <1>1, <1>2, <1>3, PTL DEF Spec

-----------------------------------------------------------------------------
(***************************************************************************)
(* Part 3: slots.                                                          *)
(*                                                                         *)
(* ExitComplete, ShutdownComplete and LayersFollowPolicy are invariants of *)
(* the dispatcher: what holds between a delivery and the slot it belongs   *)
(* to, while slots are published, replaced, deregistered and closed.       *)
(*                                                                         *)
(* A worker ends with nothing left because a waiting delivery is always in *)
(* one of its queues (Placed, of LInv). Close finds every worker because a *)
(* live slot is registered, retired, or held by its Deregister             *)
(* (SlotsFound). The layers follow the policies of the slots that hold the *)
(* deliveries because admission compares the slot with the one the layers  *)
(* were made from (Pinned).                                                *)
(***************************************************************************)
-----------------------------------------------------------------------------
(* The end of a worker.                                                    *)

\* No slot has ended before it was created.
ExitedKnown == \A s \in exited : s[2] <= created[s[1]]
EInv == LInv /\ ExitedKnown /\ ExitComplete

\* Nothing is left in a slot whose worker may end.
LEMMA NothingLeft ==
  ASSUME LInv, NEW s \in Slots, Drained(s), NEW d \in Deliveries, Accepted(d), SlotOf(d) = s
  PROVE  status[d] = "released"
<1>0. TypeOK /\ Placed
  BY DEF LInv, IInv
<1>1. status[d] # "queued"
  <2>1. Len(eventQueue[s]) = 0 /\ Len(controlQueue[s]) = 0
    BY DEF Drained
  <2> QED
    BY <1>0, <2>1 DEF Placed, Channel, Has
<1>2. status[d] # "parked"
  <2>1. Lane[d[1]] \in Lanes
    BY DeliveryType
  <2>2. Len(pendingByLane[s][Lane[d[1]]]) = 0
    BY <2>1 DEF Drained
  <2> QED
    BY <1>0, <2>2 DEF Placed, Parked, Has
<1>3. status[d] \notin {"started", "delivering", "settled"}
  BY DEF Drained, Active
<1> QED
  BY <1>0, <1>1, <1>2, <1>3 DEF TypeOK, TypeDeliveries, Statuses, Accepted

\* A step that ends no worker, admits nothing and reopens no slot.
ExitQuiet ==
  /\ exited' = exited
  /\ \A s \in exited : s \in accepting' => s \in accepting
  /\ \A p \in Plugins : created'[p] >= created[p]
  /\ \A d \in Deliveries :
       /\ Accepted(d)' => Accepted(d) /\ gen'[d] = gen[d]
       /\ status[d] = "released" => status'[d] = "released"

LEMMA ExitKept ==
  ASSUME TypeOK, TypeOK', ExitedKnown, ExitComplete, ExitQuiet
  PROVE  ExitedKnown' /\ ExitComplete'
<1>1. ExitedKnown'
  BY DEF ExitedKnown, ExitQuiet, TypeOK, TypeSlots, TypeRegistry, Slots
<1>2. ExitComplete'
  BY DEF ExitComplete, ExitQuiet, SlotOf
<1> QED
  BY <1>1, <1>2

\* What a worker does to a delivery.
LEMMA WorkerMoves ==
  ASSUME TypeOK, QueuesSound, NEW s \in Slots, WorkerStep(s)
  PROVE  /\ UNCHANGED <<gen, layer, pin, todo, result, background, records>>
         /\ \A d \in Deliveries :
              \/ status'[d] = status[d]
              \/ Waiting(d) /\ status'[d] \in {"parked", "started"}
              \/ status[d] = "settled" /\ status'[d] = "released"
<1>1. UNCHANGED <<gen, layer, pin, todo, result, background, records>>
  BY DEF WorkerStep, StartReadyLane, PollControl, PullControl, PullEvent, WorkerExit,
         HandleCompletion, calls, ends
<1>2. ASSUME NEW d \in Deliveries, Waiting(d),
             \/ status' = [status EXCEPT ![d] = "started"]
             \/ status' = [status EXCEPT ![d] = "parked"]
      PROVE  \A x \in Deliveries :
               \/ status'[x] = status[x]
               \/ Waiting(x) /\ status'[x] \in {"parked", "started"}
  BY <1>2 DEF TypeOK, TypeDeliveries
<1>3. CASE PullControl(s) \/ PullEvent(s)
  <2>1. PICK d \in Deliveries : Receives(s, d)
    BY <1>3, PullReceives
  <2>2. /\ Waiting(d)
        /\ \/ status' = [status EXCEPT ![d] = "started"]
           \/ status' = [status EXCEPT ![d] = "parked"]
    BY <2>1 DEF Receives, WorkerEnqueue, Waiting
  <2> QED
    BY <1>1, <1>2, <2>2
<1>4. ASSUME NEW l \in Lanes, StartReadyLane(s, l)
      PROVE  \E d \in Deliveries : Waiting(d) /\ status' = [status EXCEPT ![d] = "started"]
  <2>1. /\ pendingByLane[s][l] # <<>>
        /\ status' = [status EXCEPT ![Head(pendingByLane[s][l])] = "started"]
    BY <1>4 DEF StartReadyLane, Startable
  <2>2. /\ Head(pendingByLane[s][l]) \in Deliveries
        /\ status[Head(pendingByLane[s][l])] = "parked"
    BY <2>1, TailItems, ItemsType DEF QueuesSound, LaneSound, Holds
  <2> QED
    BY <2>1, <2>2 DEF Waiting
<1>5. CASE PollControl(s) \/ WorkerExit(s)
  BY <1>1, <1>5 DEF PollControl, WorkerExit
<1>6. ASSUME NEW d \in Deliveries, HandleCompletion(s, d)
      PROVE  \A x \in Deliveries :
               \/ status'[x] = status[x]
               \/ status[x] = "settled" /\ status'[x] = "released"
  BY <1>6 DEF HandleCompletion, TypeOK, TypeDeliveries
<1> QED
  BY <1>1, <1>2, <1>3, <1>4, <1>5, <1>6 DEF WorkerStep

\* A delivery keeps its slot, and is released for good.
LEMMA DeliveryMoves ==
  ASSUME TypeOK, QueuesSound, CallsSound, [Next]_vars,
         \A d \in Deliveries : ~EnqueueAccept(d)
  PROVE  \A d \in Deliveries :
           /\ Accepted(d)' => Accepted(d)
           /\ gen'[d] = gen[d]
           /\ status[d] = "released" => status'[d] = "released"
<1>1. ASSUME NEW e \in Events, BeginCall(e) PROVE UNCHANGED <<status, gen>>
  BY <1>1 DEF BeginCall, DispatchLayered, DispatchSelect, DispatchToProcess
<1>2. ASSUME NEW e \in Events, CallStep(e)
      PROVE  /\ gen' = gen
             /\ \/ status' = status
                \/ \E d \in Deliveries :
                     status[d] = "none" /\ status' = [status EXCEPT ![d] = "rejected"]
  <2>1. EnqueueTargets(e) \/ DispatchReturn(e) => UNCHANGED <<status, gen>>
    BY DEF EnqueueTargets, DispatchReturn
  <2>2. \A d \in Deliveries : EnqueueReject(d) =>
          gen' = gen /\ status[d] = "none" /\ status' = [status EXCEPT ![d] = "rejected"]
    BY DEF EnqueueReject, NextTarget, Refuse, CallsSound
  <2> QED
    BY <1>2, <2>1, <2>2, DeliveryType DEF CallStep
<1>3. ASSUME NEW e \in Events, AdvanceLayer(e) PROVE UNCHANGED <<status, gen>>
  BY <1>3 DEF AdvanceLayer
<1>4. ASSUME NEW s \in Slots, WorkerStep(s)
      PROVE  /\ gen' = gen
             /\ \A d \in Deliveries :
                  /\ Accepted(d)' => Accepted(d)
                  /\ status[d] = "released" => status'[d] = "released"
  BY <1>4, WorkerMoves DEF Accepted, Waiting
<1>5. ASSUME NEW d \in Deliveries, DeliveryStep(d)
      PROVE  /\ gen' = gen
             /\ \A x \in Deliveries :
                  /\ Accepted(x)' => Accepted(x)
                  /\ status[x] = "released" => status'[x] = "released"
  BY <1>5 DEF DeliveryStep, PassGate, DeliverReturn, BackgroundEnd, Settle, Detach, Accepted,
              calls, TypeOK, TypeDeliveries
<1>6. ASSUME NEW p \in Plugins, RegistryStep(p) PROVE UNCHANGED <<status, gen>>
  BY <1>6 DEF RegistryStep, Publish, CloseReplaced, DrainPlugin, DrainWait, Deregister,
              DeregisterReturn, calls
<1>7. ASSUME ShutdownStep PROVE UNCHANGED <<status, gen>>
  BY <1>7 DEF ShutdownStep, DrainAll, Close, CloseReturn, DrainAllWait, CloseSlot, calls
<1>8. ASSUME NEW s \in Slots, ForgetRetired(s) \/ RuntimeStops(s) PROVE UNCHANGED <<status, gen>>
  BY <1>8 DEF ForgetRetired, RuntimeStops, calls
<1>9. ASSUME UNCHANGED vars PROVE UNCHANGED <<status, gen>>
  BY <1>9 DEF vars, calls
<1>10. ASSUME UNCHANGED <<status, gen>>
       PROVE  \A d \in Deliveries :
                /\ Accepted(d)' => Accepted(d)
                /\ gen'[d] = gen[d]
                /\ status[d] = "released" => status'[d] = "released"
  BY <1>10 DEF Accepted
<1>11. ASSUME NEW d \in Deliveries, status[d] = "none", gen' = gen,
              status' = [status EXCEPT ![d] = "rejected"]
       PROVE  \A x \in Deliveries :
                /\ Accepted(x)' => Accepted(x)
                /\ gen'[x] = gen[x]
                /\ status[x] = "released" => status'[x] = "released"
  BY <1>11 DEF Accepted, TypeOK, TypeDeliveries
<1> QED
  BY <1>1, <1>2, <1>3, <1>4, <1>5, <1>6, <1>7, <1>8, <1>9, <1>10, <1>11 DEF Next

LEMMA ExitStep == EInv /\ [Next]_vars => EInv'
<1> SUFFICES ASSUME EInv, [Next]_vars PROVE ExitedKnown' /\ ExitComplete'
  BY LanesStep DEF EInv
<1>0. /\ LInv /\ TypeOK /\ TypeOK' /\ QueuesSound /\ CallsSound /\ OrderSound
      /\ ExitedKnown /\ ExitComplete
  BY LanesStep DEF EInv, LInv, IInv
<1>1. ASSUME ExitQuiet PROVE ExitedKnown' /\ ExitComplete'
  BY <1>0, <1>1, ExitKept
<1>2. ASSUME NEW d \in Deliveries, EnqueueAccept(d) PROVE ExitedKnown' /\ ExitComplete'
  <2>1. /\ exited' = exited /\ accepting' = accepting /\ created' = created
        /\ Current(d[2]) \in accepting
    BY <1>2 DEF EnqueueAccept, Admissible, slotVars, registry
  <2>2. /\ SlotOf(d)' = Current(d[2])
        /\ \A x \in Deliveries : x # d => status'[x] = status[x] /\ SlotOf(x)' = SlotOf(x)
    BY <1>0, <1>2, AcceptNew
  <2>3. ExitedKnown'
    BY <1>0, <2>1 DEF ExitedKnown
  <2>4. ASSUME NEW s \in exited
        PROVE  /\ s \notin accepting
               /\ \A x \in Deliveries : Accepted(x)' /\ SlotOf(x)' = s => status'[x] = "released"
    <3>1. s \notin accepting
      BY <1>0 DEF ExitComplete
    <3>2. ASSUME NEW x \in Deliveries, Accepted(x)', SlotOf(x)' = s PROVE status'[x] = "released"
      <4>1. x # d
        BY <2>1, <2>2, <3>1, <3>2
      <4> QED
        BY <1>0, <2>2, <3>2, <4>1 DEF ExitComplete, Accepted
    <3> QED
      BY <3>1, <3>2
  <2> QED
    BY <2>1, <2>3, <2>4 DEF ExitComplete
<1>3. CASE \A d \in Deliveries : ~EnqueueAccept(d)
  <2>1. \A d \in Deliveries :
          /\ Accepted(d)' => Accepted(d)
          /\ gen'[d] = gen[d]
          /\ status[d] = "released" => status'[d] = "released"
    BY <1>0, <1>3, DeliveryMoves
  <2>2. ASSUME exited' = exited, accepting' \subseteq accepting, created' = created
        PROVE  ExitQuiet
    BY <1>0, <2>1, <2>2 DEF ExitQuiet, TypeOK, TypeRegistry
  <2>3. ASSUME NEW e \in Events, BeginCall(e) \/ CallStep(e) \/ AdvanceLayer(e)
        PROVE  UNCHANGED <<exited, accepting, created>>
    BY <2>3 DEF BeginCall, DispatchLayered, DispatchSelect, DispatchToProcess, CallStep,
                EnqueueTargets, DispatchReturn, EnqueueAccept, EnqueueReject, AdvanceLayer,
                slotVars, registry
  <2>4. ASSUME NEW s \in Slots, WorkerStep(s) PROVE ExitedKnown' /\ ExitComplete'
    <3>1. CASE WorkerExit(s)
      <4>1. /\ exited' = exited \union {s} /\ UNCHANGED <<accepting, created, status, gen>>
            /\ s \in Live /\ Drained(s)
        BY <3>1 DEF WorkerExit, LanesStarted, registry, calls
      <4>2. s[2] <= created[s[1]] /\ s \notin accepting
        BY <4>1 DEF Live, Drained
      <4>3. \A d \in Deliveries : Accepted(d) /\ SlotOf(d) = s => status[d] = "released"
        BY <1>0, <4>1, NothingLeft
      <4> QED
        BY <1>0, <4>1, <4>2, <4>3 DEF ExitedKnown, ExitComplete, Accepted, SlotOf
    <3>2. CASE ~WorkerExit(s)
      <4>1. UNCHANGED <<exited, accepting, created>>
        BY <2>4, <3>2 DEF WorkerStep, StartReadyLane, PollControl, PullControl, PullEvent,
                          HandleCompletion, slotVars, registry
      <4> QED
        BY <1>1, <2>2, <4>1
    <3> QED
      BY <3>1, <3>2
  <2>5. ASSUME NEW d \in Deliveries, DeliveryStep(d) PROVE UNCHANGED <<exited, accepting, created>>
    BY <2>5 DEF DeliveryStep, PassGate, DeliverReturn, BackgroundEnd, slotVars, registry
  <2>6. ASSUME NEW p \in Plugins, RegistryStep(p) PROVE ExitQuiet
    <3>1. CASE Publish(p)
      <4>1. /\ exited' = exited /\ created' = [created EXCEPT ![p] = @ + 1]
            /\ accepting' = accepting \union {<<p, created[p] + 1>>}
        BY <3>1 DEF Publish, NewSlot
      <4>2. \A q \in Plugins : created[q] \in Nat /\ created'[q] >= created[q]
        BY <1>0, <4>1 DEF TypeOK, TypeRegistry
      <4>3. <<p, created[p] + 1>> \notin exited
        BY <1>0, <4>2 DEF ExitedKnown
      <4> QED
        BY <2>1, <4>1, <4>2, <4>3 DEF ExitQuiet
    <3>2. CASE ~Publish(p)
      <4>1. exited' = exited /\ accepting' \subseteq accepting /\ created' = created
        BY <2>6, <3>2 DEF RegistryStep, CloseReplaced, DrainPlugin, DrainWait, Deregister,
                          DeregisterReturn, slotVars, registry
      <4> QED
        BY <2>2, <4>1
    <3> QED
      BY <3>1, <3>2
  <2>7. ASSUME ShutdownStep
        PROVE  exited' = exited /\ accepting' \subseteq accepting /\ created' = created
    BY <2>7 DEF ShutdownStep, DrainAll, Close, CloseReturn, DrainAllWait, CloseSlot,
                slotVars, registry
  <2>8. ASSUME NEW s \in Slots, ForgetRetired(s) \/ RuntimeStops(s)
        PROVE  UNCHANGED <<exited, accepting, created>>
    BY <2>8 DEF ForgetRetired, RuntimeStops, slotVars, registry
  <2>9. ASSUME UNCHANGED vars PROVE UNCHANGED <<exited, accepting, created>>
    BY <2>9 DEF vars, slotVars, registry
  <2> QED
    BY <1>1, <2>2, <2>3, <2>4, <2>5, <2>6, <2>7, <2>8, <2>9 DEF Next
<1> QED
  BY <1>2, <1>3

LEMMA ExitInvariant == Spec => []EInv
<1>1. Init => EInv
  <2> SUFFICES ASSUME Init PROVE ExitedKnown /\ ExitComplete
    BY LanesInit DEF EInv
  <2> QED
    BY DEF Init, ExitedKnown, ExitComplete
<1> QED
  BY <1>1, ExitStep, PTL DEF Spec

\* A worker ends only when it has released every delivery its slot accepted,
\* whatever has closed the queues, and no slot that has ended accepts another.
THEOREM WorkersEndEmpty == Spec => []ExitComplete
<1>1. EInv => ExitComplete
  BY DEF EInv
<1> QED
  BY <1>1, ExitInvariant, PTL

-----------------------------------------------------------------------------
(* The record of a scheduled run.                                          *)

\* Only a message has layers, only a scheduled run is detached, when its
\* delivery settles.
RunsSound ==
  /\ \A d \in Deliveries : layer[d] > 0 => Kind[d[1]] = "message"
  /\ \A d \in background : d[1] \in Scheduled /\ status[d] \in {"settled", "released"}
RInv == TypeOK /\ CallsSound /\ QueuesSound /\ RunsSound /\ RunsRecorded

\* A step that ends no delivery and no detached run.
RunsQuiet ==
  /\ layer' = layer /\ background' = background /\ records' = records
  /\ closing => closing'
  /\ \A d \in Deliveries :
       /\ Finished(d)' <=> Finished(d)
       /\ status[d] \in {"settled", "released"} => status'[d] \in {"settled", "released"}

LEMMA RunsKept ==
  ASSUME TypeOK, RunsSound, RunsRecorded, RunsQuiet
  PROVE  RunsSound' /\ RunsRecorded'
<1>1. RunsSound'
  BY DEF RunsSound, RunsQuiet, TypeOK, TypeDeliveries
<1>2. RunsRecorded'
  BY DEF RunsRecorded, RunsQuiet
<1> QED
  BY <1>1, <1>2

LEMMA NoLayerWhenScheduled ==
  ASSUME RunsSound, NEW d \in Deliveries, d[1] \in Scheduled, layer[d] \in Nat
  PROVE  layer[d] = 0
  BY ConstantsAssumption DEF ConstantsAssumption, RunsSound

\* One delivery ends: with the record of its run, unless it moves to the
\* background or was skipped, as no scheduled run ever is.
LEMMA RunsSettle ==
  ASSUME TypeOK, RunsSound, RunsRecorded, NEW d \in Deliveries,
         status[d] \in {"none", "started", "delivering"},
         layer' = layer, closing' = closing,
         \E st \in {"rejected", "settled"} : status' = [status EXCEPT ![d] = st],
         \/ Record(d) /\ background' = background
         \/ d[1] \notin Scheduled /\ records' = records /\ background' = background
         \/ /\ d[1] \in Scheduled /\ records' = records
            /\ background' = background \union {d} /\ status'[d] = "settled"
  PROVE  RunsSound' /\ RunsRecorded'
<1>1. /\ status'[d] \in {"rejected", "settled"}
      /\ \A x \in Deliveries : x # d => status'[x] = status[x]
      /\ \A x \in Deliveries : records[x] \in Nat
  BY DEF TypeOK, TypeDeliveries
<1>2. d \notin background /\ ~Finished(d) /\ records[d] = 0
  BY DEF RunsSound, RunsRecorded, Finished
<1>3. \A x \in Deliveries : x # d => records'[x] = records[x]
  BY DEF Record, TypeOK, TypeDeliveries
<1>4. /\ d[1] \in Scheduled /\ d \notin background' => records'[d] = 1
      /\ d[1] \notin Scheduled \/ d \in background' => records'[d] = 0
  BY <1>1, <1>2 DEF Record, TypeOK, TypeDeliveries
<1>5. background \subseteq Deliveries
  BY DEF TypeOK, TypeDeliveries
<1>6. RunsSound'
  BY <1>1, <1>2, <1>5 DEF RunsSound
<1>7. ASSUME NEW x \in Deliveries
      PROVE  IF x[1] \in Scheduled /\ Finished(x)' /\ x \notin background'
             THEN records'[x] = 1 \/ (records'[x] = 0 /\ closing')
             ELSE records'[x] = 0
  <2>1. CASE x = d
    BY <1>1, <1>4, <2>1 DEF Finished
  <2>2. CASE x # d
    <3>1. /\ Finished(x)' <=> Finished(x)
          /\ x \in background' <=> x \in background
      BY <1>1, <2>2 DEF Finished
    <3> QED
      BY <1>3, <2>2, <3>1 DEF RunsRecorded
  <2> QED
    BY <2>1, <2>2
<1> QED
  BY <1>6, <1>7 DEF RunsRecorded

LEMMA DeliveryRuns ==
  ASSUME TypeOK, RunsSound, RunsRecorded, NEW d \in Deliveries, DeliveryStep(d)
  PROVE  RunsSound' /\ RunsRecorded'
<1>1. layer' = layer /\ closing' = closing /\ layer[d] \in Nat
  BY DEF DeliveryStep, PassGate, DeliverReturn, BackgroundEnd, calls, registry, TypeOK, TypeCalls
<1>2. CASE PassGate(d)
  <2>1. status[d] = "started" /\ background' = background
    BY <1>2 DEF PassGate
  <2>2. CASE status' = [status EXCEPT ![d] = "delivering"] /\ records' = records
    <3>1. /\ status'[d] = "delivering"
          /\ \A x \in Deliveries : x # d => status'[x] = status[x]
      BY <2>2 DEF TypeOK, TypeDeliveries
    <3>2. RunsQuiet
      BY <1>1, <2>1, <2>2, <3>1 DEF RunsQuiet, Finished
    <3> QED
      BY <3>2, RunsKept
  <2>3. CASE GateSkips(d) /\ Settle(d, "skipped") /\ records' = records
    <3>1. d[1] \notin Scheduled
      BY <1>1, <2>3, NoLayerWhenScheduled DEF GateSkips
    <3> QED
      BY <1>1, <2>1, <2>3, <3>1, RunsSettle DEF Settle
  <2>4. CASE Record(d) /\ \E r \in {"canceled", "failed"} : Settle(d, r)
    BY <1>1, <2>1, <2>4, RunsSettle DEF Settle
  <2> QED
    BY <1>2, <2>2, <2>3, <2>4 DEF PassGate
<1>3. CASE DeliverReturn(d)
  <2>1. status[d] = "delivering"
    BY <1>3 DEF DeliverReturn
  <2>2. CASE Record(d) /\ background' = background /\ \E r : Settle(d, r)
    BY <1>1, <2>1, <2>2, RunsSettle DEF Settle
  <2>3. CASE d[1] \in Scheduled /\ Detach(d)
    <3>1. status'[d] = "settled"
      BY <2>3 DEF Detach, Settle, TypeOK, TypeDeliveries
    <3> QED
      BY <1>1, <2>1, <2>3, <3>1, RunsSettle DEF Detach, Settle
  <2> QED
    BY <1>3, <2>2, <2>3 DEF DeliverReturn
<1>4. CASE BackgroundEnd(d)
  <2>1. /\ d \in background /\ background' = background \ {d} /\ status' = status
        /\ Record(d) \/ (closing /\ records' = records)
    BY <1>4 DEF BackgroundEnd
  <2>2. d[1] \in Scheduled /\ records[d] = 0 /\ Finished(d) /\ records[d] \in Nat
    BY <2>1 DEF RunsSound, RunsRecorded, Finished, TypeOK, TypeDeliveries
  <2>3. /\ \A x \in Deliveries : x # d => records'[x] = records[x]
        /\ records'[d] = 1 \/ (records'[d] = 0 /\ closing)
    BY <2>1, <2>2 DEF Record, TypeOK, TypeDeliveries
  <2>4. RunsSound'
    BY <1>1, <2>1 DEF RunsSound
  <2>5. RunsRecorded'
    BY <1>1, <2>1, <2>2, <2>3 DEF RunsRecorded, Finished
  <2> QED
    BY <2>4, <2>5
<1> QED
  BY <1>2, <1>3, <1>4 DEF DeliveryStep

LEMMA RunsStep == RInv /\ [Next]_vars => RunsSound' /\ RunsRecorded'
<1> SUFFICES ASSUME RInv, [Next]_vars PROVE RunsSound' /\ RunsRecorded'
  OBVIOUS
<1>0. TypeOK /\ CallsSound /\ QueuesSound /\ RunsSound /\ RunsRecorded
  BY DEF RInv
<1>1. ASSUME RunsQuiet PROVE RunsSound' /\ RunsRecorded'
  BY <1>0, <1>1, RunsKept
<1>2. ASSUME UNCHANGED <<layer, background, records, status>>, closing => closing'
      PROVE  RunsSound' /\ RunsRecorded'
  BY <1>1, <1>2 DEF RunsQuiet, Finished
<1>3. ASSUME NEW e \in Events, BeginCall(e) PROVE RunsSound' /\ RunsRecorded'
  <2>1. UNCHANGED <<background, records, status, closing>>
    BY <1>3 DEF BeginCall, DispatchLayered, DispatchSelect, DispatchToProcess, ends, registry
  <2>2. \A d \in Deliveries : layer'[d] = layer[d] \/ Kind[d[1]] = "message"
    BY <1>0, <1>3 DEF BeginCall, DispatchLayered, DispatchSelect, DispatchToProcess, TypeOK, TypeCalls
  <2>3. RunsSound'
    BY <1>0, <2>1, <2>2 DEF RunsSound
  <2>4. RunsRecorded'
    BY <1>0, <2>1 DEF RunsRecorded, Finished
  <2> QED
    BY <2>3, <2>4
<1>4. ASSUME NEW e \in Events, CallStep(e) PROVE RunsSound' /\ RunsRecorded'
  <2>1. CASE EnqueueTargets(e) \/ DispatchReturn(e)
    BY <1>2, <2>1 DEF EnqueueTargets, DispatchReturn, ends, registry
  <2>2. ASSUME NEW d \in Deliveries, EnqueueAccept(d) PROVE RunsQuiet
    <3>1. UNCHANGED <<layer, background, records, closing>>
      BY <2>2 DEF EnqueueAccept, ends, registry
    <3>2. /\ status[d] = "none" /\ status' = [status EXCEPT ![d] = "queued"]
      BY <1>0, <2>2 DEF EnqueueAccept, NextTarget, CallsSound
    <3>3. /\ status'[d] = "queued" /\ \A x \in Deliveries : x # d => status'[x] = status[x]
      BY <1>0, <3>2 DEF TypeOK, TypeDeliveries
    <3> QED
      BY <3>1, <3>2, <3>3 DEF RunsQuiet, Finished
  <2>3. ASSUME NEW d \in Deliveries, EnqueueReject(d) PROVE RunsSound' /\ RunsRecorded'
    <3>1. /\ layer' = layer /\ background' = background /\ closing' = closing
          /\ status[d] = "none" /\ status' = [status EXCEPT ![d] = "rejected"] /\ Record(d)
      BY <1>0, <2>3 DEF EnqueueReject, NextTarget, CallsSound, Refuse, Record, registry
    <3> QED
      BY <1>0, <3>1, RunsSettle
  <2> QED
    BY <1>1, <1>4, <2>1, <2>2, <2>3, DeliveryType DEF CallStep
<1>5. ASSUME NEW e \in Events, AdvanceLayer(e) PROVE RunsSound' /\ RunsRecorded'
  BY <1>2, <1>5 DEF AdvanceLayer, ends, registry
<1>6. ASSUME NEW s \in Slots, WorkerStep(s) PROVE RunsQuiet
  <2>1. closing' = closing
    BY <1>6 DEF WorkerStep, StartReadyLane, PollControl, PullControl, PullEvent, WorkerExit,
                HandleCompletion, registry
  <2> QED
    BY <1>0, <1>6, <2>1, WorkerMoves DEF RunsQuiet, Finished, Waiting
<1>7. ASSUME NEW d \in Deliveries, DeliveryStep(d) PROVE RunsSound' /\ RunsRecorded'
  BY <1>0, <1>7, DeliveryRuns
<1>8. ASSUME NEW p \in Plugins, RegistryStep(p) PROVE RunsSound' /\ RunsRecorded'
  BY <1>2, <1>8 DEF RegistryStep, Publish, CloseReplaced, DrainPlugin, DrainWait, Deregister,
                    DeregisterReturn, calls, ends, registry
<1>9. ASSUME ShutdownStep PROVE RunsSound' /\ RunsRecorded'
  BY <1>2, <1>9 DEF ShutdownStep, DrainAll, Close, CloseReturn, DrainAllWait, CloseSlot,
                    calls, ends, registry
<1>10. ASSUME NEW s \in Slots, ForgetRetired(s) \/ RuntimeStops(s)
       PROVE  RunsSound' /\ RunsRecorded'
  BY <1>2, <1>10 DEF ForgetRetired, RuntimeStops, calls, ends, registry
<1>11. ASSUME UNCHANGED vars PROVE RunsSound' /\ RunsRecorded'
  BY <1>2, <1>11 DEF vars, calls, ends, registry
<1> QED
  BY <1>1, <1>3, <1>4, <1>5, <1>6, <1>7, <1>8, <1>9, <1>10, <1>11 DEF Next

-----------------------------------------------------------------------------
(* The slots that Close finds.                                             *)

\* The slot of a Deregister that has taken it out of the registry.
Unfound(s) == op[s[1]] \in {"deregister", "awaiting exit"} /\ opGen[s[1]] = s[2]

\* Where a slot is found whose worker has not ended.
Found(s) ==
  \/ current[s[1]] = s[2] \/ s \in retired \/ Unfound(s)
  \/ shutdown \in {"closing", "closed"} /\ s \in closeSet

SlotsFound ==
  /\ shutdown \in {"closing", "closed"} =>
       closed /\ closing /\ retired = {} /\ \A p \in Plugins : current[p] = 0
  /\ \A s \in Slots : s \in Live => Found(s)
  /\ shutdown = "closed" =>
       closeSet \subseteq exited /\ \A d \in background : SlotOf(d) \notin closeSet
SInv == EInv /\ RunsSound /\ RunsRecorded /\ SlotsFound

\* A step of no registry operation and no shutdown.
SlotsQuiet ==
  /\ UNCHANGED <<created, current, retired, closed, closing, op, opGen, shutdown, closeSet>>
  /\ exited \subseteq exited'

LEMMA SlotsKept ==
  ASSUME SlotsFound, SlotsQuiet,
         shutdown = "closed" => \A d \in background' : SlotOf(d)' \notin closeSet
  PROVE  SlotsFound'
<1>1. \A s \in Slots : s \in Live' => Found(s)'
  BY DEF SlotsFound, SlotsQuiet, Live, Found, Unfound
<1> QED
  BY <1>1 DEF SlotsFound, SlotsQuiet

\* After Close a delivery of a slot it found has been released, so that none of
\* them can still move to the background.
LEMMA ClosedQuiet ==
  ASSUME TypeOK, ExitComplete, RunsSound, SlotsFound, NEW d \in Deliveries,
         DeliveryStep(d), shutdown = "closed"
  PROVE  \A x \in background' : SlotOf(x)' \notin closeSet
<1>1. gen' = gen /\ (background' \subseteq background \/ background' = background \union {d})
  BY DEF DeliveryStep, PassGate, DeliverReturn, BackgroundEnd, Detach, calls
<1>2. background' # background /\ d \in background' => status[d] = "delivering"
  BY DEF DeliveryStep, PassGate, DeliverReturn, BackgroundEnd
<1>3. status[d] = "delivering" => SlotOf(d) \notin closeSet
  BY DEF SlotsFound, ExitComplete, Accepted
<1> QED
  BY <1>1, <1>2, <1>3 DEF SlotsFound, SlotOf

\* An admission goes to a slot that has not ended, so not to one Close found.
LEMMA AcceptFound ==
  ASSUME TypeOK, CallsSound, OrderSound, ExitComplete, RunsSound, SlotsFound,
         NEW d \in Deliveries, EnqueueAccept(d)
  PROVE  SlotsFound'
<1>1. /\ SlotsQuiet /\ background' = background
  BY DEF EnqueueAccept, SlotsQuiet, registry, slotVars, ends, opVars
<1>2. /\ status[d] = "none"
      /\ \A x \in Deliveries : x # d => SlotOf(x)' = SlotOf(x)
  BY AcceptNew
<1>3. background \subseteq Deliveries /\ d \notin background
  BY <1>2 DEF RunsSound, TypeOK, TypeDeliveries
<1>4. \A x \in background : SlotOf(x)' = SlotOf(x)
  BY <1>2, <1>3
<1> QED
  BY <1>1, <1>4, SlotsKept DEF SlotsFound

LEMMA RegistryFound ==
  ASSUME TypeOK, ExitedKnown, SlotsFound, NEW p \in Plugins, RegistryStep(p)
  PROVE  SlotsFound'
<1>1. UNCHANGED <<exited, background, gen, shutdown, closeSet, closed, closing>>
  BY DEF RegistryStep, Publish, CloseReplaced, DrainPlugin, DrainWait, Deregister,
         DeregisterReturn, slotVars, registry, ends, calls
<1>2. /\ \A q \in Plugins : q # p => op'[q] = op[q] /\ opGen'[q] = opGen[q]
      /\ \A s \in Slots : s[1] \in Plugins /\ s = <<s[1], s[2]>> /\ s[2] \in 1..MaxGen
  <2>1. UNCHANGED <<op, opGen>> \/ \E phase, g : SetOp(p, phase, g)
    <3>1. Publish(p) => UNCHANGED <<op, opGen>> \/ \E phase, g : SetOp(p, phase, g)
      BY DEF Publish
    <3>2. CloseReplaced(p) => \E phase, g : SetOp(p, phase, g)
      BY DEF CloseReplaced
    <3>3. DrainPlugin(p) \/ DrainWait(p) \/ Deregister(p) \/ DeregisterReturn(p)
            => \E phase, g : SetOp(p, phase, g)
      BY DEF DrainPlugin, DrainWait, Deregister, DeregisterReturn
    <3> QED
      BY <3>1, <3>2, <3>3 DEF RegistryStep
  <2>2. \A q \in Plugins : q # p => op'[q] = op[q] /\ opGen'[q] = opGen[q]
    BY <2>1 DEF SetOp, TypeOK, TypeOps
  <2> QED
    BY <2>2 DEF Slots
<1>3. ASSUME NEW s \in Slots, Found(s), UNCHANGED <<current, retired>>,
             s[1] = p => ~Unfound(s) \/ Unfound(s)'
      PROVE  Found(s)'
  BY <1>1, <1>2, <1>3 DEF Found, Unfound
<1>4. ASSUME UNCHANGED <<created, current, retired>>,
             \A s \in Slots : s \in Live /\ s[1] = p => ~Unfound(s) \/ Unfound(s)'
      PROVE  SlotsFound'
  <2>1. \A s \in Slots : s \in Live' => s \in Live
    BY <1>1, <1>4 DEF Live
  <2>2. \A s \in Slots : s \in Live' => Found(s)'
    BY <1>3, <1>4, <2>1 DEF SlotsFound
  <2> QED
    BY <1>1, <1>4, <2>2 DEF SlotsFound, SlotOf
<1>5. CASE Publish(p)
  <2>1. /\ created' = [created EXCEPT ![p] = @ + 1]
        /\ current' = [current EXCEPT ![p] = created[p] + 1]
        /\ retired' = IF current[p] > 0 THEN retired \union {Current(p)} ELSE retired
        /\ op[p] = "idle" /\ ~closed
    BY <1>5 DEF Publish, NewSlot
  <2>2. shutdown \notin {"closing", "closed"}
    BY <2>1 DEF SlotsFound
  <2>3. ASSUME NEW s \in Slots, s \in Live' PROVE Found(s)'
    <3>1. CASE s[1] # p
      <4>1. s \in Live
        BY <1>1, <1>2, <2>1, <2>3, <3>1 DEF Live, TypeOK, TypeRegistry
      <4>2. Found(s)
        BY <4>1 DEF SlotsFound
      <4> QED
        BY <1>1, <1>2, <2>1, <3>1, <4>2 DEF Found, Unfound, TypeOK, TypeRegistry
    <3>2. CASE s[1] = p /\ s[2] = created[p] + 1
      BY <2>1, <3>2 DEF Found, TypeOK, TypeRegistry
    <3>3. CASE s[1] = p /\ s[2] # created[p] + 1
      <4>1. s \in Live
        BY <1>1, <1>2, <2>1, <2>3, <3>3 DEF Live, TypeOK, TypeRegistry
      <4>2. current[p] = s[2] \/ s \in retired
        BY <2>1, <2>2, <3>3, <4>1 DEF SlotsFound, Found, Unfound
      <4>3. s \in retired'
        BY <1>2, <2>1, <3>3, <4>2 DEF Current
      <4> QED
        BY <4>3 DEF Found
    <3> QED
      BY <3>1, <3>2, <3>3
  <2> QED
    BY <1>1, <2>2, <2>3 DEF SlotsFound
<1>6. CASE CloseReplaced(p)
  <2>1. UNCHANGED <<created, current, retired>>
    BY <1>6 DEF CloseReplaced, registry
  <2>2. op[p] = "deregister" => op'[p] = "awaiting exit" /\ opGen'[p] = opGen[p]
    BY <1>6 DEF CloseReplaced, SetOp, TypeOK, TypeOps
  <2>3. op[p] # "awaiting exit"
    BY <1>6 DEF CloseReplaced
  <2> QED
    BY <1>4, <2>1, <2>2, <2>3 DEF Unfound
<1>7. CASE DrainPlugin(p) \/ DrainWait(p)
  <2>1. UNCHANGED <<created, current, retired>> /\ op[p] \notin {"deregister", "awaiting exit"}
    BY <1>7 DEF DrainPlugin, DrainWait, registry
  <2> QED
    BY <1>4, <2>1 DEF Unfound
<1>8. CASE Deregister(p)
  <2>1. UNCHANGED <<created, retired>> /\ op[p] \in {"drained", "idle"}
    BY <1>8 DEF Deregister
  <2>2. CASE current[p] = 0
    <3>1. current' = current
      BY <1>8, <2>2 DEF Deregister
    <3> QED
      BY <1>4, <2>1, <3>1 DEF Unfound
  <2>3. CASE current[p] # 0
    <3>1. /\ current' = [current EXCEPT ![p] = 0]
          /\ op'[p] = "deregister" /\ opGen'[p] = current[p]
      BY <1>8, <2>3 DEF Deregister, SetOp, TypeOK, TypeOps
    <3>2. shutdown \notin {"closing", "closed"}
      BY <2>3 DEF SlotsFound
    <3>3. ASSUME NEW s \in Slots, s \in Live' PROVE Found(s)'
      <4>1. Found(s)
        BY <1>1, <2>1, <3>3 DEF Live, SlotsFound
      <4>2. CASE s[1] # p
        BY <1>1, <1>2, <2>1, <3>1, <4>1, <4>2 DEF Found, Unfound, TypeOK, TypeRegistry
      <4>3. CASE s[1] = p
        BY <2>1, <3>1, <3>2, <4>1, <4>3 DEF Found, Unfound
      <4> QED
        BY <4>2, <4>3
    <3> QED
      BY <1>1, <3>2, <3>3 DEF SlotsFound
  <2> QED
    BY <2>2, <2>3
<1>9. CASE DeregisterReturn(p)
  <2>1. UNCHANGED <<created, current, retired>> /\ <<p, opGen[p]>> \in exited
    BY <1>9 DEF DeregisterReturn, registry
  <2>2. ASSUME NEW s \in Slots, s \in Live, s[1] = p PROVE ~Unfound(s)
    BY <1>2, <2>1, <2>2 DEF Live, Unfound
  <2> QED
    BY <1>4, <2>1, <2>2
<1> QED
  BY <1>5, <1>6, <1>7, <1>8, <1>9 DEF RegistryStep

LEMMA ShutdownFound ==
  ASSUME TypeOK, SlotsFound, ShutdownStep
  PROVE  SlotsFound'
<1>1. UNCHANGED <<created, exited, op, opGen, background, gen>>
  BY DEF ShutdownStep, DrainAll, Close, CloseReturn, DrainAllWait, CloseSlot, slotVars,
         registry, ends, calls, opVars
<1>2. \A s \in Slots : s \in Live' => Found(s)
  BY <1>1 DEF Live, SlotsFound
<1>3. CASE DrainAll \/ \E s \in Slots : DrainAllWait(s)
  <2>1. UNCHANGED <<current, retired>> /\ shutdown \in {"running", "draining"}
        /\ shutdown' = "draining"
    BY <1>3 DEF DrainAll, DrainAllWait, registry
  <2> QED
    BY <1>1, <1>2, <2>1 DEF SlotsFound, Found, Unfound
<1>4. CASE Close
  <2>1. /\ shutdown \in {"running", "draining"} /\ shutdown' = "closing"
        /\ closed' /\ closing' /\ retired' = {}
        /\ current' = [p \in Plugins |-> 0] /\ closeSet' = SlotsToClose
    BY <1>4 DEF Close
  <2>2. ASSUME NEW s \in Slots, Found(s) PROVE Found(s)'
    <3>1. s[1] \in Plugins /\ s = <<s[1], s[2]>> /\ s[2] \in 1..MaxGen /\ MaxGen \in Nat
      BY ConstantTypes DEF Slots
    <3>2. current[s[1]] = s[2] => s \in RegisteredSlots
      BY <3>1 DEF RegisteredSlots, Current
    <3>3. current[s[1]] = s[2] \/ s \in retired => s \in closeSet'
      BY <2>1, <3>2 DEF SlotsToClose
    <3> QED
      BY <1>1, <2>1, <2>2, <3>3 DEF Found, Unfound
  <2> QED
    BY <1>2, <2>1, <2>2 DEF SlotsFound
<1>5. CASE CloseReturn
  <2>1. /\ UNCHANGED <<current, retired, closed, closing, closeSet>> /\ shutdown = "closing"
        /\ shutdown' = "closed" /\ closeSet \subseteq exited /\ background = {}
    BY <1>5 DEF CloseReturn, registry
  <2> QED
    BY <1>1, <1>2, <2>1 DEF SlotsFound, Found, Unfound
<1>6. ASSUME NEW s \in Slots, CloseSlot(s) PROVE SlotsFound'
  <2>1. SlotsQuiet /\ shutdown = "closing"
    BY <1>6 DEF CloseSlot, SlotsQuiet, registry, opVars
  <2> QED
    BY <2>1, SlotsKept
<1> QED
  BY <1>3, <1>4, <1>5, <1>6 DEF ShutdownStep

LEMMA FoundStep == SInv /\ [Next]_vars => SInv'
<1> SUFFICES ASSUME SInv, [Next]_vars PROVE SlotsFound'
  BY ExitStep, RunsStep DEF SInv, EInv, LInv, IInv, RInv
<1>0. /\ TypeOK /\ CallsSound /\ QueuesSound /\ OrderSound /\ ExitedKnown /\ ExitComplete
      /\ RunsSound /\ SlotsFound
  BY DEF SInv, EInv, LInv, IInv
<1>1. ASSUME SlotsQuiet, UNCHANGED <<background, gen>> PROVE SlotsFound'
  BY <1>0, <1>1, SlotsKept DEF SlotsFound, SlotOf
<1>2. ASSUME NEW e \in Events, BeginCall(e) \/ AdvanceLayer(e) PROVE SlotsFound'
  BY <1>1, <1>2 DEF BeginCall, DispatchLayered, DispatchSelect, DispatchToProcess, AdvanceLayer,
                    SlotsQuiet, registry, slotVars, ends, opVars
<1>3. ASSUME NEW e \in Events, CallStep(e) PROVE SlotsFound'
  <2>1. CASE EnqueueTargets(e) \/ DispatchReturn(e)
    BY <1>1, <2>1 DEF EnqueueTargets, DispatchReturn, SlotsQuiet, registry, slotVars, ends, opVars
  <2>2. ASSUME NEW d \in Deliveries, EnqueueAccept(d) PROVE SlotsFound'
    BY <1>0, <2>2, AcceptFound
  <2>3. ASSUME NEW d \in Deliveries, EnqueueReject(d) PROVE SlotsFound'
    BY <1>1, <2>3 DEF EnqueueReject, SlotsQuiet, registry, slotVars, opVars
  <2> QED
    BY <1>3, <2>1, <2>2, <2>3, DeliveryType DEF CallStep
<1>4. ASSUME NEW s \in Slots, WorkerStep(s) PROVE SlotsFound'
  BY <1>1, <1>4 DEF WorkerStep, StartReadyLane, PollControl, PullControl, PullEvent, WorkerExit,
                    HandleCompletion, SlotsQuiet, registry, slotVars, calls, ends, opVars
<1>5. ASSUME NEW d \in Deliveries, DeliveryStep(d) PROVE SlotsFound'
  <2>1. SlotsQuiet
    BY <1>5 DEF DeliveryStep, PassGate, DeliverReturn, BackgroundEnd, SlotsQuiet, registry,
                slotVars, opVars
  <2> QED
    BY <1>0, <1>5, <2>1, ClosedQuiet, SlotsKept
<1>6. ASSUME NEW p \in Plugins, RegistryStep(p) PROVE SlotsFound'
  BY <1>0, <1>6, RegistryFound
<1>7. ASSUME ShutdownStep PROVE SlotsFound'
  BY <1>0, <1>7, ShutdownFound
<1>8. ASSUME NEW s \in Slots, ForgetRetired(s) PROVE SlotsFound'
  <2>1. /\ s \in exited /\ retired' = retired \ {s}
        /\ UNCHANGED <<created, current, closed, closing, exited, background, gen,
                       op, opGen, shutdown, closeSet>>
    BY <1>8 DEF ForgetRetired, slotVars, ends, calls, opVars
  <2>2. \A t \in Slots : t \in Live' => Found(t)'
    BY <1>0, <2>1 DEF SlotsFound, Live, Found, Unfound
  <2> QED
    BY <1>0, <2>1, <2>2 DEF SlotsFound, SlotOf
<1>9. ASSUME NEW s \in Slots, RuntimeStops(s) PROVE SlotsFound'
  BY <1>1, <1>9 DEF RuntimeStops, SlotsQuiet, registry, ends, calls, opVars
<1>10. ASSUME UNCHANGED vars PROVE SlotsFound'
  BY <1>1, <1>10 DEF vars, SlotsQuiet, registry, slotVars, ends, calls, opVars
<1> QED
  BY <1>2, <1>3, <1>4, <1>5, <1>6, <1>7, <1>8, <1>9, <1>10 DEF Next

LEMMA FoundInit == Init => SInv
<1> SUFFICES ASSUME Init PROVE EInv /\ RunsSound /\ RunsRecorded /\ SlotsFound
  BY DEF SInv
<1>1. EInv
  <2>1. ExitedKnown /\ ExitComplete
    BY DEF Init, ExitedKnown, ExitComplete
  <2> QED
    BY <2>1, LanesInit DEF EInv
<1>2. RunsSound /\ RunsRecorded
  BY DEF Init, RunsSound, RunsRecorded, Finished
<1>3. ASSUME NEW s \in Slots, s \in Live PROVE Found(s)
  <2>1. s[1] \in Plugins /\ s[2] \in 1..MaxGen /\ MaxGen \in Nat
    BY ConstantTypes DEF Slots
  <2>2. current[s[1]] = s[2]
    BY <1>3, <2>1 DEF Init, Live
  <2> QED
    BY <2>2 DEF Found
<1>4. SlotsFound
  BY <1>3 DEF Init, SlotsFound
<1> QED
  BY <1>1, <1>2, <1>4

\* When Close has returned, every worker it found has ended with its deliveries
\* and their detached runs, and every scheduled run has been recorded once, or
\* not at all if Close cut it off: whatever was replaced, deregistered or
\* detached before.
THEOREM ClosedCompletely == Spec => []ShutdownComplete
<1>1. SInv => ShutdownComplete
  <2> SUFFICES ASSUME SInv, shutdown = "closed" PROVE CloseComplete
    BY DEF SInv, ShutdownComplete, CloseComplete
  <2>1. closeSet \subseteq exited /\ closeSet \subseteq Slots
    BY DEF SInv, SlotsFound, EInv, LInv, IInv, TypeOK, TypeOps
  <2>2. ASSUME NEW s \in Live
        PROVE  op[s[1]] \in {"deregister", "awaiting exit"} /\ opGen[s[1]] = s[2]
    <3>1. s \in Slots /\ s \notin exited
      BY DEF Live
    <3>2. s[1] \in Plugins /\ s[2] # 0
      BY <3>1, ConstantTypes DEF Slots
    <3>3. Found(s) /\ retired = {} /\ current[s[1]] = 0
      BY <3>1, <3>2 DEF SInv, SlotsFound
    <3> QED
      BY <2>1, <3>1, <3>2, <3>3 DEF Found, Unfound
  <2>3. ASSUME NEW d \in Deliveries, Accepted(d), SlotOf(d) \in closeSet
        PROVE  status[d] = "released" /\ d \notin background
    BY <2>1, <2>3 DEF SInv, EInv, ExitComplete, SlotsFound
  <2> QED
    BY <2>1, <2>2, <2>3 DEF CloseComplete
<1> QED
  BY <1>1, FoundInit, FoundStep, PTL DEF Spec

-----------------------------------------------------------------------------
(* The layers and the policies.                                            *)

Message(d) == Kind[d[1]] = "message"
PinnedSlot(d) == <<d[2], pin[d]>>

\* The deliveries of a message have a layer from its selection on, made from
\* the slots that admission then insists on.
Pinned ==
  \A d \in Deliveries :
    /\ layer[d] > 0 => Message(d) /\ pin[d] > 0
    /\ Message(d) /\ (d[2] \in todo[d[1]] \/ Accepted(d)) => layer[d] > 0
    /\ layer[d] > 0 /\ Accepted(d) => gen[d] = pin[d]

\* What puts slot s into a layer before that of slot t.
Precedes(e, s, t) ==
  \/ Priority[s] > Priority[t]
  \/ Priority[s] > 0 /\ ~IsCommandOf(e, s) /\ IsCommandOf(e, t)
Policies ==
  \A e \in Events : \A p, q \in Plugins :
    layer[<<e, p>>] > 0 /\ layer[<<e, p>>] < layer[<<e, q>>] =>
      Precedes(e, PinnedSlot(<<e, p>>), PinnedSlot(<<e, q>>))

\* More classes are ahead of a candidate in a later layer.
LEMMA LaterIsBehind ==
  ASSUME TypeOK, NEW e \in Events, NEW p \in MessageCandidates(e),
         NEW q \in MessageCandidates(e), LayerOf(e, p) < LayerOf(e, q)
  PROVE  Ahead(LayerClass(e, p), LayerClass(e, q))
<1> DEFINE M == MessageCandidates(e)
           f == [r \in M |-> LayerClass(e, r)]
           classes == {LayerClass(e, r) : r \in M}
           before(r) == {c \in classes : Ahead(c, LayerClass(e, r))}
<1>1. M \subseteq Plugins /\ IsFiniteSet(M)
  BY CandidatesType, ConstantsAssumption, FS_Subset DEF ConstantsAssumption
<1>2. f \in Surjection(M, classes)
  BY DEF Surjection
<1>3. \A r \in M : IsFiniteSet(before(r)) /\ Cardinality(before(r)) \in Nat
  <2> HIDE DEF M, f
  <2>1. IsFiniteSet(classes)
    BY <1>1, <1>2, FS_Surjection
  <2> QED
    BY <2>1, FS_Subset, FS_CardinalityType
<1>4. \A r \in M : Current(r) \in Slots /\ Priority[Current(r)] \in Nat
  <2> SUFFICES ASSUME NEW r \in M PROVE Current(r) \in Slots
    BY ConstantsAssumption DEF ConstantsAssumption
  <2>1. r \in Plugins /\ current[r] \in 0..MaxGen
    BY <1>1 DEF TypeOK, TypeRegistry
  <2>2. current[r] > 0
    BY DEF MessageCandidates, SelectTargets, BeforeCommand, CommandTargetsOf, Subscribers,
           Deliverable
  <2> QED
    BY <2>1, <2>2, SlotType DEF Current
<1>5. \A r \in M : LayerClass(e, r)[1] \in BOOLEAN /\ LayerClass(e, r)[2] \in Nat
  BY <1>4 DEF LayerClass
<1>6. SUFFICES ASSUME ~Ahead(LayerClass(e, p), LayerClass(e, q)) PROVE FALSE
  OBVIOUS
<1>7. ASSUME NEW c \in classes, Ahead(c, LayerClass(e, q))
      PROVE  Ahead(c, LayerClass(e, p))
  <2>1. PICK r \in M : c = LayerClass(e, r)
    OBVIOUS
  <2> DEFINE cr == LayerClass(e, r)   cp == LayerClass(e, p)   cq == LayerClass(e, q)
  <2>2. /\ cr[1] \in BOOLEAN /\ cp[1] \in BOOLEAN /\ cq[1] \in BOOLEAN
        /\ cr[2] \in Nat /\ cp[2] \in Nat /\ cq[2] \in Nat
    BY <1>5
  <2>3. Ahead(cr, cq) /\ ~Ahead(cp, cq)
    BY <1>6, <1>7, <2>1
  <2> HIDE DEF cr, cp, cq
  <2>4. Ahead(cr, cp)
    <3>1. CASE cr[1] = cq[1] /\ cp[1] = cq[1]
      BY <2>2, <2>3, <3>1 DEF Ahead
    <3>2. CASE ~(cr[1] = cq[1] /\ cp[1] = cq[1])
      BY <2>2, <2>3, <3>2 DEF Ahead
    <3> QED
      BY <3>1, <3>2
  <2> QED
    BY <2>1, <2>4 DEF cr, cp
<1>8. before(q) \subseteq before(p)
  BY <1>7
<1>9. Cardinality(before(q)) <= Cardinality(before(p))
  <2> HIDE DEF before
  <2> QED
    BY <1>3, <1>8, FS_Subset
<1>10. LayerOf(e, p) = 1 + Cardinality(before(p)) /\ LayerOf(e, q) = 1 + Cardinality(before(q))
  BY DEF LayerOf
<1> HIDE DEF before, M
<1> QED
  BY <1>3, <1>9, <1>10 DEF M

\* The classes are those of the policy.
LEMMA AheadPrecedes ==
  ASSUME NEW e \in Events, NEW p \in MessageCandidates(e), NEW q \in MessageCandidates(e),
         Ahead(LayerClass(e, p), LayerClass(e, q))
  PROVE  Precedes(e, Current(p), Current(q))
<1>1. CASE (p \in BeforeCommand(e)) = (q \in BeforeCommand(e))
  BY <1>1 DEF Ahead, LayerClass, Precedes
<1>2. CASE (p \in BeforeCommand(e)) # (q \in BeforeCommand(e))
  <2>1. p \in BeforeCommand(e) /\ q \notin BeforeCommand(e)
    BY <1>2 DEF Ahead, LayerClass
  <2>2. /\ CommandTargetsOf(e) # {} /\ p \in Subscribers(e) /\ p \notin CommandTargetsOf(e)
        /\ Priority[Current(p)] > 0
    BY <2>1 DEF BeforeCommand
  <2>3. q \in CommandTargetsOf(e)
    BY <2>1, <2>2 DEF MessageCandidates, SelectTargets
  <2>4. p \in Plugins /\ Deliverable(p)
    BY <2>2 DEF Subscribers
  <2>5. ~IsCommandOf(e, Current(p))
    BY <2>2, <2>4 DEF CommandTargetsOf, IsCommandOf, Current
  <2>6. IsCommandOf(e, Current(q))
    BY <2>3 DEF CommandTargetsOf, IsCommandOf, Current
  <2> QED
    BY <2>2, <2>5, <2>6 DEF Precedes
<1> QED
  BY <1>1, <1>2

\* A step that selects nothing and admits nothing.
PolicyQuiet ==
  /\ pin' = pin /\ layer' = layer
  /\ \A d \in Deliveries :
       /\ d[2] \in todo'[d[1]] /\ Message(d) => d[2] \in todo[d[1]]
       /\ Accepted(d)' => Accepted(d) /\ gen'[d] = gen[d]

LEMMA PolicyKept ==
  ASSUME TypeOK, Pinned, Policies, PolicyQuiet
  PROVE  Pinned' /\ Policies'
<1>1. Pinned'
  BY DEF Pinned, PolicyQuiet, Message
<1>2. Policies'
  BY DEF Policies, PolicyQuiet, PinnedSlot
<1> QED
  BY <1>1, <1>2

LEMMA SelectLayers ==
  ASSUME TypeOK, CallsSound, Pinned, Policies, NEW e \in Events, DispatchLayered(e)
  PROVE  Pinned' /\ Policies'
<1> DEFINE M == MessageCandidates(e)
<1>0. Kind[e] = "message" /\ call[e] = "idle" /\ UNCHANGED <<status, gen>>
  BY DEF DispatchLayered
<1>1. CASE UNCHANGED <<todo, pin, layer>>
  <2>1. PolicyQuiet
    BY <1>0, <1>1 DEF PolicyQuiet, Accepted
  <2> QED
    BY <2>1, PolicyKept
<1>2. CASE /\ todo' = [todo EXCEPT ![e] = M]
           /\ pin' = [d \in Deliveries |->
                        IF d[1] = e /\ d[2] \in M THEN current[d[2]] ELSE pin[d]]
           /\ layer' = [d \in Deliveries |->
                        IF d[1] = e /\ d[2] \in M THEN LayerOf(e, d[2]) ELSE layer[d]]
  <2>1. \A d \in Deliveries : d[1] = e => status[d] = "none" /\ layer[d] = 0
    BY <1>0 DEF CallsSound
  <2>2. \A p \in M : current[p] > 0 /\ p \in Plugins
    BY CandidatesType DEF MessageCandidates, SelectTargets, BeforeCommand, CommandTargetsOf, Subscribers,
           Deliverable
  <2>3. ASSUME NEW d \in Deliveries, d[1] # e
        PROVE  pin'[d] = pin[d] /\ layer'[d] = layer[d] /\ todo'[d[1]] = todo[d[1]]
    BY <1>2, <2>3, DeliveryType DEF TypeOK, TypeCalls
  <2>4. ASSUME NEW d \in Deliveries, d[1] = e
        PROVE  /\ d[2] \in M => pin'[d] = current[d[2]] /\ layer'[d] = LayerOf(e, d[2])
               /\ d[2] \notin M => layer'[d] = 0
               /\ d[2] \in todo'[d[1]] => d[2] \in M
    BY <1>2, <2>1, <2>4, DeliveryType DEF TypeOK, TypeCalls
  <2>5. Pinned'
    <3> SUFFICES ASSUME NEW d \in Deliveries
                 PROVE  /\ layer'[d] > 0 => Message(d) /\ pin'[d] > 0
                        /\ Message(d) /\ (d[2] \in todo'[d[1]] \/ Accepted(d)') => layer'[d] > 0
                        /\ layer'[d] > 0 /\ Accepted(d)' => gen'[d] = pin'[d]
      BY DEF Pinned, Message
    <3>1. CASE d[1] = e
      <4>1. ~Accepted(d)'
        BY <1>0, <2>1, <3>1 DEF Accepted
      <4>2. d[2] \in M => LayerOf(e, d[2]) \in Nat /\ LayerOf(e, d[2]) >= 1
        BY LayerOfType
      <4>3. CASE d[2] \in M
        BY <1>0, <2>2, <2>4, <3>1, <4>1, <4>2, <4>3 DEF Message
      <4>4. CASE d[2] \notin M
        BY <2>4, <3>1, <4>1, <4>4
      <4> QED
        BY <4>3, <4>4
    <3>2. CASE d[1] # e
      BY <1>0, <2>3, <3>2 DEF Pinned, Accepted
    <3> QED
      BY <3>1, <3>2
  <2>6. Policies'
    <3> SUFFICES ASSUME NEW x \in Events, NEW p \in Plugins, NEW q \in Plugins,
                        layer'[<<x, p>>] > 0, layer'[<<x, p>>] < layer'[<<x, q>>]
                 PROVE  Precedes(x, <<p, pin'[<<x, p>>]>>, <<q, pin'[<<x, q>>]>>)
      BY DEF Policies, PinnedSlot, Precedes, IsCommandOf
    <3>1. <<x, p>> \in Deliveries /\ <<x, q>> \in Deliveries
      BY DeliveryType
    <3>2. CASE x = e
      <4>0. /\ p \in M => pin'[<<x, p>>] = current[p] /\ layer'[<<x, p>>] = LayerOf(e, p)
            /\ q \in M => pin'[<<x, q>>] = current[q] /\ layer'[<<x, q>>] = LayerOf(e, q)
            /\ p \notin M => layer'[<<x, p>>] = 0
            /\ q \notin M => layer'[<<x, q>>] = 0
        BY <2>4, <3>1, <3>2
      <4>1. p \in M
        BY <4>0
      <4>2. q \in M
        <5>1. LayerOf(e, p) \in Nat
          BY LayerOfType
        <5> QED
          BY <4>0, <4>1, <5>1
      <4>3. LayerOf(e, p) < LayerOf(e, q)
        BY <4>0, <4>1, <4>2
      <4>4. Precedes(e, Current(p), Current(q))
        BY <4>1, <4>2, <4>3, LaterIsBehind, AheadPrecedes
      <4> QED
        BY <3>2, <4>0, <4>1, <4>2, <4>4 DEF Current
    <3>3. CASE x # e
      BY <2>3, <3>1, <3>3 DEF Policies, PinnedSlot
    <3> QED
      BY <3>2, <3>3
  <2> QED
    BY <2>5, <2>6
<1> QED
  BY <1>1, <1>2 DEF DispatchLayered

\* Admission insists on the slot the layer was made from.
LEMMA AcceptPinned ==
  ASSUME TypeOK, CallsSound, OrderSound, Pinned, Policies,
         NEW d \in Deliveries, EnqueueAccept(d)
  PROVE  Pinned' /\ Policies'
<1>1. /\ pin' = pin /\ layer' = layer /\ todo' = [todo EXCEPT ![d[1]] = @ \ {d[2]}]
      /\ d[2] \in todo[d[1]] /\ pin[d] \in {0, current[d[2]]}
  BY DEF EnqueueAccept, NextTarget, Admissible, SameGeneration
<1>2. /\ gen'[d] = current[d[2]]
      /\ \A x \in Deliveries : x # d => status'[x] = status[x] /\ gen'[x] = gen[x]
  BY AcceptNew DEF EnqueueAccept, TypeOK, TypeCalls, Current
<1>3. \A x \in Deliveries : x[2] \in todo'[x[1]] => x[2] \in todo[x[1]]
  BY <1>1, DeliveryType DEF TypeOK, TypeCalls
<1>4. Policies'
  BY <1>1 DEF Policies, PinnedSlot
<1>5. Pinned'
  <2> SUFFICES ASSUME NEW x \in Deliveries
               PROVE  /\ layer[x] > 0 => Message(x) /\ pin[x] > 0
                      /\ Message(x) /\ (x[2] \in todo'[x[1]] \/ Accepted(x)') => layer[x] > 0
                      /\ layer[x] > 0 /\ Accepted(x)' => gen'[x] = pin[x]
    BY <1>1 DEF Pinned, Message
  <2>1. CASE x = d
    BY <1>1, <1>2, <2>1 DEF Pinned
  <2>2. CASE x # d
    <3>1. Accepted(x)' <=> Accepted(x)
      BY <1>2, <2>2 DEF Accepted
    <3> QED
      BY <1>2, <1>3, <2>2, <3>1 DEF Pinned
  <2> QED
    BY <2>1, <2>2
<1> QED
  BY <1>4, <1>5

LEMMA PolicyStep == LInv /\ Pinned /\ Policies /\ [Next]_vars => Pinned' /\ Policies'
<1> SUFFICES ASSUME LInv, Pinned, Policies, [Next]_vars PROVE Pinned' /\ Policies'
  OBVIOUS
<1>0. TypeOK /\ CallsSound /\ QueuesSound /\ OrderSound
  BY DEF LInv, IInv
<1>1. ASSUME PolicyQuiet PROVE Pinned' /\ Policies'
  BY <1>0, <1>1, PolicyKept
<1>2. ASSUME NEW d \in Deliveries, EnqueueAccept(d) PROVE Pinned' /\ Policies'
  BY <1>0, <1>2, AcceptPinned
<1>3. ASSUME NEW e \in Events, DispatchLayered(e) PROVE Pinned' /\ Policies'
  BY <1>0, <1>3, SelectLayers
<1>4. ASSUME \A d \in Deliveries : ~EnqueueAccept(d), UNCHANGED <<pin, layer>>,
             \A d \in Deliveries : d[2] \in todo'[d[1]] /\ Message(d) => d[2] \in todo[d[1]]
      PROVE  Pinned' /\ Policies'
  <2>1. \A d \in Deliveries : Accepted(d)' => Accepted(d) /\ gen'[d] = gen[d]
    BY <1>0, <1>4, DeliveryMoves
  <2> QED
    BY <1>1, <1>4, <2>1 DEF PolicyQuiet
<1>5. SUFFICES ASSUME \A d \in Deliveries : ~EnqueueAccept(d),
                      \A e \in Events : ~DispatchLayered(e)
               PROVE  Pinned' /\ Policies'
  BY <1>2, <1>3
<1>6. ASSUME UNCHANGED <<pin, layer, todo>> PROVE Pinned' /\ Policies'
  BY <1>4, <1>5, <1>6
<1>7. ASSUME NEW e \in Events, DispatchSelect(e) PROVE Pinned' /\ Policies'
  <2>1. /\ Kind[e] # "message" /\ UNCHANGED <<pin, layer>>
        /\ todo' = [todo EXCEPT ![e] = TargetsOf(e)]
    BY <1>7 DEF DispatchSelect
  <2>2. \A d \in Deliveries : Message(d) => todo'[d[1]] = todo[d[1]]
    BY <1>0, <2>1, DeliveryType DEF Message, TypeOK, TypeCalls
  <2> QED
    BY <1>4, <1>5, <2>1, <2>2
<1>8. ASSUME NEW e \in Events, DispatchToProcess(e) PROVE Pinned' /\ Policies'
  <2> DEFINE t == <<e, Target[e]>>
  <2>1. /\ Kind[e] = "process" /\ layer' = layer /\ UNCHANGED <<status, gen>>
        /\ todo' = [todo EXCEPT ![e] = {Target[e]}]
        /\ \E g \in 1..created[Target[e]] : pin' = [pin EXCEPT ![t] = g]
    BY <1>8 DEF DispatchToProcess
  <2>2. \A d \in Deliveries : Message(d) => todo'[d[1]] = todo[d[1]] /\ pin'[d] = pin[d]
    BY <1>0, <2>1, DeliveryType DEF Message, TypeOK, TypeCalls
  <2>3. Pinned'
    BY <2>1, <2>2 DEF Pinned, Message, Accepted
  <2>4. Policies'
    <3> SUFFICES ASSUME NEW x \in Events, NEW p \in Plugins, NEW q \in Plugins,
                        layer[<<x, p>>] > 0, layer[<<x, p>>] < layer[<<x, q>>]
                 PROVE  Precedes(x, <<p, pin'[<<x, p>>]>>, <<q, pin'[<<x, q>>]>>)
      BY <2>1 DEF Policies, PinnedSlot, Precedes, IsCommandOf
    <3>1. <<x, p>> \in Deliveries /\ <<x, q>> \in Deliveries
      BY DeliveryType
    <3>2. Message(<<x, p>>)
      BY <3>1 DEF Pinned
    <3>3. pin'[<<x, p>>] = pin[<<x, p>>] /\ pin'[<<x, q>>] = pin[<<x, q>>]
      BY <2>2, <3>1, <3>2 DEF Message
    <3> QED
      BY <3>1, <3>3 DEF Policies, PinnedSlot
  <2> QED
    BY <2>3, <2>4
<1>9. ASSUME NEW e \in Events, CallStep(e) PROVE Pinned' /\ Policies'
  <2>1. CASE EnqueueTargets(e) \/ DispatchReturn(e)
    BY <1>6, <2>1 DEF EnqueueTargets, DispatchReturn
  <2>2. ASSUME NEW d \in Deliveries, EnqueueReject(d) PROVE Pinned' /\ Policies'
    <3>1. UNCHANGED <<pin, layer>> /\ todo' = [todo EXCEPT ![d[1]] = @ \ {d[2]}]
      BY <2>2 DEF EnqueueReject
    <3>2. \A x \in Deliveries : x[2] \in todo'[x[1]] => x[2] \in todo[x[1]]
      BY <1>0, <3>1, DeliveryType DEF TypeOK, TypeCalls
    <3> QED
      BY <1>4, <1>5, <3>1, <3>2
  <2> QED
    BY <1>5, <1>9, <2>1, <2>2, DeliveryType DEF CallStep
<1>10. ASSUME NEW e \in Events, AdvanceLayer(e) PROVE Pinned' /\ Policies'
  BY <1>6, <1>10 DEF AdvanceLayer
<1>11. ASSUME NEW s \in Slots, WorkerStep(s) PROVE Pinned' /\ Policies'
  BY <1>0, <1>6, <1>11, WorkerMoves
<1>12. ASSUME NEW d \in Deliveries, DeliveryStep(d) PROVE Pinned' /\ Policies'
  BY <1>6, <1>12 DEF DeliveryStep, PassGate, DeliverReturn, BackgroundEnd, calls
<1>13. ASSUME NEW p \in Plugins, RegistryStep(p) PROVE Pinned' /\ Policies'
  BY <1>6, <1>13 DEF RegistryStep, Publish, CloseReplaced, DrainPlugin, DrainWait, Deregister,
                     DeregisterReturn, calls
<1>14. ASSUME ShutdownStep PROVE Pinned' /\ Policies'
  BY <1>6, <1>14 DEF ShutdownStep, DrainAll, Close, CloseReturn, DrainAllWait, CloseSlot, calls
<1>15. ASSUME NEW s \in Slots, ForgetRetired(s) \/ RuntimeStops(s) PROVE Pinned' /\ Policies'
  BY <1>6, <1>15 DEF ForgetRetired, RuntimeStops, calls
<1>16. ASSUME UNCHANGED vars PROVE Pinned' /\ Policies'
  BY <1>6, <1>16 DEF vars, calls
<1> QED
  BY <1>5, <1>7, <1>8, <1>9, <1>10, <1>11, <1>12, <1>13, <1>14, <1>15, <1>16 DEF Next, BeginCall

\* The layers in which a message is delivered follow the priorities and the
\* commands of the very slots that hold its deliveries, although slots may be
\* replaced between the selection of the layers and the last admission.
THEOREM LayersOfPolicies == Spec => []LayersFollowPolicy
<1>1. Init => Pinned /\ Policies
  <2> SUFFICES ASSUME Init PROVE Pinned /\ Policies
    OBVIOUS
  <2>1. /\ \A d \in Deliveries : layer[d] = 0 /\ ~Accepted(d) /\ todo[d[1]] = {}
        /\ \A e \in Events, p \in Plugins : layer[<<e, p>>] = 0
    BY DeliveryType DEF Init, Accepted
  <2> QED
    BY <2>1 DEF Pinned, Policies
<1>2. LInv /\ Pinned /\ Policies => LayersFollowPolicy
  <2> SUFFICES ASSUME LInv, Pinned, Policies,
                      NEW e \in Events, NEW p \in Plugins, NEW q \in Plugins,
                      Kind[e] = "message", Accepted(<<e, p>>), Accepted(<<e, q>>),
                      layer[<<e, p>>] < layer[<<e, q>>]
               PROVE  Precedes(e, SlotOf(<<e, p>>), SlotOf(<<e, q>>))
    BY DEF LayersFollowPolicy, Precedes
  <2>1. <<e, p>> \in Deliveries /\ <<e, q>> \in Deliveries
    BY DeliveryType
  <2>2. layer[<<e, p>>] > 0 /\ layer[<<e, q>>] > 0
    BY <2>1 DEF Pinned, Message
  <2>3. SlotOf(<<e, p>>) = PinnedSlot(<<e, p>>) /\ SlotOf(<<e, q>>) = PinnedSlot(<<e, q>>)
    BY <2>1, <2>2 DEF Pinned, SlotOf, PinnedSlot
  <2> QED
    BY <2>2, <2>3 DEF Policies
<1> QED
  BY <1>1, <1>2, PolicyStep, LanesInvariant, PTL DEF Spec

=============================================================================
