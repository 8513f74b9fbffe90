---------- MODULE Ingress_proofs ----------
(* Proofs about the way of an event to the handlers: the ingress, the conversations that wait for
   an event, and the window of a rate limiter, for any events, conversations, slots and limits.
   Each is proved about on its own, by the names its state has in Bot. *)
EXTENDS Bot, Integers, FiniteSetTheorems, WellFoundedInduction, TLAPS

------------------------------------------------------------------------------
\* The ingress: the end of the last handler is announced once, the slots in use are counted, and
\* every conversation keeps its order.  That order goes over several lanes, since a lane ends when
\* it is empty and the next event makes another one.  One lane of a conversation lives at a time
\* (OneLane), and its events stand in one line: what was handed over, the event of the runner, what
\* is queued behind it, and what is still to arrive (Line).

Ordered(s) == \A i, j \in 1..Len(s) : i < j => s[i] < s[j]
OfKey(s, k) == \A i \in 1..Len(s) : s[i] \in arrived /\ KeyOf[s[i]] = k

\* What the runner still has to hand over, and whether it has an event at all.
Unhanded == {"slot", "handle", "enrich", "filter", "bridge"}
Busy == Unhanded \cup {"leave", "free"}

OneLane ==
  /\ \A l \in Events : runner[l] # "none" => lanes[KeyOf[l]] = l
  /\ \A k \in Keys : lanes[k] # None =>
       KeyOf[lanes[k]] = k /\ runner[lanes[k]] # "none"

ArrivedInOrder ==
  \A e, f \in Events : f \in arrived /\ e < f /\ KeyOf[e] = KeyOf[f] => e \in arrived

Queued ==
  \A l \in Events :
    /\ pending[l] # <<>> => runner[l] # "none"
    /\ OfKey(pending[l], KeyOf[l]) /\ Ordered(pending[l])
InProgress ==
  \A l \in Events : runner[l] \in Busy =>
    /\ item[l] \in arrived /\ KeyOf[item[l]] = KeyOf[l]
    /\ \A i \in 1..Len(pending[l]) : item[l] < pending[l][i]
HandedOver ==
  \A k \in Keys :
    /\ OfKey(handed[k], k) /\ Ordered(handed[k])
    /\ \A i \in 1..Len(handed[k]) : \A l \in Events : KeyOf[l] = k =>
         /\ runner[l] \in Unhanded => handed[k][i] < item[l]
         /\ \A j \in 1..Len(pending[l]) : handed[k][i] < pending[l][j]
Line == Queued /\ InProgress /\ HandedOver

Holders == {l \in Events : runner[l] \notin {"none", "loop", "slot"}}
SlotsHeld == IsFiniteSet(Holders) /\ taken = Cardinality(Holders)

IInv == TypeOK /\ DrainedOnce /\ SlotsHeld /\ OneLane /\ ArrivedInOrder /\ Line

-----------------------------------------------------------------------------
(* Types.                                                                  *)

LEMMA KeyType == \A e \in Events : KeyOf[e] \in Keys /\ e \in Nat /\ e # None
  BY IngressAssumption DEF IngressAssumption, Keys

LEMMA SlotsBounded ==
  ASSUME TypeOK, SlotsHeld, NEW l \in Holders
  PROVE  taken \in 1..Concurrency
<1>1. Cardinality(Holders) # 0
  BY FS_EmptySet DEF SlotsHeld
<1> QED
  BY <1>1 DEF TypeOK, SlotsHeld

LEMMA TypeInit == Init => TypeOK
<1> SUFFICES ASSUME Init PROVE TypeOK
  OBVIOUS
<1>1. pending \in [Events -> Seq(Events)] /\ handed \in [Keys -> Seq(Events)]
  BY DEF Init
<1>2. taken \in 0..Concurrency
  BY IngressAssumption DEF IngressAssumption, Init
<1> QED
  BY <1>1, <1>2 DEF Init, TypeOK, Places, CallerPlaces

LEMMA EnqueueType ==
  ASSUME TypeOK, OneLane, NEW e \in Events, Enqueue(e) PROVE TypeOK'
<1>1. UNCHANGED <<lanesClosed, item, taken, stopping, active, cancelled, closes, gone,
                  caller, handed>>
      /\ arrived' \in SUBSET Events
  BY DEF Enqueue, admissionVars, TypeOK
<1>2. KeyOf[e] \in Keys
  BY KeyType
<1>3. CASE UNCHANGED <<lanes, pending, runner>>
  BY <1>1, <1>3 DEF TypeOK
<1>4. CASE /\ lanes' = [lanes EXCEPT ![KeyOf[e]] = e]
           /\ pending' = [pending EXCEPT ![e] = <<e>>]
           /\ runner' = [runner EXCEPT ![e] = "loop"]
  <2>1. lanes' \in [Keys -> Events \cup {None}] /\ runner' \in [Events -> Places]
    BY <1>2, <1>4 DEF TypeOK, Places
  <2>2. pending' \in [Events -> Seq(Events)]
    BY <1>4 DEF TypeOK
  <2> QED
    BY <1>1, <2>1, <2>2 DEF TypeOK
<1>5. CASE /\ lanes[KeyOf[e]] # None
           /\ pending' = [pending EXCEPT ![lanes[KeyOf[e]]] = Append(@, e)]
           /\ UNCHANGED <<lanes, runner>>
  <2>1. lanes[KeyOf[e]] \in Events
    BY <1>2, <1>5 DEF TypeOK
  <2>2. Append(pending[lanes[KeyOf[e]]], e) \in Seq(Events)
    BY <2>1 DEF TypeOK
  <2>3. pending' \in [Events -> Seq(Events)]
    BY <1>5, <2>1, <2>2 DEF TypeOK
  <2> QED
    BY <1>1, <1>5, <2>3 DEF TypeOK
<1> QED
  BY <1>3, <1>4, <1>5 DEF Enqueue

LEMMA RunnerType ==
  ASSUME TypeOK, SlotsHeld, InProgress, NEW l \in Events, RunnerStep(l) PROVE TypeOK'
<1>1. CASE Pop(l)
  <2>1. pending[l] \in Seq(Events) /\ pending[l] # <<>>
    BY <1>1 DEF Pop, TypeOK
  <2>2. Head(pending[l]) \in Events /\ Tail(pending[l]) \in Seq(Events)
    BY <2>1
  <2> QED
    BY <1>1, <2>2 DEF Pop, TypeOK, admissionVars, Places
<1>2. CASE RunnerExit(l)
  BY <1>2, KeyType DEF RunnerExit, TypeOK, admissionVars, Places
<1>3. CASE TakeSlot(l)
  <2>1. taken' \in 0..Concurrency
    BY <1>3, IngressAssumption DEF IngressAssumption, TakeSlot, TypeOK
  <2> QED
    BY <1>3, <2>1 DEF TakeSlot, TypeOK, admissionVars, lockVars, Places
<1>4. CASE SkipItem(l)
  BY <1>4 DEF SkipItem, TypeOK, admissionVars, lockVars, Places
<1>5. CASE FreeSlot(l)
  <2>1. l \in Holders
    BY <1>5 DEF FreeSlot, Holders
  <2>2. taken' \in 0..Concurrency
    BY <1>5, <2>1, SlotsBounded, IngressAssumption DEF IngressAssumption, FreeSlot
  <2> QED
    BY <1>5, <2>2 DEF FreeSlot, TypeOK, admissionVars, lockVars, Places
<1>6. CASE Register(l)
  BY <1>6 DEF Register, At, TypeOK, lockVars, Places
<1>7. CASE Refuse(l)
  BY <1>7 DEF Refuse, At, TypeOK, admissionVars, lockVars, Places
<1>8. CASE Enrich(l)
  BY <1>8 DEF Enrich, At, TypeOK, admissionVars, lockVars, Places
<1>9. CASE Filter(l)
  BY <1>9 DEF Filter, At, TypeOK, admissionVars, lockVars, Places
<1>10. CASE HandToBridge(l)
  <2>1. item[l] \in Events
    BY <1>10 DEF HandToBridge, At, InProgress, TypeOK, Busy, Unhanded
  <2>2. handed' \in [Keys -> Seq(Events)]
    BY <1>10, <2>1, KeyType DEF HandToBridge, TypeOK
  <2> QED
    BY <1>10, <2>2 DEF HandToBridge, At, TypeOK, admissionVars, lockVars, Places
<1>11. CASE Leave(l)
  BY <1>11 DEF Leave, At, TypeOK, lockVars, Places
<1> QED
  BY <1>1, <1>2, <1>3, <1>4, <1>5, <1>6, <1>7, <1>8, <1>9, <1>10, <1>11 DEF RunnerStep

LEMMA CallerType ==
  ASSUME TypeOK, NEW s \in Stoppers, CallerStep(s) PROVE TypeOK'
<1>1. CASE CloseLanes(s)
  <2>1. ASSUME NEW l \in Events
        PROVE  (IF lanes[KeyOf[l]] = l THEN <<>> ELSE pending[l]) \in Seq(Events)
    <3>1. pending[l] \in Seq(Events) /\ <<>> \in Seq(Events)
      BY DEF TypeOK
    <3> QED
      BY <3>1
  <2>2. pending' \in [Events -> Seq(Events)]
    BY <1>1, <2>1 DEF CloseLanes
  <2> QED
    BY <1>1, <2>2 DEF CloseLanes, CallerAt, TypeOK, admissionVars, CallerPlaces
<1>2. CASE StopAdmission(s)
  <2>1. closes' = closes + 1 \/ closes' = closes
    BY <1>2, Zenon DEF StopAdmission
  <2>2. /\ stopping' = TRUE /\ UNCHANGED <<arrived, lanesClosed, lanes, pending, runner, item,
                                          taken, active, cancelled, gone, handed>>
        /\ \E p \in CallerPlaces : caller' = [caller EXCEPT ![s] = p]
    BY <1>2, Zenon DEF StopAdmission, CallerAt, lockVars, CallerPlaces
  <2> QED
    BY <2>1, <2>2 DEF TypeOK
<1>3. CASE DrainReturns(s)
  BY <1>3 DEF DrainReturns, CallerAt, TypeOK, lockVars, admissionVars, CallerPlaces
<1>4. CASE DrainExpires(s)
  BY <1>4 DEF DrainExpires, CallerAt, TypeOK, lockVars, CallerPlaces
<1> QED
  BY <1>1, <1>2, <1>3, <1>4 DEF CallerStep

LEMMA TypeStep == TypeOK /\ SlotsHeld /\ OneLane /\ InProgress /\ [Next]_vars => TypeOK'
<1> SUFFICES ASSUME TypeOK, SlotsHeld, OneLane, InProgress, [Next]_vars PROVE TypeOK'
  OBVIOUS
<1>1. CASE AdaptersStop
  BY <1>1 DEF AdaptersStop, TypeOK, lockVars, admissionVars
<1>2. CASE UNCHANGED vars
  BY <1>2 DEF vars, TypeOK
<1> QED
  BY <1>1, <1>2, EnqueueType, RunnerType, CallerType DEF Next

-----------------------------------------------------------------------------
(* The end of the last handler.                                            *)

\* A step of no handler, and of no shutdown.
DrainQuiet ==
  /\ UNCHANGED admissionVars
  /\ \A l \in Events : Inside(l)' <=> Inside(l)

LEMMA DrainStep == TypeOK /\ DrainedOnce /\ OneLane /\ [Next]_vars => DrainedOnce'
<1> SUFFICES ASSUME TypeOK, DrainedOnce, OneLane, [Next]_vars PROVE DrainedOnce'
  OBVIOUS
<1>1. ASSUME DrainQuiet PROVE DrainedOnce'
  BY <1>1 DEF DrainQuiet, DrainedOnce, admissionVars
<1>2. ASSUME NEW e \in Events, Enqueue(e) PROVE DrainQuiet
  <2>1. ASSUME lanes[KeyOf[e]] = None PROVE runner[e] = "none"
    BY <2>1, KeyType DEF OneLane
  <2> QED
    BY <1>2, <2>1 DEF Enqueue, DrainQuiet, Inside, admissionVars, TypeOK
<1>3. ASSUME NEW l \in Events, RunnerStep(l) PROVE DrainedOnce'
  <2>1. CASE Pop(l) \/ RunnerExit(l) \/ TakeSlot(l) \/ SkipItem(l) \/ FreeSlot(l)
    <3>1. DrainQuiet
      BY <2>1 DEF Pop, RunnerExit, TakeSlot, SkipItem, FreeSlot, DrainQuiet, Inside,
                  admissionVars, TypeOK
    <3> QED
      BY <1>1, <3>1
  <2>2. CASE Refuse(l) \/ Enrich(l) \/ Filter(l) \/ HandToBridge(l)
    <3>1. DrainQuiet
      BY <2>2 DEF Refuse, Enrich, Filter, HandToBridge, At, DrainQuiet, Inside,
                  admissionVars, TypeOK
    <3> QED
      BY <1>1, <3>1
  <2>3. CASE Register(l)
    <3>1. /\ stopping = FALSE /\ stopping' = FALSE /\ closes' = closes
          /\ active' = active \cup {l} /\ Inside(l)'
          /\ \A x \in Events : x # l => (Inside(x)' <=> Inside(x))
      BY <2>3 DEF Register, At, Inside, TypeOK
    <3> QED
      BY <3>1 DEF DrainedOnce
  <2>4. CASE Leave(l)
    <3>1. /\ active' = active \ {l} /\ stopping' = stopping /\ Inside(l) /\ ~Inside(l)'
          /\ closes' = IF stopping /\ active' = {} THEN closes + 1 ELSE closes
          /\ \A x \in Events : x # l => (Inside(x)' <=> Inside(x))
      BY <2>4 DEF Leave, At, Inside, TypeOK
    <3>2. closes = 0
      BY <3>1 DEF DrainedOnce
    <3>3. active' = {x \in Events : Inside(x)'}
      BY <3>1 DEF DrainedOnce
    <3>4. active' = {} <=> \A x \in Events : ~Inside(x)'
      BY <3>3
    <3> QED
      BY <3>1, <3>2, <3>3, <3>4 DEF DrainedOnce
  <2> QED
    BY <1>3, <2>1, <2>2, <2>3, <2>4 DEF RunnerStep
<1>4. ASSUME NEW s \in Stoppers, CallerStep(s) PROVE DrainedOnce'
  <2>1. runner' = runner /\ active' = active
    BY <1>4 DEF CallerStep, CloseLanes, StopAdmission, DrainReturns, DrainExpires, CallerAt,
                admissionVars
  <2>2. \A l \in Events : Inside(l)' <=> Inside(l)
    BY <2>1 DEF Inside
  <2>3. active = {} <=> \A l \in Events : ~Inside(l)
    BY DEF DrainedOnce
  <2>4. CASE StopAdmission(s)
    <3>1. stopping' /\ closes' = IF ~stopping /\ active = {} THEN closes + 1 ELSE closes
      BY <2>4 DEF StopAdmission
    <3> QED
      BY <2>1, <2>2, <2>3, <3>1 DEF DrainedOnce, TypeOK
  <2>5. CASE stopping' = stopping /\ closes' = closes
    BY <2>1, <2>2, <2>5 DEF DrainedOnce
  <2> QED
    BY <1>4, <2>4, <2>5 DEF CallerStep, CloseLanes, DrainReturns, DrainExpires, admissionVars
<1>5. CASE AdaptersStop \/ UNCHANGED vars
  <2>1. DrainQuiet
    BY <1>5 DEF AdaptersStop, vars, DrainQuiet, Inside, admissionVars
  <2> QED
    BY <1>1, <2>1
<1> QED
  BY <1>1, <1>2, <1>3, <1>4, <1>5 DEF Next

-----------------------------------------------------------------------------
(* The slots.                                                              *)

LEMMA SlotsStep == TypeOK /\ SlotsHeld /\ OneLane /\ [Next]_vars => SlotsHeld'
<1> SUFFICES ASSUME TypeOK, SlotsHeld, OneLane, [Next]_vars PROVE SlotsHeld'
  OBVIOUS
<1>1. ASSUME Holders' = Holders, taken' = taken PROVE SlotsHeld'
  BY <1>1 DEF SlotsHeld
<1>2. ASSUME NEW e \in Events, Enqueue(e) PROVE Holders' = Holders /\ taken' = taken
  <2>1. ASSUME lanes[KeyOf[e]] = None PROVE runner[e] = "none"
    BY <2>1, KeyType DEF OneLane
  <2> QED
    BY <1>2, <2>1 DEF Enqueue, Holders, TypeOK
<1>3. ASSUME NEW l \in Events, RunnerStep(l) PROVE SlotsHeld'
  <2>1. CASE Pop(l) \/ RunnerExit(l) \/ SkipItem(l)
    <3>1. Holders' = Holders /\ taken' = taken
      BY <2>1 DEF Pop, RunnerExit, SkipItem, Holders, TypeOK
    <3> QED
      BY <1>1, <3>1
  <2>2. CASE Register(l) \/ Refuse(l) \/ Enrich(l) \/ Filter(l) \/ HandToBridge(l) \/ Leave(l)
    <3>1. Holders' = Holders /\ taken' = taken
      BY <2>2 DEF Register, Refuse, Enrich, Filter, HandToBridge, Leave, At, Holders, TypeOK
    <3> QED
      BY <1>1, <3>1
  <2>3. CASE TakeSlot(l)
    <3>1. Holders' = Holders \cup {l} /\ l \notin Holders /\ taken' = taken + 1
      BY <2>3 DEF TakeSlot, Holders, TypeOK
    <3> QED
      BY <3>1, FS_AddElement DEF SlotsHeld
  <2>4. CASE FreeSlot(l)
    <3>1. Holders' = Holders \ {l} /\ l \in Holders /\ taken' = taken - 1
      BY <2>4 DEF FreeSlot, Holders, TypeOK
    <3> QED
      BY <3>1, FS_RemoveElement DEF SlotsHeld
  <2> QED
    BY <1>3, <2>1, <2>2, <2>3, <2>4 DEF RunnerStep
<1>4. ASSUME NEW s \in Stoppers, CallerStep(s) PROVE Holders' = Holders /\ taken' = taken
  BY <1>4 DEF CallerStep, CloseLanes, StopAdmission, DrainReturns, DrainExpires, CallerAt,
              Holders
<1>5. CASE AdaptersStop \/ UNCHANGED vars
  <2>1. Holders' = Holders /\ taken' = taken
    BY <1>5 DEF AdaptersStop, vars, Holders
  <2> QED
    BY <1>1, <2>1
<1> QED
  BY <1>1, <1>2, <1>3, <1>4, <1>5 DEF Next

-----------------------------------------------------------------------------
(* One lane at a time, and the order of arrivals.                          *)

LEMMA LaneStep == TypeOK /\ OneLane /\ [Next]_vars => OneLane'
<1> SUFFICES ASSUME TypeOK, OneLane, [Next]_vars PROVE OneLane'
  OBVIOUS
<1>1. ASSUME lanes' = lanes, \A l \in Events : runner'[l] = "none" <=> runner[l] = "none"
      PROVE  OneLane'
  <2>1. \A k \in Keys : lanes[k] # None => lanes[k] \in Events
    BY DEF TypeOK
  <2> QED
    BY <1>1, <2>1 DEF OneLane
<1>2. ASSUME NEW e \in Events, Enqueue(e) PROVE OneLane'
  <2>1. CASE UNCHANGED <<lanes, runner>>
    BY <1>1, <2>1
  <2>2. CASE /\ lanes[KeyOf[e]] = None
             /\ lanes' = [lanes EXCEPT ![KeyOf[e]] = e]
             /\ runner' = [runner EXCEPT ![e] = "loop"]
    <3>1. \A l \in Events : runner[l] # "none" => KeyOf[l] # KeyOf[e]
      BY <2>2, KeyType DEF OneLane
    <3>2. \A k \in Keys : k # KeyOf[e] => lanes'[k] = lanes[k] /\ lanes[k] # e
      BY <2>2, KeyType DEF TypeOK, OneLane
    <3>3. lanes'[KeyOf[e]] = e /\ runner'[e] = "loop"
      BY <2>2, KeyType DEF TypeOK
    <3>4. \A l \in Events : l # e => runner'[l] = runner[l]
      BY <2>2 DEF TypeOK
    <3>5. \A k \in Keys : lanes[k] # None => lanes[k] \in Events
      BY DEF TypeOK
    <3>6. ASSUME NEW l \in Events, runner'[l] # "none" PROVE lanes'[KeyOf[l]] = l
      BY <3>1, <3>2, <3>3, <3>4, <3>6, KeyType DEF OneLane
    <3>7. ASSUME NEW k \in Keys, lanes'[k] # None
          PROVE  KeyOf[lanes'[k]] = k /\ runner'[lanes'[k]] # "none"
      BY <3>2, <3>3, <3>4, <3>5, <3>7 DEF OneLane
    <3> QED
      BY <3>6, <3>7 DEF OneLane
  <2> QED
    BY <1>2, <2>1, <2>2 DEF Enqueue
<1>3. ASSUME NEW l \in Events, RunnerStep(l) PROVE OneLane'
  <2>1. CASE RunnerExit(l)
    <3>1. /\ \A k \in Keys : k # KeyOf[l] => lanes'[k] = lanes[k]
          /\ lanes'[KeyOf[l]] = None /\ runner'[l] = "none" /\ runner[l] # "none"
          /\ \A x \in Events : x # l => runner'[x] = runner[x]
      BY <2>1, KeyType DEF RunnerExit, TypeOK
    <3>2. \A k \in Keys : lanes[k] # None => lanes[k] \in Events
      BY DEF TypeOK
    <3>3. lanes[KeyOf[l]] = l
      BY <3>1 DEF OneLane
    <3>4. ASSUME NEW x \in Events, runner'[x] # "none" PROVE lanes'[KeyOf[x]] = x
      BY <3>1, <3>3, <3>4, KeyType DEF OneLane
    <3>5. ASSUME NEW k \in Keys, lanes'[k] # None
          PROVE  KeyOf[lanes'[k]] = k /\ runner'[lanes'[k]] # "none"
      <4>1. k # KeyOf[l] /\ lanes'[k] = lanes[k] /\ lanes[k] # None
        BY <3>1, <3>5
      <4>2. lanes[k] # l
        BY <4>1 DEF OneLane
      <4> QED
        BY <3>1, <3>2, <4>1, <4>2 DEF OneLane
    <3> QED
      BY <3>4, <3>5 DEF OneLane
  <2>2. CASE Pop(l) \/ TakeSlot(l) \/ SkipItem(l) \/ FreeSlot(l)
    BY <1>1, <2>2 DEF Pop, TakeSlot, SkipItem, FreeSlot, TypeOK, lockVars
  <2>3. CASE Register(l) \/ Refuse(l) \/ Enrich(l) \/ Filter(l) \/ HandToBridge(l) \/ Leave(l)
    BY <1>1, <2>3
    DEF Register, Refuse, Enrich, Filter, HandToBridge, Leave, At, TypeOK, lockVars
  <2> QED
    BY <1>3, <2>1, <2>2, <2>3 DEF RunnerStep
<1>4. ASSUME NEW s \in Stoppers, CallerStep(s) PROVE OneLane'
  BY <1>1, <1>4
  DEF CallerStep, CloseLanes, StopAdmission, DrainReturns, DrainExpires, CallerAt, lockVars
<1>5. CASE AdaptersStop \/ UNCHANGED vars
  BY <1>1, <1>5 DEF AdaptersStop, vars, lockVars
<1> QED
  BY <1>2, <1>3, <1>4, <1>5 DEF Next

LEMMA ArrivalsKept ==
  ASSUME [Next]_vars, \A e \in Events : ~Enqueue(e)
  PROVE  arrived' = arrived
  BY DEF Next, RunnerStep, CallerStep, AdaptersStop, Pop, RunnerExit, TakeSlot, SkipItem,
         FreeSlot, Register, Refuse, Enrich, Filter, HandToBridge, Leave, At, CloseLanes,
         StopAdmission, DrainReturns, DrainExpires, CallerAt, vars

LEMMA ArrivalStep == TypeOK /\ ArrivedInOrder /\ [Next]_vars => ArrivedInOrder'
<1> SUFFICES ASSUME TypeOK, ArrivedInOrder, [Next]_vars PROVE ArrivedInOrder'
  OBVIOUS
<1>1. ASSUME NEW e \in Events, Enqueue(e) PROVE ArrivedInOrder'
  BY <1>1 DEF Enqueue, ArrivedInOrder
<1>2. CASE arrived' = arrived
  BY <1>2 DEF ArrivedInOrder
<1> QED
  BY <1>1, <1>2, ArrivalsKept

\* What arrives comes behind everything that has arrived in its conversation.
LEMMA ArrivesLast ==
  ASSUME TypeOK, ArrivedInOrder, NEW e \in Events, e \notin arrived,
         NEW f \in arrived, KeyOf[f] = KeyOf[e]
  PROVE  f < e
<1>1. f \in Events /\ f # e /\ e \in Nat /\ f \in Nat
  BY KeyType DEF TypeOK
<1>2. ~(e < f)
  BY <1>1 DEF ArrivedInOrder
<1> QED
  BY <1>1, <1>2

-----------------------------------------------------------------------------
(* The line of a conversation.                                             *)

LEMMA LineTypes ==
  ASSUME TypeOK
  PROVE  /\ \A l \in Events : pending[l] \in Seq(Events) /\ Len(pending[l]) \in Nat
         /\ \A l \in Events : \A i \in 1..Len(pending[l]) :
              pending[l][i] \in Events /\ pending[l][i] \in Nat
         /\ \A k \in Keys : handed[k] \in Seq(Events) /\ Len(handed[k]) \in Nat
         /\ \A k \in Keys : \A i \in 1..Len(handed[k]) :
              handed[k][i] \in Events /\ handed[k][i] \in Nat
<1>1. \A l \in Events : pending[l] \in Seq(Events)
  BY DEF TypeOK
<1>2. \A k \in Keys : handed[k] \in Seq(Events)
  BY DEF TypeOK
<1> QED
  BY <1>1, <1>2, KeyType

\* A step that moves no event, though it may take one from a runner.
LineQuiet ==
  /\ UNCHANGED <<arrived, handed>>
  /\ \A l \in Events :
       /\ pending'[l] = pending[l] \/ pending'[l] = <<>>
       /\ pending'[l] # <<>> => runner'[l] # "none"
       /\ runner'[l] \in Busy => runner[l] \in Busy /\ item'[l] = item[l]
       /\ runner'[l] \in Unhanded => runner[l] \in Unhanded

LEMMA LineKept ==
  ASSUME TypeOK, Line, LineQuiet PROVE Line'
<1>1. Queued'
  BY DEF Line, LineQuiet, Queued, OfKey, Ordered
<1>2. InProgress'
  BY DEF Line, LineQuiet, InProgress
<1>3. ASSUME NEW k \in Keys
      PROVE  /\ OfKey(handed[k], k)' /\ Ordered(handed'[k])
             /\ \A i \in 1..Len(handed'[k]) : \A l \in Events : KeyOf[l] = k =>
                  /\ runner'[l] \in Unhanded => handed'[k][i] < item'[l]
                  /\ \A j \in 1..Len(pending'[l]) : handed'[k][i] < pending'[l][j]
  <2>1. handed'[k] = handed[k] /\ arrived' = arrived
    BY DEF LineQuiet
  <2>2. OfKey(handed[k], k)' /\ Ordered(handed'[k])
    BY <2>1 DEF Line, HandedOver, OfKey, Ordered
  <2>3. ASSUME NEW i \in 1..Len(handed[k]), NEW l \in Events, KeyOf[l] = k
        PROVE  /\ runner'[l] \in Unhanded => handed[k][i] < item'[l]
               /\ \A j \in 1..Len(pending'[l]) : handed[k][i] < pending'[l][j]
    <3>1. /\ runner[l] \in Unhanded => handed[k][i] < item[l]
          /\ \A j \in 1..Len(pending[l]) : handed[k][i] < pending[l][j]
      BY <2>3 DEF Line, HandedOver
    <3>2. runner'[l] \in Unhanded => runner[l] \in Unhanded /\ item'[l] = item[l]
      BY DEF LineQuiet, Busy
    <3>3. pending'[l] = pending[l] \/ pending'[l] = <<>>
      BY DEF LineQuiet
    <3> QED
      BY <3>1, <3>2, <3>3
  <2> QED
    BY <2>1, <2>2, <2>3
<1>4. HandedOver'
  BY <1>3 DEF HandedOver
<1> QED
  BY <1>1, <1>2, <1>4 DEF Line

\* An event that arrives while its conversation has no lane makes one.
LEMMA LineBegins ==
  ASSUME TypeOK, OneLane, ArrivedInOrder, Line, NEW e \in Events, e \notin arrived,
         arrived' = arrived \cup {e}, UNCHANGED <<item, handed>>,
         lanes[KeyOf[e]] = None, pending' = [pending EXCEPT ![e] = <<e>>],
         runner' = [runner EXCEPT ![e] = "loop"]
  PROVE  Line'
<1>1. /\ \A l \in Events : l # e => pending'[l] = pending[l] /\ runner'[l] = runner[l]
      /\ pending'[e] = <<e>> /\ runner'[e] = "loop"
  BY DEF TypeOK
<1>2. e \in arrived' /\ arrived \subseteq arrived'
  OBVIOUS
<1>3. Queued'
  <2>1. ASSUME NEW l \in Events
        PROVE  /\ pending'[l] # <<>> => runner'[l] # "none"
               /\ OfKey(pending[l], KeyOf[l])' /\ Ordered(pending'[l])
    <3>1. CASE l = e
      BY <1>1, <1>2, <3>1 DEF OfKey, Ordered
    <3>2. CASE l # e
      BY <1>1, <1>2, <3>2 DEF Line, Queued, OfKey, Ordered
    <3> QED
      BY <3>1, <3>2
  <2> QED
    BY <2>1 DEF Queued
<1>4. InProgress'
  <2>1. ASSUME NEW l \in Events, runner'[l] \in Busy
        PROVE  /\ item'[l] \in arrived' /\ KeyOf[item'[l]] = KeyOf[l]
               /\ \A i \in 1..Len(pending'[l]) : item'[l] < pending'[l][i]
    <3>1. l # e
      BY <1>1, <2>1 DEF Busy, Unhanded
    <3> QED
      BY <1>1, <1>2, <2>1, <3>1 DEF Line, InProgress
  <2> QED
    BY <2>1 DEF InProgress
<1>5. ASSUME NEW k \in Keys, NEW i \in 1..Len(handed[k]), NEW l \in Events, KeyOf[l] = k
      PROVE  /\ runner'[l] \in Unhanded => handed[k][i] < item[l]
             /\ \A j \in 1..Len(pending'[l]) : handed[k][i] < pending'[l][j]
  <2>1. handed[k][i] \in arrived /\ KeyOf[handed[k][i]] = k
    BY DEF Line, HandedOver, OfKey
  <2>2. CASE l = e
    <3>1. handed[k][i] < e
      BY <1>5, <2>1, <2>2, ArrivesLast
    <3> QED
      BY <1>1, <2>2, <3>1 DEF Unhanded
  <2>3. CASE l # e
    BY <1>1, <1>5, <2>3 DEF Line, HandedOver
  <2> QED
    BY <2>2, <2>3
<1>6. \A k \in Keys : OfKey(handed[k], k)' /\ Ordered(handed'[k])
  BY <1>2 DEF Line, HandedOver, OfKey, Ordered
<1>7. HandedOver'
  BY <1>5, <1>6 DEF HandedOver
<1> QED
  BY <1>3, <1>4, <1>7 DEF Line

\* An event that arrives while its conversation has a lane is queued there.
LEMMA LineGrows ==
  ASSUME TypeOK, OneLane, ArrivedInOrder, Line, NEW e \in Events, e \notin arrived,
         arrived' = arrived \cup {e}, UNCHANGED <<item, handed, runner>>,
         NEW m \in Events, lanes[KeyOf[e]] = m,
         pending' = [pending EXCEPT ![m] = Append(@, e)]
  PROVE  Line'
<1>0. KeyOf[m] = KeyOf[e] /\ runner[m] # "none"
  BY KeyType DEF OneLane
<1>1. /\ \A l \in Events : l # m => pending'[l] = pending[l]
      /\ pending'[m] = Append(pending[m], e)
  BY DEF TypeOK
<1>2. /\ Len(pending'[m]) = Len(pending[m]) + 1 /\ Len(pending[m]) \in Nat
      /\ pending'[m][Len(pending[m]) + 1] = e
      /\ \A i \in 1..Len(pending[m]) : pending'[m][i] = pending[m][i]
  BY <1>1, LineTypes
<1>3. \A i \in 1..Len(pending'[m]) : i \in 1..Len(pending[m]) \/ pending'[m][i] = e
  BY <1>2
<1>4. \A i \in 1..Len(pending[m]) :
        /\ pending[m][i] \in arrived /\ KeyOf[pending[m][i]] = KeyOf[e]
        /\ pending[m][i] < e
  <2>1. \A i \in 1..Len(pending[m]) : pending[m][i] \in arrived /\ KeyOf[pending[m][i]] = KeyOf[e]
    BY <1>0 DEF Line, Queued, OfKey
  <2> QED
    BY <2>1, ArrivesLast
<1>5. Queued'
  <2>1. ASSUME NEW l \in Events
        PROVE  /\ pending'[l] # <<>> => runner'[l] # "none"
               /\ OfKey(pending[l], KeyOf[l])' /\ Ordered(pending'[l])
    <3>1. CASE l = m
      <4>1. OfKey(pending[m], KeyOf[m])'
        BY <1>0, <1>2, <1>3, <1>4 DEF OfKey
      <4>2. Ordered(pending[m])
        BY DEF Line, Queued
      <4>3. ASSUME NEW i \in 1..Len(pending'[m]), NEW j \in 1..Len(pending'[m]), i < j
            PROVE  pending'[m][i] < pending'[m][j]
        <5>1. i \in 1..Len(pending[m])
          BY <1>2, <4>3
        <5>2. CASE j \in 1..Len(pending[m])
          BY <1>2, <4>2, <4>3, <5>1, <5>2 DEF Ordered
        <5>3. CASE j = Len(pending[m]) + 1
          BY <1>2, <1>4, <5>1, <5>3
        <5> QED
          BY <1>2, <5>2, <5>3
      <4>4. Ordered(pending'[m])
        BY <4>3 DEF Ordered
      <4> QED
        BY <1>0, <3>1, <4>1, <4>4
    <3>2. CASE l # m
      BY <1>1, <3>2 DEF Line, Queued, OfKey, Ordered
    <3> QED
      BY <3>1, <3>2
  <2> QED
    BY <2>1 DEF Queued
<1>6. InProgress'
  <2>1. ASSUME NEW l \in Events, runner[l] \in Busy
        PROVE  /\ item[l] \in arrived' /\ KeyOf[item[l]] = KeyOf[l]
               /\ \A i \in 1..Len(pending'[l]) : item[l] < pending'[l][i]
    <3>1. /\ item[l] \in arrived /\ KeyOf[item[l]] = KeyOf[l]
          /\ \A i \in 1..Len(pending[l]) : item[l] < pending[l][i]
      BY <2>1 DEF Line, InProgress
    <3>2. CASE l = m
      <4>1. item[l] < e
        BY <1>0, <3>1, <3>2, ArrivesLast
      <4> QED
        BY <1>2, <1>3, <3>1, <3>2, <4>1
    <3>3. CASE l # m
      BY <1>1, <3>1, <3>3
    <3> QED
      BY <3>2, <3>3
  <2> QED
    BY <2>1 DEF InProgress
<1>7. ASSUME NEW k \in Keys, NEW i \in 1..Len(handed[k]), NEW l \in Events, KeyOf[l] = k
      PROVE  /\ runner[l] \in Unhanded => handed[k][i] < item[l]
             /\ \A j \in 1..Len(pending'[l]) : handed[k][i] < pending'[l][j]
  <2>1. handed[k][i] \in arrived /\ KeyOf[handed[k][i]] = k
    BY DEF Line, HandedOver, OfKey
  <2>2. /\ runner[l] \in Unhanded => handed[k][i] < item[l]
        /\ \A j \in 1..Len(pending[l]) : handed[k][i] < pending[l][j]
    BY <1>7 DEF Line, HandedOver
  <2>3. CASE l = m
    <3>1. handed[k][i] < e
      BY <1>0, <1>7, <2>1, <2>3, ArrivesLast
    <3> QED
      BY <1>2, <1>3, <2>2, <2>3, <3>1
  <2>4. CASE l # m
    BY <1>1, <2>2, <2>4
  <2> QED
    BY <2>3, <2>4
<1>8. \A k \in Keys : OfKey(handed[k], k)' /\ Ordered(handed'[k])
  BY DEF Line, HandedOver, OfKey, Ordered
<1>9. HandedOver'
  BY <1>7, <1>8 DEF HandedOver
<1> QED
  BY <1>5, <1>6, <1>9 DEF Line

\* The runner takes the first event of its lane.
LEMMA LineMoves ==
  ASSUME TypeOK, Line, NEW l \in Events, Pop(l) PROVE Line'
<1>1. /\ UNCHANGED <<arrived, handed>> /\ pending[l] # <<>>
      /\ item'[l] = pending[l][1] /\ pending'[l] = Tail(pending[l]) /\ runner'[l] = "slot"
      /\ \A x \in Events : x # l =>
           item'[x] = item[x] /\ pending'[x] = pending[x] /\ runner'[x] = runner[x]
  BY LineTypes DEF Pop, TypeOK
<1>2. /\ 1 \in 1..Len(pending[l])
      /\ Len(pending'[l]) = Len(pending[l]) - 1 /\ Len(pending[l]) \in Nat
      /\ \A i \in 1..Len(pending'[l]) :
           i + 1 \in 1..Len(pending[l]) /\ 1 < i + 1 /\ pending'[l][i] = pending[l][i + 1]
  BY <1>1, LineTypes
<1>3. /\ OfKey(pending[l], KeyOf[l]) /\ Ordered(pending[l])
  BY DEF Line, Queued
<1>4. Queued'
  <2>1. ASSUME NEW x \in Events
        PROVE  /\ pending'[x] # <<>> => runner'[x] # "none"
               /\ OfKey(pending[x], KeyOf[x])' /\ Ordered(pending'[x])
    <3>1. CASE x = l
      <4>1. OfKey(pending[l], KeyOf[l])'
        BY <1>1, <1>2, <1>3 DEF OfKey
      <4>2. ASSUME NEW i \in 1..Len(pending'[l]), NEW j \in 1..Len(pending'[l]), i < j
            PROVE  pending'[l][i] < pending'[l][j]
        <5>1. i + 1 < j + 1
          BY <4>2
        <5> QED
          BY <1>2, <1>3, <5>1 DEF Ordered
      <4>3. Ordered(pending'[l])
        BY <4>2 DEF Ordered
      <4> QED
        BY <1>1, <3>1, <4>1, <4>3
    <3>2. CASE x # l
      BY <1>1, <3>2 DEF Line, Queued, OfKey, Ordered
    <3> QED
      BY <3>1, <3>2
  <2> QED
    BY <2>1 DEF Queued
<1>5. InProgress'
  <2>1. ASSUME NEW x \in Events, runner'[x] \in Busy
        PROVE  /\ item'[x] \in arrived' /\ KeyOf[item'[x]] = KeyOf[x]
               /\ \A i \in 1..Len(pending'[x]) : item'[x] < pending'[x][i]
    <3>1. CASE x = l
      <4>1. item'[l] \in arrived' /\ KeyOf[item'[l]] = KeyOf[l]
        BY <1>1, <1>2, <1>3 DEF OfKey
      <4>2. \A i \in 1..Len(pending'[l]) : item'[l] < pending'[l][i]
        BY <1>1, <1>2, <1>3 DEF Ordered
      <4> QED
        BY <3>1, <4>1, <4>2
    <3>2. CASE x # l
      BY <1>1, <2>1, <3>2 DEF Line, InProgress
    <3> QED
      BY <3>1, <3>2
  <2> QED
    BY <2>1 DEF InProgress
<1>6. ASSUME NEW k \in Keys, NEW i \in 1..Len(handed[k]), NEW x \in Events, KeyOf[x] = k
      PROVE  /\ runner'[x] \in Unhanded => handed[k][i] < item'[x]
             /\ \A j \in 1..Len(pending'[x]) : handed[k][i] < pending'[x][j]
  <2>1. /\ runner[x] \in Unhanded => handed[k][i] < item[x]
        /\ \A j \in 1..Len(pending[x]) : handed[k][i] < pending[x][j]
    BY <1>6 DEF Line, HandedOver
  <2>2. CASE x = l
    BY <1>1, <1>2, <2>1, <2>2
  <2>3. CASE x # l
    BY <1>1, <2>1, <2>3
  <2> QED
    BY <2>2, <2>3
<1>7. \A k \in Keys : OfKey(handed[k], k)' /\ Ordered(handed'[k])
  BY <1>1 DEF Line, HandedOver, OfKey, Ordered
<1>8. HandedOver'
  BY <1>1, <1>6, <1>7 DEF HandedOver
<1> QED
  BY <1>4, <1>5, <1>8 DEF Line

\* The runner hands its event to the bridge.
LEMMA LineHands ==
  ASSUME TypeOK, OneLane, Line, NEW l \in Events, HandToBridge(l) PROVE Line'
<1> DEFINE h == KeyOf[item[l]]
<1>1. /\ UNCHANGED <<arrived, pending, item>> /\ runner[l] = "bridge" /\ runner'[l] = "leave"
      /\ \A x \in Events : x # l => runner'[x] = runner[x]
      /\ handed' = [handed EXCEPT ![h] = Append(@, item[l])]
  BY DEF HandToBridge, At, lockVars, TypeOK
<1>2. /\ item[l] \in arrived /\ h = KeyOf[l] /\ item[l] \in Events
      /\ \A i \in 1..Len(pending[l]) : item[l] < pending[l][i]
  BY <1>1 DEF Line, InProgress, Busy, Unhanded, TypeOK
<1>3. h \in Keys
  BY <1>2, KeyType
<1> HIDE DEF h
<1>4. /\ \A k \in Keys : k # h => handed'[k] = handed[k]
      /\ handed'[h] = Append(handed[h], item[l])
  BY <1>1, <1>3 DEF TypeOK
<1>5. /\ Len(handed'[h]) = Len(handed[h]) + 1 /\ Len(handed[h]) \in Nat
      /\ handed'[h][Len(handed[h]) + 1] = item[l]
      /\ \A i \in 1..Len(handed[h]) : handed'[h][i] = handed[h][i]
  BY <1>2, <1>3, <1>4, LineTypes
<1>6. /\ OfKey(handed[h], h) /\ Ordered(handed[h])
      /\ \A i \in 1..Len(handed[h]) : handed[h][i] < item[l]
  BY <1>1, <1>2, <1>3 DEF Line, HandedOver, Unhanded
<1>7. Queued'
  BY <1>1 DEF Line, Queued, OfKey
<1>8. InProgress'
  BY <1>1 DEF Line, InProgress, Busy, Unhanded
<1>9. ASSUME NEW k \in Keys
      PROVE  OfKey(handed[k], k)' /\ Ordered(handed'[k])
  <2>1. CASE k = h
    <3>1. ASSUME NEW i \in 1..Len(handed'[h])
          PROVE  handed'[h][i] \in arrived /\ KeyOf[handed'[h][i]] = h
      <4>1. KeyOf[item[l]] = h
        BY DEF h
      <4>2. i \in 1..Len(handed[h]) \/ i = Len(handed[h]) + 1
        BY <1>5
      <4> QED
        BY <1>2, <1>5, <1>6, <4>1, <4>2 DEF OfKey
    <3>2. ASSUME NEW i \in 1..Len(handed'[h]), NEW j \in 1..Len(handed'[h]), i < j
          PROVE  handed'[h][i] < handed'[h][j]
      <4>1. i \in 1..Len(handed[h])
        BY <1>5, <3>2
      <4>2. CASE j \in 1..Len(handed[h])
        BY <1>5, <1>6, <3>2, <4>1, <4>2 DEF Ordered
      <4>3. CASE j = Len(handed[h]) + 1
        BY <1>5, <1>6, <4>1, <4>3
      <4> QED
        BY <1>5, <4>2, <4>3
    <3>3. Ordered(handed'[h])
      BY <3>2 DEF Ordered
    <3> QED
      BY <1>1, <2>1, <3>1, <3>3 DEF OfKey
  <2>2. CASE k # h
    BY <1>1, <1>4, <2>2 DEF Line, HandedOver, OfKey, Ordered
  <2> QED
    BY <2>1, <2>2
<1>10. ASSUME NEW k \in Keys, NEW i \in 1..Len(handed'[k]), NEW x \in Events, KeyOf[x] = k
       PROVE  /\ runner'[x] \in Unhanded => handed'[k][i] < item[x]
              /\ \A j \in 1..Len(pending[x]) : handed'[k][i] < pending[x][j]
  <2>1. CASE k = h /\ x = l
    <3>1. runner'[x] \notin Unhanded
      BY <1>1, <2>1 DEF Unhanded
    <3>2. i \in 1..Len(handed[h]) \/ i = Len(handed[h]) + 1
      BY <1>5, <2>1
    <3>3. CASE i \in 1..Len(handed[h])
      BY <1>5, <1>10, <2>1, <3>1, <3>3 DEF Line, HandedOver
    <3>4. CASE i = Len(handed[h]) + 1
      BY <1>2, <1>5, <2>1, <3>1, <3>4
    <3> QED
      BY <3>2, <3>3, <3>4
  <2>2. CASE k = h /\ x # l
    <3>1. runner[x] = "none"
      BY <1>1, <1>2, <1>10, <2>2 DEF OneLane
    <3>2. pending[x] = <<>>
      BY <3>1 DEF Line, Queued
    <3> QED
      BY <1>1, <2>2, <3>1, <3>2 DEF Unhanded
  <2>3. CASE k # h
    <3>1. x # l /\ handed'[k] = handed[k]
      BY <1>2, <1>4, <1>10, <2>3
    <3> QED
      BY <1>1, <1>10, <3>1 DEF Line, HandedOver
  <2> QED
    BY <2>1, <2>2, <2>3
<1>11. HandedOver'
  BY <1>1, <1>9, <1>10 DEF HandedOver
<1> QED
  BY <1>7, <1>8, <1>11 DEF Line

LEMMA LineStep ==
  TypeOK /\ OneLane /\ ArrivedInOrder /\ Line /\ [Next]_vars => Line'
<1> SUFFICES ASSUME TypeOK, OneLane, ArrivedInOrder, Line, [Next]_vars PROVE Line'
  OBVIOUS
<1>1. ASSUME NEW e \in Events, Enqueue(e) PROVE Line'
  <2>1. /\ e \notin arrived /\ arrived' = arrived \cup {e} /\ UNCHANGED <<item, handed>>
    BY <1>1 DEF Enqueue
  <2>2. CASE UNCHANGED <<lanes, pending, runner>>
    BY <2>1, <2>2 DEF Line, Queued, InProgress, HandedOver, OfKey, Ordered
  <2>3. CASE /\ lanes[KeyOf[e]] = None
             /\ pending' = [pending EXCEPT ![e] = <<e>>]
             /\ runner' = [runner EXCEPT ![e] = "loop"]
    BY <2>1, <2>3, LineBegins
  <2>4. CASE /\ lanes[KeyOf[e]] # None
             /\ pending' = [pending EXCEPT ![lanes[KeyOf[e]]] = Append(@, e)]
             /\ UNCHANGED runner
    <3>1. lanes[KeyOf[e]] \in Events
      BY <2>4, KeyType DEF TypeOK
    <3> QED
      BY <2>1, <2>4, <3>1, LineGrows
  <2> QED
    BY <1>1, <2>2, <2>3, <2>4 DEF Enqueue
<1>2. ASSUME NEW l \in Events, RunnerStep(l) PROVE Line'
  <2>1. CASE RunnerExit(l)
    <3>1. LineQuiet
      BY <2>1 DEF RunnerExit, LineQuiet, Line, Queued, TypeOK, Busy, Unhanded
    <3> QED
      BY <3>1, LineKept
  <2>2. CASE TakeSlot(l) \/ SkipItem(l) \/ FreeSlot(l)
    <3>1. LineQuiet
      BY <2>2 DEF TakeSlot, SkipItem, FreeSlot, LineQuiet, lockVars, Line, Queued, TypeOK, Busy,
                  Unhanded
    <3> QED
      BY <3>1, LineKept
  <2>3. CASE Register(l) \/ Refuse(l) \/ Enrich(l) \/ Filter(l) \/ Leave(l)
    <3>1. handed' = handed /\ \E from, to \in Busy :
            At(l, from, to) /\ (to \in Unhanded => from \in Unhanded)
      BY <2>3 DEF Register, Refuse, Enrich, Filter, Leave, admissionVars, Busy, Unhanded
    <3>2. LineQuiet
      BY <3>1 DEF At, LineQuiet, lockVars, Line, Queued, TypeOK, Busy, Unhanded
    <3> QED
      BY <3>2, LineKept
  <2> QED
    BY <1>2, <2>1, <2>2, <2>3, LineMoves, LineHands DEF RunnerStep
<1>3. ASSUME NEW s \in Stoppers, CallerStep(s) PROVE Line'
  <2>1. /\ UNCHANGED <<arrived, runner, item, handed>>
        /\ \A l \in Events : pending'[l] = pending[l] \/ pending'[l] = <<>>
    BY <1>3 DEF CallerStep, CloseLanes, StopAdmission, DrainReturns, DrainExpires, CallerAt,
                lockVars
  <2>2. LineQuiet
    BY <2>1 DEF LineQuiet, Line, Queued
  <2> QED
    BY <2>2, LineKept
<1>4. CASE AdaptersStop \/ UNCHANGED vars
  <2>1. LineQuiet
    BY <1>4 DEF AdaptersStop, vars, lockVars, LineQuiet, Line, Queued
  <2> QED
    BY <2>1, LineKept
<1> QED
  BY <1>1, <1>2, <1>3, <1>4 DEF Next

-----------------------------------------------------------------------------

LEMMA InitHolds == Init => IInv
<1> SUFFICES ASSUME Init PROVE IInv
  OBVIOUS
<1>1. DrainedOnce
  BY DEF Init, DrainedOnce, Inside
<1>2. Holders = {} /\ SlotsHeld
  BY FS_EmptySet DEF Init, Holders, SlotsHeld
<1>3. OneLane /\ ArrivedInOrder
  BY KeyType DEF Init, OneLane, ArrivedInOrder
<1>4. Line
  BY DEF Init, Line, Queued, InProgress, HandedOver, OfKey, Ordered, Busy, Unhanded
<1> QED
  BY <1>1, <1>2, <1>3, <1>4, TypeInit DEF IInv

LEMMA Inductive == Spec => []IInv
<1>1. IInv /\ [Next]_vars => IInv'
  <2> SUFFICES ASSUME IInv, [Next]_vars PROVE IInv'
    OBVIOUS
  <2> QED
    BY TypeStep, DrainStep, SlotsStep, LaneStep, ArrivalStep, LineStep DEF IInv, Line
<1> QED
  BY <1>1, InitHolds, PTL DEF Spec

(* Every reachable state of the ingress is well typed; in particular no    *)
(* more than Concurrency slots are ever taken (ingress.go:93).             *)
THEOREM IngressTyped == Spec => []TypeOK
<1>1. IInv => TypeOK
  BY DEF IInv
<1> QED
  BY <1>1, Inductive, PTL

(* The end of the last handler is announced once and in time, the slots in *)
(* use are those of the handlers, and each conversation reaches the bridge *)
(* in the order of its arrival, whatever lanes end and begin, fill up or   *)
(* are cut by a shutdown (ingress_lanes.go:32-83, ingress.go:148-232).     *)
THEOREM ConversationsOrdered == Spec => []IngressSound
<1>1. IInv => IngressSound
  <2> SUFFICES ASSUME IInv PROVE IngressSound
    OBVIOUS
  <2>1. SlotsCounted
    BY DEF IInv, SlotsHeld, SlotsCounted, Holders
  <2>2. ConversationOrder
    BY DEF IInv, Line, HandedOver, Ordered, ConversationOrder
  <2> QED
    BY <2>1, <2>2 DEF IInv, IngressSound
<1> QED
  BY <1>1, Inductive, PTL

------------------------------------------------------------------------------
\* Conversations: every session is attended to, and ends no sooner than it may.

\* Deliveries that have begun and whose CompleteParent is to come.
Begun == {"open", "detaching", "succeeded", "failed"}
Handled(s) == entries[s].phase = "handling"

TalkTypes ==
  /\ proc \in [Owners -> {"absent", "up", "stopping", "dead"}]
  /\ stage \in [Messages -> Talk!Stages]
  /\ owner \in [Messages -> Owners \cup {None}]
  /\ session \in [Messages -> Talk!Sessions \cup {None}]
  /\ asked \in [Messages -> {"no", "pending"}]
  /\ entries \in [Talk!Sessions -> Talk!Entries \cup {None}]
  /\ routes \in [Talk!Routes -> Talk!Sessions \cup {None}]
  /\ owned \in [Owners -> SUBSET Talk!Sessions]
  /\ parents \in [Messages -> SUBSET Talk!Sessions]
  /\ fired \in [Talk!Sessions -> Nat]
  /\ watching \subseteq Owners /\ registryClosed \in BOOLEAN /\ issued \in Nat

\* A message that is at a process, and one whose context goes on without it.
AtProcess ==
  \A m \in Messages :
    /\ stage[m] \notin {"new", "matched", "done"} =>
         owner[m] \in Owners /\ proc[owner[m]] # "absent"
    /\ stage[m] \in {"detaching", "background"} => asked[m] # "pending"

\* The indexes of the registry, and the numbers of its sessions.
Indexed ==
  /\ \A s \in Talk!Live : routes[entries[s].route] = s /\ entries[s].owner \in watching
  /\ \A r \in Talk!Routes :
       routes[r] # None => routes[r] \in Talk!Live /\ entries[routes[r]].route = r
  /\ \A o \in Owners : owned[o] = {s \in Talk!Live : entries[s].owner = o}
  /\ \A m \in Messages : parents[m] = {s \in Talk!Live : entries[s].parent = m}
  /\ \A s \in Talk!Live : s <= issued
  /\ registryClosed => Talk!Live = {}

Fitting ==
  /\ Talk!Cardinality(Talk!Live) <= MaxTotal
  /\ \A p \in Talk!Plugins : Talk!CountOf(p) <= MaxPerPlugin

\* The times of a session are in order, and its timer is armed or has fired;
\* that of an answer being handled is the absolute lifetime.
TimersSet ==
  \A s \in Talk!Live :
    /\ entries[s].expires <= entries[s].due /\ entries[s].due <= entries[s].absolute
    /\ entries[s].due > 0 \/ fired[s] > 0
    /\ Handled(s) /\ entries[s].parent = None /\ stage[entries[s].input] = "open" =>
         entries[s].due = entries[s].absolute

\* The answer a session handles is at the process of the session; a session
\* that is registered or extended has its delivery under way.
Answering(s) ==
  LET m == entries[s].input IN
  /\ m \in Messages /\ entries[s].parent \in {None, m}
  /\ stage[m] \notin {"new", "matched"}
  /\ stage[m] # "done" => session[m] = s /\ owner[m] = entries[s].owner
  /\ m \in Talk!Unsettled \/ entries[s].expires = 0 \/ proc[entries[s].owner] # "up"

Followed ==
  \A s \in Talk!Live :
    /\ proc[entries[s].owner] # "absent"
    /\ entries[s].phase = "registered" => entries[s].parent # None
    /\ entries[s].phase = "waiting" => entries[s].parent = None
    /\ entries[s].parent # None => stage[entries[s].parent] \in Begun
    /\ Handled(s) => Answering(s)

TalkInv == TalkTypes /\ AtProcess /\ Indexed /\ Fitting /\ TimersSet /\ Followed

\* What the invariant says of one session.
LEMMA LiveEntry ==
  ASSUME Talk!ConversationAssumption, TalkTypes, NEW s \in Talk!Live
  PROVE  /\ s \in Talk!Sessions /\ entries[s] \in Talk!Entries /\ s \in Nat
         /\ entries[s].phase \in {"registered", "waiting", "handling"}
         /\ entries[s].owner \in Owners /\ entries[s].route \in Talk!Routes
         /\ entries[s].parent \in Messages \cup {None} /\ entries[s].input \in Messages \cup {None}
         /\ entries[s].expires \in Nat /\ entries[s].absolute \in Nat /\ entries[s].due \in Nat
         /\ entries[s].absolute <= MaxLifetime /\ entries[s].due <= MaxLifetime
<1>1. s \in Talk!Sessions /\ entries[s] \in Talk!Entries
  BY DEF Talk!Live, TalkTypes
<1>2. s \in Nat
  BY <1>1 DEF Talk!Sessions
<1> QED
  BY <1>1, <1>2 DEF Talk!ConversationAssumption, Talk!Entries, Talk!Phases

\* The sets of sessions are finite.
LEMMA TalksFinite ==
  ASSUME Talk!ConversationAssumption
  PROVE  /\ IsFiniteSet(Talk!Live)
         /\ \A p : IsFiniteSet({s \in Talk!Live : PluginOf[entries[s].owner] = p})
<1>1. IsFiniteSet(Talk!Sessions)
  BY FS_Interval DEF Talk!ConversationAssumption, Talk!Sessions
<1>2. Talk!Live \subseteq Talk!Sessions
  BY DEF Talk!Live
<1>3. \A p : {s \in Talk!Live : PluginOf[entries[s].owner] = p} \subseteq Talk!Sessions
  BY <1>2
<1> QED
  BY <1>1, <1>2, <1>3, FS_Subset

\* The cardinality the registry counts with is the one the library's theorems are about.
LEMMA TalkCardinality == \A S : Talk!Cardinality(S) = Cardinality(S)
  BY Zenon DEF Talk!Cardinality, Cardinality

\* The invariant holds at the start: no session is live.
LEMMA TalkStart ==
  ASSUME Talk!ConversationAssumption, Talk!Init PROVE TalkInv
<1>1. Talk!Live = {}
  BY DEF Talk!Live, Talk!Init
<1>2. TalkTypes
  BY DEF TalkTypes, Talk!Init, Talk!Stages
<1>3. AtProcess
  BY DEF AtProcess, Talk!Init
<1>4. Indexed
  BY <1>1 DEF Indexed, Talk!Init
<1>5. Fitting
  <2>1. Talk!Cardinality(Talk!Live) = 0
    BY <1>1, FS_EmptySet, TalkCardinality
  <2>2. ASSUME NEW p PROVE Talk!CountOf(p) = 0
    <3>1. {s \in Talk!Live : PluginOf[entries[s].owner] = p} = {}
      BY <1>1
    <3> QED
      BY <3>1, FS_EmptySet, TalkCardinality DEF Talk!CountOf
  <2> QED
    BY <2>1, <2>2 DEF Fitting, Talk!ConversationAssumption
<1>6. TimersSet /\ Followed
  BY <1>1 DEF TimersSet, Followed
<1> QED
  BY <1>2, <1>3, <1>4, <1>5, <1>6 DEF TalkInv

\* What the properties say.
LEMMA TalkSound ==
  ASSUME Talk!ConversationAssumption, TalkInv
  PROVE  Talk!IndexesAgree /\ Talk!SessionsAttended
<1>1. \A s \in Talk!Live : /\ entries[s] \in Talk!Entries /\ entries[s].expires <= entries[s].absolute
  BY LiveEntry DEF TalkInv, TimersSet
<1>2. Talk!IndexesAgree
  BY <1>1 DEF Talk!IndexesAgree, TalkInv, Indexed, Fitting
<1>3. ASSUME NEW s \in Talk!Live
      PROVE  /\ entries[s].due > 0 \/ fired[s] > 0
             /\ entries[s].phase = "registered" => entries[s].parent \in Talk!Unsettled
             /\ entries[s].phase = "waiting" => entries[s].parent = None
             /\ entries[s].phase = "handling" =>
                  \/ entries[s].input \in Talk!Unsettled \/ entries[s].expires = 0
                  \/ proc[entries[s].owner] # "up" \/ registryClosed
  BY <1>3, LiveEntry DEF TalkInv, TimersSet, Followed, Answering, Handled, Begun, Talk!Unsettled
<1> QED
  BY <1>2, <1>3 DEF Talk!SessionsAttended

\* The registry does not change.
RegistrySame == UNCHANGED <<entries, routes, owned, parents>>

\* What of the invariant is about the registry alone is kept by a step that leaves it alone.
LEMMA RegistryStays ==
  ASSUME TalkInv, RegistrySame, issued' = issued, registryClosed' = registryClosed,
         watching \subseteq watching' \/ registryClosed
  PROVE  Talk!Live' = Talk!Live /\ Indexed' /\ Fitting'
<1>1. Talk!Live' = Talk!Live /\ UNCHANGED <<entries, routes, owned, parents>>
  BY DEF RegistrySame, Talk!Live
<1>2. registryClosed => Talk!Live = {}
  BY DEF TalkInv, Indexed
<1>3. \A s \in Talk!Live : entries[s].owner \in watching'
  BY <1>2 DEF TalkInv, Indexed
<1>4. Indexed'
  BY <1>1, <1>3 DEF TalkInv, Indexed
<1>5. Fitting'
  <2>1. \A p : Talk!CountOf(p)' = Talk!CountOf(p)
    BY <1>1, TalkCardinality DEF Talk!CountOf
  <2> QED
    BY <1>1, <2>1, TalkCardinality DEF TalkInv, Fitting
<1> QED
  BY <1>1, <1>4, <1>5

\* A message goes on, and the registry does not notice.
MessageGoes(m) ==
  /\ \A x \in Messages \ {m} : /\ stage'[x] = stage[x] /\ owner'[x] = owner[x]
                               /\ session'[x] = session[x] /\ asked'[x] = asked[x]
  /\ stage' \in [Messages -> Talk!Stages] /\ owner' \in [Messages -> Owners \cup {None}]
  /\ session' \in [Messages -> Talk!Sessions \cup {None}]
  /\ asked' \in [Messages -> {"no", "pending"}]
  /\ stage'[m] \notin {"new", "matched", "done"} =>
       owner'[m] \in Owners /\ proc[owner'[m]] # "absent"
  /\ stage'[m] \in {"detaching", "background"} => asked'[m] # "pending"
  /\ stage[m] \notin {"new", "matched"} => stage'[m] \notin {"new", "matched"}
  /\ stage[m] \notin {"new", "matched"} /\ stage'[m] # "done" =>
       stage[m] # "done" /\ session'[m] = session[m] /\ owner'[m] = owner[m]
  /\ stage[m] \in Begun => stage'[m] \in Begun

\* What was handled of a message stays handled.
NotLost(m) ==
  \A s \in Talk!Live : Handled(s) /\ entries[s].input = m =>
    /\ stage'[m] = "open" => stage[m] = "open"
    /\ \/ m \in Talk!Unsettled' \/ m \notin Talk!Unsettled
       \/ entries[s].expires = 0 \/ proc[entries[s].owner] # "up"

\* The invariant is kept when one message goes on and what was handled stays handled.
LEMMA MessageMoves ==
  ASSUME Talk!ConversationAssumption, TalkInv, NEW m \in Messages,
         MessageGoes(m), NotLost(m), RegistrySame,
         UNCHANGED <<proc, fired, watching, registryClosed, issued>>
  PROVE  TalkInv'
<1>1. Talk!Live' = Talk!Live /\ Indexed' /\ Fitting' /\ UNCHANGED <<entries, routes, owned,
                                                                    parents>>
  BY RegistryStays DEF RegistrySame
<1>2. TalkTypes'
  BY <1>1 DEF TalkInv, TalkTypes, MessageGoes
<1>3. AtProcess'
  BY DEF TalkInv, AtProcess, MessageGoes
<1>4. ASSUME NEW s \in Talk!Live
      PROVE  /\ entries[s].parent \in Messages \cup {None} /\ entries[s].input \in Messages \cup {None}
             /\ Handled(s) => Answering(s)
             /\ entries[s].parent # None => stage[entries[s].parent] \in Begun
  BY LiveEntry DEF TalkInv, Followed
<1>5. \A x \in Messages : x # m => (x \in Talk!Unsettled' <=> x \in Talk!Unsettled)
  BY DEF MessageGoes, Talk!Unsettled
<1>6. TimersSet'
  <2>1. ASSUME NEW s \in Talk!Live, Handled(s), stage'[entries[s].input] = "open"
        PROVE  stage[entries[s].input] = "open"
    BY <1>4, <2>1 DEF MessageGoes, NotLost, Answering
  <2> QED
    BY <1>1, <2>1 DEF TalkInv, TimersSet, Handled
<1>7. Followed'
  <2>1. ASSUME NEW s \in Talk!Live, entries[s].parent # None
        PROVE  stage'[entries[s].parent] \in Begun
    BY <1>4, <2>1 DEF MessageGoes
  <2>2. ASSUME NEW s \in Talk!Live, Handled(s) PROVE Answering(s)'
    <3>1. Answering(s) /\ entries[s].input \in Messages
      BY <1>4, <2>2 DEF Answering
    <3>2. CASE entries[s].input # m
      BY <1>1, <1>5, <3>1, <3>2 DEF Answering, MessageGoes
    <3>3. CASE entries[s].input = m
      BY <1>1, <2>2, <3>1, <3>3 DEF Answering, MessageGoes, NotLost
    <3> QED
      BY <3>2, <3>3
  <2> QED
    BY <1>1, <2>1, <2>2 DEF TalkInv, Followed, Handled
<1> QED
  BY <1>1, <1>2, <1>3, <1>6, <1>7 DEF TalkInv

\* A message that needs nothing more.
LEMMA Leaving ==
  ASSUME TalkInv, NEW m \in Messages, Talk!Leave(m), stage[m] \notin Begun,
         \A s \in Talk!Live : Handled(s) /\ entries[s].input = m =>
           \/ m \notin Talk!Unsettled
           \/ entries[s].expires = 0 \/ proc[entries[s].owner] # "up"
  PROVE  MessageGoes(m) /\ NotLost(m)
<1>1. /\ stage' = [stage EXCEPT ![m] = "done"] /\ owner' = [owner EXCEPT ![m] = None]
      /\ session' = [session EXCEPT ![m] = None] /\ asked' = [asked EXCEPT ![m] = "no"]
  BY DEF Talk!Leave, Talk!Goto
<1>2. MessageGoes(m)
  BY <1>1 DEF MessageGoes, TalkInv, TalkTypes, Talk!Stages, Begun
<1>3. NotLost(m)
  BY <1>1 DEF NotLost, TalkInv, TalkTypes
<1> QED
  BY <1>2, <1>3

\* The stage of a message alone.
LEMMA StageOnly ==
  ASSUME TalkInv, NEW m \in Messages, NEW to \in Talk!Stages \ {"new", "done"},
         Talk!Goto(m, to), UNCHANGED <<owner, session, asked>>,
         \/ stage[m] = "new" /\ to = "matched"
         \/ /\ stage[m] \in Begun /\ to \in Begun \ {"open"}
            /\ to = "detaching" => asked[m] # "pending"
  PROVE  MessageGoes(m) /\ NotLost(m)
<1>1. stage' = [stage EXCEPT ![m] = to] /\ UNCHANGED <<owner, session, asked>>
  BY DEF Talk!Goto
<1>2. MessageGoes(m)
  BY <1>1 DEF MessageGoes, TalkInv, TalkTypes, AtProcess, Begun
<1>3. NotLost(m)
  BY <1>1 DEF NotLost, TalkInv, TalkTypes, Followed, Answering, Begun, Talk!Unsettled
<1> QED
  BY <1>2, <1>3

\* The registry and the clocks of its sessions stay.
Unnoticed ==
  /\ RegistrySame
  /\ UNCHANGED <<proc, fired, watching, registryClosed, issued>>

\* Every step of a message in which the registry changes nothing keeps the invariant.
LEMMA IntakeStep ==
  ASSUME Talk!ConversationAssumption, TalkInv, NEW m \in Messages,
         \/ Talk!Match(m) \/ Talk!Consume(m) \/ Talk!Skip(m)
         \/ \E o \in Owners : Talk!Dispatch(m, o)
  PROVE  TalkInv'
<1>1. CASE Talk!Match(m)
  <2>1. Unnoticed
    BY <1>1 DEF Talk!Match, Talk!registryVars, Talk!closeVars, Unnoticed, RegistrySame
  <2>2. Talk!Goto(m, "matched") /\ stage[m] = "new" /\ UNCHANGED <<owner, session, asked>>
    BY <1>1 DEF Talk!Match
  <2> QED
    BY <2>1, <2>2, StageOnly, MessageMoves DEF Unnoticed, Talk!Stages
<1>2. CASE Talk!Consume(m)
  <2>1. Unnoticed
    BY <1>2 DEF Talk!Consume, Talk!registryVars, Talk!closeVars, Unnoticed, RegistrySame
  <2>2. Talk!Leave(m) /\ stage[m] = "matched"
    BY <1>2 DEF Talk!Consume
  <2>3. stage[m] \notin Begun /\ m \notin Talk!Unsettled
    BY <2>2 DEF Begun, Talk!Unsettled
  <2> QED
    BY <2>1, <2>2, <2>3, Leaving, MessageMoves DEF Unnoticed
<1>3. CASE Talk!Skip(m)
  <2>1. Unnoticed
    BY <1>3 DEF Talk!Skip, Talk!registryVars, Talk!closeVars, Unnoticed, RegistrySame
  <2>2. /\ Talk!Leave(m) /\ stage[m] = "queued"
        /\ \/ proc[owner[m]] = "dead"
           \/ session[m] # None /\ ~Talk!InputOf(m)
    BY <1>3 DEF Talk!Skip
  <2>3. ASSUME NEW s \in Talk!Live, Handled(s), entries[s].input = m
        PROVE  entries[s].expires = 0 \/ proc[entries[s].owner] # "up"
    <3>1. session[m] = s /\ owner[m] = entries[s].owner
      BY <2>2, <2>3 DEF TalkInv, Followed, Answering
    <3>2. entries[s].expires \in Nat /\ (registryClosed => Talk!Live = {})
      BY LiveEntry DEF TalkInv, Indexed
    <3> QED
      BY <2>2, <2>3, <3>1, <3>2 DEF Talk!InputOf, Talk!Alive, Handled
  <2>4. stage[m] \notin Begun
    BY <2>2 DEF Begun
  <2> QED
    BY <2>1, <2>2, <2>3, <2>4, Leaving, MessageMoves DEF Unnoticed
<1>4. ASSUME NEW o \in Owners, Talk!Dispatch(m, o) PROVE TalkInv'
  <2>1. Unnoticed
    BY <1>4 DEF Talk!Dispatch, Talk!registryVars, Talk!closeVars, Unnoticed, RegistrySame
  <2>2. /\ stage[m] \in {"new", "matched"} /\ proc[o] = "up"
        /\ stage' = [stage EXCEPT ![m] = "queued"] /\ owner' = [owner EXCEPT ![m] = o]
        /\ UNCHANGED <<session, asked>>
    BY <1>4 DEF Talk!Dispatch, Talk!Goto
  <2>3. MessageGoes(m)
    BY <2>2 DEF MessageGoes, TalkInv, TalkTypes, Talk!Stages, Begun
  <2>4. NotLost(m)
    BY <2>2 DEF NotLost, TalkInv, TalkTypes, Talk!Unsettled
  <2> QED
    BY <2>1, <2>3, <2>4, MessageMoves DEF Unnoticed
<1> QED
  BY <1>1, <1>2, <1>3, <1>4

\* Asking for a wait, its refusal and the ends of a delivery do no more than that.
LEMMA DeliveryStep ==
  ASSUME Talk!ConversationAssumption, TalkInv, PluginsAwait, NEW m \in Messages,
         \/ Talk!AskWait(m) \/ Talk!WaitRefused(m) \/ Talk!Succeed(m) \/ Talk!Fail(m)
         \/ Talk!Detach(m) \/ Talk!EndBackground(m)
  PROVE  TalkInv'
<1>0. Unnoticed
  BY DEF Talk!AskWait, Talk!WaitRefused, Talk!Succeed, Talk!Fail, Talk!Detach,
         Talk!EndBackground, Talk!registryVars, Talk!closeVars, Unnoticed, RegistrySame
<1>1. CASE \/ Talk!AskWait(m) \/ Talk!WaitRefused(m)
  <2>1. /\ UNCHANGED <<stage, owner, session>>
        /\ \/ stage[m] = "open" /\ asked' = [asked EXCEPT ![m] = "pending"]
           \/ asked' = [asked EXCEPT ![m] = "no"]
    BY <1>1 DEF Talk!AskWait, Talk!WaitRefused, Talk!Answered
  <2>2. MessageGoes(m)
    BY <2>1 DEF MessageGoes, TalkInv, TalkTypes, AtProcess, Begun
  <2>3. NotLost(m)
    BY <2>1 DEF NotLost, Talk!Unsettled
  <2> QED
    BY <1>0, <2>2, <2>3, MessageMoves DEF Unnoticed
<1>2. CASE \/ Talk!Succeed(m) \/ Talk!Fail(m) \/ Talk!Detach(m)
           \/ Talk!EndBackground(m) /\ stage[m] = "detaching"
  <2>1. /\ stage[m] \in {"open", "detaching"} /\ UNCHANGED <<owner, session, asked>>
        /\ \/ Talk!Goto(m, "succeeded") \/ Talk!Goto(m, "failed")
           \/ Talk!Goto(m, "detaching") /\ asked[m] # "pending"
    BY <1>2 DEF Talk!Succeed, Talk!Fail, Talk!Detach, Talk!EndBackground
  <2>2. stage[m] \in Begun
    BY <2>1 DEF Begun
  <2>3. MessageGoes(m) /\ NotLost(m)
    BY <2>1, <2>2, StageOnly DEF Begun, Talk!Stages
  <2> QED
    BY <1>0, <2>3, MessageMoves DEF Unnoticed
<1>3. CASE Talk!EndBackground(m) /\ stage[m] # "detaching"
  <2>1. Talk!Leave(m) /\ stage[m] = "background"
    BY <1>3 DEF Talk!EndBackground
  <2>2. stage[m] \notin Begun /\ m \notin Talk!Unsettled
    BY <2>1 DEF Begun, Talk!Unsettled
  <2> QED
    BY <1>0, <2>1, <2>2, Leaving, MessageMoves DEF Unnoticed
<1> QED
  BY <1>1, <1>2, <1>3

\* Processes start, stop and die.
LEMMA ProcessStep ==
  ASSUME Talk!ConversationAssumption, TalkInv, NEW o \in Owners,
         Talk!StartProcess(o) \/ Talk!StopProcess(o) \/ Talk!Die(o)
  PROVE  TalkInv'
<1>1. /\ RegistrySame
      /\ UNCHANGED <<stage, owner, session, asked, fired, watching, registryClosed, issued>>
  BY DEF Talk!StartProcess, Talk!StopProcess, Talk!Die, Talk!messageVars, Talk!registryVars,
         Talk!closeVars, RegistrySame
<1>2. \E p \in {"up", "stopping", "dead"} :
        proc' = [proc EXCEPT ![o] = p] /\ (p = "up" => proc[o] = "absent")
  BY DEF Talk!StartProcess, Talk!StopProcess, Talk!Die
<1>3. /\ proc' \in [Owners -> {"absent", "up", "stopping", "dead"}]
      /\ \A x \in Owners : proc[x] # "absent" =>
           proc'[x] # "absent" /\ (proc[x] # "up" => proc'[x] # "up")
  BY <1>2 DEF TalkInv, TalkTypes
<1>4. Talk!Live' = Talk!Live /\ Indexed' /\ Fitting' /\ UNCHANGED <<entries, routes, owned,
                                                                    parents>>
  BY <1>1, RegistryStays DEF RegistrySame
<1>5. TalkTypes'
  BY <1>1, <1>3, <1>4 DEF TalkInv, TalkTypes
<1>6. AtProcess' /\ TimersSet'
  BY <1>1, <1>3, <1>4 DEF TalkInv, AtProcess, TimersSet, Handled
<1>7. Followed'
  <2>1. ASSUME NEW s \in Talk!Live
        PROVE  /\ entries[s].owner \in Owners /\ proc'[entries[s].owner] # "absent"
               /\ Handled(s) => Answering(s)'
    <3>1. entries[s].owner \in Owners /\ proc[entries[s].owner] # "absent"
      BY LiveEntry DEF TalkInv, Followed
    <3>2. Handled(s) => Answering(s)
      BY DEF TalkInv, Followed
    <3> QED
      BY <1>1, <1>3, <1>4, <3>1, <3>2 DEF Answering, Talk!Unsettled
  <2> QED
    BY <1>1, <1>4, <2>1 DEF TalkInv, Followed, Handled
<1> QED
  BY <1>4, <1>5, <1>6, <1>7 DEF TalkInv

\* Fewer sessions, of the same processes.
LEMMA Fewer ==
  ASSUME Talk!ConversationAssumption, TalkInv, Talk!Live' \subseteq Talk!Live,
         \A s \in Talk!Live' : entries'[s].owner = entries[s].owner
  PROVE  Fitting'
<1>1. ASSUME NEW A, NEW B, IsFiniteSet(B), A \subseteq B, NEW n \in Nat, Talk!Cardinality(B) <= n
      PROVE  Talk!Cardinality(A) <= n
  <2>1. /\ Cardinality(A) \in Nat /\ Cardinality(B) \in Nat /\ Cardinality(A) <= Cardinality(B)
    BY <1>1, FS_Subset, FS_CardinalityType
  <2> QED
    BY <1>1, <2>1, TalkCardinality
<1>2. MaxTotal \in Nat /\ MaxPerPlugin \in Nat
  BY DEF Talk!ConversationAssumption
<1>3. Talk!Cardinality(Talk!Live') <= MaxTotal
  BY <1>1, <1>2, TalksFinite DEF TalkInv, Fitting
<1>4. ASSUME NEW p \in Talk!Plugins PROVE Talk!CountOf(p)' <= MaxPerPlugin
  <2> DEFINE B == {s \in Talk!Live : PluginOf[entries[s].owner] = p}
             A == {s \in Talk!Live' : PluginOf[entries'[s].owner] = p}
  <2>1. A \subseteq B
    OBVIOUS
  <2>2. Talk!Cardinality(B) <= MaxPerPlugin
    BY TalkCardinality DEF TalkInv, Fitting, Talk!CountOf
  <2>3. IsFiniteSet(B)
    BY TalksFinite
  <2>4. Talk!Cardinality(A) <= MaxPerPlugin
    <3> HIDE DEF A, B
    <3> QED
      BY <1>1, <1>2, <2>1, <2>2, <2>3
  <2> QED
    BY <2>4, TalkCardinality DEF Talk!CountOf
<1>5. Talk!Cardinality(Talk!Live)' <= MaxTotal
  BY <1>3, TalkCardinality
<1>6. \A p \in Talk!Plugins' : Talk!CountOf(p)' <= MaxPerPlugin
  BY <1>4 DEF Talk!Plugins
<1> QED
  BY <1>5, <1>6 DEF Fitting

\* Sessions that end; of the rest the timers stay armed or fired.
LEMMA Forgetting ==
  ASSUME Talk!ConversationAssumption, TalkInv, NEW dropped \in SUBSET Talk!Sessions,
         Talk!Forget(dropped), fired' \in [Talk!Sessions -> Nat],
         \A s \in Talk!Live \ dropped : fired'[s] = fired[s],
         watching' \subseteq Owners, \A s \in Talk!Live \ dropped : entries[s].owner \in watching',
         registryClosed' \in BOOLEAN, registryClosed' => Talk!Live \subseteq dropped,
         UNCHANGED <<proc, stage, owner, session, asked, issued>>
  PROVE  TalkInv'
<1>1. /\ entries' = [s \in Talk!Sessions |-> IF s \in dropped THEN None ELSE entries[s]]
      /\ routes' = [r \in Talk!Routes |-> IF routes[r] \in dropped THEN None ELSE routes[r]]
      /\ owned' = [o \in Owners |-> owned[o] \ dropped]
      /\ parents' = [m \in Messages |-> parents[m] \ dropped]
  BY DEF Talk!Forget
<1>2. Talk!Live' = Talk!Live \ dropped
  BY <1>1 DEF Talk!Live
<1>3. \A s \in Talk!Live' : s \in Talk!Live /\ s \notin dropped /\ entries'[s] = entries[s]
  BY <1>1, <1>2 DEF Talk!Live
<1>4. TalkTypes'
  BY <1>1 DEF TalkInv, TalkTypes
<1>5. AtProcess'
  BY DEF TalkInv, AtProcess
<1>6. Indexed'
  <2>1. \A s \in Talk!Live' : routes'[entries'[s].route] = s /\ entries'[s].owner \in watching'
    BY <1>1, <1>2, <1>3, LiveEntry DEF TalkInv, Indexed
  <2>2. \A r \in Talk!Routes :
          routes'[r] # None => routes'[r] \in Talk!Live' /\ entries'[routes'[r]].route = r
    BY <1>1, <1>2, <1>3 DEF TalkInv, Indexed
  <2>3. \A o \in Owners : owned'[o] = {s \in Talk!Live' : entries'[s].owner = o}
    BY <1>1, <1>2, <1>3 DEF TalkInv, Indexed
  <2>4. \A m \in Messages : parents'[m] = {s \in Talk!Live' : entries'[s].parent = m}
    BY <1>1, <1>2, <1>3 DEF TalkInv, Indexed
  <2>5. (\A s \in Talk!Live' : s <= issued') /\ (registryClosed' => Talk!Live' = {})
    BY <1>2, <1>3 DEF TalkInv, Indexed
  <2> QED
    BY <2>1, <2>2, <2>3, <2>4, <2>5 DEF Indexed, Talk!Routes
<1>7. Fitting'
  BY <1>2, <1>3, Fewer
<1>8. TimersSet'
  BY <1>2, <1>3 DEF TalkInv, TimersSet, Handled
<1>9. Followed'
  BY <1>3 DEF TalkInv, Followed, Answering, Handled, Talk!Unsettled
<1> QED
  BY <1>4, <1>5, <1>6, <1>7, <1>8, <1>9 DEF TalkInv

\* Every step that ends sessions keeps the invariant.
LEMMA EndingStep ==
  ASSUME Talk!ConversationAssumption, TalkInv,
         \/ \E m \in Messages, s \in Talk!Sessions : Talk!Finish(m, s)
         \/ \E s \in Talk!Sessions : Talk!Expire(s)
         \/ \E o \in Owners : Talk!CloseOwner(o) \/ Talk!Unwatch(o)
         \/ Talk!Close \/ Talk!CloseReturn
  PROVE  TalkInv'
<1>0. /\ fired \in [Talk!Sessions -> Nat] /\ watching \subseteq Owners /\ registryClosed \in BOOLEAN
      /\ registryClosed => Talk!Live = {}
      /\ Talk!Live \subseteq Talk!Sessions
      /\ \A s \in Talk!Live : entries[s].owner \in watching
      /\ \A o \in Owners : owned[o] = {s \in Talk!Live : entries[s].owner = o}
  BY DEF TalkInv, TalkTypes, Indexed, Talk!Live
<1>1. ASSUME NEW m \in Messages, NEW s \in Talk!Sessions, Talk!Finish(m, s) PROVE TalkInv'
  <2>1. /\ Talk!Forget({s})
        /\ UNCHANGED <<proc, stage, owner, session, asked, fired, watching, registryClosed,
                       issued>>
    BY <1>1 DEF Talk!Finish, Talk!Remove, Talk!messageVars, Talk!closeVars
  <2>2. {s} \in SUBSET Talk!Sessions
    OBVIOUS
  <2> QED
    BY <1>0, <2>1, <2>2, Forgetting
<1>2. ASSUME NEW s \in Talk!Sessions, Talk!Expire(s) PROVE TalkInv'
  <2>1. /\ fired[s] > 0 /\ fired' = [fired EXCEPT ![s] = fired[s] - 1]
        /\ UNCHANGED <<proc, stage, owner, session, asked, watching, registryClosed, issued>>
    BY <1>2 DEF Talk!Expire, Talk!messageVars, Talk!closeVars
  <2>2. fired' \in [Talk!Sessions -> Nat] /\ \A x \in Talk!Sessions \ {s} : fired'[x] = fired[x]
    BY <1>0, <2>1
  <2>3. CASE s \in Talk!Live /\ ~registryClosed /\ entries[s].due = 0
    <3>1. Talk!Forget({s}) /\ {s} \in SUBSET Talk!Sessions
      BY <1>2, <2>3 DEF Talk!Expire
    <3> QED
      BY <1>0, <2>1, <2>2, <3>1, Forgetting
  <2>4. CASE ~(s \in Talk!Live /\ ~registryClosed /\ entries[s].due = 0)
    <3>1. RegistrySame /\ (s \in Talk!Live => entries[s].due \in Nat /\ entries[s].due > 0)
      BY <1>0, <1>2, <2>4, LiveEntry DEF Talk!Expire, RegistrySame, TalkInv
    <3>2. /\ Talk!Live' = Talk!Live /\ Indexed' /\ Fitting'
          /\ UNCHANGED <<entries, routes, owned, parents>>
      BY <2>1, <3>1, RegistryStays DEF RegistrySame
    <3>3. TalkTypes' /\ AtProcess' /\ Followed'
      BY <2>1, <2>2, <3>2
         DEF TalkInv, TalkTypes, AtProcess, Followed, Answering, Handled, Talk!Unsettled
    <3>4. TimersSet'
      BY <1>0, <2>1, <2>2, <3>1, <3>2 DEF TalkInv, TimersSet, Handled
    <3> QED
      BY <3>2, <3>3, <3>4 DEF TalkInv
  <2> QED
    BY <2>3, <2>4
<1>3. ASSUME NEW o \in Owners, Talk!CloseOwner(o) PROVE TalkInv'
  <2>1. /\ Talk!Forget(owned[o]) /\ watching' = watching \ {o}
        /\ UNCHANGED <<proc, stage, owner, session, asked, fired, registryClosed, issued>>
    BY <1>3 DEF Talk!CloseOwner, Talk!Remove, Talk!messageVars, Talk!closeVars
  <2>2. owned[o] \in SUBSET Talk!Sessions
    BY DEF TalkInv, TalkTypes
  <2>3. \A s \in Talk!Live \ owned[o] : entries[s].owner \in watching'
    BY <1>0, <2>1
  <2> QED
    BY <1>0, <2>1, <2>2, <2>3, Forgetting
<1>4. CASE Talk!CloseReturn \/ \E o \in Owners : Talk!Unwatch(o)
  <2>1. /\ RegistrySame /\ registryClosed /\ watching' \subseteq watching
        /\ UNCHANGED <<proc, stage, owner, session, asked, fired, registryClosed, issued>>
    BY <1>4 DEF Talk!CloseReturn, Talk!Unwatch, Talk!messageVars, Talk!registryVars,
                Talk!closeVars, RegistrySame
  <2>2. /\ Talk!Live' = Talk!Live /\ Indexed' /\ Fitting'
        /\ UNCHANGED <<entries, routes, owned, parents>>
    BY <2>1, RegistryStays DEF RegistrySame
  <2> QED
    BY <1>0, <2>1, <2>2 DEF TalkInv, TalkTypes, AtProcess, TimersSet, Followed, Answering, Handled,
                            Talk!Unsettled
<1>5. CASE Talk!Close
  <2>1. /\ Talk!Forget(Talk!Live) /\ registryClosed'
        /\ UNCHANGED <<proc, stage, owner, session, asked, fired, watching, issued>>
    BY <1>5 DEF Talk!Close, Talk!Remove, Talk!messageVars
  <2>2. registryClosed' = TRUE
    BY <1>5 DEF Talk!Close
  <2> QED
    BY <1>0, <2>1, <2>2, Forgetting
<1> QED
  BY <1>1, <1>2, <1>3, <1>4, <1>5

\* A session goes on with one field or another changed.
Answers(e, m) == [e EXCEPT !.phase = "handling", !.input = m]
Stays(e) == [e EXCEPT !.due = e.absolute]
Prolongs(e, m, rest) == [e EXCEPT !.expires = rest, !.due = rest, !.parent = m]
Rests(e) == [e EXCEPT !.phase = "waiting", !.parent = None]
Sinks(e) == [e EXCEPT !.expires = Talk!Sooner(e.expires), !.absolute = Talk!Sooner(e.absolute),
                      !.due = Talk!Sooner(e.due)]

Becoming(d, e, phase, parent, input, expires, absolute, due) ==
  /\ d \in Talk!Entries
  /\ d.owner = e.owner /\ d.route = e.route /\ d.phase = phase /\ d.parent = parent
  /\ d.input = input /\ d.expires = expires /\ d.absolute = absolute /\ d.due = due

\* The new values of an entry are entries, field by field.
LEMMA EntryChanges ==
  ASSUME Talk!ConversationAssumption, NEW e \in Talk!Entries
  PROVE  /\ \A m \in Messages : 
              Becoming(Answers(e, m), e, "handling", e.parent, m, e.expires, e.absolute, e.due)
         /\ Becoming(Stays(e), e, e.phase, e.parent, e.input, e.expires, e.absolute, e.absolute)
         /\ \A m \in Messages, rest \in 0 .. MaxLifetime : 
              Becoming(Prolongs(e, m, rest), e, e.phase, m, e.input, rest, e.absolute, rest)
         /\ Becoming(Rests(e), e, "waiting", None, e.input, e.expires, e.absolute, e.due)
         /\ Becoming(Sinks(e), e, e.phase, e.parent, e.input,
                     Talk!Sooner(e.expires), Talk!Sooner(e.absolute), Talk!Sooner(e.due))
<1>1. \A n \in 0 .. MaxLifetime : Talk!Sooner(n) \in 0 .. MaxLifetime
  BY DEF Talk!Sooner, Talk!ConversationAssumption
<1>2. ASSUME NEW m \in Messages
      PROVE  Becoming(Answers(e, m), e, "handling", e.parent, m, e.expires, e.absolute, e.due)
  <2> DEFINE d == Answers(e, m)
  <2>1. d \in Talk!Entries
    BY DEF Answers, Talk!Entries, Talk!Phases
  <2>2. /\ d.owner = e.owner /\ d.route = e.route /\ d.phase = "handling" /\ d.parent = e.parent
        /\ d.input = m /\ d.expires = e.expires /\ d.absolute = e.absolute /\ d.due = e.due
    BY DEF Answers, Talk!Entries
  <2> QED
    BY <2>1, <2>2 DEF Becoming
<1>3. Becoming(Stays(e), e, e.phase, e.parent, e.input, e.expires, e.absolute, e.absolute)
  <2> DEFINE d == Stays(e)
  <2>1. d \in Talk!Entries
    BY DEF Stays, Talk!Entries
  <2>2. /\ d.owner = e.owner /\ d.route = e.route /\ d.phase = e.phase /\ d.parent = e.parent
        /\ d.input = e.input /\ d.expires = e.expires /\ d.absolute = e.absolute /\ d.due = e.absolute
    BY DEF Stays, Talk!Entries
  <2> QED
    BY <2>1, <2>2 DEF Becoming
<1>4. ASSUME NEW m \in Messages, NEW rest \in 0 .. MaxLifetime
      PROVE  Becoming(Prolongs(e, m, rest), e, e.phase, m, e.input, rest, e.absolute, rest)
  <2> DEFINE d == Prolongs(e, m, rest)
  <2>1. d \in Talk!Entries
    BY DEF Prolongs, Talk!Entries
  <2>2. /\ d.owner = e.owner /\ d.route = e.route /\ d.phase = e.phase /\ d.parent = m
        /\ d.input = e.input /\ d.expires = rest /\ d.absolute = e.absolute /\ d.due = rest
    BY DEF Prolongs, Talk!Entries
  <2> QED
    BY <2>1, <2>2 DEF Becoming
<1>5. Becoming(Rests(e), e, "waiting", None, e.input, e.expires, e.absolute, e.due)
  <2> DEFINE d == Rests(e)
  <2>1. d \in Talk!Entries
    BY DEF Rests, Talk!Entries, Talk!Phases
  <2>2. /\ d.owner = e.owner /\ d.route = e.route /\ d.phase = "waiting" /\ d.parent = None
        /\ d.input = e.input /\ d.expires = e.expires /\ d.absolute = e.absolute /\ d.due = e.due
    BY DEF Rests, Talk!Entries
  <2> QED
    BY <2>1, <2>2 DEF Becoming
<1>6. Becoming(Sinks(e), e, e.phase, e.parent, e.input,
               Talk!Sooner(e.expires), Talk!Sooner(e.absolute), Talk!Sooner(e.due))
  <2> DEFINE d == Sinks(e)
  <2>1. d \in Talk!Entries
    BY <1>1 DEF Sinks, Talk!Entries
  <2>2. /\ d.owner = e.owner /\ d.route = e.route /\ d.phase = e.phase /\ d.parent = e.parent
        /\ d.input = e.input /\ d.expires = Talk!Sooner(e.expires)
        /\ d.absolute = Talk!Sooner(e.absolute) /\ d.due = Talk!Sooner(e.due)
    BY DEF Sinks, Talk!Entries
  <2> QED
    BY <2>1, <2>2 DEF Becoming
<1> QED
  BY <1>2, <1>3, <1>4, <1>5, <1>6

\* One session changes, on its route and at its process.
Changes(s, e) ==
  /\ entries' \in [Talk!Sessions -> Talk!Entries \cup {None}]
  /\ entries'[s] = e
  /\ \A x \in Talk!Sessions \ {s} : entries'[x] = entries[x]

\* What the registry writes when it answers, keeps or extends a session.
LEMMA SessionChanges ==
  ASSUME Talk!ConversationAssumption, TalkTypes, NEW s \in Talk!Live, NEW m \in Messages,
         NEW rest \in 0 .. MaxLifetime
  PROVE  /\ entries' = [entries EXCEPT ![s].phase = "handling", ![s].input = m] =>
              Changes(s, Answers(entries[s], m))
         /\ entries' = [entries EXCEPT ![s].due = entries[s].absolute] =>
              Changes(s, Stays(entries[s]))
         /\ entries' = [entries EXCEPT ![s].expires = rest, ![s].due = rest, ![s].parent = m] =>
              Changes(s, Prolongs(entries[s], m, rest))
<1>1. s \in Talk!Sessions /\ entries[s] \in Talk!Entries
  BY LiveEntry
<1>2. entries \in [Talk!Sessions -> Talk!Entries \cup {None}]
  BY DEF TalkTypes
<1>3. ASSUME NEW e \in Talk!Entries, entries' = [entries EXCEPT ![s] = e]
      PROVE  Changes(s, e)
  BY <1>1, <1>2, <1>3 DEF Changes
<1>4. ASSUME entries' = [entries EXCEPT ![s].phase = "handling", ![s].input = m]
      PROVE  Changes(s, Answers(entries[s], m))
  <2>1. entries' = [entries EXCEPT ![s] = Answers(entries[s], m)]
    BY <1>1, <1>2, <1>4, Zenon DEF Answers
  <2> QED
    BY <1>1, <1>3, <2>1, EntryChanges DEF Becoming
<1>5. ASSUME entries' = [entries EXCEPT ![s].due = entries[s].absolute]
      PROVE  Changes(s, Stays(entries[s]))
  <2>1. entries' = [entries EXCEPT ![s] = Stays(entries[s])]
    BY <1>1, <1>2, <1>5, Zenon DEF Stays
  <2> QED
    BY <1>1, <1>3, <2>1, EntryChanges DEF Becoming
<1>6. ASSUME entries' = [entries EXCEPT ![s].expires = rest, ![s].due = rest, ![s].parent = m]
      PROVE  Changes(s, Prolongs(entries[s], m, rest))
  <2>1. entries' = [entries EXCEPT ![s] = Prolongs(entries[s], m, rest)]
    BY <1>1, <1>2, <1>6, Zenon DEF Prolongs
  <2> QED
    BY <1>1, <1>3, <2>1, EntryChanges DEF Becoming
<1> QED
  BY <1>4, <1>5, <1>6

\* One session changes and keeps its process, its route and the request it waits for.
LEMMA OneChanges ==
  ASSUME Talk!ConversationAssumption, TalkInv, NEW s \in Talk!Live, NEW d \in Talk!Entries,
         Changes(s, d), d.owner = entries[s].owner, d.route = entries[s].route,
         UNCHANGED <<routes, owned, watching, registryClosed, issued>>,
         parents' = [m \in Messages |-> {x \in Talk!Live : entries'[x].parent = m}]
  PROVE  Talk!Live' = Talk!Live /\ Indexed' /\ Fitting'
<1>1. Talk!Live' = Talk!Live
  BY LiveEntry DEF Changes, Talk!Live, Talk!ConversationAssumption
<1>2. \A x \in Talk!Live : entries'[x].owner = entries[x].owner /\ entries'[x].route = entries[x].route
  BY DEF Changes, Talk!Live
<1>3. Fitting'
  BY <1>1, <1>2, Fewer
<1>4. Indexed'
  <2>1. \A x \in Talk!Live' : routes'[entries'[x].route] = x /\ entries'[x].owner \in watching'
    BY <1>1, <1>2 DEF TalkInv, Indexed
  <2>2. \A r \in Talk!Routes :
          routes'[r] # None => routes'[r] \in Talk!Live' /\ entries'[routes'[r]].route = r
    BY <1>1, <1>2 DEF TalkInv, Indexed
  <2>3. \A o \in Owners : owned'[o] = {x \in Talk!Live' : entries'[x].owner = o}
    BY <1>1, <1>2 DEF TalkInv, Indexed
  <2>4. \A m \in Messages : parents'[m] = {x \in Talk!Live' : entries'[x].parent = m}
    BY <1>1
  <2>5. (\A x \in Talk!Live' : x <= issued') /\ (registryClosed' => Talk!Live' = {})
    BY <1>1 DEF TalkInv, Indexed
  <2> QED
    BY <2>1, <2>2, <2>3, <2>4, <2>5 DEF Indexed, Talk!Routes
<1> QED
  BY <1>1, <1>3, <1>4

\* The same when no request is another.
LEMMA ParentsStay ==
  ASSUME TalkInv, NEW s \in Talk!Live, NEW d, Changes(s, d), d.parent = entries[s].parent,
         parents' = parents
  PROVE  parents' = [m \in Messages |-> {x \in Talk!Live : entries'[x].parent = m}]
<1>1. \A x \in Talk!Live : entries'[x].parent = entries[x].parent
  BY DEF Changes, Talk!Live
<1>2. \A m \in Messages : parents[m] = {x \in Talk!Live : entries'[x].parent = m}
  BY <1>1 DEF TalkInv, Indexed
<1> QED
  BY <1>2 DEF TalkInv, TalkTypes

\* What was handled still is, where nothing of it changes.
LEMMA StillAnswering ==
  ASSUME NEW x, NEW m, Answering(x), m = entries[x].input, entries'[x].input = m,
         entries'[x].parent = entries[x].parent, entries'[x].owner = entries[x].owner,
         entries'[x].expires = entries[x].expires,
         stage'[m] = stage[m], session'[m] = session[m], owner'[m] = owner[m],
         UNCHANGED proc
  PROVE  Answering(x)'
  BY DEF Answering, Talk!Unsettled

\* A waiting session is given the next message.
LEMMA RouteStep ==
  ASSUME Talk!ConversationAssumption, TalkInv, NEW m \in Messages, Talk!Route(m)
  PROVE  TalkInv'
<1>1. PICK s \in Talk!Live :
        /\ s = Talk!Matching(m) /\ entries[s].phase = "waiting"
  <2>1. Talk!Matching(m) # None
    BY DEF Talk!Route
  <2>2. \E r \in Talk!Routes : Talk!Matching(m) = routes[r] /\ Talk!Waits(routes[r])
    BY <2>1 DEF Talk!Matching, Talk!Routes
  <2> QED
    BY <2>1, <2>2 DEF Talk!Waits, TalkInv, Indexed
<1>2. /\ stage[m] = "matched" /\ s \in Talk!Live /\ entries[s].phase = "waiting"
      /\ owner' = [owner EXCEPT ![m] = entries[s].owner] /\ session' = [session EXCEPT ![m] = s]
      /\ entries' = [entries EXCEPT ![s].phase = "handling", ![s].input = m]
      /\ stage' = [stage EXCEPT ![m] = "queued"]
      /\ UNCHANGED <<proc, asked, routes, owned, parents, fired, watching, registryClosed, issued>>
  BY <1>1, Zenon DEF Talk!Route, Talk!Goto, Talk!closeVars
<1> DEFINE d == Answers(entries[s], m)
<1>3. entries[s] \in Talk!Entries /\ entries[s].owner \in Owners /\ s \in Talk!Sessions
  BY <1>2, LiveEntry DEF TalkInv
<1>4. Changes(s, d)
  <2>1. 0 \in 0 .. MaxLifetime
    BY DEF Talk!ConversationAssumption
  <2> QED
    BY <1>2, <2>1, SessionChanges DEF TalkInv
<1>5. Becoming(d, entries[s], "handling", entries[s].parent, m, entries[s].expires,
               entries[s].absolute, entries[s].due)
  BY <1>3, EntryChanges
<1> HIDE DEF d
<1>6. Talk!Live' = Talk!Live /\ Indexed' /\ Fitting'
  <2>1. parents' = [x \in Messages |-> {y \in Talk!Live : entries'[y].parent = x}]
    BY <1>2, <1>4, <1>5, ParentsStay DEF Becoming
  <2> QED
    BY <1>2, <1>4, <1>5, <2>1, OneChanges DEF Becoming
<1>7. \A x \in Talk!Live : x # s => entries'[x] = entries[x]
  BY <1>4 DEF Changes, Talk!Live
<1>8. entries'[s] = d
  BY <1>4 DEF Changes
<1>9. TalkTypes'
  BY <1>2, <1>3, <1>4 DEF TalkInv, TalkTypes, Changes, Talk!Stages
<1>10. proc[entries[s].owner] # "absent" /\ entries[s].parent = None
  BY <1>2 DEF TalkInv, Followed
<1>11. AtProcess'
  BY <1>2, <1>3, <1>10 DEF TalkInv, AtProcess, TalkTypes
<1>12. ASSUME NEW x \in Talk!Live, x # s, Handled(x)
       PROVE  entries[x].input # m /\ entries[x].input \in Messages /\ Answering(x)
  BY <1>2, <1>12 DEF TalkInv, Followed, Answering
<1>13. \A x \in Messages : /\ x # m => stage'[x] = stage[x] /\ session'[x] = session[x]
                                      /\ owner'[x] = owner[x]
                           /\ stage[x] \in Begun => stage'[x] = stage[x]
  BY <1>2 DEF TalkInv, TalkTypes, Begun
<1>14. stage'[m] = "queued" /\ session'[m] = s /\ owner'[m] = entries[s].owner
  BY <1>2 DEF TalkInv, TalkTypes
<1>15. TimersSet'
  <2>1. ASSUME NEW x \in Talk!Live, x # s
        PROVE  /\ entries'[x].expires <= entries'[x].due /\ entries'[x].due <= entries'[x].absolute
               /\ entries'[x].due > 0 \/ fired'[x] > 0
               /\ Handled(x)' /\ entries'[x].parent = None /\ stage'[entries'[x].input] = "open" =>
                    entries'[x].due = entries'[x].absolute
    <3>1. /\ entries'[x] = entries[x] /\ fired'[x] = fired[x]
          /\ Handled(x) => stage'[entries[x].input] = stage[entries[x].input]
      BY <1>2, <1>7, <1>12, <1>13, <2>1
    <3> QED
      BY <3>1 DEF TalkInv, TimersSet, Handled
  <2>2. /\ entries'[s].expires <= entries'[s].due /\ entries'[s].due <= entries'[s].absolute
        /\ entries'[s].due > 0 \/ fired'[s] > 0
        /\ stage'[entries'[s].input] # "open"
    BY <1>2, <1>5, <1>8, <1>14 DEF TalkInv, TimersSet, Becoming
  <2> QED
    BY <1>6, <2>1, <2>2 DEF TimersSet
<1>16. Followed'
  <2>1. ASSUME NEW x \in Talk!Live, x # s, Handled(x)
        PROVE  Answering(x)'
    BY <1>2, <1>7, <1>12, <1>13, <2>1, StillAnswering
  <2>2. Answering(s)'
    BY <1>2, <1>5, <1>8, <1>10, <1>14 DEF Answering, Talk!Unsettled, Becoming
  <2>3. ASSUME NEW x \in Talk!Live, x # s, entries[x].parent # None
        PROVE  stage'[entries[x].parent] \in Begun
    <3>1. entries[x].parent \in Messages /\ stage[entries[x].parent] \in Begun
      BY <2>3, LiveEntry DEF TalkInv, Followed
    <3> QED
      BY <1>13, <3>1
  <2>4. ASSUME NEW x \in Talk!Live, x # s
        PROVE  /\ proc'[entries'[x].owner] # "absent"
               /\ entries'[x].phase = "registered" => entries'[x].parent # None
               /\ entries'[x].phase = "waiting" => entries'[x].parent = None
               /\ entries'[x].parent # None => stage'[entries'[x].parent] \in Begun
               /\ Handled(x)' => Answering(x)'
    BY <1>2, <1>7, <2>1, <2>3, <2>4 DEF TalkInv, Followed, Handled
  <2>5. /\ proc'[entries'[s].owner] # "absent" /\ entries'[s].phase = "handling"
        /\ entries'[s].parent = None
    BY <1>2, <1>5, <1>8, <1>10 DEF Becoming
  <2> QED
    BY <1>6, <2>2, <2>4, <2>5 DEF Followed
<1> QED
  BY <1>6, <1>9, <1>11, <1>15, <1>16 DEF TalkInv

\* An answer is begun, or refused by a process that stops.
LEMMA BeginStep ==
  ASSUME Talk!ConversationAssumption, TalkInv, NEW m \in Messages,
         Talk!Begin(m) \/ Talk!BeginRefused(m)
  PROVE  TalkInv'
<1>1. /\ stage[m] = "queued" /\ UNCHANGED <<proc, watching, registryClosed, issued>>
      /\ session[m] = None => UNCHANGED <<entries, routes, owned, parents, fired>>
      /\ session[m] # None => Talk!BeginInput(m)
  BY DEF Talk!Begin, Talk!BeginRefused, Talk!closeVars, Talk!registryVars
<1>2. \/ /\ stage' = [stage EXCEPT ![m] = "open"] /\ UNCHANGED <<owner, session, asked>>
         /\ proc[owner[m]] = "up"
      \/ /\ stage' = [stage EXCEPT ![m] = "done"] /\ owner' = [owner EXCEPT ![m] = None]
         /\ session' = [session EXCEPT ![m] = None] /\ asked' = [asked EXCEPT ![m] = "no"]
         /\ proc[owner[m]] = "stopping"
  BY DEF Talk!Begin, Talk!BeginRefused, Talk!Leave, Talk!Goto
<1>3. \A x \in Talk!Live : Handled(x) /\ entries[x].input = m =>
        session[m] = x /\ owner[m] = entries[x].owner
  BY <1>1 DEF TalkInv, Followed, Answering
<1>4. stage[m] \notin Begun
  BY <1>1 DEF Begun
<1>5. MessageGoes(m)
  BY <1>1, <1>2 DEF MessageGoes, TalkInv, TalkTypes, AtProcess, Begun, Talk!Stages
<1>6. CASE session[m] = None
  <2>1. ASSUME NEW x \in Talk!Live PROVE ~(Handled(x) /\ entries[x].input = m)
    BY <1>3, <1>6 DEF Talk!Live, Talk!ConversationAssumption
  <2>2. NotLost(m)
    BY <2>1 DEF NotLost
  <2> QED
    BY <1>1, <1>5, <1>6, <2>2, MessageMoves DEF RegistrySame
<1>7. CASE session[m] # None
  <2>1. PICK s \in Talk!Live : /\ s = session[m] /\ Handled(s) /\ entries[s].input = m
                               /\ entries[s].expires > 0
    BY <1>1, <1>7 DEF Talk!BeginInput, Talk!InputOf, Handled
  <2>2. /\ entries' = [entries EXCEPT ![s].due = entries[s].absolute]
        /\ UNCHANGED <<routes, owned, parents, fired>>
    BY <1>1, <1>7, <2>1 DEF Talk!BeginInput
  <2> DEFINE d == Stays(entries[s])
  <2>3. /\ entries[s] \in Talk!Entries /\ s \in Talk!Sessions
        /\ entries[s].expires \in Nat /\ entries[s].absolute \in Nat /\ entries[s].due \in Nat
    BY LiveEntry DEF TalkInv
  <2>4. Changes(s, d)
    <3>1. 0 \in 0 .. MaxLifetime
      BY DEF Talk!ConversationAssumption
    <3> QED
      BY <2>2, <3>1, SessionChanges DEF TalkInv
  <2>5. Becoming(d, entries[s], entries[s].phase, entries[s].parent, entries[s].input,
                 entries[s].expires, entries[s].absolute, entries[s].absolute)
    BY <2>3, EntryChanges
  <2> HIDE DEF d
  <2>6. Talk!Live' = Talk!Live /\ Indexed' /\ Fitting'
    <3>1. parents' = [x \in Messages |-> {y \in Talk!Live : entries'[y].parent = x}]
      BY <2>2, <2>4, <2>5, ParentsStay DEF Becoming
    <3> QED
      BY <1>1, <2>2, <2>4, <2>5, <3>1, OneChanges DEF Becoming
  <2>7. /\ \A x \in Talk!Live : x # s => entries'[x] = entries[x]
        /\ entries'[s] = d
    BY <2>4 DEF Changes, Talk!Live
  <2>8. TalkTypes'
    BY <1>1, <1>5, <2>2, <2>4 DEF TalkInv, TalkTypes, Changes, MessageGoes
  <2>9. AtProcess'
    BY <1>1, <1>5 DEF TalkInv, AtProcess, MessageGoes
  <2>10. \A x \in Messages : x # m => stage'[x] = stage[x] /\ session'[x] = session[x]
                                      /\ owner'[x] = owner[x]
    BY <1>5 DEF MessageGoes
  <2>11. ASSUME NEW x \in Talk!Live, x # s, Handled(x)
         PROVE  entries[x].input # m /\ entries[x].input \in Messages /\ Answering(x)
    <3>1. Answering(x)
      BY <2>11 DEF TalkInv, Followed
    <3> QED
      BY <1>3, <2>1, <2>11, <3>1 DEF Answering
  <2>12. TimersSet'
    <3>1. ASSUME NEW x \in Talk!Live, x # s
          PROVE  /\ entries'[x].expires <= entries'[x].due /\ entries'[x].due <= entries'[x].absolute
                 /\ entries'[x].due > 0 \/ fired'[x] > 0
                 /\ Handled(x)' /\ entries'[x].parent = None /\ stage'[entries'[x].input] = "open" =>
                      entries'[x].due = entries'[x].absolute
      <4>1. /\ entries'[x] = entries[x] /\ fired'[x] = fired[x]
            /\ Handled(x) => stage'[entries[x].input] = stage[entries[x].input]
        BY <2>2, <2>7, <2>10, <2>11, <3>1
      <4> QED
        BY <4>1 DEF TalkInv, TimersSet, Handled
    <3>2. /\ entries'[s].expires <= entries'[s].due /\ entries'[s].due = entries'[s].absolute
          /\ entries'[s].due > 0 /\ entries'[s].absolute \in Nat
      BY <2>1, <2>3, <2>5, <2>7 DEF TalkInv, TimersSet, Becoming
    <3> QED
      BY <2>6, <3>1, <3>2 DEF TimersSet
  <2>13. Followed'
    <3>1. ASSUME NEW x \in Talk!Live, x # s, Handled(x)
          PROVE  Answering(x)'
      BY <1>1, <2>7, <2>10, <2>11, <3>1, StillAnswering
    <3>2. ASSUME NEW x \in Talk!Live, entries[x].parent # None
          PROVE  stage'[entries[x].parent] \in Begun
      <4>1. entries[x].parent \in Messages /\ stage[entries[x].parent] \in Begun
        BY <3>2, LiveEntry DEF TalkInv, Followed
      <4> QED
        BY <1>4, <2>10, <4>1
    <3>3. Answering(s)'
      <4>1. Answering(s)
        BY <2>1 DEF TalkInv, Followed
      <4>2. /\ entries'[s].input = m /\ entries'[s].parent = entries[s].parent
            /\ entries'[s].owner = entries[s].owner
        BY <2>1, <2>5, <2>7 DEF Becoming
      <4>3. owner[m] = entries[s].owner /\ session[m] = s
        BY <1>3, <2>1
      <4>4. \/ /\ stage'[m] = "open" /\ owner'[m] = owner[m] /\ session'[m] = session[m]
            \/ stage'[m] = "done" /\ proc'[entries[s].owner] # "up"
        BY <1>1, <1>2, <4>3 DEF TalkInv, TalkTypes
      <4> QED
        BY <2>1, <4>1, <4>2, <4>3, <4>4 DEF Answering, Talk!Unsettled
    <3>4. ASSUME NEW x \in Talk!Live
          PROVE  /\ proc'[entries'[x].owner] # "absent"
                 /\ entries'[x].phase = "registered" => entries'[x].parent # None
                 /\ entries'[x].phase = "waiting" => entries'[x].parent = None
                 /\ entries'[x].parent # None => stage'[entries'[x].parent] \in Begun
                 /\ Handled(x)' => Answering(x)'
      <4>1. /\ entries'[x].owner = entries[x].owner /\ entries'[x].phase = entries[x].phase
            /\ entries'[x].parent = entries[x].parent
        BY <2>5, <2>7 DEF Becoming
      <4>2. Handled(x)' => Answering(x)'
        BY <3>1, <3>3, <4>1 DEF Handled
      <4> QED
        BY <1>1, <3>2, <4>1, <4>2 DEF TalkInv, Followed
    <3> QED
      BY <2>6, <3>4 DEF Followed
  <2> QED
    BY <2>6, <2>8, <2>9, <2>12, <2>13 DEF TalkInv
<1> QED
  BY <1>6, <1>7

\* Time passes.
LEMMA TickStep ==
  ASSUME Talk!ConversationAssumption, TalkInv, Talk!Tick PROVE TalkInv'
<1>1. /\ entries' = [s \in Talk!Sessions |-> IF s \in Talk!Live THEN Sinks(entries[s]) ELSE None]
      /\ fired' = [s \in Talk!Sessions |->
           IF s \in Talk!Live /\ entries[s].due = 1 THEN fired[s] + 1 ELSE fired[s]]
      /\ UNCHANGED <<proc, stage, owner, session, asked, routes, owned, parents, watching,
                     registryClosed,
                     issued>>
  BY DEF Talk!Tick, Talk!messageVars, Talk!closeVars, Sinks
<1>2. ASSUME NEW s \in Talk!Live
      PROVE  /\ s \in Talk!Sessions
             /\ Becoming(entries'[s], entries[s], entries[s].phase, entries[s].parent,
                         entries[s].input, Talk!Sooner(entries[s].expires),
                         Talk!Sooner(entries[s].absolute), Talk!Sooner(entries[s].due))
  BY <1>1, LiveEntry, EntryChanges DEF TalkInv
<1>3. ASSUME NEW s \in Talk!Live
      PROVE  /\ entries'[s] \in Talk!Entries
             /\ entries'[s].owner = entries[s].owner /\ entries'[s].route = entries[s].route
             /\ entries'[s].phase = entries[s].phase /\ entries'[s].parent = entries[s].parent
             /\ entries'[s].input = entries[s].input
             /\ entries'[s].expires = Talk!Sooner(entries[s].expires)
             /\ entries'[s].absolute = Talk!Sooner(entries[s].absolute)
             /\ entries'[s].due = Talk!Sooner(entries[s].due)
  BY <1>2 DEF Becoming
<1>4. Talk!Live' = Talk!Live
  BY <1>1, <1>3 DEF Talk!Live, Talk!ConversationAssumption
<1>5. TalkTypes'
  <2>1. entries' \in [Talk!Sessions -> Talk!Entries \cup {None}]
    <3>1. entries' = [s \in Talk!Sessions |-> entries'[s]]
      BY <1>1
    <3>2. \A s \in Talk!Sessions : entries'[s] \in Talk!Entries \cup {None}
      BY <1>1, <1>3
    <3> QED
      BY <3>1, <3>2
  <2>2. fired' \in [Talk!Sessions -> Nat]
    BY <1>1 DEF TalkInv, TalkTypes
  <2> QED
    BY <1>1, <2>1, <2>2 DEF TalkInv, TalkTypes
<1>6. AtProcess'
  BY <1>1 DEF TalkInv, AtProcess
<1>7. Fitting'
  BY <1>3, <1>4, Fewer
<1>8. Indexed'
  <2>1. \A x \in Talk!Live' : routes'[entries'[x].route] = x /\ entries'[x].owner \in watching'
    BY <1>1, <1>3, <1>4 DEF TalkInv, Indexed
  <2>2. \A r \in Talk!Routes :
          routes'[r] # None => routes'[r] \in Talk!Live' /\ entries'[routes'[r]].route = r
    BY <1>1, <1>3, <1>4 DEF TalkInv, Indexed
  <2>3. \A o \in Owners : owned'[o] = {x \in Talk!Live' : entries'[x].owner = o}
    BY <1>1, <1>3, <1>4 DEF TalkInv, Indexed
  <2>4. \A m \in Messages : parents'[m] = {x \in Talk!Live' : entries'[x].parent = m}
    BY <1>1, <1>3, <1>4 DEF TalkInv, Indexed
  <2>5. (\A x \in Talk!Live' : x <= issued') /\ (registryClosed' => Talk!Live' = {})
    BY <1>1, <1>4 DEF TalkInv, Indexed
  <2> QED
    BY <2>1, <2>2, <2>3, <2>4, <2>5 DEF Indexed, Talk!Routes
<1>9. TimersSet'
  <2>1. ASSUME NEW s \in Talk!Live
        PROVE  /\ entries'[s].expires <= entries'[s].due /\ entries'[s].due <= entries'[s].absolute
               /\ entries'[s].due > 0 \/ fired'[s] > 0
               /\ Handled(s)' /\ entries'[s].parent = None /\ stage'[entries'[s].input] = "open" =>
                    entries'[s].due = entries'[s].absolute
    <3>1. /\ entries[s].expires \in Nat /\ entries[s].absolute \in Nat /\ entries[s].due \in Nat
          /\ s \in Talk!Sessions /\ fired[s] \in Nat
      BY LiveEntry DEF TalkInv, TalkTypes
    <3>2. /\ entries[s].expires <= entries[s].due /\ entries[s].due <= entries[s].absolute
          /\ entries[s].due > 0 \/ fired[s] > 0
          /\ Handled(s) /\ entries[s].parent = None /\ stage[entries[s].input] = "open" =>
               entries[s].due = entries[s].absolute
      BY DEF TalkInv, TimersSet
    <3>3. fired'[s] = IF entries[s].due = 1 THEN fired[s] + 1 ELSE fired[s]
      BY <1>1, <3>1
    <3>4. Handled(s)' => Handled(s)
      BY <1>3 DEF Handled
    <3> QED
      BY <1>1, <1>3, <3>1, <3>2, <3>3, <3>4 DEF Talk!Sooner
  <2> QED
    BY <1>4, <2>1 DEF TimersSet
<1>10. Followed'
  <2>1. ASSUME NEW s \in Talk!Live, Handled(s) PROVE Answering(s)'
    <3>1. Answering(s) /\ (entries[s].expires = 0 => entries'[s].expires = 0)
      BY <1>3, <2>1 DEF TalkInv, Followed, Talk!Sooner
    <3> QED
      BY <1>1, <1>3, <3>1 DEF Answering, Talk!Unsettled
  <2> QED
    BY <1>1, <1>3, <1>4, <2>1 DEF TalkInv, Followed, Handled
<1> QED
  BY <1>5, <1>6, <1>7, <1>8, <1>9, <1>10 DEF TalkInv

\* A delivery returns: what waited on it waits for the next message, or ends.
LEMMA CompleteStep ==
  ASSUME Talk!ConversationAssumption, TalkInv, PluginsAwait, NEW m \in Messages,
         Talk!CompleteParent(m)
  PROVE  TalkInv'
<1>1. PICK dropped \in SUBSET Talk!Live :
        /\ Talk!Abandoned(m) \subseteq dropped /\ dropped \subseteq parents[m] \cup Talk!Abandoned(m)
        /\ entries' = [s \in Talk!Sessions |->
                         IF s \in dropped THEN None
                         ELSE IF s \in parents[m] \ dropped THEN Rests(entries[s]) ELSE entries[s]]
        /\ routes' = [r \in Talk!Routes |-> IF routes[r] \in dropped THEN None ELSE routes[r]]
        /\ owned' = [o \in Owners |-> owned[o] \ dropped]
        /\ parents' = [x \in Messages |-> IF x = m THEN {} ELSE parents[x] \ dropped]
  <2> DEFINE ok == stage[m] # "failed" /\ Talk!Alive(owner[m])
             g == (IF ok THEN {} ELSE parents[m]) \cup Talk!Abandoned(m)
  <2>1. g \in SUBSET Talk!Live
    BY DEF TalkInv, Indexed, Talk!Abandoned
  <2> QED
    BY <2>1 DEF Talk!CompleteParent, Rests
<1>2. /\ stage[m] \in {"succeeded", "failed", "detaching"}
      /\ \/ /\ stage[m] = "detaching" /\ stage' = [stage EXCEPT ![m] = "background"]
            /\ UNCHANGED <<owner, session, asked>>
         \/ /\ stage' = [stage EXCEPT ![m] = "done"] /\ owner' = [owner EXCEPT ![m] = None]
            /\ session' = [session EXCEPT ![m] = None] /\ asked' = [asked EXCEPT ![m] = "no"]
      /\ UNCHANGED <<proc, fired, watching, registryClosed, issued>>
  BY DEF Talk!CompleteParent, Talk!closeVars, Talk!Leave, Talk!Goto
<1> DEFINE kept == parents[m] \ dropped
<1>3. /\ kept \subseteq Talk!Live /\ dropped \cap kept = {}
      /\ \A s \in Talk!Live : entries[s].parent = m => s \in dropped \cup kept
      /\ \A s \in kept : entries[s].parent = m
  BY DEF TalkInv, Indexed
<1>4. ASSUME NEW s \in kept
      PROVE  /\ s \in Talk!Live /\ s \notin dropped /\ s \in Talk!Sessions
             /\ Becoming(entries'[s], entries[s], "waiting", None, entries[s].input,
                         entries[s].expires, entries[s].absolute, entries[s].due)
  BY <1>1, <1>3, LiveEntry, EntryChanges DEF TalkInv
<1>5. ASSUME NEW s \in Talk!Sessions, s \notin dropped, s \notin kept PROVE entries'[s] = entries[s]
  BY <1>1, <1>5
<1>6. Talk!Live' = Talk!Live \ dropped
  <2>1. \A s \in kept : entries'[s] # None
    BY <1>4 DEF Becoming, Talk!ConversationAssumption
  <2>2. \A s \in dropped : entries'[s] = None
    BY <1>1 DEF Talk!Live
  <2> QED
    BY <1>3, <1>5, <2>1, <2>2 DEF Talk!Live
<1> HIDE DEF kept
<1>7. ASSUME NEW s \in Talk!Live'
      PROVE  /\ s \in Talk!Live /\ s \notin dropped /\ s \in Talk!Sessions
             /\ entries'[s] \in Talk!Entries /\ entries'[s].owner = entries[s].owner
             /\ entries'[s].route = entries[s].route /\ entries'[s].due = entries[s].due
             /\ entries'[s].expires = entries[s].expires
             /\ entries'[s].absolute = entries[s].absolute
             /\ \/ /\ s \in kept /\ entries'[s].phase = "waiting" /\ entries'[s].parent = None
                \/ s \notin kept /\ entries'[s] = entries[s] /\ entries[s].parent # m
  BY <1>3, <1>4, <1>5, <1>6, LiveEntry DEF Becoming, TalkInv
<1>8. /\ stage' \in [Messages -> Talk!Stages] /\ stage'[m] \in {"background", "done"}
      /\ owner' \in [Messages -> Owners \cup {None}]
      /\ session' \in [Messages -> Talk!Sessions \cup {None}]
      /\ asked' \in [Messages -> {"no", "pending"}]
      /\ \A x \in Messages \ {m} : /\ stage'[x] = stage[x] /\ owner'[x] = owner[x]
                                   /\ session'[x] = session[x]
  BY <1>2 DEF TalkInv, TalkTypes, Talk!Stages
<1>9. TalkTypes'
  <2>1. entries' \in [Talk!Sessions -> Talk!Entries \cup {None}]
    <3>1. entries' = [s \in Talk!Sessions |-> entries'[s]]
      BY <1>1
    <3>2. \A s \in Talk!Sessions : entries'[s] \in Talk!Entries \cup {None}
      BY <1>7 DEF Talk!Live
    <3> QED
      BY <3>1, <3>2
  <2> QED
    BY <1>1, <1>2, <1>8, <2>1 DEF TalkInv, TalkTypes
<1>10. AtProcess'
  BY <1>2 DEF TalkInv, AtProcess, TalkTypes
<1>11. Fitting'
  BY <1>6, <1>7, Fewer
<1>12. Indexed'
  <2>0. /\ \A r \in Talk!Routes : routes'[r] = IF routes[r] \in dropped THEN None ELSE routes[r]
        /\ \A o \in Owners : owned'[o] = owned[o] \ dropped
        /\ \A x \in Messages : parents'[x] = IF x = m THEN {} ELSE parents[x] \ dropped
        /\ watching' = watching
    BY <1>1, <1>2
  <2>1. \A x \in Talk!Live' : routes'[entries'[x].route] = x /\ entries'[x].owner \in watching'
    <3>1. \A x \in Talk!Live : entries[x].route \in Talk!Routes
      BY LiveEntry DEF TalkInv
    <3> QED
      BY <1>7, <2>0, <3>1 DEF TalkInv, Indexed
  <2>2. \A r \in Talk!Routes :
          routes'[r] # None => routes'[r] \in Talk!Live' /\ entries'[routes'[r]].route = r
    BY <1>6, <1>7, <2>0 DEF TalkInv, Indexed
  <2>3. \A o \in Owners : owned'[o] = {x \in Talk!Live' : entries'[x].owner = o}
    BY <1>6, <1>7, <2>0 DEF TalkInv, Indexed
  <2>4. \A x \in Messages : parents'[x] = {s \in Talk!Live' : entries'[s].parent = x}
    <3>1. None \notin Messages
      BY DEF Talk!ConversationAssumption
    <3>2. \A s \in Talk!Live' : entries'[s].parent # m
      BY <1>7, <3>1
    <3>3. ASSUME NEW x \in Messages, x # m
          PROVE  \A s \in Talk!Live' : entries'[s].parent = x <=> entries[s].parent = x
      BY <1>3, <1>7, <3>1, <3>3
    <3>4. \A x \in Messages : parents[x] = {s \in Talk!Live : entries[s].parent = x}
      BY DEF TalkInv, Indexed
    <3>5. ASSUME NEW x \in Messages, x # m
          PROVE  parents'[x] = {s \in Talk!Live' : entries'[s].parent = x}
      <4>1. parents'[x] = parents[x] \ dropped /\ parents[x] = {s \in Talk!Live : entries[s].parent = x}
        BY <2>0, <3>4, <3>5
      <4>2. \A s \in Talk!Live' : entries'[s].parent = x <=> entries[s].parent = x
        BY <3>3, <3>5
      <4> QED
        BY <1>6, <4>1, <4>2
    <3>6. parents'[m] = {s \in Talk!Live' : entries'[s].parent = m}
      BY <2>0, <3>2
    <3> QED
      BY <3>5, <3>6
  <2>5. (\A x \in Talk!Live' : x <= issued') /\ (registryClosed' => Talk!Live' = {})
    BY <1>2, <1>6 DEF TalkInv, Indexed
  <2> QED
    BY <2>1, <2>2, <2>3, <2>4, <2>5 DEF Indexed, Talk!Routes
<1>13. ASSUME NEW s \in Talk!Live', Handled(s)'
       PROVE  /\ Handled(s) /\ entries'[s] = entries[s] /\ entries[s].input \in Messages \ {m}
              /\ Answering(s)
  <2>1. Handled(s) /\ entries'[s] = entries[s] /\ entries[s].parent # m
    BY <1>7, <1>13 DEF Handled
  <2>2. Answering(s)
    BY <1>7, <2>1 DEF TalkInv, Followed
  <2>3. entries[s].input # m
    BY <1>1, <1>2, <1>7, <2>1, <2>2 DEF Answering, Talk!Abandoned, Handled
  <2> QED
    BY <2>1, <2>2, <2>3 DEF Answering
<1>14. TimersSet'
  <2>1. ASSUME NEW s \in Talk!Live'
        PROVE  /\ entries'[s].expires <= entries'[s].due /\ entries'[s].due <= entries'[s].absolute
               /\ entries'[s].due > 0 \/ fired'[s] > 0
               /\ Handled(s)' /\ entries'[s].parent = None /\ stage'[entries'[s].input] = "open" =>
                    entries'[s].due = entries'[s].absolute
    <3>1. s \in Talk!Live
      BY <1>7
    <3> QED
      BY <1>2, <1>7, <1>8, <1>13, <3>1 DEF TalkInv, TimersSet
  <2> QED
    BY <2>1 DEF TimersSet
<1>15. Followed'
  <2>1. ASSUME NEW s \in Talk!Live', Handled(s)' PROVE Answering(s)'
    BY <1>2, <1>8, <1>13, <2>1, StillAnswering
  <2>2. ASSUME NEW s \in Talk!Live', entries'[s].parent # None
        PROVE  stage'[entries'[s].parent] \in Begun
    <3>1. entries'[s].parent \in Messages \ {m} /\ stage[entries'[s].parent] \in Begun
      BY <1>7, <2>2, LiveEntry DEF TalkInv, Followed
    <3> QED
      BY <1>8, <3>1
  <2>3. ASSUME NEW s \in Talk!Live'
        PROVE  /\ proc'[entries'[s].owner] # "absent"
               /\ entries'[s].phase = "registered" => entries'[s].parent # None
               /\ entries'[s].phase = "waiting" => entries'[s].parent = None
    BY <1>2, <1>7 DEF TalkInv, Followed
  <2> QED
    BY <2>1, <2>2, <2>3 DEF Followed
<1> QED
  BY <1>9, <1>10, <1>11, <1>12, <1>14, <1>15 DEF TalkInv

\* While a request waits for its answer its event is in the foreground.
LEMMA Asking ==
  ASSUME TalkInv, PluginsAwait, NEW m \in Messages, asked[m] = "pending", Talk!Running(m)
  PROVE  stage[m] = "open" /\ owner[m] \in Owners /\ proc[owner[m]] # "absent"
  BY DEF TalkInv, AtProcess, Talk!Running

\* A session waits again for the answer to its answer.
LEMMA WaitAgainStep ==
  ASSUME Talk!ConversationAssumption, TalkInv, PluginsAwait, NEW m \in Messages,
         NEW timeout \in Timeouts, Talk!WaitAgain(m, timeout)
  PROVE  TalkInv'
<1>1. PICK s \in Talk!Live :
        /\ s = session[m] /\ entries[s].owner = owner[m] /\ Handled(s) /\ entries[s].input = m
        /\ entries[s].absolute > 0 /\ asked[m] = "pending" /\ Talk!Running(m)
  BY DEF Talk!WaitAgain, Handled
<1>2. /\ entries[s] \in Talk!Entries /\ s \in Talk!Sessions
      /\ entries[s].expires \in Nat /\ entries[s].absolute \in Nat /\ entries[s].due \in Nat
      /\ entries[s].absolute <= MaxLifetime
  BY LiveEntry DEF TalkInv
<1>3. PICK rest \in 0 .. MaxLifetime :
        /\ rest > 0 /\ rest <= entries[s].absolute
        /\ rest = Talk!Minimum(timeout, entries[s].absolute)
  BY <1>1, <1>2 DEF Talk!Minimum, Talk!ConversationAssumption
<1>4. /\ entries' = [entries EXCEPT ![s].expires = rest, ![s].due = rest, ![s].parent = m]
      /\ parents' = [x \in Messages |-> (parents[x] \ {s}) \cup (IF x = m THEN {s} ELSE {})]
  BY <1>1, <1>3, Zenon DEF Talk!WaitAgain
<1>5. /\ asked' = [asked EXCEPT ![m] = "no"]
      /\ UNCHANGED <<proc, stage, owner, session, routes, owned, fired, watching, registryClosed,
                     issued>>
  BY DEF Talk!WaitAgain, Talk!Answered, Talk!closeVars
<1> DEFINE d == Prolongs(entries[s], m, rest)
<1>6. Changes(s, d)
  BY <1>4, SessionChanges DEF TalkInv
<1>7. Becoming(d, entries[s], entries[s].phase, m, entries[s].input, rest, entries[s].absolute, rest)
  BY <1>2, EntryChanges
<1> HIDE DEF d
<1>8. /\ entries'[s] = d /\ \A x \in Talk!Live : x # s => entries'[x] = entries[x]
      /\ d.parent = m
  BY <1>6, <1>7 DEF Changes, Talk!Live, Becoming
<1>9. parents' = [x \in Messages |-> {y \in Talk!Live : entries'[y].parent = x}]
  <2>1. ASSUME NEW x \in Messages
        PROVE  (parents[x] \ {s}) \cup (IF x = m THEN {s} ELSE {}) =
                 {y \in Talk!Live : entries'[y].parent = x}
    <3>1. parents[x] = {y \in Talk!Live : entries[y].parent = x}
      BY DEF TalkInv, Indexed
    <3> QED
      BY <1>8, <3>1
  <2> QED
    BY <1>4, <2>1
<1>10. Talk!Live' = Talk!Live /\ Indexed' /\ Fitting'
  BY <1>5, <1>6, <1>7, <1>9, OneChanges DEF Becoming
<1>11. TalkTypes'
  <2>1. parents' \in [Messages -> SUBSET Talk!Sessions]
    BY <1>9 DEF Talk!Live
  <2>2. asked' \in [Messages -> {"no", "pending"}]
    BY <1>5 DEF TalkInv, TalkTypes
  <2> QED
    BY <1>5, <1>6, <2>1, <2>2 DEF TalkInv, TalkTypes, Changes
<1>12. AtProcess'
  BY <1>5 DEF TalkInv, AtProcess, TalkTypes
<1>13. stage[m] = "open" /\ m # None
  BY <1>1, Asking DEF Talk!ConversationAssumption
<1>14. /\ entries'[s].owner = entries[s].owner /\ entries'[s].phase = "handling"
       /\ entries'[s].parent = m /\ entries'[s].input = m /\ entries'[s].expires = rest
       /\ entries'[s].due = rest /\ entries'[s].absolute = entries[s].absolute
  BY <1>1, <1>7, <1>8 DEF Becoming, Handled
<1>15. TimersSet'
  <2>1. ASSUME NEW x \in Talk!Live
        PROVE  /\ entries'[x].expires <= entries'[x].due /\ entries'[x].due <= entries'[x].absolute
               /\ entries'[x].due > 0 \/ fired'[x] > 0
               /\ Handled(x)' /\ entries'[x].parent = None /\ stage'[entries'[x].input] = "open" =>
                    entries'[x].due = entries'[x].absolute
    <3>1. CASE x = s
      BY <1>3, <1>13, <1>14, <3>1
    <3>2. CASE x # s
      <4>1. entries'[x] = entries[x] /\ fired' = fired /\ stage' = stage
        BY <1>5, <1>8, <3>2
      <4> QED
        BY <4>1 DEF TalkInv, TimersSet, Handled
    <3> QED
      BY <3>1, <3>2
  <2> QED
    BY <1>10, <2>1 DEF TimersSet
<1>16. Followed'
  <2>1. Answering(s)'
    BY <1>1, <1>5, <1>13, <1>14 DEF Answering, Talk!Unsettled
  <2>2. ASSUME NEW x \in Talk!Live, x # s
        PROVE  /\ proc'[entries'[x].owner] # "absent"
               /\ entries'[x].phase = "registered" => entries'[x].parent # None
               /\ entries'[x].phase = "waiting" => entries'[x].parent = None
               /\ entries'[x].parent # None => stage'[entries'[x].parent] \in Begun
               /\ Handled(x)' => Answering(x)'
    <3>1. /\ entries'[x] = entries[x] /\ proc' = proc /\ stage' = stage
          /\ session' = session /\ owner' = owner
      BY <1>5, <1>8, <2>2
    <3>2. Handled(x) => Answering(x)'
      BY <3>1, StillAnswering DEF TalkInv, Followed
    <3> QED
      BY <3>1, <3>2 DEF TalkInv, Followed, Handled
  <2>3. proc'[entries'[s].owner] # "absent" /\ stage'[entries'[s].parent] \in Begun
    BY <1>5, <1>13, <1>14 DEF TalkInv, Followed, Begun
  <2> QED
    BY <1>10, <1>13, <1>14, <2>1, <2>2, <2>3 DEF Followed
<1> QED
  BY <1>10, <1>11, <1>12, <1>15, <1>16 DEF TalkInv

\* One session more than the rest of them is within the limits.
LEMMA OneMore ==
  ASSUME NEW B, NEW s, NEW dropped, IsFiniteSet(B), s \notin B
  PROVE  Cardinality((B \ dropped) \cup {s}) = Cardinality(B \ dropped) + 1
<1>1. IsFiniteSet(B \ dropped)
  BY FS_Difference
<1> QED
  BY <1>1, FS_AddElement

\* The cardinality of what is left of a finite set, a part of it being gone.
LEMMA Without ==
  ASSUME NEW B, NEW dropped, IsFiniteSet(B), dropped \subseteq B
  PROVE  Cardinality(B \ dropped) = Cardinality(B) - Cardinality(dropped)
<1>1. Cardinality(B \ dropped) = Cardinality(B) - Cardinality(B \cap dropped)
  BY FS_Difference
<1>2. B \cap dropped = dropped
  OBVIOUS
<1> QED
  BY <1>1, <1>2

\* These cardinalities are numbers.
LEMMA Counted ==
  ASSUME NEW B, NEW dropped, IsFiniteSet(B), dropped \subseteq B
  PROVE  /\ Cardinality(B) \in Nat /\ Cardinality(dropped) \in Nat
         /\ Cardinality(B \ dropped) \in Nat
<1>1. IsFiniteSet(B \ dropped) /\ IsFiniteSet(dropped)
  BY FS_Difference, FS_Subset
<1> QED
  BY <1>1, FS_CardinalityType

\* A plugin waits for the first time, perhaps in the place of an older session.
LEMMA WaitNewStep ==
  ASSUME Talk!ConversationAssumption, TalkInv, PluginsAwait, NEW m \in Messages,
         NEW s \in Talk!Sessions, NEW scope \in Talk!Scopes, NEW timeout \in Timeouts,
         Talk!WaitNew(m, s, scope, timeout)
  PROVE  TalkInv'
<1> DEFINE rr == Talk!RouteOf(m, scope)
<1>1. PICK o \in Owners, r \in Talk!Routes : o = owner[m] /\ r = rr /\ proc[o] # "absent"
  <2>1. rr \in Talk!Routes
    BY DEF Talk!RouteOf, Talk!Routes
  <2>2. asked[m] = "pending" /\ Talk!Running(m)
    BY DEF Talk!WaitNew
  <2> QED
    BY <2>1, <2>2, Asking
<1> DEFINE e == [phase |-> "registered", owner |-> o, route |-> r, parent |-> m, input |-> None,
                 expires |-> timeout, absolute |-> MaxLifetime, due |-> timeout]
           old == routes[r]
<1>2. PICK dropped : dropped = {old} \ {None}
  OBVIOUS
<1>3. /\ asked[m] = "pending" /\ Talk!Running(m) /\ ~registryClosed /\ s = issued + 1
      /\ old # None => PluginOf[entries[old].owner] = PluginOf[o]
      /\ Talk!Cardinality(Talk!Live \ dropped) < MaxTotal
      /\ Talk!CountOf(PluginOf[o]) - Talk!Cardinality(dropped) < MaxPerPlugin
  BY <1>1, <1>2 DEF Talk!WaitNew
<1>4. /\ entries' = [[x \in Talk!Sessions |-> IF x \in dropped THEN None ELSE entries[x]]
                       EXCEPT ![s] = e]
      /\ routes' = [routes EXCEPT ![r] = s]
      /\ owned' = [x \in Owners |-> (owned[x] \ dropped) \cup (IF x = o THEN {s} ELSE {})]
      /\ parents' = [x \in Messages |-> (parents[x] \ dropped) \cup (IF x = m THEN {s} ELSE {})]
      /\ watching' = watching \cup {o} /\ issued' = s
      /\ asked' = [asked EXCEPT ![m] = "no"]
      /\ UNCHANGED <<proc, stage, owner, session, fired, registryClosed>>
  BY <1>1, <1>2 DEF Talk!WaitNew, Talk!Answered, Talk!closeVars
<1>5. e \in Talk!Entries /\ e # None
  BY DEF Talk!Entries, Talk!Phases, Talk!ConversationAssumption
<1>6. /\ e.phase = "registered" /\ e.owner = o /\ e.route = r /\ e.parent = m
      /\ e.expires = timeout /\ e.due = timeout /\ e.absolute = MaxLifetime
  OBVIOUS
<1> HIDE DEF rr, e
<1>7. timeout \in Nat /\ timeout > 0 /\ timeout <= MaxLifetime /\ MaxLifetime \in Nat
  BY DEF Talk!ConversationAssumption
<1>8. s \notin Talk!Live /\ dropped \subseteq Talk!Live /\ issued \in Nat
  BY <1>2, <1>3 DEF TalkInv, Indexed, TalkTypes
<1>9. /\ entries'[s] = e /\ \A x \in Talk!Sessions \ {s} :
                              entries'[x] = IF x \in dropped THEN None ELSE entries[x]
      /\ entries' = [x \in Talk!Sessions |-> entries'[x]]
  BY <1>4
<1>10. Talk!Live' = (Talk!Live \ dropped) \cup {s}
  BY <1>5, <1>8, <1>9 DEF Talk!Live
<1>11. ASSUME NEW x \in Talk!Live'
       PROVE  /\ x \in Talk!Sessions
              /\ x # s => x \in Talk!Live /\ x \notin dropped /\ entries'[x] = entries[x]
  BY <1>8, <1>9, <1>10 DEF Talk!Live
<1>12. TalkTypes'
  <2>1. entries' \in [Talk!Sessions -> Talk!Entries \cup {None}]
    <3>1. \A x \in Talk!Sessions : entries'[x] \in Talk!Entries \cup {None}
      BY <1>5, <1>9 DEF TalkInv, TalkTypes
    <3> QED
      BY <1>9, <3>1
  <2>2. routes' \in [Talk!Routes -> Talk!Sessions \cup {None}]
    BY <1>4 DEF TalkInv, TalkTypes
  <2>3. /\ owned' \in [Owners -> SUBSET Talk!Sessions]
        /\ parents' \in [Messages -> SUBSET Talk!Sessions]
    BY <1>4 DEF TalkInv, TalkTypes
  <2>4. asked' \in [Messages -> {"no", "pending"}] /\ issued' \in Nat
    BY <1>3, <1>4, <1>8 DEF TalkInv, TalkTypes
  <2> QED
    BY <1>4, <2>1, <2>2, <2>3, <2>4 DEF TalkInv, TalkTypes
<1>13. AtProcess'
  BY <1>4 DEF TalkInv, AtProcess, TalkTypes
<1>14. stage[m] = "open" /\ m # None
  BY <1>3, Asking DEF Talk!ConversationAssumption
<1>15. \A x \in dropped : x = old /\ old # None
  BY <1>2
<1>16. Indexed'
  <2>1. ASSUME NEW x \in Talk!Live'
        PROVE  routes'[entries'[x].route] = x /\ entries'[x].owner \in watching'
    <3>1. CASE x = s
      BY <1>4, <1>6, <1>9, <3>1 DEF TalkInv, TalkTypes
    <3>2. CASE x # s
      <4>1. /\ x \in Talk!Live /\ entries'[x] = entries[x] /\ x \notin dropped
            /\ routes[entries[x].route] = x /\ entries[x].owner \in watching
            /\ entries[x].route \in Talk!Routes /\ x # None
        BY <1>11, <2>1, <3>2, LiveEntry DEF TalkInv, Indexed, Talk!ConversationAssumption
      <4>2. entries[x].route # r
        BY <1>2, <4>1
      <4> QED
        BY <1>4, <4>1, <4>2 DEF TalkInv, TalkTypes
    <3> QED
      BY <3>1, <3>2
  <2>2. ASSUME NEW q \in Talk!Routes, routes'[q] # None
        PROVE  routes'[q] \in Talk!Live' /\ entries'[routes'[q]].route = q
    <3>1. CASE q = r
      BY <1>4, <1>6, <1>9, <1>10, <3>1 DEF TalkInv, TalkTypes
    <3>2. CASE q # r
      <4>1. /\ routes'[q] = routes[q] /\ routes[q] \in Talk!Live
            /\ entries[routes[q]].route = q
        BY <1>4, <2>2, <3>2 DEF TalkInv, TalkTypes, Indexed
      <4>2. routes[q] \notin dropped
        BY <1>15, <3>2, <4>1 DEF TalkInv, Indexed
      <4> QED
        BY <1>8, <1>9, <1>10, <4>1, <4>2 DEF Talk!Live
    <3> QED
      BY <3>1, <3>2
  <2>3. ASSUME NEW x \in Owners PROVE owned'[x] = {y \in Talk!Live' : entries'[y].owner = x}
    <3>1. owned'[x] = (owned[x] \ dropped) \cup (IF x = o THEN {s} ELSE {})
      BY <1>4
    <3>2. owned[x] = {y \in Talk!Live : entries[y].owner = x}
      BY DEF TalkInv, Indexed
    <3>3. \A y \in Talk!Live \ dropped : entries'[y] = entries[y]
      BY <1>8, <1>9 DEF Talk!Live
    <3> QED
      BY <1>6, <1>8, <1>9, <1>10, <3>1, <3>2, <3>3
  <2>4. ASSUME NEW x \in Messages PROVE parents'[x] = {y \in Talk!Live' : entries'[y].parent = x}
    <3>1. parents'[x] = (parents[x] \ dropped) \cup (IF x = m THEN {s} ELSE {})
      BY <1>4
    <3>2. parents[x] = {y \in Talk!Live : entries[y].parent = x}
      BY DEF TalkInv, Indexed
    <3>3. \A y \in Talk!Live \ dropped : entries'[y] = entries[y]
      BY <1>8, <1>9 DEF Talk!Live
    <3> QED
      BY <1>6, <1>8, <1>9, <1>10, <3>1, <3>2, <3>3
  <2>5. (\A x \in Talk!Live' : x <= issued') /\ (registryClosed' => Talk!Live' = {})
    <3>1. \A x \in Talk!Live : x \in Nat /\ x <= issued
      BY LiveEntry DEF TalkInv, Indexed
    <3> QED
      BY <1>3, <1>4, <1>8, <1>10, <3>1
  <2> QED
    BY <2>1, <2>2, <2>3, <2>4, <2>5 DEF Indexed, Talk!Routes
<1>17. Fitting'
  <2>1. IsFiniteSet(dropped) /\ MaxTotal \in Nat /\ MaxPerPlugin \in Nat
    BY <1>8, TalksFinite, FS_Subset DEF Talk!ConversationAssumption
  <2>2. Talk!Cardinality(Talk!Live') <= MaxTotal
    <3>1. Cardinality(Talk!Live \ dropped) < MaxTotal
      BY <1>3, TalkCardinality
    <3>2. /\ Cardinality(Talk!Live') = Cardinality(Talk!Live \ dropped) + 1
          /\ Cardinality(Talk!Live \ dropped) \in Nat
      <4>1. IsFiniteSet(Talk!Live)
        BY TalksFinite
      <4>2. Cardinality((Talk!Live \ dropped) \cup {s}) = Cardinality(Talk!Live \ dropped) + 1
        BY <1>8, <4>1, OneMore
      <4>3. Cardinality(Talk!Live \ dropped) \in Nat
        BY <1>8, <4>1, Counted
      <4> QED
        BY <1>10, <4>2, <4>3
    <3> QED
      BY <2>1, <3>1, <3>2, TalkCardinality
  <2>3. ASSUME NEW p \in Talk!Plugins PROVE Talk!CountOf(p)' <= MaxPerPlugin
    <3> DEFINE B == {x \in Talk!Live : PluginOf[entries[x].owner] = p}
               A == {x \in Talk!Live' : PluginOf[entries'[x].owner] = p}
    <3>1. /\ Talk!CountOf(p)' = Cardinality(A) /\ Talk!CountOf(p) = Cardinality(B)
          /\ IsFiniteSet(B) /\ Cardinality(B) <= MaxPerPlugin /\ s \notin B
      <4>1. Talk!CountOf(p)' = Cardinality(A) /\ Talk!CountOf(p) = Cardinality(B)
        BY TalkCardinality DEF Talk!CountOf
      <4>2. Talk!CountOf(p) <= MaxPerPlugin
        BY DEF TalkInv, Fitting
      <4> QED
        BY <1>8, <4>1, <4>2, TalksFinite
    <3>2. CASE p = PluginOf[o]
      <4>1. dropped \subseteq B
        BY <1>3, <1>8, <1>15, <3>2
      <4>2. A = (B \ dropped) \cup {s}
        BY <1>6, <1>8, <1>9, <1>10, <1>11, <3>2
      <4>3. Cardinality(B) - Cardinality(dropped) < MaxPerPlugin
        BY <1>3, <3>1, <3>2, TalkCardinality
      <4> HIDE DEF A, B
      <4>4. Cardinality((B \ dropped) \cup {s}) = Cardinality(B \ dropped) + 1
        BY <3>1, OneMore
      <4>5. Cardinality(B \ dropped) = Cardinality(B) - Cardinality(dropped)
        BY <3>1, <4>1, Without
      <4>6. Cardinality(B) \in Nat /\ Cardinality(dropped) \in Nat
        BY <3>1, <4>1, Counted
      <4>7. Cardinality(A) = Cardinality(B) - Cardinality(dropped) + 1
        BY <4>2, <4>4, <4>5
      <4> QED
        BY <2>1, <3>1, <4>3, <4>6, <4>7
    <3>3. CASE p # PluginOf[o]
      <4>1. A \subseteq B
        BY <1>6, <1>9, <1>11, <3>3
      <4>2. Cardinality(A) <= Cardinality(B) /\ Cardinality(A) \in Nat /\ Cardinality(B) \in Nat
        <5> HIDE DEF A, B
        <5> QED
          BY <3>1, <4>1, FS_Subset, FS_CardinalityType
      <4> HIDE DEF A, B
      <4> QED
        BY <2>1, <3>1, <4>2
    <3> QED
      BY <3>2, <3>3
  <2>4. Talk!Cardinality(Talk!Live)' <= MaxTotal
    BY <2>2, TalkCardinality
  <2>5. \A p \in Talk!Plugins' : Talk!CountOf(p)' <= MaxPerPlugin
    BY <2>3 DEF Talk!Plugins
  <2> QED
    BY <2>4, <2>5 DEF Fitting
<1>18. TimersSet'
  <2>1. ASSUME NEW x \in Talk!Live'
        PROVE  /\ entries'[x].expires <= entries'[x].due /\ entries'[x].due <= entries'[x].absolute
               /\ entries'[x].due > 0 \/ fired'[x] > 0
               /\ Handled(x)' /\ entries'[x].parent = None /\ stage'[entries'[x].input] = "open" =>
                    entries'[x].due = entries'[x].absolute
    <3>1. CASE x = s
      BY <1>6, <1>7, <1>9, <1>14, <3>1
    <3>2. CASE x # s
      <4>1. x \in Talk!Live /\ entries'[x] = entries[x] /\ fired' = fired /\ stage' = stage
        BY <1>4, <1>11, <2>1, <3>2
      <4> QED
        BY <4>1 DEF TalkInv, TimersSet, Handled
    <3> QED
      BY <3>1, <3>2
  <2> QED
    BY <2>1 DEF TimersSet
<1>19. Followed'
  <2>1. ASSUME NEW x \in Talk!Live', x # s
        PROVE  /\ proc'[entries'[x].owner] # "absent"
               /\ entries'[x].phase = "registered" => entries'[x].parent # None
               /\ entries'[x].phase = "waiting" => entries'[x].parent = None
               /\ entries'[x].parent # None => stage'[entries'[x].parent] \in Begun
               /\ Handled(x)' => Answering(x)'
    <3>1. /\ x \in Talk!Live /\ entries'[x] = entries[x] /\ proc' = proc /\ stage' = stage
          /\ session' = session /\ owner' = owner
      BY <1>4, <1>11, <2>1
    <3>2. Handled(x) => Answering(x)'
      BY <3>1, StillAnswering DEF TalkInv, Followed
    <3> QED
      BY <3>1, <3>2 DEF TalkInv, Followed, Handled
  <2>2. /\ proc'[entries'[s].owner] # "absent" /\ entries'[s].phase = "registered"
        /\ entries'[s].parent = m /\ stage'[m] \in Begun
    BY <1>1, <1>4, <1>6, <1>9, <1>14 DEF Begun
  <2> QED
    BY <1>14, <2>1, <2>2 DEF Followed, Handled
<1> QED
  BY <1>12, <1>13, <1>16, <1>17, <1>18, <1>19 DEF TalkInv

\* Every step keeps the invariant.
LEMMA TalkStep ==
  ASSUME Talk!ConversationAssumption, TalkInv, PluginsAwait, [Talk!Next]_Talk!vars
  PROVE  TalkInv'
<1>1. ASSUME NEW m \in Messages, Talk!Intake(m) \/ Talk!Deliver(m) PROVE TalkInv'
  BY <1>1, IntakeStep, RouteStep, BeginStep DEF Talk!Intake, Talk!Deliver
<1>2. ASSUME NEW m \in Messages, Talk!Act(m) PROVE TalkInv'
  BY <1>2, DeliveryStep, WaitNewStep, WaitAgainStep, EndingStep DEF Talk!Act
<1>3. ASSUME NEW m \in Messages, Talk!CompleteParent(m) PROVE TalkInv'
  BY <1>3, CompleteStep
<1>4. CASE \/ \E s \in Talk!Sessions : Talk!Expire(s)
           \/ \E o \in Owners : Talk!CloseOwner(o) \/ Talk!Unwatch(o)
           \/ Talk!Close \/ Talk!CloseReturn
  BY <1>4, EndingStep
<1>5. ASSUME NEW o \in Owners, Talk!StartProcess(o) \/ Talk!StopProcess(o) \/ Talk!Die(o)
      PROVE  TalkInv'
  BY <1>5, ProcessStep
<1>6. CASE Talk!Tick
  BY <1>6, TickStep
<1>7. CASE UNCHANGED Talk!vars
  <2>1. /\ RegistrySame
        /\ UNCHANGED <<proc, stage, owner, session, asked, fired, watching, registryClosed,
                       issued>>
    BY <1>7 DEF Talk!vars, RegistrySame
  <2>2. /\ Talk!Live' = Talk!Live /\ Indexed' /\ Fitting'
        /\ UNCHANGED <<entries, routes, owned, parents>>
    BY <2>1, RegistryStays DEF RegistrySame
  <2> QED
    BY <2>1, <2>2 DEF TalkInv, TalkTypes, AtProcess, TimersSet, Followed, Answering, Handled,
                      Talk!Unsettled
<1> QED
  BY <1>1, <1>2, <1>3, <1>4, <1>5, <1>6, <1>7 DEF Talk!Next

\* However messages are matched, routed, delivered, answered and detached while sessions expire and
\* processes stop, die and start again: the indexes of the registry agree with its sessions, the
\* limits hold, and a session is never left with nobody to end it, for any number of messages,
\* processes and sessions, when plugins await the answer of session.wait before they detach.
THEOREM SessionsStayAttended ==
  ASSUME Talk!ConversationAssumption, PluginsAwait
  PROVE  Talk!Spec => []SessionsAttended
<1>1. Talk!Init => TalkInv
  BY TalkStart
<1>2. TalkInv /\ [Talk!Next]_Talk!vars => TalkInv'
  BY TalkStep
<1>3. TalkInv => SessionsAttended
  BY TalkSound DEF SessionsAttended
<1> QED
  BY <1>1, <1>2, <1>3, PTL DEF Talk!Spec

\* The callbacks of a timer are fewer only by the one that runs.
LEMMA TimerInTime ==
  ASSUME Talk!ConversationAssumption, TalkInv, [Talk!Next]_Talk!vars
  PROVE  Talk!ExpiredInTimeStep
<1> SUFFICES ASSUME NEW s \in Talk!Live, s \notin Talk!Live', fired'[s] < fired[s]
             PROVE  /\ entries[s].expires = 0
                    /\ /\ entries[s].phase = "handling" /\ stage[entries[s].input] = "open"
                       /\ entries[s].parent = None
                       => entries[s].absolute = 0
  BY DEF Talk!ExpiredInTimeStep
<1>1. /\ s \in Talk!Sessions /\ fired \in [Talk!Sessions -> Nat]
      /\ entries[s].expires \in Nat /\ entries[s].due \in Nat
  BY LiveEntry DEF TalkInv, TalkTypes
<1>2. fired' # fired
  BY <1>1
<1>3. ~Talk!Tick
  <2>1. SUFFICES ASSUME Talk!Tick PROVE FALSE
    OBVIOUS
  <2>2. fired'[s] = IF entries[s].due = 1 THEN fired[s] + 1 ELSE fired[s]
    BY <1>1, <2>1 DEF Talk!Tick
  <2> QED
    BY <1>1, <2>2
<1>4. ASSUME NEW m \in Messages, Talk!Intake(m) \/ Talk!Deliver(m) PROVE FALSE
  BY <1>2, <1>4 DEF Talk!Intake, Talk!Deliver, Talk!Match, Talk!Consume, Talk!Route, Talk!Dispatch,
       Talk!Begin, Talk!BeginRefused, Talk!BeginInput, Talk!Skip, Talk!registryVars
<1>5. ASSUME NEW m \in Messages, Talk!Act(m) \/ Talk!CompleteParent(m) PROVE FALSE
  BY <1>2, <1>5 DEF Talk!Act, Talk!CompleteParent, Talk!AskWait, Talk!WaitNew, Talk!WaitAgain,
       Talk!WaitRefused, Talk!Finish, Talk!Remove, Talk!Succeed, Talk!Fail, Talk!Detach,
       Talk!EndBackground, Talk!registryVars
<1>6. ASSUME NEW o \in Owners,
             \/ Talk!CloseOwner(o) \/ Talk!Unwatch(o) \/ Talk!StartProcess(o)
             \/ Talk!StopProcess(o) \/ Talk!Die(o)
      PROVE  FALSE
  BY <1>2, <1>6 DEF Talk!CloseOwner, Talk!Unwatch, Talk!StartProcess, Talk!StopProcess, Talk!Die,
       Talk!Remove, Talk!registryVars
<1>7. ~(Talk!Close \/ Talk!CloseReturn \/ UNCHANGED Talk!vars)
  BY <1>2 DEF Talk!Close, Talk!CloseReturn, Talk!Remove, Talk!registryVars, Talk!vars
<1>8. PICK x \in Talk!Sessions : Talk!Expire(x)
  BY <1>3, <1>4, <1>5, <1>6, <1>7 DEF Talk!Next
<1>9. x = s
  BY <1>1, <1>8 DEF Talk!Expire
<1>10. entries[s].due = 0
  BY <1>8, <1>9 DEF Talk!Expire, Talk!Live
<1> QED
  BY <1>1, <1>10 DEF TalkInv, TimersSet, Handled

\* A timer ends a session only when its time has come, and the session whose answer is being handled
\* only at its absolute lifetime, whatever was extended, answered or re-armed after the timer fired;
\* under the hypothesis that plugins await the answer of session.wait before they detach the event.
THEOREM SessionsExpireInTime ==
  ASSUME Talk!ConversationAssumption, PluginsAwait
  PROVE  Talk!Spec => ExpiredInTime
<1>1. Talk!Init => TalkInv
  BY TalkStart
<1>2. TalkInv /\ [Talk!Next]_Talk!vars => TalkInv'
  BY TalkStep
<1>3. TalkInv /\ [Talk!Next]_Talk!vars => [Talk!ExpiredInTimeStep]_talkVars
  BY TimerInTime DEF Talk!vars, talkVars
<1> QED
  BY <1>1, <1>2, <1>3, PTL DEF Talk!Spec, ExpiredInTime

------------------------------------------------------------------------------
\* The window of a rate limiter: callers are admitted in the order they came.

\* A set of numbers has a least one: they are well-founded.
LEMMA Least ==
  ASSUME NEW N, N \subseteq Nat, N # {} PROVE \E i \in N : \A j \in N : i <= j
<1>1. \A i, j \in Nat : i < j => <<i, j>> \in OpToRel(<, Nat)
  BY Zenon DEF OpToRel
<1>2. \E i \in N : \A j \in N : ~ (<<j, i>> \in OpToRel(<, Nat))
  BY WFMin, NatLessThanWellFounded, Zenon
<1>3. \E i \in N : \A j \in N : ~(j < i)
  BY <1>1, <1>2, Zenon
<1> QED
  BY ONLY <1>3, N \subseteq Nat

\* The index a loop over a sequence finds first.
LEMMA FirstIndex ==
  ASSUME NEW N, N \subseteq Nat, N # {}
  PROVE  Window!Min(N) \in N /\ \A j \in N : Window!Min(N) <= j
  BY Least DEF Window!Min

\* All but the first k of a sequence.
Tailed(t, r, k) ==
  /\ k \in 0 .. Len(t) /\ r \in Seq(Nat) /\ Len(r) = Len(t) - k
  /\ \A i \in 1 .. Len(r) : r[i] = t[k + i]

\* Pruning drops the expired records up to the first that counts.
LEMMA Pruned ==
  ASSUME NEW t \in Seq(Nat), NEW w \in Nat
  PROVE  \E k \in 0 .. Len(t) :
           /\ Tailed(t, Window!Within(t, w), k)
           /\ \A i \in 1 .. k : t[i] > w
           /\ k < Len(t) => t[k + 1] <= w
<1> DEFINE N == {i \in 1 .. Len(t) : t[i] <= w}
           f == Window!Min(N)
<1>1. Window!Within(t, w) = IF N = {} THEN <<>> ELSE SubSeq(t, f, Len(t))
  <2>1. Window!SelectInSeq(t, LAMBDA age : age <= w) = IF N # {} THEN f ELSE 0
    BY Zenon DEF Window!SelectInSeq
  <2>2. N # {} => f # 0
    <3>1. N \subseteq Nat /\ 0 \notin N
      OBVIOUS
    <3> HIDE DEF N
    <3> QED
      BY <3>1, FirstIndex
  <2> QED
    BY <2>1, <2>2, Zenon DEF Window!Within
<1>2. CASE N = {}
  <2>1. Tailed(t, <<>>, Len(t))
    BY DEF Tailed
  <2>2. \A i \in 1 .. Len(t) : t[i] \in Nat /\ ~(t[i] <= w)
    BY <1>2
  <2> QED
    BY <1>1, <1>2, <2>1, <2>2
<1>3. CASE N # {}
  <2>1. f \in N /\ \A j \in N : f <= j
    <3>1. N \subseteq Nat
      OBVIOUS
    <3> HIDE DEF N
    <3> QED
      BY <1>3, <3>1, FirstIndex
  <2> HIDE DEF f
  <2>2. f \in 1 .. Len(t) /\ t[f] <= w
    BY <2>1
  <2>3. \A i \in 1 .. f - 1 : t[i] > w
    BY <2>1
  <2>4. Tailed(t, SubSeq(t, f, Len(t)), f - 1)
    BY <2>2 DEF Tailed
  <2>5. Window!Within(t, w) = SubSeq(t, f, Len(t)) /\ f - 1 \in 0 .. Len(t) /\ t[f - 1 + 1] = t[f]
    BY <1>1, <1>3, <2>2
  <2> QED
    BY <2>2, <2>3, <2>4, <2>5
<1> QED
  BY <1>2, <1>3

\* The elements of two sequences put together.
LEMMA Joined ==
  ASSUME NEW S, NEW one \in Seq(S), NEW two \in Seq(S)
  PROVE  /\ one \o two \in Seq(S) /\ Len(one \o two) = Len(one) + Len(two)
         /\ \A j \in 1 .. Len(one \o two) :
              (one \o two)[j] = IF j <= Len(one) THEN one[j] ELSE two[j - Len(one)]
  OBVIOUS

\* The sequence without the first occurrence of one of its elements.
LEMMA Leaves ==
  ASSUME NEW S, NEW t \in Seq(S), NEW i \in DOMAIN t,
         \A j \in DOMAIN t : t[j] = t[i] => j = i
  PROVE  LET r == Window!RemoveFirst(t, t[i]) IN
         /\ r \in Seq(S) /\ Len(r) = Len(t) - 1
         /\ \A j \in 1 .. Len(r) : r[j] = IF j < i THEN t[j] ELSE t[j + 1]
<1>1. {j \in 1 .. Len(t) : t[j] = t[i]} = {i}
  OBVIOUS
<1>2. Window!Min({i}) = i
  BY DEF Window!Min
<1>3. Window!SelectInSeq(t, LAMBDA v : v = t[i]) = i
  BY <1>1, <1>2, Zenon DEF Window!SelectInSeq
<1>4. Window!RemoveFirst(t, t[i]) = SubSeq(t, 1, i - 1) \o SubSeq(t, i + 1, Len(t))
  <2>1. \E j \in 1 .. Len(t) : t[j] = t[i]
    OBVIOUS
  <2> QED
    BY <1>3, <2>1, Zenon DEF Window!RemoveFirst, Window!RemoveAt
<1> DEFINE one == SubSeq(t, 1, i - 1)
           two == SubSeq(t, i + 1, Len(t))
<1>5. /\ one \in Seq(S) /\ Len(one) = i - 1 /\ \A j \in 1 .. i - 1 : one[j] = t[j]
      /\ two \in Seq(S) /\ Len(two) = Len(t) - i /\ \A j \in 1 .. Len(two) : two[j] = t[i + j]
      /\ i \in 1 .. Len(t) /\ Len(t) \in Nat
  OBVIOUS
<1> HIDE DEF one, two
<1>6. /\ one \o two \in Seq(S) /\ Len(one \o two) = Len(t) - 1
      /\ \A j \in 1 .. Len(one \o two) : (one \o two)[j] = IF j < i THEN t[j] ELSE t[j + 1]
  <2>1. /\ one \o two \in Seq(S) /\ Len(one \o two) = Len(t) - 1
        /\ \A j \in 1 .. Len(one \o two) :
             (one \o two)[j] = IF j <= i - 1 THEN one[j] ELSE two[j - (i - 1)]
    BY <1>5, Joined
  <2> DEFINE r == one \o two
  <2> HIDE DEF r
  <2>2. \A j \in 1 .. Len(r) : r[j] = IF j < i THEN t[j] ELSE t[j + 1]
    <3> SUFFICES ASSUME NEW j \in 1 .. Len(r) PROVE r[j] = IF j < i THEN t[j] ELSE t[j + 1]
      OBVIOUS
    <3>1. j < i => r[j] = one[j]
      BY <1>5, <2>1 DEF r
    <3>2. ~(j < i) => r[j] = two[j - (i - 1)] /\ j - (i - 1) \in 1 .. Len(two)
      BY <1>5, <2>1 DEF r
    <3>3. CASE j < i
      <4>1. j \in 1 .. i - 1
        BY <1>5, <2>1, <3>3 DEF r
      <4>2. one[j] = t[j]
        BY <1>5, <4>1
      <4> QED
        BY <3>1, <3>3, <4>2
    <3>4. CASE ~(j < i)
      <4>1. two[j - (i - 1)] = t[i + (j - (i - 1))] /\ i + (j - (i - 1)) = j + 1
        <5>1. two[j - (i - 1)] = t[i + (j - (i - 1))]
          BY <1>5, <3>2, <3>4
        <5>2. j \in Int /\ i \in Int
          BY <1>5, <2>1 DEF r
        <5> QED
          BY <5>1, <5>2
      <4> QED
        BY ONLY <3>2, <3>4, <4>1
    <3> QED
      BY ONLY <3>3, <3>4
  <2> QED
    BY <2>1, <2>2 DEF r
<1> QED
  BY <1>4, <1>6, Zenon DEF one, two
\* The admissions that count are the last ones of the records, the oldest
\* of which is first.
Recorded(t, u) ==
  /\ t \in Seq(Nat) /\ \A i, j \in 1 .. Len(t) : i < j => t[i] >= t[j]
  /\ \E k \in 0 .. Len(t) : Tailed(t, u, k)
Counting(u, w) == \A i \in 1 .. Len(u) : u[i] <= w

\* Of a shorter window fewer count.
LEMMA CountFewer ==
  ASSUME NEW t, NEW u, NEW w \in Nat, Recorded(t, u)
  PROVE  Recorded(t, Window!Within(u, w)) /\ Counting(Window!Within(u, w), w)
<1>1. PICK k \in 0 .. Len(t) : Tailed(t, u, k)
  BY DEF Recorded
<1>2. t \in Seq(Nat) /\ u \in Seq(Nat) /\ Len(u) \in Nat /\ Len(t) \in Nat
  BY <1>1 DEF Recorded, Tailed
<1>3. \A i, j \in 1 .. Len(u) : i < j => u[i] >= u[j]
  <2> SUFFICES ASSUME NEW i \in 1 .. Len(u), NEW j \in 1 .. Len(u), i < j PROVE u[i] >= u[j]
    OBVIOUS
  <2>1. k + i \in 1 .. Len(t) /\ k + j \in 1 .. Len(t) /\ k + i < k + j
    <3>1. /\ k \in 0 .. Len(t) /\ Len(u) = Len(t) - k /\ Len(t) \in Nat
          /\ i \in 1 .. Len(u) /\ j \in 1 .. Len(u) /\ i < j
      BY <1>1, <1>2 DEF Tailed
    <3> QED
      BY ONLY <3>1
  <2> QED
    BY <1>1, <2>1 DEF Recorded, Tailed
<1> DEFINE r == Window!Within(u, w)
<1>4. PICK m \in 0 .. Len(u) : Tailed(u, r, m) /\ (m < Len(u) => u[m + 1] <= w)
  BY <1>2, Pruned
<1> HIDE DEF r
<1>5. Tailed(t, r, k + m)
  <2>1. /\ k \in Nat /\ m \in Nat /\ r \in Seq(Nat) /\ Len(r) \in Nat /\ Len(r) = Len(u) - m
        /\ Len(u) = Len(t) - k /\ k <= Len(t) /\ m <= Len(u)
    BY <1>1, <1>2, <1>4 DEF Tailed
  <2>2. ASSUME NEW i \in 1 .. Len(r) PROVE r[i] = t[k + m + i]
    <3>1. r[i] = u[m + i] /\ m + i \in 1 .. Len(u)
      BY <1>4, <2>1 DEF Tailed
    <3>2. u[m + i] = t[k + (m + i)] /\ k + (m + i) = k + m + i
      BY <1>1, <2>1, <3>1 DEF Tailed
    <3> QED
      BY <3>1, <3>2
  <2> QED
    BY <1>2, <2>1, <2>2 DEF Tailed
<1>6. Counting(r, w)
  <2> SUFFICES ASSUME NEW i \in 1 .. Len(r) PROVE r[i] <= w
    BY DEF Counting
  <2>0. m \in Nat /\ r \in Seq(Nat) /\ Len(r) \in Nat /\ Len(r) = Len(u) - m
    BY <1>2, <1>4 DEF Tailed
  <2>1. /\ r[i] = u[m + i] /\ m + i \in 1 .. Len(u) /\ m + 1 \in 1 .. Len(u) /\ u[m + 1] <= w
        /\ r[i] \in Nat /\ u[m + 1] \in Nat
    <3>1. m + i \in 1 .. Len(u) /\ m + 1 \in 1 .. Len(u) /\ m < Len(u)
      BY <1>2, <2>0
    <3>2. r[i] = u[m + i] /\ u[m + 1] <= w
      BY <1>4, <3>1 DEF Tailed
    <3>3. \A n \in 1 .. Len(u) : u[n] \in Nat
      BY <1>2
    <3> QED
      BY <3>1, <3>2, <3>3
  <2>2. m + 1 < m + i => u[m + 1] >= u[m + i]
    BY <1>3, <2>1
  <2> QED
    BY <2>1, <2>2
<1>7. k + m \in 0 .. Len(t)
  BY <1>5 DEF Tailed
<1> QED
  BY <1>5, <1>6, <1>7 DEF Recorded, r

\* Pruning the records leaves those that count.
LEMMA PruneKeeps ==
  ASSUME NEW t, NEW u, NEW w \in Nat, Recorded(t, u), Counting(u, w)
  PROVE  Recorded(Window!Within(t, w), u)
<1>1. PICK k \in 0 .. Len(t) : Tailed(t, u, k)
  BY DEF Recorded
<1>2. t \in Seq(Nat) /\ u \in Seq(Nat) /\ Len(u) \in Nat /\ Len(t) \in Nat
  BY <1>1 DEF Recorded, Tailed
<1> DEFINE r == Window!Within(t, w)
<1>3. PICK m \in 0 .. Len(t) : Tailed(t, r, m) /\ \A i \in 1 .. m : t[i] > w
  BY <1>2, Pruned
<1> HIDE DEF r
<1>4. m <= k
  <2> SUFFICES ASSUME k < m PROVE FALSE
    OBVIOUS
  <2>1. 1 \in 1 .. Len(u) /\ u[1] = t[k + 1] /\ t[k + 1] > w
    BY <1>1, <1>2, <1>3 DEF Tailed
  <2> QED
    BY <1>2, <2>1 DEF Counting
<1>5. Tailed(r, u, k - m)
  <2>1. /\ k \in Nat /\ m \in Nat /\ r \in Seq(Nat) /\ Len(r) \in Nat /\ Len(r) = Len(t) - m
        /\ Len(u) = Len(t) - k /\ k <= Len(t) /\ m <= k
    BY <1>1, <1>2, <1>3, <1>4 DEF Tailed
  <2>2. ASSUME NEW i \in 1 .. Len(u) PROVE u[i] = r[k - m + i]
    <3>1. u[i] = t[k + i] /\ k - m + i \in 1 .. Len(r) /\ m + (k - m + i) = k + i
      BY <1>1, <2>1 DEF Tailed
    <3>2. r[k - m + i] = t[m + (k - m + i)]
      BY <1>3, <3>1 DEF Tailed
    <3> QED
      BY <3>1, <3>2
  <2> QED
    BY <1>2, <2>1, <2>2 DEF Tailed
<1>6. r \in Seq(Nat) /\ k - m \in 0 .. Len(r)
  BY <1>3, <1>5 DEF Tailed
<1>7. \A i, j \in 1 .. Len(r) : i < j => r[i] >= r[j]
  <2> SUFFICES ASSUME NEW i \in 1 .. Len(r), NEW j \in 1 .. Len(r), i < j PROVE r[i] >= r[j]
    OBVIOUS
  <2>1. m + i \in 1 .. Len(t) /\ m + j \in 1 .. Len(t) /\ m + i < m + j
    BY <1>2, <1>3 DEF Tailed
  <2> QED
    BY <1>3, <2>1 DEF Recorded, Tailed
<1> QED
  BY <1>5, <1>6, <1>7 DEF Recorded, r

\* An admission is recorded, and counts.
LEMMA Recording ==
  ASSUME NEW t, NEW u, NEW w \in Nat, Recorded(t, u), Counting(u, w)
  PROVE  /\ Recorded(Append(t, 0), Append(u, 0)) /\ Counting(Append(u, 0), w)
         /\ Len(u) \in Nat /\ Len(Append(u, 0)) = Len(u) + 1 /\ Len(t) \in Nat /\ Len(u) <= Len(t)
<1>1. PICK k \in 0 .. Len(t) : Tailed(t, u, k)
  BY DEF Recorded
<1>2. t \in Seq(Nat) /\ u \in Seq(Nat) /\ Len(u) \in Nat /\ Len(t) \in Nat
  BY <1>1 DEF Recorded, Tailed
<1> DEFINE a == Append(t, 0)
           b == Append(u, 0)
<1>3. /\ a \in Seq(Nat) /\ Len(a) = Len(t) + 1
      /\ \A i \in 1 .. Len(t) + 1 : a[i] = IF i = Len(t) + 1 THEN 0 ELSE t[i]
  BY <1>2
<1>4. /\ b \in Seq(Nat) /\ Len(b) = Len(u) + 1
      /\ \A i \in 1 .. Len(u) + 1 : b[i] = IF i = Len(u) + 1 THEN 0 ELSE u[i]
  BY <1>2
<1> HIDE DEF a, b
<1>0. k \in Nat /\ k <= Len(t) /\ Len(u) = Len(t) - k
  BY <1>1, <1>2 DEF Tailed
<1>5. Tailed(a, b, k)
  <2>1. ASSUME NEW i \in 1 .. Len(b) PROVE b[i] = a[k + i]
    <3>1. k + i \in 1 .. Len(t) + 1 /\ (i = Len(u) + 1 <=> k + i = Len(t) + 1)
      BY <1>0, <1>2, <1>4
    <3>2. i # Len(u) + 1 => u[i] = t[k + i]
      BY <1>1, <1>2, <1>4 DEF Tailed
    <3> QED
      BY <1>3, <1>4, <3>1, <3>2
  <2> QED
    BY <1>0, <1>2, <1>3, <1>4, <2>1 DEF Tailed
<1>6. \A i, j \in 1 .. Len(a) : i < j => a[i] >= a[j]
  <2> SUFFICES ASSUME NEW i \in 1 .. Len(a), NEW j \in 1 .. Len(a), i < j PROVE a[i] >= a[j]
    OBVIOUS
  <2>1. a[i] = t[i] /\ t[i] \in Nat /\ i \in 1 .. Len(t)
    BY <1>2, <1>3
  <2>2. a[j] = 0 \/ (a[j] = t[j] /\ j \in 1 .. Len(t))
    BY <1>2, <1>3
  <2> QED
    BY <2>1, <2>2 DEF Recorded
<1>7. k \in 0 .. Len(a) /\ Counting(b, w) /\ Len(u) <= Len(t)
  <2>1. k \in 0 .. Len(a) /\ Len(u) <= Len(t)
    BY <1>0, <1>2, <1>3
  <2>2. ASSUME NEW i \in 1 .. Len(u) + 1 PROVE b[i] <= w
    <3>1. b[i] = IF i = Len(u) + 1 THEN 0 ELSE u[i]
      BY <1>4
    <3>2. CASE i = Len(u) + 1
      BY <3>1, <3>2
    <3>3. CASE i # Len(u) + 1
      <4>1. i \in 1 .. Len(u)
        BY <1>2, <3>3
      <4> QED
        BY <3>1, <3>3, <4>1 DEF Counting
    <3> QED
      BY <3>2, <3>3
  <2> QED
    BY <1>4, <2>1, <2>2 DEF Counting
<1> QED
  BY <1>2, <1>3, <1>4, <1>5, <1>6, <1>7 DEF Recorded, a, b

\* What grows older keeps its place, and its ages are numbers.
LEMMA Ageing ==
  ASSUME Window!LimiterAssumption, NEW v \in Seq(Nat)
  PROVE  /\ Window!Aged(v) \in Seq(Nat) /\ Len(Window!Aged(v)) = Len(v)
         /\ \A i \in 1 .. Len(v) : Window!Aged(v)[i] = Window!Older(v[i]) /\ v[i] \in Nat
<1>1. Window!Aged(v) = [i \in 1 .. Len(v) |-> Window!Older(v[i])]
  BY DEF Window!Aged
<1>2. \A i \in 1 .. Len(v) : v[i] \in Nat
  OBVIOUS
<1>3. \A i \in 1 .. Len(v) : Window!Older(v[i]) \in Nat
  BY <1>2 DEF Window!Older, Window!LimiterAssumption
<1> QED
  BY <1>1, <1>2, <1>3

\* Everything grows older by the same time, up to an age that no window has.
LEMMA GrowOlder ==
  ASSUME Window!LimiterAssumption, NEW t, NEW u, Recorded(t, u)
  PROVE  Recorded(Window!Aged(t), Window!Aged(u))
<1>1. PICK k \in 0 .. Len(t) : Tailed(t, u, k)
  BY DEF Recorded
<1>2. t \in Seq(Nat) /\ u \in Seq(Nat) /\ Len(u) \in Nat /\ Len(t) \in Nat
  BY <1>1 DEF Recorded, Tailed
<1>3. /\ \A n \in Nat : Window!Older(n) \in Nat
      /\ \A n, m \in Nat : n >= m => Window!Older(n) >= Window!Older(m)
  BY DEF Window!Older, Window!LimiterAssumption
<1>4. \A v \in Seq(Nat) :
        /\ Window!Aged(v) \in Seq(Nat) /\ Len(Window!Aged(v)) = Len(v)
        /\ \A i \in 1 .. Len(v) : Window!Aged(v)[i] = Window!Older(v[i]) /\ v[i] \in Nat
  BY Ageing
<1>5. Tailed(Window!Aged(t), Window!Aged(u), k)
  <2>1. ASSUME NEW i \in 1 .. Len(u) PROVE Window!Aged(u)[i] = Window!Aged(t)[k + i]
    <3>1. u[i] = t[k + i] /\ k + i \in 1 .. Len(t)
      BY <1>1, <1>2 DEF Tailed
    <3> QED
      BY <1>2, <1>4, <3>1
  <2>2. Len(Window!Aged(u)) = Len(u) /\ Len(Window!Aged(t)) = Len(t) /\ Window!Aged(u) \in Seq(Nat)
    BY <1>2, <1>4
  <2> QED
    BY <1>1, <2>1, <2>2 DEF Tailed
<1>6. \A i, j \in 1 .. Len(t) : i < j => Window!Aged(t)[i] >= Window!Aged(t)[j]
  BY <1>2, <1>3, <1>4 DEF Recorded
<1> QED
  BY <1>1, <1>2, <1>4, <1>5, <1>6 DEF Recorded

QueueTypes ==
  /\ limit \in Limits /\ waiters \in Seq(Callers)
  /\ readied \in [Callers -> Nat] /\ pc \in [Callers -> Window!Positions]

\* Who waits has one place in the queue, and the head has its turn.
Lined ==
  /\ \A c \in Callers : pc[c] # "idle" => \E i \in 1 .. Len(waiters) : waiters[i] = c
  /\ \A i \in 1 .. Len(waiters) : pc[waiters[i]] # "idle"
  /\ \A i, j \in 1 .. Len(waiters) : waiters[i] = waiters[j] => i = j
  /\ \A i \in 1 .. Len(waiters) :
       /\ readied[waiters[i]] = IF i = 1 THEN 1 ELSE 0
       /\ i > 1 => pc[waiters[i]] \in {"queued", "leaving"}

WindowInv == QueueTypes /\ Recorded(records, used) /\ Counting(used, limit.window) /\ Lined

\* The invariant holds at the start.
LEMMA WindowStart == ASSUME Window!LimiterAssumption, Window!Init PROVE WindowInv
<1>1. QueueTypes /\ Lined
  BY DEF QueueTypes, Lined, Window!Init, Window!Positions
<1>2. Tailed(<<>>, <<>>, 0)
  BY DEF Tailed
<1>3. Recorded(records, used) /\ Counting(used, limit.window)
  BY <1>2 DEF Recorded, Counting, Window!Init
<1> QED
  BY <1>1, <1>3 DEF WindowInv

\* The limits are numbers.
LEMMA LimitTypes ==
  ASSUME Window!LimiterAssumption
  PROVE  \A l \in Limits : l.count \in Nat /\ l.window \in Nat
BY DEF Window!LimiterAssumption

\* The property of one state.
LEMMA HeadHasTurn == ASSUME WindowInv PROVE Window!TurnAtHead
<1>1. DOMAIN waiters = 1 .. Len(waiters) /\ \A i \in 1 .. Len(waiters) : waiters[i] \in Callers
  BY DEF WindowInv, QueueTypes
<1>2. Window!ToSet(waiters) = Window!Waiting
  BY <1>1 DEF Window!ToSet, Window!Waiting, WindowInv, Lined
<1> QED
  BY <1>1, <1>2 DEF Window!TurnAtHead, WindowInv, Lined

\* What an admission does: the window had room, and counts it.
LEMMA AdmitStep ==
  ASSUME Window!LimiterAssumption, WindowInv, Window!Admit, limit' = limit
  PROVE  /\ (Recorded(records, used) /\ Counting(used, limit.window))'
         /\ Len(used') <= limit.count
<1> DEFINE kept == Window!Within(records, limit.window)
<1>1. limit.count \in Nat /\ limit.window \in Nat
  BY LimitTypes DEF WindowInv, QueueTypes
<1>2. Recorded(kept, used) /\ Counting(used, limit.window)
  BY <1>1, PruneKeeps DEF WindowInv
<1>3. /\ Len(kept) < limit.count
      /\ records' = Append(kept, 0) /\ used' = Append(used, 0)
  BY DEF Window!Admit, Window!HasRoom, Window!Prune
<1> HIDE DEF kept
<1>4. /\ Recorded(Append(kept, 0), Append(used, 0)) /\ Counting(Append(used, 0), limit.window)
      /\ Len(used) \in Nat /\ Len(Append(used, 0)) = Len(used) + 1
      /\ Len(kept) \in Nat /\ Len(used) <= Len(kept)
  BY <1>1, <1>2, Recording
<1> QED
  BY <1>1, <1>3, <1>4

\* The records in every step.
LEMMA RecordsStep ==
  ASSUME Window!LimiterAssumption, WindowInv, [Window!Next]_Window!vars
  PROVE  (Recorded(records, used) /\ Counting(used, limit.window))'
<1>1. limit.window \in Nat
  BY LimitTypes DEF WindowInv, QueueTypes
<1>2. Recorded(records, used) /\ Counting(used, limit.window)
  BY DEF WindowInv
<1>3. Recorded(Window!Prune(records), used)
  BY <1>1, <1>2, PruneKeeps DEF Window!Prune
<1>4. CASE /\ records' \in {records, Window!Prune(records)}
           /\ used' = used /\ limit' = limit
  BY <1>2, <1>3, <1>4
<1>5. CASE Window!Admit /\ limit' = limit
  BY <1>5, AdmitStep
<1>6. ASSUME NEW l \in Limits, Window!SetLimit(l) PROVE (Recorded(records, used) /\ Counting(used, limit.window))'
  <2>1. l.window \in Nat
    BY LimitTypes
  <2>2. limit' = l /\ records' = Window!Within(records, l.window) /\ used' = Window!Within(used, l.window)
    BY <1>6 DEF Window!SetLimit
  <2>3. Recorded(records, used') /\ Counting(used', l.window)
    BY <1>2, <2>1, <2>2, CountFewer
  <2>4. Recorded(records', used')
    BY <2>1, <2>2, <2>3, PruneKeeps
  <2> QED
    BY <2>2, <2>3, <2>4
<1>7. CASE Window!Tick
  <2>1. /\ limit' = limit /\ records' = Window!Aged(records)
        /\ used' = Window!Within(Window!Aged(used), limit.window)
    BY <1>7 DEF Window!Tick
  <2>2. Recorded(Window!Aged(records), Window!Aged(used))
    BY <1>2, GrowOlder
  <2> QED
    BY <1>1, <2>1, <2>2, CountFewer
<1>8. ASSUME NEW c \in Callers, Window!Begin(c) \/ Window!Proceed(c) \/ Window!Cancel(c)
      PROVE  \/ /\ records' \in {records, Window!Prune(records)}
                /\ used' = used /\ limit' = limit
             \/ Window!Admit /\ limit' = limit
  BY <1>8 DEF Window!Begin, Window!Proceed, Window!Cancel, Window!WaitRefused, Window!Reserve,
              Window!Enqueue, Window!TakeTurn, Window!ReserveTurn, Window!Sleep, Window!Wake,
              Window!SeeCancelled, Window!CancelWaiter
<1>9. Window!TryReserve => Window!Admit /\ limit' = limit
  BY DEF Window!TryReserve
<1>10. UNCHANGED Window!vars => records' = records /\ used' = used /\ limit' = limit
  BY DEF Window!vars
<1> QED
  BY <1>4, <1>5, <1>6, <1>7, <1>8, <1>9, <1>10 DEF Window!Next

\* A caller goes on where it waits.
LEMMA GoesOn ==
  ASSUME WindowInv, NEW c \in Callers, pc[c] # "idle", NEW to \in Window!Positions \ {"idle"},
         pc' = [pc EXCEPT ![c] = to], UNCHANGED <<waiters, readied>>, limit' = limit,
         to = "leaving" \/ pc[c] \in {"turn", "sleeping"} \/ readied[c] > 0
  PROVE  QueueTypes' /\ Lined'
<1>1. QueueTypes'
  BY DEF WindowInv, QueueTypes
<1>2. \A i \in 1 .. Len(waiters) : waiters[i] \in Callers
  BY DEF WindowInv, QueueTypes
<1>3. \A x \in Callers : pc'[x] = IF x = c THEN to ELSE pc[x]
  BY DEF WindowInv, QueueTypes
<1>4. ASSUME NEW i \in 1 .. Len(waiters), i > 1, waiters[i] = c PROVE to = "leaving"
  BY <1>4 DEF WindowInv, Lined
<1> QED
  BY <1>1, <1>2, <1>3, <1>4 DEF WindowInv, Lined

\* A caller that is new takes the last place.
LEMMA JoinsQueue ==
  ASSUME Window!LimiterAssumption, WindowInv, NEW c \in Callers, Window!Enqueue(c)
  PROVE  QueueTypes' /\ Lined'
<1>1. /\ pc[c] = "idle" /\ waiters' = Append(waiters, c) /\ limit' = limit
      /\ readied' = [readied EXCEPT ![c] = IF waiters = <<>> THEN 1 ELSE 0]
      /\ pc' = [pc EXCEPT ![c] = "queued"]
  BY DEF Window!Enqueue
<1>2. QueueTypes'
  BY <1>1 DEF WindowInv, QueueTypes, Window!Positions
<1>3. /\ Len(waiters) \in Nat /\ Len(waiters') = Len(waiters) + 1
      /\ \A i \in 1 .. Len(waiters) : waiters[i] \in Callers /\ waiters'[i] = waiters[i]
      /\ waiters'[Len(waiters) + 1] = c /\ (waiters = <<>> <=> Len(waiters) = 0)
  BY <1>1 DEF WindowInv, QueueTypes
<1>4. \A x \in Callers : /\ pc'[x] = IF x = c THEN "queued" ELSE pc[x]
                         /\ x # c => readied'[x] = readied[x]
                         /\ x = c => readied'[x] = IF Len(waiters) = 0 THEN 1 ELSE 0
  BY <1>1, <1>3 DEF WindowInv, QueueTypes
<1>5. \A i \in 1 .. Len(waiters) : waiters[i] # c
  BY <1>1 DEF WindowInv, Lined
<1>6. \A i \in 1 .. Len(waiters') :
        \/ (i \in 1 .. Len(waiters) /\ waiters'[i] = waiters[i] /\ waiters[i] # c)
        \/ (i = Len(waiters) + 1 /\ waiters'[i] = c)
  BY <1>3, <1>5
<1>7. \A i \in 1 .. Len(waiters) : i \in 1 .. Len(waiters')
  BY <1>3
<1>8. Len(waiters) + 1 \in 1 .. Len(waiters')
  BY <1>3
<1>9. /\ \A i, j \in 1 .. Len(waiters') : waiters'[i] = waiters'[j] => i = j
      /\ \A i \in 1 .. Len(waiters') :
           /\ readied'[waiters'[i]] = IF i = 1 THEN 1 ELSE 0
           /\ pc'[waiters'[i]] # "idle"
           /\ i > 1 => pc'[waiters'[i]] \in {"queued", "leaving"}
  BY <1>3, <1>4, <1>6 DEF WindowInv, Lined
<1>10. \A x \in Callers : pc'[x] # "idle" => \E i \in 1 .. Len(waiters') : waiters'[i] = x
  BY <1>3, <1>4, <1>7, <1>8 DEF WindowInv, Lined
<1> QED
  BY <1>2, <1>9, <1>10 DEF Lined

\* The queue without its k-th caller, and the channels: one that was first
\* has passed its turn on.
Behind(k, q, d) ==
  /\ q \in Seq(Callers) /\ Len(q) = Len(waiters) - 1
  /\ \A j \in 1 .. Len(q) : q[j] = IF j < k THEN waiters[j] ELSE waiters[j + 1]
  /\ d \in [Callers -> Nat]
  /\ \A x \in Callers :
       d[x] = IF k = 1 /\ Len(q) > 0 /\ x = q[1] THEN readied[x] + 1 ELSE readied[x]

\* A caller leaves the queue; from its front it passes the turn on.
LEMMA LeavesQueue ==
  ASSUME WindowInv, NEW k \in 1 .. Len(waiters), NEW q, NEW d, Behind(k, q, d),
         waiters' = q, readied' = d, limit' = limit, pc' = [pc EXCEPT ![waiters[k]] = "idle"]
  PROVE  QueueTypes' /\ Lined'
<1>0. /\ q \in Seq(Callers) /\ Len(q) = Len(waiters) - 1
      /\ \A j \in 1 .. Len(q) : q[j] = IF j < k THEN waiters[j] ELSE waiters[j + 1]
      /\ d \in [Callers -> Nat]
      /\ \A x \in Callers :
           d[x] = IF k = 1 /\ Len(q) > 0 /\ x = q[1] THEN readied[x] + 1 ELSE readied[x]
  BY DEF Behind
<1>1. QueueTypes'
  BY <1>0 DEF WindowInv, QueueTypes, Window!Positions
<1>2. /\ Len(waiters) \in Nat /\ Len(q) \in Nat /\ Len(waiters) = Len(q) + 1
      /\ \A i \in 1 .. Len(waiters) : waiters[i] \in Callers
  BY <1>0 DEF WindowInv, QueueTypes
<1>3. \A x \in Callers : pc'[x] = IF x = waiters[k] THEN "idle" ELSE pc[x]
  BY DEF WindowInv, QueueTypes
<1> DEFINE old(j) == IF j < k THEN j ELSE j + 1
<1>4. \A j \in 1 .. Len(q) : /\ old(j) \in 1 .. Len(waiters) /\ old(j) # k /\ q[j] = waiters[old(j)]
                             /\ (old(j) = 1 <=> (j = 1 /\ k # 1))
  <2> SUFFICES ASSUME NEW j \in 1 .. Len(q)
               PROVE  /\ old(j) \in 1 .. Len(waiters) /\ old(j) # k /\ q[j] = waiters[old(j)]
                      /\ (old(j) = 1 <=> (j = 1 /\ k # 1))
    BY Zenon
  <2>1. q[j] = IF j < k THEN waiters[j] ELSE waiters[j + 1]
    BY <1>0
  <2>2. j \in Nat /\ j >= 1 /\ j <= Len(q) /\ k \in Nat /\ k >= 1 /\ k <= Len(waiters)
    BY <1>2
  <2> QED
    BY <1>2, <2>1, <2>2
<1>5. \A i, j \in 1 .. Len(q) : old(i) = old(j) => i = j
  BY <1>2
<1>6. \A i \in 1 .. Len(waiters) : i # k => \E j \in 1 .. Len(q) : old(j) = i
  <2> SUFFICES ASSUME NEW i \in 1 .. Len(waiters), i # k PROVE \E j \in 1 .. Len(q) : old(j) = i
    OBVIOUS
  <2>1. CASE i < k
    <3>1. i \in 1 .. Len(q) /\ old(i) = i
      BY <1>2, <2>1
    <3> QED
      BY <3>1, Zenon
  <2>2. CASE i > k
    <3>1. i - 1 \in 1 .. Len(q) /\ old(i - 1) = i
      BY <1>2, <2>2
    <3> QED
      BY <3>1, Zenon
  <2> QED
    BY <1>2, <2>1, <2>2
<1> HIDE DEF old
<1>7. ASSUME NEW j \in 1 .. Len(q)
      PROVE  q[j] \in Callers /\ q[j] # waiters[k] /\ pc[q[j]] # "idle" /\ pc'[q[j]] = pc[q[j]]
  <2>1. old(j) \in 1 .. Len(waiters) /\ old(j) # k /\ q[j] = waiters[old(j)]
    BY <1>4
  <2>2. q[j] \in Callers /\ q[j] # waiters[k] /\ pc[q[j]] # "idle"
    BY <1>2, <2>1 DEF WindowInv, Lined
  <2> QED
    BY <1>3, <2>2
<1>8. \A i, j \in 1 .. Len(q) : q[i] = q[j] => i = j
  BY <1>4, <1>5 DEF WindowInv, Lined
<1>9. ASSUME NEW j \in 1 .. Len(q)
      PROVE  /\ d[q[j]] = IF j = 1 THEN 1 ELSE 0
             /\ j > 1 => pc[q[j]] \in {"queued", "leaving"}
  <2>1. /\ readied[q[j]] = IF old(j) = 1 THEN 1 ELSE 0
        /\ old(j) > 1 => pc[q[j]] \in {"queued", "leaving"}
    BY <1>4 DEF WindowInv, Lined
  <2>2. old(j) = 1 <=> j = 1 /\ k # 1
    BY <1>4
  <2>3. old(j) \in Nat /\ (j > 1 => old(j) > 1)
    BY <1>2, <1>4
  <2>4. 1 \in 1 .. Len(q) /\ Len(q) > 0 /\ (q[j] = q[1] => j = 1)
    BY <1>2, <1>8
  <2>5. d[q[j]] = IF k = 1 /\ j = 1 THEN readied[q[j]] + 1 ELSE readied[q[j]]
    BY <1>0, <1>7, <2>4
  <2> QED
    BY <2>1, <2>2, <2>3, <2>5
<1>10. \A x \in Callers : pc'[x] # "idle" => \E j \in 1 .. Len(q) : q[j] = x
  <2> SUFFICES ASSUME NEW x \in Callers, pc'[x] # "idle" PROVE \E j \in 1 .. Len(q) : q[j] = x
    OBVIOUS
  <2>1. x # waiters[k] /\ pc[x] # "idle"
    BY <1>3
  <2>2. PICK i \in 1 .. Len(waiters) : waiters[i] = x
    BY <2>1 DEF WindowInv, Lined
  <2>3. PICK j \in 1 .. Len(q) : old(j) = i
    BY <1>6, <2>1, <2>2
  <2> QED
    BY <1>4, <2>2, <2>3
<1> QED
  BY <1>1, <1>7, <1>8, <1>9, <1>10 DEF Lined

\* The turn of a queue is given to its head.
LEMMA TurnGiven ==
  ASSUME NEW q \in Seq(Callers), readied \in [Callers -> Nat]
  PROVE  /\ Window!TurnOf(q) \in [Callers -> Nat]
         /\ \A x \in Callers : Window!TurnOf(q)[x] =
              IF Len(q) > 0 /\ x = q[1] THEN readied[x] + 1 ELSE readied[x]
<1>1. (q # <<>>) = (Len(q) > 0)
  OBVIOUS
<1> QED
  BY <1>1 DEF Window!TurnOf

\* An admitted head leaves.
LEMMA HeadLeaves ==
  ASSUME WindowInv, NEW c \in Callers, Window!ReserveTurn(c) PROVE QueueTypes' /\ Lined'
<1>1. /\ waiters # <<>> /\ Head(waiters) = c /\ waiters' = Tail(waiters) /\ limit' = limit
      /\ readied' = Window!TurnOf(Tail(waiters)) /\ pc' = [pc EXCEPT ![c] = "idle"]
  BY DEF Window!ReserveTurn, Window!IsHead, Window!Returns
<1> DEFINE q == Tail(waiters)
<1>2. /\ q \in Seq(Callers) /\ Len(q) = Len(waiters) - 1 /\ 1 \in 1 .. Len(waiters) /\ waiters[1] = c
      /\ \A j \in 1 .. Len(q) : q[j] = IF j < 1 THEN waiters[j] ELSE waiters[j + 1]
  BY <1>1 DEF WindowInv, QueueTypes
<1> HIDE DEF q
<1> DEFINE d == Window!TurnOf(q)
<1>3. /\ d \in [Callers -> Nat]
      /\ \A x \in Callers : d[x] = IF Len(q) > 0 /\ x = q[1] THEN readied[x] + 1 ELSE readied[x]
  BY <1>2, TurnGiven DEF WindowInv, QueueTypes
<1> HIDE DEF d
<1>4. waiters' = q /\ readied' = d
  BY <1>1 DEF q, d
<1>5. Behind(1, q, d)
  BY <1>2, <1>3 DEF Behind
<1> QED
  BY <1>1, <1>2, <1>4, <1>5, LeavesQueue, Zenon

\* A caller gives up, wherever it stands.
LEMMA WaiterLeaves ==
  ASSUME WindowInv, NEW c \in Callers, Window!CancelWaiter(c) PROVE QueueTypes' /\ Lined'
<1>1. /\ pc[c] = "leaving" /\ waiters' = Window!RemoveFirst(waiters, c) /\ limit' = limit
      /\ readied' = IF Window!IsHead(c) THEN Window!TurnOf(Tail(waiters)) ELSE readied
      /\ pc' = [pc EXCEPT ![c] = "idle"]
  BY DEF Window!CancelWaiter, Window!Returns
<1>2. PICK k \in 1 .. Len(waiters) : waiters[k] = c
  BY <1>1 DEF WindowInv, Lined
<1>3. waiters \in Seq(Callers) /\ k \in DOMAIN waiters /\ DOMAIN waiters = 1 .. Len(waiters)
  BY <1>2 DEF WindowInv, QueueTypes
<1>4. \A j \in DOMAIN waiters : waiters[j] = waiters[k] => j = k
  BY <1>2, <1>3 DEF WindowInv, Lined
<1> DEFINE q == Window!RemoveFirst(waiters, waiters[k])
<1>5. /\ q \in Seq(Callers) /\ Len(q) = Len(waiters) - 1
      /\ \A j \in 1 .. Len(q) : q[j] = IF j < k THEN waiters[j] ELSE waiters[j + 1]
  BY <1>3, <1>4, Leaves
<1> HIDE DEF q
<1>6. Window!IsHead(c) <=> k = 1
  <2>1. waiters # <<>> /\ Head(waiters) = waiters[1] /\ 1 \in DOMAIN waiters
    BY <1>3
  <2> QED
    BY <1>2, <1>4, <2>1 DEF Window!IsHead
<1>7. k = 1 => q = Tail(waiters)
  BY <1>3, <1>5
<1>8. /\ readied' \in [Callers -> Nat]
      /\ \A x \in Callers : readied'[x] =
           IF k = 1 /\ Len(q) > 0 /\ x = q[1] THEN readied[x] + 1 ELSE readied[x]
  <2>1. readied \in [Callers -> Nat]
    BY DEF WindowInv, QueueTypes
  <2>2. CASE k = 1
    <3>1. readied' = Window!TurnOf(q)
      BY <1>1, <1>6, <1>7, <2>2
    <3>2. /\ Window!TurnOf(q) \in [Callers -> Nat]
          /\ \A x \in Callers : Window!TurnOf(q)[x] =
               IF Len(q) > 0 /\ x = q[1] THEN readied[x] + 1 ELSE readied[x]
      BY <1>5, <2>1, TurnGiven
    <3> QED
      BY <2>2, <3>1, <3>2
  <2>3. CASE k # 1
    BY <1>1, <1>6, <2>1, <2>3
  <2> QED
    BY <2>2, <2>3
<1>9. waiters' = q
  BY <1>1, <1>2 DEF q
<1>10. PICK d : d = readied'
  OBVIOUS
<1>11. Behind(k, q, d)
  BY <1>5, <1>8, <1>10 DEF Behind
<1> QED
  BY <1>1, <1>2, <1>9, <1>10, <1>11, LeavesQueue, Zenon

\* The queue in every step.
LEMMA QueueStep ==
  ASSUME Window!LimiterAssumption, WindowInv, [Window!Next]_Window!vars
  PROVE  QueueTypes' /\ Lined'
<1>0. QueueTypes /\ Lined
  BY DEF WindowInv
<1>1. CASE UNCHANGED <<limit, waiters, readied, pc>>
  BY <1>0, <1>1 DEF QueueTypes, Lined
<1>2. ASSUME NEW l \in Limits, Window!SetLimit(l) PROVE QueueTypes' /\ Lined'
  <2>1. /\ limit' = l /\ UNCHANGED <<waiters, readied>>
        /\ pc' = [x \in Callers |-> IF pc[x] = "sleeping" THEN "turn" ELSE pc[x]]
    BY <1>2 DEF Window!SetLimit
  <2>2. QueueTypes'
    BY <1>0, <2>1 DEF QueueTypes, Window!Positions
  <2>3. \A i \in 1 .. Len(waiters) : waiters[i] \in Callers
    BY <1>0 DEF QueueTypes
  <2>4. \A x \in Callers : /\ pc'[x] = "idle" <=> pc[x] = "idle"
                           /\ pc[x] \in {"queued", "leaving"} => pc'[x] = pc[x]
    BY <2>1
  <2> QED
    BY <1>0, <2>1, <2>2, <2>3, <2>4 DEF Lined
<1>3. ASSUME NEW c \in Callers, Window!Begin(c) PROVE QueueTypes' /\ Lined'
  <2>1. CASE Window!WaitRefused(c)
    <3>1. pc' = pc
      BY <1>0, <2>1 DEF Window!WaitRefused, Window!Returns, QueueTypes
    <3> QED
      BY <1>1, <2>1, <3>1 DEF Window!WaitRefused
  <2>2. CASE Window!Reserve(c)
    BY <1>1, <2>2 DEF Window!Reserve
  <2>3. CASE Window!Enqueue(c)
    BY <2>3, JoinsQueue
  <2> QED
    BY <1>3, <2>1, <2>2, <2>3 DEF Window!Begin
<1>4. ASSUME NEW c \in Callers, Window!Proceed(c) PROVE QueueTypes' /\ Lined'
  <2>1. CASE Window!TakeTurn(c) \/ Window!Sleep(c) \/ Window!Wake(c) \/ Window!SeeCancelled(c)
    <3>1. PICK to \in {"turn", "sleeping", "leaving"} :
            /\ pc[c] # "idle" /\ pc' = [pc EXCEPT ![c] = to]
            /\ UNCHANGED <<waiters, readied>> /\ limit' = limit
            /\ to = "leaving" \/ pc[c] \in {"turn", "sleeping"} \/ readied[c] > 0
      BY <2>1 DEF Window!TakeTurn, Window!Sleep, Window!Wake, Window!SeeCancelled
    <3>2. to \in Window!Positions \ {"idle"}
      BY <3>1 DEF Window!Positions
    <3> QED
      BY <3>1, <3>2, GoesOn
  <2>2. CASE Window!ReserveTurn(c)
    BY <2>2, HeadLeaves
  <2>3. CASE Window!CancelWaiter(c)
    BY <2>3, WaiterLeaves
  <2> QED
    BY <1>4, <2>1, <2>2, <2>3 DEF Window!Proceed
<1>5. ASSUME NEW c \in Callers, Window!Cancel(c) PROVE QueueTypes' /\ Lined'
  BY <1>1, <1>5 DEF Window!Cancel
<1>6. CASE Window!TryReserve \/ Window!Tick
  BY <1>1, <1>6 DEF Window!TryReserve, Window!Tick
<1>7. CASE UNCHANGED Window!vars
  BY <1>1, <1>7 DEF Window!vars
<1> QED
  BY <1>2, <1>3, <1>4, <1>5, <1>6, <1>7 DEF Window!Next

\* Every step keeps the invariant.
LEMMA WindowStep ==
  ASSUME Window!LimiterAssumption, WindowInv, [Window!Next]_Window!vars PROVE WindowInv'
BY RecordsStep, QueueStep DEF WindowInv

\* What an admission may not do.
LEMMA AdmitsInTurn ==
  ASSUME Window!LimiterAssumption, WindowInv, [Window!Next]_Window!vars
  PROVE  Window!AdmittedInTurnStep
<1> SUFFICES ASSUME Len(used') > Len(used)
             PROVE  /\ Len(used') <= limit.count
                    /\ \/ waiters = <<>>
                       \/ waiters' = Tail(waiters) /\ pc'[Head(waiters)] = "idle"
  BY DEF Window!AdmittedInTurnStep
<1>1. used \in Seq(Nat) /\ Len(used) \in Nat
  BY DEF WindowInv, Recorded, Tailed
<1>2. used' # used
  BY <1>1
<1>3. ASSUME NEW v \in Seq(Nat), Len(v) = Len(used), NEW w \in Nat, used' = Window!Within(v, w)
      PROVE  FALSE
  <2>1. PICK k \in 0 .. Len(v) : Tailed(v, Window!Within(v, w), k)
    BY Pruned
  <2>2. Len(used') = Len(v) - k
    BY <1>3, <2>1 DEF Tailed
  <2> QED
    BY <1>1, <1>3, <2>1, <2>2
<1>4. ASSUME NEW l \in Limits, Window!SetLimit(l) PROVE FALSE
  BY <1>1, <1>3, <1>4, LimitTypes DEF Window!SetLimit
<1>5. ~Window!Tick
  <2> SUFFICES ASSUME Window!Tick PROVE FALSE
    OBVIOUS
  <2>1. used' = Window!Within(Window!Aged(used), limit.window) /\ limit.window \in Nat
    BY LimitTypes DEF Window!Tick, WindowInv, QueueTypes
  <2>2. Window!Aged(used) \in Seq(Nat) /\ Len(Window!Aged(used)) = Len(used)
    BY <1>1, Ageing
  <2> QED
    BY <1>3, <2>1, <2>2
<1>6. CASE Window!TryReserve
  BY <1>6, AdmitStep DEF Window!TryReserve
<1>7. ASSUME NEW c \in Callers, Window!Begin(c) \/ Window!Proceed(c) \/ Window!Cancel(c)
      PROVE  Window!Reserve(c) \/ Window!ReserveTurn(c)
  BY <1>2, <1>7 DEF Window!Begin, Window!Proceed, Window!Cancel, Window!WaitRefused,
              Window!Enqueue, Window!TakeTurn, Window!Sleep, Window!Wake,
              Window!SeeCancelled, Window!CancelWaiter
<1>8. ASSUME NEW c \in Callers, Window!Reserve(c)
      PROVE  Len(used') <= limit.count /\ waiters = <<>>
  BY <1>8, AdmitStep DEF Window!Reserve
<1>9. ASSUME NEW c \in Callers, Window!ReserveTurn(c)
      PROVE  Len(used') <= limit.count /\ waiters' = Tail(waiters) /\ pc'[Head(waiters)] = "idle"
  <2>1. /\ Window!Admit /\ limit' = limit /\ waiters' = Tail(waiters)
        /\ Head(waiters) = c /\ pc' = [pc EXCEPT ![c] = "idle"]
    BY <1>9 DEF Window!ReserveTurn, Window!IsHead, Window!Returns
  <2> QED
    BY <2>1, AdmitStep DEF WindowInv, QueueTypes
<1>10. ~UNCHANGED Window!vars
  BY <1>2 DEF Window!vars
<1> QED
  BY <1>4, <1>5, <1>6, <1>7, <1>8, <1>9, <1>10 DEF Window!Next

\* Whoever gives up and however turns, timers and new limits cross: the head
\* of the queue has its turn, which is given once, no admission overtakes a
\* caller that came before, and the window never holds more than the limit,
\* for any callers and limits.
THEOREM WindowAdmitsInTurn ==
  ASSUME Window!LimiterAssumption
  PROVE  Window!Spec => AdmittedInTurn
<1>1. Window!Init => WindowInv
  BY WindowStart
<1>2. WindowInv /\ [Window!Next]_Window!vars => WindowInv'
  BY WindowStep
<1>3. WindowInv => Window!TurnAtHead
  BY HeadHasTurn
<1>4. WindowInv /\ [Window!Next]_Window!vars =>
        [Window!AdmittedInTurnStep /\ Window!TurnAtHead]_windowVars
  BY AdmitsInTurn, <1>3 DEF Window!vars, windowVars
<1> QED
  BY <1>1, <1>2, <1>4, PTL DEF Window!Spec, AdmittedInTurn
==============================================================================
