------------------------------ MODULE Ingress ------------------------------
(***************************************************************************)
(* The ingress of adapter events (bot/pipeline/chatpolicy/ingress.go and   *)
(* ingress_lanes.go).  EnqueueAdapterEvent puts an event on the lane of    *)
(* its conversation; a goroutine per lane handles the lane's events one    *)
(* after another, holding one of a bounded number of slots shared by all   *)
(* lanes, and hands each event that the filters let through to the bridge. *)
(* A lane is forgotten when its runner finds it empty.  StopAdmission      *)
(* drops what is queued and refuses what comes; Drain waits until the      *)
(* accepted handlers are gone or its budget ends.                          *)
(*                                                                         *)
(* A lane is named after the event that created it, so that a forgotten    *)
(* lane and a new one of the same conversation stay apart, as the pointers *)
(* of the code do.  What a handler does between the check of its context   *)
(* and the bridge (reply targets, session input, chat policy, menu, bot    *)
(* identities) either consumes the event or lets it through.               *)
(***************************************************************************)
EXTENDS Naturals, Sequences, FiniteSets

CONSTANTS
  Events,        \* the events adapters deliver, numbered in the order they
                 \* arrive in their conversation
  KeyOf,         \* the conversation of each event: inboundLaneKey
  Stoppers,      \* shutdowns: StopAdmission, then Drain
  LaneCapacity,  \* inboundLaneCapacity
  Concurrency,   \* inboundConcurrency
  None           \* no lane, no event

\* The events of a conversation arrive in the order of their numbers.
ASSUME IngressAssumption ==
  /\ Events \subseteq Nat /\ None \notin Events
  /\ LaneCapacity \in Nat \ {0} /\ Concurrency \in Nat \ {0}

VARIABLES
  arrived,      \* the events the adapters delivered
  lanesClosed,  \* Ingress.lanesClosed
  lanes,        \* Ingress.lanes: the lane of each conversation, or None
  pending,      \* inboundLane.pending, of each lane
  runner,       \* where the goroutine of each lane is
  item,         \* the event the goroutine of each lane works on
  taken,        \* len(Ingress.slots)
  stopping,     \* Ingress.stopping
  active,       \* Ingress.active, by lane
  cancelled,    \* the lanes whose registered handler was cancelled
  closes,       \* how often Ingress.drained was closed
  gone,         \* the contexts of the adapters are cancelled
  caller,       \* where each shutdown is
  handed        \* history: the events handed to the bridge, by conversation

lockVars == <<lanesClosed, lanes, pending>>
admissionVars == <<stopping, active, cancelled, closes>>
vars == <<arrived, lanesClosed, lanes, pending, runner, item, taken, stopping,
          active, cancelled, closes, gone, caller, handed>>

Keys == {KeyOf[e] : e \in Events}

Places == {"none", "loop", "slot", "handle", "enrich", "filter", "bridge",
           "leave", "free"}
CallerPlaces == {"idle", "lanes", "announced", "lanes again", "wait", "drained",
                 "expired"}

Init ==
  /\ arrived = {}
  /\ lanesClosed = FALSE
  /\ lanes = [k \in Keys |-> None]
  /\ pending = [l \in Events |-> <<>>]
  /\ runner = [l \in Events |-> "none"]
  /\ item = [l \in Events |-> None]
  /\ taken = 0
  /\ stopping = FALSE
  /\ active = {}
  /\ cancelled = {}
  /\ closes = 0
  /\ gone = FALSE
  /\ caller = [s \in Stoppers |-> "idle"]
  /\ handed = [k \in Keys |-> <<>>]

---------------------------------------------------------------------------
(* The lanes. *)

\* The lane is created with its runner: the goroutine is started right after
\* the unlock and does nothing before it takes the lock again.
Enqueue(e) ==
  /\ ~gone /\ e \notin arrived
  /\ \A f \in Events : f < e /\ KeyOf[f] = KeyOf[e] => f \in arrived
  /\ arrived' = arrived \cup {e}
  /\ \/ /\ lanesClosed
        /\ UNCHANGED <<lanes, pending, runner>>
     \/ /\ ~lanesClosed /\ lanes[KeyOf[e]] = None
        /\ lanes' = [lanes EXCEPT ![KeyOf[e]] = e]
        /\ pending' = [pending EXCEPT ![e] = <<e>>]
        /\ runner' = [runner EXCEPT ![e] = "loop"]
     \/ /\ ~lanesClosed /\ lanes[KeyOf[e]] # None
        /\ LET l == lanes[KeyOf[e]] IN
             pending' = IF Len(pending[l]) >= LaneCapacity THEN pending
                        ELSE [pending EXCEPT ![l] = Append(@, e)]
        /\ UNCHANGED <<lanes, runner>>
  /\ UNCHANGED <<lanesClosed, item, taken, admissionVars, gone, caller, handed>>

\* Mutant: the lane is forgotten with its last event popped, not when it is
\* found empty after that event was handled.
PopMutant(l) ==
  /\ runner[l] = "loop" /\ pending[l] # <<>>
  /\ item' = [item EXCEPT ![l] = Head(pending[l])]
  /\ pending' = [pending EXCEPT ![l] = Tail(@)]
  /\ lanes' = IF Len(pending[l]) = 1 /\ lanes[KeyOf[l]] = l
              THEN [lanes EXCEPT ![KeyOf[l]] = None] ELSE lanes
  /\ runner' = [runner EXCEPT ![l] = "slot"]
  /\ UNCHANGED <<arrived, lanesClosed, taken, admissionVars, gone, caller, handed>>

Pop(l) ==
  /\ runner[l] = "loop" /\ pending[l] # <<>>
  /\ item' = [item EXCEPT ![l] = Head(pending[l])]
  /\ pending' = [pending EXCEPT ![l] = Tail(@)]
  /\ runner' = [runner EXCEPT ![l] = "slot"]
  /\ UNCHANGED <<arrived, lanesClosed, lanes, taken, admissionVars, gone, caller, handed>>

RunnerExit(l) ==
  /\ runner[l] = "loop" /\ pending[l] = <<>>
  /\ lanes' = [lanes EXCEPT ![KeyOf[l]] = None]
  /\ runner' = [runner EXCEPT ![l] = "none"]
  /\ UNCHANGED <<arrived, lanesClosed, pending, item, taken, admissionVars, gone,
                 caller, handed>>

TakeSlot(l) ==
  /\ runner[l] = "slot" /\ taken < Concurrency
  /\ taken' = taken + 1
  /\ runner' = [runner EXCEPT ![l] = "handle"]
  /\ UNCHANGED <<arrived, lockVars, item, admissionVars, gone, caller, handed>>

\* The adapter's context ended while the event waited for a slot.
SkipItem(l) ==
  /\ runner[l] = "slot" /\ gone
  /\ item' = [item EXCEPT ![l] = None]
  /\ runner' = [runner EXCEPT ![l] = "loop"]
  /\ UNCHANGED <<arrived, lockVars, taken, admissionVars, gone, caller, handed>>

FreeSlot(l) ==
  /\ runner[l] = "free"
  /\ taken' = taken - 1
  /\ item' = [item EXCEPT ![l] = None]
  /\ runner' = [runner EXCEPT ![l] = "loop"]
  /\ UNCHANGED <<arrived, lockVars, admissionVars, gone, caller, handed>>

---------------------------------------------------------------------------
(* HandleAdapterEvent. *)

At(l, from, to) ==
  /\ runner[l] = from
  /\ runner' = [runner EXCEPT ![l] = to]
  /\ UNCHANGED <<arrived, lockVars, item, taken, gone, caller>>

\* The check of stopping and the registration are one critical section.
Register(l) ==
  /\ ~stopping
  /\ At(l, "handle", "enrich")
  /\ active' = active \cup {l}
  /\ UNCHANGED <<stopping, cancelled, closes, handed>>

Refuse(l) ==
  /\ stopping
  /\ At(l, "handle", "free")
  /\ UNCHANGED <<admissionVars, handed>>

\* The metadata lookup may block until the context ends; the context is
\* checked once, after it.
Enrich(l) ==
  /\ \/ ~gone /\ l \notin cancelled /\ At(l, "enrich", "filter")
     \/ (gone \/ l \in cancelled) /\ At(l, "enrich", "leave")
  /\ UNCHANGED <<admissionVars, handed>>

Filter(l) ==
  /\ At(l, "filter", "bridge") \/ At(l, "filter", "leave")
  /\ UNCHANGED <<admissionVars, handed>>

HandToBridge(l) ==
  /\ At(l, "bridge", "leave")
  /\ handed' = [handed EXCEPT ![KeyOf[item[l]]] = Append(@, item[l])]
  /\ UNCHANGED admissionVars

\* The deferred function: closing drained twice would panic.
Leave(l) ==
  /\ At(l, "leave", "free")
  /\ active' = active \ {l}
  /\ cancelled' = cancelled \ {l}
  /\ closes' = IF stopping /\ active' = {} THEN closes + 1 ELSE closes
  /\ UNCHANGED <<stopping, handed>>

---------------------------------------------------------------------------
(* Shutdown. *)

CallerAt(s, from, to) ==
  /\ caller[s] = from
  /\ caller' = [caller EXCEPT ![s] = to]
  /\ UNCHANGED <<arrived, runner, item, taken, gone, handed>>

\* The announcement of the shutdown stops the admission, and Drain does so again.
CloseLanes(s) ==
  /\ CallerAt(s, "idle", "lanes") \/ CallerAt(s, "announced", "lanes again")
  /\ lanesClosed' = TRUE
  /\ pending' = [l \in Events |-> IF lanes[KeyOf[l]] = l THEN <<>> ELSE pending[l]]
  /\ UNCHANGED <<lanes, admissionVars>>

\* The guard `if s.stopping` makes the second call leave drained alone.
StopAdmission(s) ==
  /\ CallerAt(s, "lanes", "announced") \/ CallerAt(s, "lanes again", "wait")
  /\ stopping' = TRUE
  /\ closes' = IF ~stopping /\ active = {} THEN closes + 1 ELSE closes
  /\ UNCHANGED <<lockVars, active, cancelled>>

DrainReturns(s) ==
  /\ closes > 0
  /\ CallerAt(s, "wait", "drained")
  /\ UNCHANGED <<lockVars, admissionVars>>

\* The budget ends: the registered handlers are cancelled, not waited for.
DrainExpires(s) ==
  /\ CallerAt(s, "wait", "expired")
  /\ cancelled' = cancelled \cup active
  /\ UNCHANGED <<lockVars, stopping, active, closes>>

\* Transports are cut after the drain.
AdaptersStop ==
  /\ ~gone /\ \E s \in Stoppers : caller[s] \in {"drained", "expired"}
  /\ gone' = TRUE
  /\ UNCHANGED <<arrived, lockVars, runner, item, taken, admissionVars, caller, handed>>

---------------------------------------------------------------------------
RunnerStep(l) ==
  \/ Pop(l) \/ RunnerExit(l) \/ TakeSlot(l) \/ SkipItem(l) \/ FreeSlot(l)
  \/ Register(l) \/ Refuse(l) \/ Enrich(l) \/ Filter(l) \/ HandToBridge(l)
  \/ Leave(l)

CallerStep(s) ==
  CloseLanes(s) \/ StopAdmission(s) \/ DrainReturns(s) \/ DrainExpires(s)

Next ==
  \/ \E e \in Events : Enqueue(e)
  \/ \E l \in Events : RunnerStep(l)
  \/ \E s \in Stoppers : CallerStep(s)
  \/ AdaptersStop

\* Some goroutine that can go on does; a caller that began to stop goes on,
\* and a budget ends.  Neither arrivals nor a shutdown have to happen.
Fairness ==
  /\ WF_vars(\E l \in Events : RunnerStep(l))
  /\ \A s \in Stoppers : WF_vars(caller[s] # "idle" /\ CallerStep(s))

Spec == Init /\ [][Next]_vars /\ Fairness

---------------------------------------------------------------------------
(* Properties. *)

TypeOK ==
  /\ arrived \in SUBSET Events
  /\ lanesClosed \in BOOLEAN /\ stopping \in BOOLEAN /\ gone \in BOOLEAN
  /\ lanes \in [Keys -> Events \cup {None}]
  /\ pending \in [Events -> Seq(Events)]
  /\ runner \in [Events -> Places]
  /\ item \in [Events -> Events \cup {None}]
  /\ taken \in 0..Concurrency
  /\ active \in SUBSET Events /\ cancelled \in SUBSET Events
  /\ closes \in Nat
  /\ caller \in [Stoppers -> CallerPlaces]
  /\ handed \in [Keys -> Seq(Events)]

Inside(l) == runner[l] \in {"enrich", "filter", "bridge", "leave"}

\* `drained` is closed exactly when the ingress stops and no accepted handler is
\* left, and never a second time, which would be a panic: the two calls of
\* StopAdmission and the last handlers race for it (ingress.go:153-161, 220-232).  So when
\* Drain returns without an error nothing will reach the bridge any more.
DrainedOnce ==
  /\ closes = IF stopping /\ \A l \in Events : ~Inside(l) THEN 1 ELSE 0
  /\ active = {l \in Events : Inside(l)}

\* The slots in use are those of the handlers under way, whatever way each of
\* them returns, so the bound of the concurrency never erodes
\* (ingress_lanes.go:78-83).
SlotsCounted ==
  taken = Cardinality({l \in Events : runner[l] \notin {"none", "loop", "slot"}})

\* Of one conversation the bridge gets the events in the order of their
\* arrival, each at most once, although the lane is forgotten and created
\* again between them (EnqueueAdapterEvent, runLane).
ConversationOrder ==
  \A k \in Keys : \A i, j \in 1..Len(handed[k]) :
    i < j => handed[k][i] < handed[k][j]

\* The channel that announces the end of the last handler is closed once, and
\* not before: by the shutdown, or by the handler that leaves last
\* (ingress.go:148-156, :221-232). The slots in use are those of the lanes that
\* handle an event, and the events of a conversation reach the bridge in the
\* order of their arrival, though its lane is forgotten when it is empty and
\* made again by the next event (ingress_lanes.go:32-75).
IngressSound == DrainedOnce /\ SlotsCounted /\ ConversationOrder

\* Whatever was enqueued is dealt with and every lane goroutine ends, and a
\* shutdown that began returns: as the events are finite, the ingress comes to
\* rest again and again.
AtRest ==
  /\ \A l \in Events : runner[l] = "none"
  /\ \A s \in Stoppers : caller[s] \in {"idle", "drained", "expired"}

=============================================================================
