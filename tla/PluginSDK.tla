------------------------------ MODULE PluginSDK ------------------------------
(***************************************************************************)
(* The Go SDK in a plugin process: the loop that reads the host's frames,  *)
(* the goroutine of each event with its permit and its lifetime, the       *)
(* actions its handler asks for, the terminal that waits for them, the     *)
(* move to the background, and the shutdown.  A handler may start          *)
(* goroutines of its own, which may outlive it; each of them, the reader   *)
(* and the timers run concurrently.  Deadlines may pass at any moment.     *)
(*                                                                         *)
(* The host is the other end of the pipes, as Manager treats these frames: *)
(* it answers an action or, when it has ended the event, ignores it; when  *)
(* it ends an event is left open.  Responses overtake each other, since it *)
(* runs actions side by side.                                              *)
(***************************************************************************)
EXTENDS Naturals, FiniteSets

CONSTANTS
  Events,      \* events, each delivered once
  Ids,         \* the actions handlers ask for, <<event, name>>; "detach" is one
  Concurrency, \* capacity of the semaphore
  Terminals    \* how events are ended: "plain" by a result or an error, "message"

\* A permit can be held, and an action belongs to an event.
SdkAssumption ==
  /\ Concurrency \in Nat
  /\ \A x \in Ids : x[1] \in Events

VARIABLES
  (* The SDK *)
  reader,     \* where run() is
  handler,    \* the goroutine of startEvent
  permits,    \* the events that hold a permit of the semaphore
  lifetime,   \* eventLifetime: "open", or what ended it
  detached,   \* EventContext.detached
  terminal,   \* EventContext.terminal, and where writeTerminal is
  kind,       \* the frame writeTerminal was given
  call,       \* where Actions.Call is
  response,   \* pendingAction.response
  unsettled,  \* EventContext.actions, of all events
  pending,    \* runtimeClient.pending
  retired,    \* runtimeClient.retired
  rejected,   \* what rejectPending has still to settle
  (* The pipes and the host *)
  written,    \* action frames written
  late,       \* history: actions written after the terminal of their event,
              \* though its lifetime had not ended
  inbox,      \* responses on their way
  taken,      \* actions the host has answered or ignored
  background  \* the events the host has moved to the background

clientVars == <<unsettled, pending, retired, response>>
callVars == <<call, written, late>>
hostVars == <<inbox, taken, background>>
endVars == <<terminal, kind>>
handlerVars == <<handler, permits, lifetime, detached>>
readerVars == <<reader, rejected>>

vars == <<readerVars, handlerVars, endVars, callVars, clientVars, hostVars>>

Of(e, ids) == {x \in ids : x[1] = e}
Closed == reader = "rejecting"  \* runtimeClient.closed
Cut(e) == lifetime[e] \in {"deadline", "shutdown"}
Ran(e) == handler[e] \in {"running", "ending", "leaving", "over"}

Init ==
  /\ reader = "reading" /\ rejected = {}
  /\ handler = [e \in Events |-> "none"]
  /\ permits = {} /\ detached = {}
  /\ lifetime = [e \in Events |-> "open"]
  /\ terminal = [e \in Events |-> "none"]
  /\ kind = [e \in Events |-> "none"]
  /\ call = [x \in Ids |-> "idle"]
  /\ response = [x \in Ids |-> "none"]
  /\ unsettled = {} /\ pending = {} /\ retired = {}
  /\ written = {} /\ late = {} /\ inbox = {} /\ taken = {}
  /\ background = {}

-----------------------------------------------------------------------------
(* Settling actions. *)

\* To a call that has given up nobody listens.
Respond(ids, how) ==
  response' = [x \in Ids |-> IF x \in ids /\ call[x] \in {"registered", "waiting"}
                            THEN how ELSE response[x]]

\* retireEvent.
Retire(e) ==
  /\ pending' = pending \ Of(e, pending)
  /\ retired' = retired \cup Of(e, pending)
  /\ unsettled' = unsettled \ Of(e, pending)
  /\ Respond(Of(e, pending), "error")

-----------------------------------------------------------------------------
(* run. *)

\* startEvent.
Event(e) ==
  /\ reader = "reading" /\ handler[e] = "none"
  /\ handler' = [handler EXCEPT ![e] = "queued"]
  /\ UNCHANGED <<readerVars, permits, lifetime, detached, endVars, callVars, clientVars,
                 hostVars>>

\* routeResponse; run fails on a response nobody knows.
Route(x, how) ==
  /\ reader = "reading" /\ <<x, how>> \in inbox
  /\ inbox' = inbox \ {<<x, how>>}
  /\ IF x \in pending
     THEN /\ pending' = pending \ {x} /\ unsettled' = unsettled \ {x}
          /\ Respond({x}, how)
     ELSE UNCHANGED <<pending, unsettled, response>>
  /\ reader' = IF x \in pending \cup retired THEN "reading" ELSE "died"
  /\ UNCHANGED <<retired, rejected, handlerVars, endVars, callVars, taken,
                 background>>

\* A shutdown frame, or the end of stdin: state.cancel.
Shutdown ==
  /\ reader = "reading"
  /\ reader' = "canceled"
  /\ UNCHANGED <<rejected, handlerVars, endVars, callVars, clientVars, hostVars>>

\* rejectPending, up to its unlock.  Then run waits for the handlers as long
\* as its grace lasts, which may run out at any moment.
Reject ==
  /\ reader = "canceled"
  /\ reader' = "rejecting"
  /\ rejected' = pending
  /\ pending' = {}
  /\ UNCHANGED <<handlerVars, endVars, callVars, unsettled, retired, response, hostVars>>

RejectOne(x) ==
  /\ reader = "rejecting" /\ x \in rejected
  /\ rejected' = rejected \ {x}
  /\ unsettled' = unsettled \ {x}
  /\ Respond({x}, "error")
  /\ UNCHANGED <<reader, handlerVars, endVars, callVars, pending, retired, hostVars>>

-----------------------------------------------------------------------------
(* The goroutine of an event. *)

Acquire(e) ==
  /\ handler[e] = "queued" /\ lifetime[e] = "open"
  /\ Cardinality(permits) < Concurrency
  /\ permits' = permits \cup {e}
  /\ handler' = [handler EXCEPT ![e] = "running"]
  /\ UNCHANGED <<readerVars, lifetime, detached, endVars, callVars, clientVars, hostVars>>

\* The event was over before its turn.
Skip(e) ==
  /\ handler[e] = "queued" /\ lifetime[e] # "open"
  /\ handler' = [handler EXCEPT ![e] = "skipped"]
  /\ UNCHANGED <<readerVars, permits, lifetime, detached, endVars, callVars, clientVars,
                 hostVars>>

\* eventLifetime.expire, at the deadline of the event or of the background.
Expire(e) ==
  /\ handler[e] # "none" /\ lifetime[e] = "open"
  /\ lifetime' = [lifetime EXCEPT ![e] = "deadline"]
  /\ UNCHANGED <<readerVars, handler, permits, detached, endVars, callVars, clientVars,
                 hostVars>>

Cancel(e) ==
  /\ reader # "reading" /\ handler[e] # "none" /\ lifetime[e] = "open"
  /\ lifetime' = [lifetime EXCEPT ![e] = "shutdown"]
  /\ UNCHANGED <<readerVars, handler, permits, detached, endVars, callVars, clientVars,
                 hostVars>>

BeginTerminal(e, how) ==
  /\ terminal[e] = "none"
  /\ terminal' = [terminal EXCEPT ![e] = "draining"]
  /\ kind' = [kind EXCEPT ![e] = how]

\* The handler returns; unless the event is over or its terminal was begun,
\* the SDK ends it with a result, or an error if that is what it returned.
HandlerReturns(e) ==
  /\ handler[e] = "running"
  /\ IF lifetime[e] = "open" /\ terminal[e] = "none"
     THEN /\ handler' = [handler EXCEPT ![e] = "ending"]
          /\ BeginTerminal(e, "plain")
     ELSE handler' = [handler EXCEPT ![e] = "leaving"] /\ UNCHANGED <<terminal, kind>>
  /\ UNCHANGED <<readerVars, permits, lifetime, detached, callVars, clientVars, hostVars>>

HandlerPanics(e) ==
  /\ handler[e] = "running" /\ lifetime[e] # "open"
  /\ handler' = [handler EXCEPT ![e] = "ending"]
  /\ BeginTerminal(e, "plain")
  /\ UNCHANGED <<readerVars, permits, lifetime, detached, callVars, clientVars, hostVars>>

\* The deferred functions: the unanswered actions of an event that is over end
\* here; the permit is given back unless Detach did that; the lifetime ends.
Leave(e) ==
  /\ \/ handler[e] = "leaving"
     \/ handler[e] = "ending" /\ terminal[e] \in {"sent", "withheld"}
  /\ handler' = [handler EXCEPT ![e] = "over"]
  /\ IF lifetime[e] # "open" THEN Retire(e) ELSE UNCHANGED clientVars
  /\ permits' = permits \ {e}
  /\ lifetime' = [lifetime EXCEPT ![e] = IF @ = "open" THEN "returned" ELSE @]
  /\ UNCHANGED <<readerVars, detached, endVars, callVars, hostVars>>

-----------------------------------------------------------------------------
(* Terminals. *)

\* Result, Fail, Send and Reply, by the handler or a goroutine of its.  What
\* Send and Reply do after Detach is an action and a Result.
End(e, how) ==
  /\ Ran(e)
  /\ how = "message" => e \notin detached
  /\ BeginTerminal(e, how)
  /\ UNCHANGED <<readerVars, handlerVars, callVars, clientVars, hostVars>>

\* Mutant: a terminal does not wait for the actions of its event.
SettledMutant(e) == TRUE
Settled(e) == Of(e, unsettled) = {}

WriteTerminal(e) ==
  /\ terminal[e] = "draining" /\ Settled(e) /\ ~Closed
  /\ terminal' = [terminal EXCEPT ![e] = "sent"]
  /\ UNCHANGED <<readerVars, handlerVars, kind, callVars, clientVars, hostVars>>

TerminalCanceled(e) ==
  /\ terminal[e] = "draining" /\ Closed
  /\ terminal' = [terminal EXCEPT ![e] = "withheld"]
  /\ UNCHANGED <<readerVars, handlerVars, kind, callVars, clientVars, hostVars>>

\* The action timeout has passed with an action that did not settle.
TerminalWithheld(e) ==
  /\ terminal[e] = "draining" /\ ~Settled(e)
  /\ terminal' = [terminal EXCEPT ![e] = "withheld"]
  /\ Retire(e)
  /\ UNCHANGED <<readerVars, handlerVars, kind, callVars, hostVars>>

-----------------------------------------------------------------------------
(* Actions.Call. *)

CallBegins(x) ==
  /\ call[x] = "idle" /\ Ran(x[1])
  /\ terminal[x[1]] = "none" /\ ~Closed
  /\ call' = [call EXCEPT ![x] = "registered"]
  /\ unsettled' = unsettled \cup {x}
  /\ pending' = pending \cup {x}
  /\ UNCHANGED <<readerVars, handlerVars, endVars, written, late, retired, response, hostVars>>

\* Its context has ended before the write: removePending.
CallAbandoned(x) ==
  /\ call[x] = "registered"
  /\ call' = [call EXCEPT ![x] = "failed"]
  /\ unsettled' = IF x \in pending THEN unsettled \ {x} ELSE unsettled
  /\ pending' = pending \ {x}
  /\ response' = [response EXCEPT ![x] = "none"]
  /\ UNCHANGED <<readerVars, handlerVars, endVars, written, late, retired, hostVars>>

CallWrites(x) ==
  /\ call[x] = "registered"
  /\ call' = [call EXCEPT ![x] = "waiting"]
  /\ written' = written \cup {x}
  /\ late' = IF terminal[x[1]] = "sent" /\ ~Cut(x[1]) THEN late \cup {x} ELSE late
  /\ UNCHANGED <<readerVars, handlerVars, endVars, clientVars, hostVars>>

\* A result of event.detach marks the event, extends its lifetime and gives
\* its permit back.
CallReturns(x) ==
  /\ call[x] = "waiting" /\ response[x] # "none"
  /\ call' = [call EXCEPT ![x] = "returned"]
  /\ IF x[2] = "detach" /\ response[x] = "result"
     THEN detached' = detached \cup {x[1]} /\ permits' = permits \ {x[1]}
     ELSE UNCHANGED <<detached, permits>>
  /\ response' = [response EXCEPT ![x] = "none"]
  /\ UNCHANGED <<readerVars, handler, lifetime, endVars, written, late, unsettled, pending,
                 retired, hostVars>>

\* Its context ends; the host may still execute the action.
CallGivesUp(x) ==
  /\ call[x] = "waiting"
  /\ call' = [call EXCEPT ![x] = "failed"]
  /\ response' = [response EXCEPT ![x] = "none"]
  /\ UNCHANGED <<readerVars, handlerVars, endVars, written, late, unsettled, pending, retired,
                 hostVars>>

-----------------------------------------------------------------------------
(* The host. *)

\* An action of an event that is over for the host.
HostIgnores(x) ==
  /\ x \in written \ taken
  /\ taken' = taken \cup {x}
  /\ UNCHANGED <<readerVars, handlerVars, endVars, callVars, clientVars, inbox, background>>

\* Any other succeeds or fails; an event.detach that succeeds moves the event.
HostAnswers(x, how) ==
  /\ x \in written \ taken
  /\ taken' = taken \cup {x}
  /\ inbox' = inbox \cup {<<x, how>>}
  /\ background' = IF x[2] = "detach" /\ how = "result" THEN background \cup {x[1]}
                   ELSE background
  /\ UNCHANGED <<readerVars, handlerVars, endVars, callVars, clientVars>>

-----------------------------------------------------------------------------

Goroutine(e) ==
  \/ Acquire(e) \/ Skip(e) \/ Expire(e) \/ Cancel(e) \/ Leave(e)
  \/ WriteTerminal(e) \/ TerminalCanceled(e) \/ TerminalWithheld(e)

Calling(x) == CallAbandoned(x) \/ CallWrites(x) \/ CallReturns(x) \/ CallGivesUp(x)

Reading == Reject \/ \E x \in Ids : RejectOne(x)

Next ==
  \/ Shutdown \/ Reading
  \/ \E e \in Events :
       \/ Event(e) \/ Goroutine(e) \/ HandlerReturns(e) \/ HandlerPanics(e)
       \/ \E how \in Terminals : End(e, how)
  \/ \E x \in Ids :
       \/ CallBegins(x) \/ Calling(x) \/ HostIgnores(x)
       \/ \E how \in {"result", "error"} : Route(x, how) \/ HostAnswers(x, how)

\* The timers, the SDK's own goroutines, and a handler that returns when its
\* context has ended, as the documentation asks of it.  What the host does and
\* when a handler calls is open.
Progress ==
  \/ Reading
  \/ \E e \in Events : Goroutine(e) \/ (lifetime[e] # "open" /\ HandlerReturns(e))
  \/ \E x \in Ids : Calling(x)

Spec == Init /\ [][Next]_vars /\ WF_vars(Progress)

-----------------------------------------------------------------------------
(* Properties. *)

\* An answer of the host always finds the action it answers, pending or
\* retired, whichever of timeouts, terminals and deadlines came first;
\* otherwise run returns an error and the plugin is gone.
AnswersRecognised == reader # "died"

\* What the host demands of a plugin (manager_local_actions.go:46-50,
\* manager_start.go:320): the terminal of an event comes after the answers of
\* all its actions, and no action comes after it, from whichever goroutine.
\* Only at its deadline or in a shutdown, when the host listens no more, may
\* an event end otherwise.
TerminalLast ==
  \A e \in Events :
    /\ terminal[e] = "sent" /\ ~Cut(e) => Of(e, written) \subseteq taken
    /\ Of(e, late) = {}

\* A permit is held by the handlers that run in the foreground and by no
\* other, though Detach and the end of the handler may both give it back.
PermitsCounted ==
  /\ Cardinality(permits) <= Concurrency
  /\ \A e \in Events :
       e \in permits <=> handler[e] \in {"running", "ending", "leaving"} /\ e \notin detached

\* The three together.
SdkSound == AnswersRecognised /\ TerminalLast /\ PermitsCounted

\* When Detach is over and the event in the background, Send and Reply send an
\* ordinary action and a Result (detach.go:22, docs/plugin/protocol.md:259): the
\* host takes a message that ends a background event for a violation.
DetachedEndsPlainly ==
  [][ \A x \in Ids :
        ( /\ x[2] = "detach" /\ x[1] \in background
          /\ call[x] \in {"returned", "failed"}
          /\ kind[x[1]] = "none" )
        => kind'[x[1]] # "message" ]_vars

\* Every call and every terminal ends, every handler that ran is let go when
\* its event is over, and a shutdown settles what was asked for.
AllOver ==
  /\ \A x \in Ids : call[x] \in {"idle", "returned", "failed"}
  /\ \A e \in Events : terminal[e] # "draining"
                       /\ handler[e] \in {"none", "skipped", "over"}
  /\ reader # "canceled" /\ rejected = {}

=============================================================================
