---------------------------- MODULE OneBotShell ----------------------------
(***************************************************************************)
(* The lifecycle of a OneBot 11 adapter (bot/adapters/onebot11, Shell):    *)
(* the supervisor that dials the forward connection again and again, the   *)
(* sessions of reverse connections, the workers a lifecycle has started,   *)
(* and the calls that start, reload and stop it.                           *)
(*                                                                         *)
(* The calls are serialised (adapters/lifecycle.go, lifecycleMu); a Stop   *)
(* gives up when its time is over and leaves the lifecycle to end by       *)
(* itself.  Reverse connections are attached by HTTP handlers at any time. *)
(***************************************************************************)
EXTENDS Naturals, FiniteSets

CONSTANTS
  Settings,  \* the configurations: [forward, reverse], each on or off
  MaxStarts, \* bound: lifecycles
  MaxAttach, \* bound: reverse connections
  None

\* None is no connection.
ShellAssumption == None \notin Nat

VARIABLES
  settings,    \* the configuration, which the snapshot shows
  started,
  stopping,
  life,        \* the lifecycles so far; the last one has the context
  over,        \* the lifecycles whose context is cancelled
  loop,        \* where the supervisor stands
  conn,        \* the forward connection is set
  reverseConn, \* the reverse connection that counts, or None
  sessions,    \* of each reverse connection: [at, life, previous, early]
  severed,     \* the reverse connections that are closed
  workers,     \* <<lifecycle, kind>>: the dispatcher, and callbacks
  forwardState,
  reverseState,
  call         \* the call under way: [at, then, next, started, reverse]

connVars == <<conn, reverseConn, sessions, severed>>
lifeVars == <<started, stopping, life, over>>
shownVars == <<forwardState, reverseState>>
vars == <<settings, lifeVars, loop, connVars, workers, shownVars, call>>

Cancelled(l) == l \in over

Gone == [at |-> "gone", life |-> 0, previous |-> None, early |-> FALSE]

Alive == {a \in DOMAIN sessions : sessions[a].at # "gone"}

\* refreshAggregateStateLocked, as far as a reload looks at it
Stopped ==
  /\ "stopped" \in {forwardState, reverseState}
  /\ {forwardState, reverseState} \cap {"connected", "connecting",
                                        "reconnecting", "auth_failed"} = {}

\* startWorker: what is running once it was asked to start such a worker.
WithWorker(kind) ==
  IF started /\ ~stopping THEN workers \cup {<<life, kind>>} ELSE workers

\* What a reverse connection shows that is not up.
ReverseDown(state) == IF settings.reverse THEN state ELSE "idle"

-----------------------------------------------------------------------------
(* The supervisor, run. *)

GoTo(l) ==
  /\ loop' = l
  /\ UNCHANGED <<settings, reverseConn, sessions, severed, reverseState, call>>

\* The head of the loop and markConnecting, at the start and after a delay; a
\* transport that is not enabled waits for the end.
Attempt ==
  /\ loop \in {"begin", "delay"}
  /\ IF loop = "begin" /\ ~settings.forward
     THEN GoTo("parked") /\ UNCHANGED forwardState
     ELSE IF Cancelled(life)
     THEN GoTo("leaving") /\ UNCHANGED forwardState
     ELSE GoTo("dialling") /\ forwardState' = "connecting"
  /\ UNCHANGED <<lifeVars, conn, workers>>

\* So does one whose credential is refused.
Parked ==
  /\ loop = "parked"
  /\ Cancelled(life)
  /\ GoTo("leaving")
  /\ UNCHANGED <<lifeVars, conn, workers, forwardState>>

\* The dial, and setConn.
Dial ==
  /\ loop = "dialling"
  /\ ~Cancelled(life)
  /\ GoTo("opening")
  /\ conn' = TRUE
  /\ UNCHANGED <<lifeVars, workers, forwardState>>

DialRefused ==
  /\ loop = "dialling"
  /\ GoTo("parked")
  /\ forwardState' = "auth_failed"
  /\ UNCHANGED <<lifeVars, conn, workers>>

DialFails ==
  /\ loop = "dialling"
  /\ IF Cancelled(life)
     THEN GoTo("leaving") /\ UNCHANGED forwardState
     ELSE GoTo("delay") /\ forwardState' = "reconnecting"
  /\ UNCHANGED <<lifeVars, conn, workers>>

\* The ready frame: markConnected, and the callbacks start.
Connected ==
  /\ loop = "opening"
  /\ ~Cancelled(life)
  /\ GoTo("reading")
  /\ forwardState' = "connected"
  /\ workers' = WithWorker("callback")
  /\ UNCHANGED <<lifeVars, conn>>

\* The connection ends, dropped, silent for too long, or cancelled, and is
\* cleared.
ConnectionEnds ==
  /\ loop \in {"opening", "reading"}
  /\ IF Cancelled(life)
     THEN GoTo("leaving") /\ UNCHANGED forwardState
     ELSE GoTo("delay") /\ forwardState' = "reconnecting"
  /\ conn' = FALSE
  /\ UNCHANGED <<lifeVars, workers>>

\* The deferred teardown: no more workers or sessions from here on, and those
\* that run are told to end ...
Leave ==
  /\ loop = "leaving"
  /\ loop' = "joining"
  /\ stopping' = TRUE
  /\ over' = over \cup {life}
  /\ severed' = severed \cup ({reverseConn} \ {None})
  /\ UNCHANGED <<settings, started, life, conn, reverseConn, sessions, workers,
                 shownVars, call>>

\* Mutant: the teardown does not wait for the workers.
JoinMutant ==
  /\ loop = "joining"
  /\ loop' = "ending"
  /\ conn' = FALSE
  /\ forwardState' = "stopped"
  /\ reverseState' = ReverseDown("stopped")
  /\ UNCHANGED <<settings, lifeVars, reverseConn, sessions, severed, workers,
                 call>>

\* ... and when all have, the shell is stopped: clearConn and markStopped.
Join ==
  /\ loop = "joining"
  /\ workers = {} /\ Alive = {}
  /\ loop' = "ending"
  /\ conn' = FALSE
  /\ forwardState' = "stopped"
  /\ reverseState' = ReverseDown("stopped")
  /\ UNCHANGED <<settings, lifeVars, reverseConn, sessions, severed, workers,
                 call>>

End ==
  /\ loop = "ending"
  /\ GoTo("none")
  /\ started' = FALSE
  /\ UNCHANGED <<stopping, life, over, conn, workers, forwardState>>

LoopStep ==
  Attempt \/ Parked \/ DialFails \/ Leave \/ Join \/ End

\* The dispatcher ends with its context, a callback when it has run.
WorkerEnds(w) ==
  /\ w \in workers
  /\ w[2] = "dispatcher" => Cancelled(w[1])
  /\ workers' = workers \ {w}
  /\ UNCHANGED <<settings, lifeVars, loop, connVars, shownVars, call>>

-----------------------------------------------------------------------------
(* Reverse connections. *)

\* AttachReverseWS, which the route calls while the transport is enabled; a
\* shell that is not running closes the connection.
Attach(a) ==
  /\ a = Cardinality(DOMAIN sessions) + 1
  /\ started /\ ~stopping /\ settings.reverse
  /\ sessions' = [b \in 1..a |->
       IF b < a THEN sessions[b]
       ELSE [at |-> "attached", life |-> life, previous |-> reverseConn,
             early |-> call # None /\ call.at = "prime"]]
  /\ reverseConn' = a
  /\ reverseState' = "listening"
  /\ UNCHANGED <<settings, lifeVars, loop, conn, severed, workers, forwardState,
                 call>>

\* The session a goes on to another place.
Moves(a, to) ==
  /\ sessions' = [sessions EXCEPT ![a].at = to]
  /\ UNCHANGED <<settings, lifeVars, loop, conn, forwardState, call>>

\* The connection it replaces is closed, and the session starts.
CloseReplaced(a) ==
  /\ sessions[a].at = "attached"
  /\ sessions' = [sessions EXCEPT ![a].at = "waiting", ![a].previous = None]
  /\ severed' = severed \cup (Alive \cap {sessions[a].previous})
  /\ UNCHANGED <<settings, lifeVars, loop, conn, reverseConn, workers, shownVars,
                 call>>

\* The ready frame, which only the current connection may record.
SeesReady(a) ==
  /\ sessions[a].at = "waiting"
  /\ a = reverseConn /\ a \notin severed /\ ~Cancelled(sessions[a].life)
  /\ Moves(a, "ready")
  /\ UNCHANGED <<reverseConn, severed, workers, reverseState>>

\* It is shown, and the callbacks start.
ShowReady(a) ==
  /\ sessions[a].at = "ready"
  /\ IF a = reverseConn
     THEN /\ Moves(a, "reading")
          /\ reverseState' = "connected"
          /\ workers' = WithWorker("callback")
     ELSE Moves(a, "leaving") /\ UNCHANGED <<workers, reverseState>>
  /\ UNCHANGED <<reverseConn, severed>>

\* It is dropped, closed, cancelled, replaced, or not ready in time.
ReverseEnds(a) ==
  /\ sessions[a].at \in {"waiting", "reading"}
  /\ Moves(a, IF Cancelled(sessions[a].life) \/ stopping
              THEN "leaving" ELSE "failing")
  /\ UNCHANGED <<reverseConn, severed, workers, reverseState>>

\* markReverseSessionFailure
ReverseFails(a) ==
  /\ sessions[a].at = "failing"
  /\ Moves(a, "leaving")
  /\ reverseState' = IF a = reverseConn THEN "listening" ELSE reverseState
  /\ UNCHANGED <<reverseConn, severed, workers>>

\* The deferred end of handleReverseSession: a session that was replaced
\* leaves the state of its successor alone, unless the shell is stopping.
ReverseLeaves(a) ==
  /\ sessions[a].at = "leaving"
  /\ sessions' = [sessions EXCEPT ![a] = Gone]
  /\ severed' = severed \ {a}
  /\ reverseConn' = IF a = reverseConn THEN None ELSE reverseConn
  /\ reverseState' = IF a = reverseConn \/ stopping
                     THEN ReverseDown(IF stopping THEN "stopped"
                                      ELSE "listening")
                     ELSE reverseState
  /\ UNCHANGED <<settings, lifeVars, loop, conn, workers, forwardState, call>>

SessionStep(a) ==
  \/ CloseReplaced(a) \/ ShowReady(a)
  \/ ReverseFails(a) \/ ReverseLeaves(a)
  \/ /\ sessions[a].at = "waiting" \/ a # reverseConn
        \/ a \in severed \/ Cancelled(sessions[a].life)
     /\ ReverseEnds(a)

-----------------------------------------------------------------------------
(* The calls. *)

\* What every step of a call leaves to the others.
Untouched == UNCHANGED <<conn, reverseConn, sessions>>

Then(at) == call' = [call EXCEPT !.at = at]

Idle == [at |-> "start", then |-> "return", next |-> settings,
         started |-> FALSE, reverse |-> None]

\* Service.Start
StartCall ==
  /\ call = None /\ life = 0 /\ ~stopping
  /\ call' = Idle
  /\ Untouched
  /\ UNCHANGED <<settings, started, stopping, life, over, loop, severed,
                 workers, shownVars>>

\* ApplyConfigReload does not reload a shell that has stopped.
ReloadCall(next) ==
  /\ call = None
  /\ ~Stopped
  /\ next # settings
  /\ started => life < MaxStarts
  /\ call' = [Idle EXCEPT !.at = IF started THEN "stop" ELSE "apply",
                          !.then = IF started THEN "restart" ELSE "return",
                          !.next = next]
  /\ Untouched
  /\ UNCHANGED <<settings, started, stopping, life, over, loop, severed,
                 workers, shownVars>>

\* Service.Stop, or the adapter is removed.
StopCall ==
  /\ call = None
  /\ call' = [Idle EXCEPT !.at = "stop", !.then = "retire"]
  /\ Untouched
  /\ UNCHANGED <<settings, started, stopping, life, over, loop, severed,
                 workers, shownVars>>

\* Start: the lifecycle begins under the lock ...
Start ==
  /\ call # None /\ call.at = "start"
  /\ IF started
     THEN call' = None /\ UNCHANGED <<started, stopping, life>>
     ELSE Then("prime") /\ started' = TRUE /\ stopping' = FALSE
          /\ life' = life + 1
  /\ Untouched
  /\ UNCHANGED <<settings, over, loop, severed, workers, shownVars>>

\* ... markTransportPrimed shows it, and may start a worker for the HTTP API,
Prime ==
  /\ call # None /\ call.at = "prime"
  /\ Then("run")
  /\ forwardState' = "idle"
  /\ reverseState' = ReverseDown("listening")
  /\ workers' \in {workers, WithWorker("callback")}
  /\ Untouched
  /\ UNCHANGED <<settings, started, stopping, life, over, loop, severed>>

\* ... and the dispatcher of the events and the supervisor start.
Run ==
  /\ call # None /\ call.at = "run"
  /\ call' = None
  /\ workers' = WithWorker("dispatcher")
  /\ loop' = "begin"
  /\ Untouched
  /\ UNCHANGED <<settings, started, stopping, life, over, severed, shownVars>>

AfterStop == IF call.then = "retire" THEN "retire" ELSE "apply"

\* Stop takes what there is to close under the lock, ...
Stop ==
  /\ call # None /\ call.at = "stop"
  /\ stopping' = TRUE
  /\ call' = [call EXCEPT !.at = "cancel", !.started = started,
                          !.reverse = reverseConn]
  /\ Untouched
  /\ UNCHANGED <<settings, started, life, over, loop, severed, workers,
                 shownVars>>

StopCancel ==
  /\ call # None /\ call.at = "cancel"
  /\ Then(IF call.started THEN "wait" ELSE "reverse")
  /\ over' = IF call.started THEN over \cup {life} ELSE over
  /\ severed' = severed \cup ({call.reverse} \ {None})
  /\ Untouched
  /\ UNCHANGED <<settings, started, stopping, life, loop, workers, shownVars>>

\* ... waits for the supervisor and for the reverse session, ...
StopWait ==
  /\ call # None
  /\ \/ call.at = "wait" /\ loop = "none" /\ Then("reverse")
     \/ /\ call.at = "reverse"
        /\ call.reverse \notin Alive
        /\ Then(IF call.started THEN AfterStop ELSE "mark")
  /\ Untouched
  /\ UNCHANGED <<settings, started, stopping, life, over, loop, severed,
                 workers, shownVars>>

\* ... or gives up: a reload fails, and its settings are not taken.
StopTimesOut ==
  /\ call # None /\ call.at \in {"wait", "reverse"}
  /\ call' = None
  /\ Untouched
  /\ UNCHANGED <<settings, started, stopping, life, over, loop, severed,
                 workers, shownVars>>

\* markStopped, of a shell that was not started.
StopMark ==
  /\ call # None /\ call.at = "mark"
  /\ Then(AfterStop)
  /\ forwardState' = "stopped"
  /\ reverseState' = ReverseDown("stopped")
  /\ Untouched
  /\ UNCHANGED <<settings, started, stopping, life, over, loop, severed,
                 workers>>

\* applyConfig, after which a shell that was running starts again.
Apply ==
  /\ call # None /\ call.at = "apply"
  /\ settings' = call.next
  /\ forwardState' = "idle" /\ reverseState' = "idle"
  /\ IF call.then = "restart" THEN Then("start") ELSE call' = None
  /\ Untouched
  /\ UNCHANGED <<started, stopping, life, over, loop, severed, workers>>

CallStep ==
  \/ Start \/ Prime \/ Run
  \/ Stop \/ StopCancel \/ StopWait \/ StopTimesOut \/ StopMark
  \/ Apply

-----------------------------------------------------------------------------
Init ==
  /\ settings \in Settings
  /\ started = FALSE /\ stopping = FALSE
  /\ life = 0 /\ over = {} /\ loop = "none"
  /\ conn = FALSE /\ reverseConn = None /\ sessions = <<>> /\ severed = {}
  /\ workers = {} /\ call = None
  /\ forwardState = "idle" /\ reverseState = "idle"

Next ==
  \/ LoopStep \/ Dial \/ DialRefused \/ Connected \/ ConnectionEnds
  \/ \E w \in workers : WorkerEnds(w)
  \/ \E a \in 1..MaxAttach : Attach(a)
  \/ \E a \in DOMAIN sessions :
       \/ SessionStep(a) \/ SeesReady(a) \/ ReverseEnds(a)
  \/ StartCall \/ (\E next \in Settings : ReloadCall(next)) \/ StopCall
  \/ CallStep

\* Everybody goes on: what is cancelled ends, and callbacks return.
SupervisorStep ==
  \/ LoopStep
  \/ loop = "opening" /\ ConnectionEnds
  \/ Cancelled(life) /\ ConnectionEnds

Fairness ==
  /\ WF_vars(SupervisorStep)
  /\ WF_vars(CallStep)
  /\ WF_vars(\E w \in workers : WorkerEnds(w))
  /\ \A a \in 1..MaxAttach : WF_vars(a \in DOMAIN sessions /\ SessionStep(a))

Spec == Init /\ [][Next]_vars /\ Fairness

-----------------------------------------------------------------------------
(* Properties. *)

\* "preventing a reload from starting a second event dispatcher"
\* (shell_run.go): whatever still runs belongs to the last lifecycle, though
\* a Stop may have given up on it, and a shell that has stopped holds nothing.
OneLifecycle ==
  /\ \A w \in workers : w[1] = life
  /\ \A a \in Alive : sessions[a].life = life
  /\ ~started => workers = {} /\ Alive = {} /\ ~conn

\* A reverse connection that was replaced does not disturb its successor,
\* and what is shown as connected is what a message would be sent over: a
\* connection that counts and has shown its ready frame.  (A session that
\* was attached before the start has shown the shell may be shown as
\* listening only.)
SessionsShown ==
  /\ reverseState = "connected" =>
       /\ reverseConn \in Alive
       /\ \/ sessions[reverseConn].at \in {"reading", "failing"}
          \/ stopping \/ Cancelled(life)
  /\ \A a \in Alive :
       a = reverseConn /\ ~stopping /\ sessions[a].at = "reading"
         => reverseState = "connected" \/ sessions[a].early
  /\ forwardState = "connected" => conn \/ Cancelled(life)

\* The two together.
AdapterSound == OneLifecycle /\ SessionsShown

\* A call returns, a shell that is told to stop stops, and a session that was
\* replaced ends.
AtRest ==
  /\ call = None \/ call.at = "retire"
  /\ stopping => ~started
  /\ Alive \subseteq {reverseConn}

=============================================================================
