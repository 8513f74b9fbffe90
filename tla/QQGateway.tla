----------------------------- MODULE QQGateway -----------------------------
(***************************************************************************)
(* The connection of a QQ official adapter (bot/adapters/qqofficial): the  *)
(* loop that dials, identifies or resumes, reads and backs off, and the    *)
(* calls that change its settings, switch it off and on, and stop it.      *)
(*                                                                         *)
(* The loop is one goroutine.  The calls are serialised by their caller    *)
(* (adapters.ApplyConfigReload) and run beside it.  The platform at the    *)
(* other end may answer, refuse, fail or drop the connection at any point. *)
(***************************************************************************)
EXTENDS Naturals

CONSTANTS
  MaxChanges, \* bound: calls of Reload and SetEnabled
  None

\* None is no number, no frame and no connection.
GatewayAssumption ==
  None \notin Nat \cup [epoch : Nat, opening : {"none", "identify", "resume"},
                       ready : BOOLEAN, cancelled : BOOLEAN]

VARIABLES
  epoch,     \* which settings hold: the changes so far
  disabled,
  reloading, \* a change ended the connection, or came between two
  changed,   \* the token that wakes the loop
  session,   \* the epoch of the session that can be resumed, or None
  lastSeq,   \* the epoch of the session lastSeq was counted in, or None
  shown,     \* the state recorded for the management surface
  loop,      \* where the loop stands
  conn,      \* its connection: [epoch, opening, ready, cancelled]
  frame,     \* the frame it has read
  err,       \* why its connection ended
  caller,    \* the call under way, and what it does next
  stopping

settingsVars == <<epoch, disabled, reloading, session>>
loopVars == <<loop, conn, frame, err>>
vars == <<settingsVars, lastSeq, changed, shown, loopVars, caller, stopping>>

Up == conn # None /\ ~conn.cancelled

Frames == {"READY", "RESUMED", "event", "invalid", "reconnect"}

-----------------------------------------------------------------------------
(* The loop, Start. *)

\* The end of the goroutine.
Exit ==
  /\ loop' = "done"
  /\ shown' = "stopped"

\* The head of the loop.
Top ==
  /\ loop = "top"
  /\ IF stopping THEN Exit
     ELSE /\ loop' = IF disabled THEN "parking" ELSE "begin"
          /\ UNCHANGED shown
  /\ UNCHANGED <<settingsVars, lastSeq, changed, conn, frame, err, caller,
                 stopping>>

Park ==
  /\ loop = "parking"
  /\ loop' = "parked"
  /\ shown' = "stopped"
  /\ UNCHANGED <<settingsVars, lastSeq, changed, conn, frame, err, caller,
                 stopping>>

\* A wait of the loop, while it is switched off or before it dials again.
Wake ==
  /\ loop \in {"parked", "delay"}
  /\ \/ stopping /\ Exit /\ UNCHANGED changed
     \/ changed /\ changed' = FALSE /\ loop' = "top" /\ UNCHANGED shown
     \/ loop = "delay" /\ loop' = "top" /\ UNCHANGED <<changed, shown>>
  /\ UNCHANGED <<settingsVars, lastSeq, conn, frame, err, caller, stopping>>

\* runConnection takes the settings.
Begin ==
  /\ loop = "begin"
  /\ IF disabled
     THEN loop' = "top" /\ UNCHANGED <<reloading, changed, conn>>
     ELSE /\ loop' = "announce"
          /\ reloading' = FALSE
          /\ changed' = FALSE
          /\ conn' = [epoch |-> epoch, opening |-> "none", ready |-> FALSE,
                      cancelled |-> FALSE]
  /\ UNCHANGED <<epoch, disabled, session, lastSeq, shown, frame, err, caller,
                 stopping>>

Announce ==
  /\ loop = "announce"
  /\ loop' = "dialling"
  /\ shown' = "connecting"
  /\ UNCHANGED <<settingsVars, lastSeq, changed, conn, frame, err, caller,
                 stopping>>

\* The token, the endpoint, the dial, Hello and the opening frame.
Dial ==
  /\ loop = "dialling"
  /\ Up
  /\ conn' = [conn EXCEPT !.opening =
                IF session = None THEN "identify" ELSE "resume"]
  /\ loop' = "reading"
  /\ UNCHANGED <<settingsVars, lastSeq, changed, shown, frame, err, caller,
                 stopping>>

EndConn(reason) ==
  /\ loop' = "closing"
  /\ err' = reason

DialFails ==
  /\ loop = "dialling"
  /\ EndConn("failed")
  /\ UNCHANGED <<settingsVars, lastSeq, changed, shown, conn, frame, caller,
                 stopping>>

\* The credential is refused: shown, unless the connection is replaced.
Rejected ==
  /\ loop = "dialling"
  /\ EndConn("failed")
  /\ shown' = IF Up /\ ~stopping /\ ~reloading /\ ~disabled
              THEN "auth_failed" ELSE shown
  /\ UNCHANGED <<settingsVars, lastSeq, changed, conn, frame, caller, stopping>>

\* What the platform may send: it answers the opening frame first.
Sendable ==
  IF conn.ready THEN {"event", "reconnect"}
  ELSE IF conn.opening = "identify" THEN {"READY"}
  ELSE {"RESUMED", "invalid"}

\* readLoop: a frame, whose sequence number is then recorded.
Read(f) ==
  /\ loop = "reading"
  /\ Up
  /\ f \in Sendable
  /\ frame' = f
  /\ loop' = "frame"
  /\ UNCHANGED <<settingsVars, lastSeq, changed, shown, conn, err, caller,
                 stopping>>

\* The connection is dropped, or its context cancelled.
Dropped ==
  /\ loop = "reading"
  /\ EndConn("failed")
  /\ UNCHANGED <<settingsVars, lastSeq, changed, shown, conn, frame, caller,
                 stopping>>

\* Of the frames only those of an event family carry a number.
Observe ==
  /\ loop = "frame"
  /\ lastSeq' = CASE frame = "invalid" -> None
                  [] frame = "reconnect" -> lastSeq
                  [] OTHER -> conn.epoch
  /\ session' = IF frame = "invalid" THEN None ELSE session
  /\ IF frame \in {"invalid", "reconnect"}
     THEN EndConn("failed")
     ELSE loop' = "handle" /\ UNCHANGED err
  /\ frame' = IF frame \in {"invalid", "reconnect"} THEN None ELSE frame
  /\ UNCHANGED <<epoch, disabled, reloading, changed, shown, conn, caller,
                 stopping>>

\* Mutant: READY is taken without the check under the lock.
HandleMutant ==
  /\ loop = "handle"
  /\ loop' = "reading"
  /\ frame' = None
  /\ IF frame # "event"
     THEN /\ session' = IF frame = "READY" THEN conn.epoch ELSE session
          /\ shown' = "connected"
          /\ conn' = [conn EXCEPT !.ready = TRUE]
     ELSE UNCHANGED <<session, shown, conn>>
  /\ UNCHANGED <<epoch, disabled, reloading, lastSeq, changed, err, caller,
                 stopping>>

\* handleDispatch: READY starts a session, RESUMED goes on with it.
Handle ==
  /\ loop = "handle"
  /\ loop' = "reading"
  /\ frame' = None
  /\ IF Up /\ ~disabled /\ frame # "event"
     THEN /\ session' = IF frame = "READY" THEN conn.epoch ELSE session
          /\ shown' = "connected"
          /\ conn' = [conn EXCEPT !.ready = TRUE]
     ELSE UNCHANGED <<session, shown, conn>>
  /\ UNCHANGED <<epoch, disabled, reloading, lastSeq, changed, err, caller,
                 stopping>>

\* The deferred calls of runConnection: takeReloading ...
TakeReloading ==
  /\ loop = "closing"
  /\ loop' = "clearing"
  /\ err' = IF reloading THEN "reload" ELSE err
  /\ reloading' = FALSE
  /\ UNCHANGED <<epoch, disabled, session, lastSeq, changed, shown, conn, frame,
                 caller, stopping>>

\* ... and setConnectionCancel.
ClearCancel ==
  /\ loop = "clearing"
  /\ loop' = "decide"
  /\ conn' = None
  /\ UNCHANGED <<settingsVars, lastSeq, changed, shown, frame, err, caller,
                 stopping>>

\* A reload is dialled at once, another end after a delay; a connection that
\* was cancelled by Stop ends the loop.
Decide ==
  /\ loop = "decide"
  /\ \/ stopping /\ err # "reload" /\ Exit
     \/ /\ loop' = IF err = "reload" THEN "top" ELSE "delay"
        /\ shown' = IF err # "reload" /\ shown # "auth_failed"
                    THEN "reconnecting" ELSE shown
  /\ err' = None
  /\ UNCHANGED <<settingsVars, lastSeq, changed, conn, frame, caller, stopping>>

\* The goroutine that cancels a connection when the client stops.
CancelOnStop ==
  /\ stopping
  /\ Up
  /\ conn' = [conn EXCEPT !.cancelled = TRUE]
  /\ UNCHANGED <<settingsVars, lastSeq, changed, shown, loop, frame, err, caller,
                 stopping>>

-----------------------------------------------------------------------------
(* The calls. *)

\* invalidateConnectionLocked, with the change it goes with.
Invalidate ==
  /\ epoch < MaxChanges
  /\ epoch' = epoch + 1
  /\ session' = None
  /\ lastSeq' = None
  /\ reloading' = TRUE
  /\ conn' = IF conn # None THEN [conn EXCEPT !.cancelled = TRUE] ELSE None

Reload ==
  /\ caller = "idle"
  /\ Invalidate
  /\ caller' = "reload:show"
  /\ UNCHANGED <<disabled, changed, shown, loop, frame, err, stopping>>

SetEnabled ==
  /\ caller = "idle"
  /\ disabled' = ~disabled
  /\ Invalidate
  /\ caller' = IF disabled THEN "enable:wake" ELSE "disable:wake"
  /\ UNCHANGED <<changed, shown, loop, frame, err, stopping>>

Stop ==
  /\ caller = "idle"
  /\ stopping' = TRUE
  /\ caller' = "stop:cancel"
  /\ UNCHANGED <<settingsVars, lastSeq, changed, shown, loopVars>>

\* What a call does after it has given up the lock.
Show(from, to, state) ==
  /\ caller = from
  /\ caller' = to
  /\ shown' = state
  /\ UNCHANGED <<settingsVars, lastSeq, changed, loopVars, stopping>>

\* wakeConnectionLoop
WakeLoop ==
  /\ caller \in {"reload:wake", "enable:wake", "disable:wake"}
  /\ caller' = IF caller = "disable:wake" THEN "disable:show" ELSE "idle"
  /\ changed' = TRUE
  /\ UNCHANGED <<settingsVars, lastSeq, shown, loopVars, stopping>>

StopCancel ==
  /\ caller = "stop:cancel"
  /\ caller' = "stop:show"
  /\ conn' = IF conn # None THEN [conn EXCEPT !.cancelled = TRUE] ELSE None
  /\ UNCHANGED <<settingsVars, lastSeq, changed, shown, loop, frame, err,
                 stopping>>

\* Stop returns when the loop has ended, or its caller's time is over.
StopReturn ==
  /\ caller = "stop:wait"
  /\ loop = "done"
  /\ caller' = "stopped"
  /\ UNCHANGED <<settingsVars, lastSeq, changed, shown, loopVars, stopping>>

CallStep ==
  \/ Show("reload:show", "reload:wake", "connecting")
  \/ Show("disable:show", "idle", "stopped")
  \/ Show("stop:show", "stop:wait", "stopped")
  \/ WakeLoop \/ StopCancel \/ StopReturn

-----------------------------------------------------------------------------
Init ==
  /\ epoch = 0 /\ disabled = FALSE /\ reloading = FALSE /\ changed = FALSE
  /\ session = None /\ lastSeq = None
  /\ shown = "idle" /\ loop = "top" /\ conn = None /\ frame = None /\ err = None
  /\ caller = "idle" /\ stopping = FALSE

\* What the loop does by itself; a connection that is up may stay so.
LoopStep ==
  \/ Top \/ Park \/ Wake \/ Begin \/ Announce
  \/ Dial \/ DialFails \/ Rejected
  \/ Observe \/ Handle \/ (~Up /\ Dropped)
  \/ TakeReloading \/ ClearCancel \/ Decide

Next ==
  \/ LoopStep \/ Dropped \/ \E f \in Frames : Read(f)
  \/ CancelOnStop
  \/ Reload \/ SetEnabled \/ Stop \/ CallStep

Fairness == WF_vars(LoopStep) /\ WF_vars(CancelOnStop) /\ WF_vars(CallStep)

Spec == Init /\ [][Next]_vars /\ Fairness

-----------------------------------------------------------------------------
(* Properties. *)

\* The state Status reports.
Reported == IF disabled THEN "stopped" ELSE shown

\* "a late READY cannot revive the replaced session" (reload.go:90): the
\* session that would be resumed, and the sequence number that goes with it,
\* were opened under the settings that hold, and a connection is reported
\* only while it is up, or its end is about to be reported.
ConnectionCurrent ==
  /\ session # None => session = epoch /\ lastSeq = epoch /\ ~disabled
  /\ Up => conn.epoch = epoch
  /\ Reported = "connected" =>
       \/ Up /\ conn.ready
       \/ caller \in {"reload:show", "stop:cancel", "stop:show"} \/ stopping
       \/ loop \in {"closing", "clearing", "decide"}

\* The last settings are dialled, a client that is switched off comes to
\* rest, and one that is stopped ends.
SettingsApplied ==
  \/ stopping /\ caller = "stopped"
  \/ ~stopping /\ caller = "idle"
     /\ IF disabled THEN loop = "parked" /\ conn = None
        ELSE conn # None /\ conn.epoch = epoch

=============================================================================
