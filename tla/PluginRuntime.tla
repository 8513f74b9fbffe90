--------------------------- MODULE PluginRuntime ---------------------------
(***************************************************************************)
(* The manager of one plugin process (plugins/runtime, Manager): starting  *)
(* and stopping the process, delivering events to it over its pipes,       *)
(* running the actions it asks for, moving events to the background, and   *)
(* reaping a process that fails.  Deliveries, the reader of the plugin's   *)
(* output, the goroutines of its actions, timers, watchers, Start and Stop *)
(* run concurrently; every critical section of Manager.mu (within that of  *)
(* protocolMu, where the code nests them) is one action.                   *)
(*                                                                         *)
(* Processes are numbered in the order they are spawned.  The frames of    *)
(* the plugin keep to the protocol: it sends the terminal of an event      *)
(* once, a result, an error or the message that answers it, when all its   *)
(* actions for it have been answered; but it may write a line that is no   *)
(* frame, close its output or exit at any moment.                          *)
(* A timer may fire at any moment.  An answer is learnt when it is         *)
(* written, as a plugin may act on it any time later.                      *)
(***************************************************************************)
EXTENDS Naturals, Sequences, FiniteSets

CONSTANTS
  Events,       \* events, each delivered once
  Actions,      \* ids of the actions a plugin asks for, per event
  Processes,    \* bound: the processes ever spawned, 1 .. n
  MaxPending,   \* maxPendingLocalActions
  MaxDetached,  \* MaxDetachedEventsPerPlugin
  Concurrency,  \* Spec.EffectiveConcurrency
  Terminals,    \* how the plugin ends its events: "ok", "error", "message"
  MaxPipe       \* bound: frames that wait in the plugin's output pipe

VARIABLES
  (* Manager *)
  proc,           \* the current process, 0 for nil
  snap,           \* Snapshot.State
  spawned,        \* how many processes were spawned
  expired,        \* expiredEvents
  pendingActions, \* pendingLocalActions
  gate,           \* what holds the lifecycle gate: "free", "start" or "stop"
  starting,       \* where Start is
  stopping,       \* where Stop is
  (* Handles *)
  os,             \* "none", "running" or "exited" (Handle.done is closed)
  reader,         \* "off", "reading" or "ended" (protocolDone is closed)
  watched,        \* the processes watchRunningProcess waits for
  killed,         \* stdin and stdout closed and the process tree killed
  stdinClosed,    \* stdin closed by Stop
  observed,       \* terminationObserved
  restart,        \* failureRestart
  reaping,        \* the processes a goroutine will reap when they exit
  crashes,        \* history: OnCrash callbacks of each process
  out,            \* the frames in the output pipe of each process
  (* Events *)
  delivery,       \* where DeliverEvent is
  handle,         \* the process of the delivery
  session,        \* "none", "pending" (in pendingEvents) or "closed"
  detached,       \* events in the background, or that were
  pending,        \* pendingActionIDs, as pairs of the event and the frame that asked
  executing,      \* goroutines in executeLocalAction, as such pairs
  outcome,        \* session.err: "none", "ok" or "error"
  result,         \* what DeliverEvent returned
  finishes,       \* history: calls of Detached.Finish
  (* The plugin *)
  view,           \* what it thinks of an event: "unknown", "open" or "ended"
  asked,          \* the frames of the actions it has sent
  answered,       \* the frames it has been answered
  violations      \* history: frames a process was killed for, with the process

\* What matters of a handle only while it is the current one.
currentVars == <<proc, snap, killed, stdinClosed, observed, restart, out>>
handleVars == <<os, reader, watched, killed, stdinClosed, observed, restart, reaping,
                crashes>>
lifeVars == <<gate, starting, stopping, spawned>>
eventVars == <<delivery, handle, result>>
sessionVars == <<session, expired, pendingActions, pending, outcome, finishes>>
pluginVars == <<view, asked, answered>>

vars == <<proc, snap, lifeVars, handleVars, out, eventVars, sessionVars, detached,
          executing, pluginVars, violations>>

States == {"stopped", "starting", "running", "stopping", "crashed"}
Ids == Actions \cup {"detach"}

\* Processes are numbered from 1, and the kinds of frames can be told apart.
RuntimeAssumption ==
  /\ Processes \subseteq Nat \ {0} /\ MaxPending \in Nat /\ MaxDetached \in Nat
  /\ "detach" \notin Actions /\ "message" \notin Actions
  /\ Terminals \cap Ids = {}

Init ==
  /\ proc = 0
  /\ snap = "stopped"
  /\ spawned = 0
  /\ expired = {}
  /\ pendingActions = 0
  /\ gate = "free"
  /\ starting = "idle"
  /\ stopping = "idle"
  /\ os = [p \in Processes |-> "none"]
  /\ reader = [p \in Processes |-> "off"]
  /\ watched = {}
  /\ killed = {}
  /\ stdinClosed = {}
  /\ observed = {}
  /\ restart = {}
  /\ reaping = {}
  /\ crashes = [p \in Processes |-> 0]
  /\ out = [p \in Processes |-> <<>>]
  /\ delivery = [e \in Events |-> "new"]
  /\ handle = [e \in Events |-> 0]
  /\ session = [e \in Events |-> "none"]
  /\ detached = {}
  /\ pending = {}
  /\ executing = {}
  /\ outcome = [e \in Events |-> "none"]
  /\ result = [e \in Events |-> "none"]
  /\ finishes = [e \in Events |-> 0]
  /\ view = [e \in Events |-> "unknown"]
  /\ asked = {}
  /\ answered = {}
  /\ violations = {}

Pending == {e \in Events : session[e] = "pending"}

\* A write to the plugin succeeds.
Writable(p) == os[p] = "running" /\ p \notin killed /\ p \notin stdinClosed

PendingOf(es) == {x \in pending : x[1] \in es}

-----------------------------------------------------------------------------
(* Ends of sessions and of processes, shared by the handlers below. *)

\* Mutant: the actions that wait for their answer stay counted.
CloseSessionsMutant(es, how) ==
  /\ session' = [e \in Events |-> IF e \in es THEN "closed" ELSE session[e]]
  /\ outcome' = [e \in Events |-> IF e \in es THEN how ELSE outcome[e]]
  /\ pending' = pending \ PendingOf(es)
  /\ finishes' = [e \in Events |->
                    IF e \in es \cap detached THEN finishes[e] + 1 ELSE finishes[e]]
  /\ UNCHANGED pendingActions

\* closeSessionLocked of every session of a set.
CloseSessions(es, how) ==
  /\ session' = [e \in Events |-> IF e \in es THEN "closed" ELSE session[e]]
  /\ outcome' = [e \in Events |-> IF e \in es THEN how ELSE outcome[e]]
  /\ pending' = pending \ PendingOf(es)
  /\ pendingActions' = pendingActions - Cardinality(PendingOf(es))
  /\ finishes' = [e \in Events |->
                    IF e \in es \cap detached THEN finishes[e] + 1 ELSE finishes[e]]

\* Mutant: the process is left to end by itself.
FailRuntimeMutant(p) ==
  IF proc = p
  THEN /\ snap' = "stopping"
       /\ observed' = observed \cup {p}
       /\ restart' = IF p \notin observed /\ snap = "running" THEN restart \cup {p}
                     ELSE restart
       /\ reaping' = reaping \cup {p}
       /\ CloseSessions(Pending, "error")
       /\ UNCHANGED <<killed, expired>>
  ELSE UNCHANGED <<snap, observed, restart, killed, reaping, sessionVars>>

\* failRuntime, until the process has exited: the first failure is the one
\* that is reported, and only that of a running plugin restarts it.
FailRuntime(p) ==
  IF proc = p
  THEN /\ snap' = "stopping"
       /\ observed' = observed \cup {p}
       /\ restart' = IF p \notin observed /\ snap = "running" THEN restart \cup {p}
                     ELSE restart
       /\ killed' = killed \cup {p}
       /\ reaping' = reaping \cup {p}
       /\ CloseSessions(Pending, "error")
       /\ UNCHANGED expired
  ELSE UNCHANGED <<snap, observed, restart, killed, reaping, sessionVars>>

\* The process is let go.  Its flags are not looked at any more, and what is
\* still read of its output is ignored.
Retire(p, state) ==
  /\ proc' = 0
  /\ snap' = state
  /\ killed' = killed \ {p}
  /\ stdinClosed' = stdinClosed \ {p}
  /\ observed' = observed \ {p}
  /\ restart' = restart \ {p}
  /\ out' = [out EXCEPT ![p] = <<>>]

Crashed(p) == crashes' = [crashes EXCEPT ![p] = @ + 1]

\* finishFailedProcess.
FinishFailed(p) ==
  IF proc # p THEN UNCHANGED <<currentVars, crashes>>
  ELSE IF p \in restart THEN Retire(p, "crashed") /\ Crashed(p)
  ELSE Retire(p, "stopped") /\ UNCHANGED crashes

\* What FailRuntime leaves alone.
failFrame == <<proc, os, watched, stdinClosed, crashes>>

Reap(p) ==
  /\ p \in reaping
  /\ os[p] = "exited"
  /\ reaping' = reaping \ {p}
  /\ FinishFailed(p)
  /\ UNCHANGED <<lifeVars, os, reader, watched, eventVars, sessionVars, detached,
                 executing, pluginVars, violations>>

\* watchRunningProcess: the exit of a running plugin is a crash.
CrashOf(p) ==
  /\ Retire(p, "crashed")
  /\ Crashed(p)
  /\ CloseSessions(Pending, "error")
  /\ UNCHANGED expired

Watch(p) ==
  /\ p \in watched
  /\ os[p] = "exited"
  /\ watched' = watched \ {p}
  /\ IF proc = p /\ snap = "running" THEN CrashOf(p)
     ELSE UNCHANGED <<currentVars, crashes, sessionVars>>
  /\ UNCHANGED <<lifeVars, os, reader, reaping, eventVars, detached, executing, pluginVars,
                 violations>>

-----------------------------------------------------------------------------
(* DeliverEvent. *)

Returned(e, r) ==
  /\ delivery' = [delivery EXCEPT ![e] = "returned"]
  /\ result' = [result EXCEPT ![e] = r]

\* registerEventSession; a delivery that is refused leaves no trace.
Register(e) ==
  /\ delivery[e] = "new"
  /\ proc # 0
  /\ snap = "running"
  /\ delivery' = [delivery EXCEPT ![e] = "registered"]
  /\ handle' = [handle EXCEPT ![e] = proc]
  /\ session' = [session EXCEPT ![e] = "pending"]
  /\ UNCHANGED <<proc, snap, lifeVars, handleVars, out, expired, pendingActions, pending,
                 outcome, finishes, result, detached, executing, pluginVars, violations>>

WriteEvent(e) ==
  /\ delivery[e] = "registered"
  /\ Writable(handle[e])
  /\ delivery' = [delivery EXCEPT ![e] = "waiting"]
  /\ view' = [view EXCEPT ![e] = "open"]
  /\ UNCHANGED <<proc, snap, lifeVars, handleVars, out, handle, sessionVars, result,
                 detached, executing, asked, answered, violations>>

\* A failed write ends this event and the process.
WriteFails(e) ==
  /\ delivery[e] = "registered"
  /\ ~Writable(handle[e])
  /\ FailRuntime(handle[e])
  /\ Returned(e, "error")
  /\ UNCHANGED <<lifeVars, failFrame, reader, out, handle, detached, executing, pluginVars,
                 violations>>

\* settledDelivery.
Settle(e) ==
  /\ delivery[e] = "waiting"
  /\ e \in detached \/ session[e] = "closed"
  /\ Returned(e, IF e \in detached THEN "detached" ELSE outcome[e])
  /\ UNCHANGED <<proc, snap, lifeVars, handleVars, out, handle, sessionVars, detached,
                 executing, pluginVars, violations>>

\* timeoutEvent, for the timer and for the context of the delivery.
Timeout(e) ==
  /\ delivery[e] \in {"registered", "waiting"}
  /\ IF e \in detached \/ session[e] = "closed"
     THEN /\ Returned(e, IF e \in detached THEN "detached" ELSE outcome[e])
          /\ UNCHANGED sessionVars
     ELSE /\ CloseSessions({e}, "error")
          /\ expired' = expired \cup {e}
          /\ Returned(e, "error")
  /\ UNCHANGED <<proc, snap, lifeVars, handleVars, out, handle, detached, executing,
                 pluginVars, violations>>

\* expireDetached, at the deadline of an event in the background.
ExpireDetached(e) ==
  /\ e \in detached
  /\ session[e] = "pending"
  /\ CloseSessions({e}, "error")
  /\ expired' = expired \cup {e}
  /\ UNCHANGED <<proc, snap, lifeVars, handleVars, out, eventVars, detached, executing,
                 pluginVars, violations>>

-----------------------------------------------------------------------------
(* The reader of the plugin's output, readRuntimeFrames. *)

NextFrame(p) == reader[p] = "reading" /\ p \notin killed /\ out[p] # <<>>

Consume(p) == out' = [out EXCEPT ![p] = Tail(@)]

\* parseLocalActionFrameLocked: an action that names no event, as the message
\* that ends one, is taken for one of the only event that is pending.
Adopted(f) ==
  /\ f.kind = "message" /\ session[f.event] # "pending"
  /\ Concurrency = 1 /\ Cardinality(Pending) = 1
IsAction(f) == f.kind \in Actions \/ Adopted(f)
AskerOf(f) == IF f.kind = "message" THEN CHOOSE e \in Pending : TRUE ELSE f.event

\* The process was replaced, or the frame is a late one of an event that the
\* host has ended, and no action without a parent.
IgnoreFrame(p) ==
  LET f == Head(out[p]) IN
  /\ NextFrame(p)
  /\ \/ proc # p
     \/ session[f.event] # "pending" /\ f.event \in expired /\ f.kind # "message"
  /\ Consume(p)
  /\ UNCHANGED <<proc, snap, lifeVars, handleVars, eventVars, sessionVars, detached,
                 executing, pluginVars, violations>>

\* routeTerminalFrameLocked.
RouteTerminal(p) ==
  LET f == Head(out[p]) IN
  /\ NextFrame(p)
  /\ proc = p
  /\ f.kind \in Terminals
  /\ session[f.event] = "pending"
  /\ PendingOf({f.event}) = {}
  /\ ~(f.kind = "message" /\ f.event \in detached)
  /\ CloseSessions({f.event}, IF f.kind = "error" THEN "error" ELSE "ok")
  /\ Consume(p)
  /\ UNCHANGED <<proc, snap, lifeVars, handleVars, eventVars, expired, detached, executing,
                 pluginVars, violations>>

\* routeLocalActionFrameLocked.
RouteAction(p) ==
  LET f == Head(out[p])
      x == <<AskerOf(f), f>> IN
  /\ NextFrame(p)
  /\ proc = p
  /\ IsAction(f)
  /\ session[x[1]] = "pending"
  /\ pendingActions < MaxPending
  /\ pending' = pending \cup {x}
  /\ pendingActions' = pendingActions + 1
  /\ executing' = executing \cup {x}
  /\ Consume(p)
  /\ UNCHANGED <<proc, snap, lifeVars, handleVars, eventVars, session, expired, outcome,
                 finishes, detached, pluginVars, violations>>

\* writeLocalReplyLocked: an answer of the reader itself.
Reply(p, f) ==
  IF Writable(p)
  THEN /\ answered' = answered \cup {f}
       /\ UNCHANGED <<snap, observed, restart, killed, reaping, reader, sessionVars>>
  ELSE /\ FailRuntime(p)
       /\ reader' = [reader EXCEPT ![p] = "ended"]
       /\ UNCHANGED answered

RefuseAction(p) ==
  LET f == Head(out[p]) IN
  /\ NextFrame(p)
  /\ proc = p
  /\ f.kind = "detach" \/ IsAction(f)
  /\ session[AskerOf(f)] = "pending"
  /\ IF f.kind = "detach" THEN Cardinality(Pending \cap detached) >= MaxDetached
     ELSE pendingActions >= MaxPending
  /\ Reply(p, f)
  /\ Consume(p)
  /\ UNCHANGED <<lifeVars, failFrame, eventVars, detached, executing, view, asked,
                 violations>>

\* detachEventLocked, and the reply before the next frame is read.  When the
\* reply cannot be written, the failure closes the detached session.
DetachEvent(p) ==
  LET f == Head(out[p]) IN
  /\ NextFrame(p)
  /\ proc = p
  /\ f.kind = "detach"
  /\ session[f.event] = "pending"
  /\ Cardinality(Pending \cap detached) < MaxDetached
  /\ Writable(p)
  /\ detached' = detached \cup {f.event}
  /\ Reply(p, f)
  /\ Consume(p)
  /\ UNCHANGED <<lifeVars, failFrame, eventVars, executing, view, asked, violations>>

\* Everything else breaks the protocol, and the process is killed for it.
Violates(p) ==
  LET f == Head(out[p]) IN
  \/ /\ session[f.event] # "pending"
     /\ IF f.kind = "message" THEN ~Adopted(f) ELSE f.event \notin expired
  \/ /\ session[f.event] = "pending"
     /\ f.kind \in Terminals
     /\ PendingOf({f.event}) # {} \/ (f.kind = "message" /\ f.event \in detached)

RefuseFrame(p) ==
  /\ NextFrame(p)
  /\ proc = p
  /\ Violates(p)
  /\ violations' = IF p \in observed THEN violations
                   ELSE violations \cup {<<p, Head(out[p])>>}
  /\ FailRuntime(p)
  /\ reader' = [reader EXCEPT ![p] = "ended"]
  /\ Consume(p)
  /\ UNCHANGED <<lifeVars, failFrame, eventVars, detached, executing, pluginVars>>

\* A line that is no frame, or one too long.
ReadGarbage(p) ==
  /\ reader[p] = "reading"
  /\ proc = p
  /\ p \notin killed
  /\ os[p] = "running"
  /\ FailRuntime(p)
  /\ reader' = [reader EXCEPT ![p] = "ended"]
  /\ UNCHANGED <<lifeVars, failFrame, out, eventVars, detached, executing, pluginVars,
                 violations>>

\* The end of the pipe; signalPendingRequests.  A plugin may close its end and
\* go on running.
ReadEnd(p) ==
  /\ reader[p] = "reading"
  /\ p \in killed \/ out[p] = <<>>
  /\ reader' = [reader EXCEPT ![p] = "ended"]
  /\ IF proc = p THEN CloseSessions(Pending, "error") /\ UNCHANGED expired
     ELSE UNCHANGED sessionVars
  /\ out' = [out EXCEPT ![p] = <<>>]
  /\ UNCHANGED <<proc, snap, lifeVars, os, watched, killed, stdinClosed,
                 observed, restart, reaping, crashes, eventVars, detached, executing,
                 pluginVars, violations>>

\* writeLocalResponse of an action that was executed.
Answer(x) ==
  LET e == x[1]
      p == handle[e] IN
  /\ x \in executing
  /\ executing' = executing \ {x}
  /\ proc = p /\ session[e] = "pending" /\ Writable(p)
  /\ pending' = pending \ {x}
  /\ pendingActions' = pendingActions - 1
  /\ answered' = answered \cup {x[2]}
  /\ UNCHANGED <<proc, snap, lifeVars, handleVars, out, eventVars, session, expired, outcome,
                 finishes, detached, view, asked, violations>>

AnswerDropped(x) ==
  /\ x \in executing
  /\ executing' = executing \ {x}
  /\ proc # handle[x[1]] \/ session[x[1]] # "pending"
  /\ UNCHANGED <<proc, snap, lifeVars, handleVars, out, eventVars, sessionVars, detached,
                 pluginVars, violations>>

\* The write fails after the action was taken off, which the end of the
\* session would do too.
AnswerFails(x) ==
  LET p == handle[x[1]] IN
  /\ x \in executing
  /\ executing' = executing \ {x}
  /\ proc = p /\ session[x[1]] = "pending" /\ ~Writable(p)
  /\ FailRuntime(p)
  /\ UNCHANGED <<lifeVars, failFrame, reader, out, eventVars, detached, pluginVars,
                 violations>>

-----------------------------------------------------------------------------
(* The plugin. *)

Frame(e, kind) == [event |-> e, kind |-> kind]

Send(e, kind) ==
  LET p == handle[e] IN
  /\ view[e] = "open"
  /\ os[p] = "running"
  /\ Len(out[p]) < MaxPipe
  /\ out' = [out EXCEPT ![p] = Append(@, Frame(e, kind))]

AskedOf(e) == {f \in asked : f.event = e}

Ask(e, a) ==
  /\ Frame(e, a) \notin asked
  /\ Send(e, a)
  /\ asked' = asked \cup {Frame(e, a)}
  /\ UNCHANGED <<proc, snap, lifeVars, handleVars, eventVars, sessionVars, detached,
                 executing, view, answered, violations>>

End(e, kind) ==
  /\ AskedOf(e) \subseteq answered
  /\ kind = "message" => e \notin detached
  /\ Send(e, kind)
  /\ view' = [view EXCEPT ![e] = "ended"]
  /\ UNCHANGED <<proc, snap, lifeVars, handleVars, eventVars, sessionVars, detached,
                 executing, asked, answered, violations>>

\* The process exits, of itself, because it was told to, or killed.
Exit(p) ==
  /\ os[p] = "running"
  /\ os' = [os EXCEPT ![p] = "exited"]
  /\ view' = [e \in Events |-> IF handle[e] = p THEN "ended" ELSE view[e]]
  /\ asked' = {f \in asked : handle[f.event] # p}
  /\ answered' = {f \in answered : handle[f.event] # p}
  /\ UNCHANGED <<proc, snap, lifeVars, reader, watched, killed, stdinClosed,
                 observed, restart, reaping, crashes, out, eventVars, sessionVars, detached,
                 executing, violations>>

-----------------------------------------------------------------------------
(* Start. *)

Start ==
  /\ gate = "free"
  /\ spawned + 1 \in Processes
  /\ proc = 0
  /\ gate' = "start"
  /\ starting' = "spawning"
  /\ snap' = "starting"
  /\ expired' = {}
  /\ UNCHANGED <<proc, spawned, stopping, handleVars, out, eventVars, session,
                 pendingActions, pending, outcome, finishes, detached, executing, pluginVars,
                 violations>>

SpawnFails ==
  /\ starting = "spawning"
  /\ starting' = "idle"
  /\ gate' = "free"
  /\ snap' = "stopped"
  /\ UNCHANGED <<proc, spawned, stopping, handleVars, out, eventVars, sessionVars, detached,
                 executing, pluginVars, violations>>

Spawn ==
  LET p == spawned + 1 IN
  /\ starting = "spawning"
  /\ starting' = "init"
  /\ spawned' = p
  /\ proc' = p
  /\ os' = [os EXCEPT ![p] = "running"]
  /\ UNCHANGED <<snap, gate, stopping, reader, watched, killed, stdinClosed,
                 observed, restart, reaping, crashes, out, eventVars, sessionVars, detached,
                 executing, pluginVars, violations>>

InitDone ==
  /\ starting = "init"
  /\ starting' = "idle"
  /\ gate' = "free"
  /\ snap' = "running"
  /\ reader' = [reader EXCEPT ![spawned] = "reading"]
  /\ watched' = watched \cup {spawned}
  /\ UNCHANGED <<proc, spawned, stopping, os, killed, stdinClosed, observed,
                 restart, reaping, crashes, out, eventVars, sessionVars, detached, executing,
                 pluginVars, violations>>

\* The acknowledgement does not come, or is an error; cleanupFailedStart.
InitFails ==
  /\ starting = "init"
  /\ starting' = "cleanup"
  /\ FailRuntime(spawned)
  /\ reader' = [reader EXCEPT ![spawned] = "ended"]
  /\ UNCHANGED <<gate, stopping, spawned, failFrame, out, eventVars, detached, executing,
                 pluginVars, violations>>

\* cleanupCanceledStart.
InitCanceled ==
  /\ starting = "init"
  /\ starting' = "cleanup"
  /\ snap' = "stopping"
  /\ killed' = killed \cup {spawned}
  /\ reaping' = reaping \cup {spawned}
  /\ reader' = [reader EXCEPT ![spawned] = "ended"]
  /\ UNCHANGED <<proc, gate, stopping, spawned, os, watched, stdinClosed, observed, restart,
                 crashes, out, eventVars, sessionVars, detached, executing, pluginVars,
                 violations>>

\* The process was reaped, or the wait for that has run out.
StartReturns ==
  /\ starting = "cleanup"
  /\ starting' = "idle"
  /\ gate' = "free"
  /\ UNCHANGED <<proc, snap, spawned, stopping, handleVars, out, eventVars, sessionVars,
                 detached, executing, pluginVars, violations>>

-----------------------------------------------------------------------------
(* Stop. *)

StopReturns == stopping' = "idle" /\ gate' = "free"

StopNothing ==
  /\ gate = "free"
  /\ proc = 0
  /\ snap' = "stopped"
  /\ UNCHANGED <<proc, lifeVars, handleVars, out, eventVars, sessionVars, detached,
                 executing, pluginVars, violations>>

\* The process has exited, and whatever reaps it may not have come yet.
StopExited ==
  /\ gate = "free"
  /\ proc # 0
  /\ os[proc] = "exited"
  /\ gate' = "stop"
  /\ stopping' = "reconciling"
  /\ UNCHANGED <<proc, snap, starting, spawned, handleVars, out, eventVars, sessionVars,
                 detached, executing, pluginVars, violations>>

\* reconcileExitedProcess, or finishFailedProcess of a reported failure.
StopReconcile ==
  /\ stopping = "reconciling"
  /\ reader[spawned] # "reading"
  /\ IF proc = spawned /\ spawned \notin observed
     THEN IF snap = "running" THEN CrashOf(spawned)
          ELSE Retire(spawned, "stopped") /\ UNCHANGED <<crashes, sessionVars>>
     ELSE FinishFailed(spawned) /\ UNCHANGED sessionVars
  /\ StopReturns
  /\ UNCHANGED <<starting, spawned, os, reader, watched, reaping, eventVars, detached,
                 executing, pluginVars, violations>>

\* Mutant: the plugin is restarted although it was stopped meanwhile.
StopFailedMutant ==
  /\ gate = "free"
  /\ proc # 0
  /\ os[proc] # "exited"
  /\ proc \in observed
  /\ gate' = "stop"
  /\ stopping' = "closing"
  /\ UNCHANGED <<proc, snap, starting, spawned, handleVars, out, eventVars, sessionVars,
                 detached, executing, pluginVars, violations>>

\* Another operation has reported a failure; it restarts nothing any more.
StopFailed ==
  /\ gate = "free"
  /\ proc # 0
  /\ os[proc] # "exited"
  /\ proc \in observed
  /\ gate' = "stop"
  /\ stopping' = "closing"
  /\ restart' = restart \ {proc}
  /\ UNCHANGED <<proc, snap, starting, spawned, os, reader, watched, killed, stdinClosed,
                 observed, reaping, crashes, out, eventVars, sessionVars,
                 detached, executing, pluginVars, violations>>

\* No event is accepted any more; those in the background end here.
Stop ==
  /\ gate = "free"
  /\ proc # 0
  /\ os[proc] # "exited"
  /\ proc \notin observed
  /\ gate' = "stop"
  /\ stopping' = "draining"
  /\ snap' = "stopping"
  /\ CloseSessions(Pending \cap detached, "error")
  /\ expired' = expired \cup (Pending \cap detached)
  /\ UNCHANGED <<proc, starting, spawned, os, reader, watched, killed, stdinClosed, observed,
                 restart, reaping, crashes, out, eventVars, detached, executing, pluginVars,
                 violations>>

\* The events in the foreground have ended: the shutdown frame, and the end
\* of stdin.
StopShutdown ==
  /\ stopping = "draining"
  /\ Pending = {}
  /\ stopping' = "closing"
  /\ stdinClosed' = stdinClosed \cup {spawned}
  /\ UNCHANGED <<proc, snap, gate, starting, spawned, os, reader, watched, killed,
                 observed, restart, reaping, crashes, out, eventVars,
                 sessionVars, detached, executing, pluginVars, violations>>

\* The process has exited and its output was read.
StopDone ==
  /\ stopping = "closing"
  /\ os[spawned] = "exited"
  /\ reader[spawned] # "reading"
  /\ IF proc = spawned /\ spawned \notin observed
     THEN Retire(spawned, "stopped") /\ UNCHANGED crashes
     ELSE FinishFailed(spawned)
  /\ StopReturns
  /\ UNCHANGED <<starting, spawned, os, reader, watched, reaping, eventVars, sessionVars,
                 detached, executing, pluginVars, violations>>

\* The context of Stop, its grace or the drain of the output runs out.
StopTimeout ==
  /\ stopping \in {"draining", "closing", "reconciling"}
  /\ stopping' = "failing"
  /\ FailRuntime(spawned)
  /\ UNCHANGED <<gate, starting, spawned, failFrame, reader, out, eventVars, detached,
                 executing, pluginVars, violations>>

StopGivesUp ==
  /\ stopping = "failing"
  /\ StopReturns
  /\ UNCHANGED <<proc, snap, starting, spawned, handleVars, out, eventVars, sessionVars,
                 detached, executing, pluginVars, violations>>

-----------------------------------------------------------------------------

Deliver(e) ==
  Register(e) \/ WriteEvent(e) \/ WriteFails(e) \/ Settle(e) \/ Timeout(e)

Read(p) ==
  \/ IgnoreFrame(p) \/ RouteTerminal(p) \/ RouteAction(p) \/ RefuseAction(p)
  \/ DetachEvent(p) \/ RefuseFrame(p)
  \/ (p \in killed \/ os[p] = "exited") /\ ReadEnd(p)

\* What a plugin may do besides keeping to the protocol.
Break(p) == ReadGarbage(p) \/ ReadEnd(p)

Respond(x) == Answer(x) \/ AnswerDropped(x) \/ AnswerFails(x)

Plugin(e) == (\E a \in Ids : Ask(e, a)) \/ (\E kind \in Terminals : End(e, kind))

Starting == SpawnFails \/ Spawn \/ InitDone \/ InitFails \/ InitCanceled \/ StartReturns

Stopping == StopReconcile \/ StopShutdown \/ StopDone \/ StopTimeout \/ StopGivesUp

Next ==
  \/ \E e \in Events : Deliver(e) \/ ExpireDetached(e) \/ Plugin(e)
  \/ \E p \in Processes : Read(p) \/ Break(p) \/ Reap(p) \/ Watch(p) \/ Exit(p)
  \/ \E x \in executing : Respond(x)
  \/ Start \/ Starting
  \/ StopNothing \/ StopExited \/ StopFailed \/ Stop \/ Stopping

\* What the host's goroutines and timers do, and the exit of a killed process.
\* When events come, Start and Stop are called and what a plugin does is open.
Progress ==
  \/ \E e \in Events : (delivery[e] # "new" /\ Deliver(e)) \/ ExpireDetached(e)
  \/ \E p \in Processes : Read(p) \/ Reap(p) \/ Watch(p) \/ (p \in killed /\ Exit(p))
  \/ \E x \in executing : Respond(x)

Fairness == WF_vars(Progress) /\ WF_vars(Starting) /\ WF_vars(Stopping)

Spec == Init /\ [][Next]_vars /\ Fairness

-----------------------------------------------------------------------------
(* Properties. *)

Frames == [event : Events, kind : Ids \cup Terminals]

\* Typing, and the bookkeeping of actions: the counter of the process is the
\* number of unanswered actions of its events, within the limit, and each of
\* those is being executed, so that it will be answered.
ActionsCounted ==
  /\ snap \in States
  /\ \A p \in Processes : out[p] \in Seq(Frames)
  /\ pendingActions = Cardinality(pending)
  /\ pendingActions <= MaxPending
  /\ pending \subseteq executing
  /\ \A x \in pending : session[x[1]] = "pending"
  /\ Cardinality(Pending \cap detached) <= MaxDetached

\* The manager never loses a process or its events: what runs is the current
\* process, an event that is not over belongs to it, and nothing is pending
\* without one.
NothingOrphaned ==
  /\ \A p \in Processes : os[p] = "running" => proc = p
  /\ \A e \in Pending : handle[e] = proc
  /\ snap \in {"stopped", "crashed"} => proc = 0

\* A plugin that keeps to the protocol is never killed for breaking it,
\* whatever times out, is cancelled, detached or stopped while its frames
\* are on the way (the late frames of events the host has ended); but for the
\* message that ends an event which the host ended before, see
\* LateFramesIgnored.  Without concurrency that message may also become an
\* action of another event, whose own terminal then comes too early.
ConformingSurvives == \A v \in violations : v[2].kind = "message" \/ Concurrency = 1

\* docs/plugin/protocol.md:44: the host ignores the frames of an event it has
\* ended at its deadline, whatever they are.
LateFramesIgnored ==
  [][ \A p \in Processes :
        ( /\ NextFrame(p) /\ proc = p /\ proc' = p
          /\ Head(out[p]).event \in expired
          /\ out'[p] = Tail(out[p]) )
        => UNCHANGED <<snap, session, pending, executing, killed>> ]_vars

\* A crash is reported once, when the process is gone, whether the watcher,
\* the failure or Stop finds it first; and not any more once Stop has begun
\* with the process still running, whatever fails while it drains.
CrashReportedOnceStep ==
  \A p \in Processes : crashes'[p] # crashes[p] =>
     /\ crashes[p] = 0
     /\ os[p] = "exited"
     /\ stopping \notin {"draining", "closing"}
CrashReportedOnce == [][CrashReportedOnceStep]_vars

\* What a delivery returns agrees with how its event went, and a background
\* event is reported as ended exactly once.
OutcomesAgree ==
  \A e \in Events :
    /\ finishes[e] = IF e \in detached /\ session[e] = "closed" THEN 1 ELSE 0
    /\ delivery[e] = "returned" /\ e \in detached => result[e] = "detached"
    /\ delivery[e] = "returned" /\ e \notin detached =>
         /\ session[e] \in {"none", "closed"}
         /\ outcome[e] # "none" => result[e] = outcome[e]

\* Every delivery returns, every background event ends, Start and Stop
\* return, and a process that failed is reaped.
Settled ==
  /\ \A e \in Events : delivery[e] \in {"new", "returned"}
  /\ Pending = {}
  /\ observed = {}
GateFree == gate = "free"
EverythingEnds == <>[]Settled /\ []<>GateFree

=============================================================================
