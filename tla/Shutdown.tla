------------------------------ MODULE Shutdown ------------------------------
(***************************************************************************)
(* The end of the server: App.Run with the goroutines it supervises,       *)
(* requestShutdown, which announces the stop to the subscribers of the     *)
(* management events before it cancels anything, and Close with its        *)
(* phases, each of which is left behind when its budget is used up.        *)
(*                                                                         *)
(* The subscribers are modelled with the publisher of the service status   *)
(* (ServiceStatusService, pubsub.Hub) and the stream that writes to them   *)
(* (events.Stream).  A probe of the readiness, a write to a client, a      *)
(* background worker and a closer may take for ever.                       *)
(*                                                                         *)
(* The phases between "workers" and the persistence are left out: for this *)
(* order they are closers like the workers, with less to wait for.         *)
(***************************************************************************)
EXTENDS Naturals, Sequences, FiniteSets

CONSTANTS
  Clients,      \* subscribers of the management events
  Requesters,   \* handlers of a request to shut down
  Readiness,    \* what the probes may find
  StatusBuffer, \* capacity of the status channel of a subscriber
  MaxPublishes, \* bound: publications of the status before the stop
  None

\* The probes never find "stopping", a channel holds something, and None is
\* no value and nobody.
ShutdownAssumption ==
  /\ StatusBuffer \in Nat \ {0}
  /\ "stopping" \notin Readiness
  /\ None \notin Readiness \cup Requesters \cup {"stopping", "run", "done"}

VARIABLES
  run,          \* where App.Run is
  runCancelled, \* its context is done
  worker,       \* a background worker it supervises
  server,       \* and the HTTP server
  req,          \* the calls of requestShutdown
  once,         \* who runs shutdownOnce, "done" afterwards
  intent,       \* shutdownIntent is set
  announcement, \* the goroutine of the announcement
  phase,        \* the phase Close waits for, 0 before the first
  stage,        \* the closers: "idle", "running" or "done"
  late,         \* closers whose budget is used up
  database,     \* "open" or "closed"
  snapshotMu,   \* who has it
  lastBroadcast,
  publishes,    \* publications so far
  streamClosed, \* no subscriber is admitted
  streamCancelled,
  pending,      \* the subscribers Stream.Shutdown waits for
  client,       \* of each subscriber, where Stream.Run is
  frame,        \* what it writes
  channel,      \* its status channel
  told,         \* subscribers that have the stopping snapshot
  left,         \* subscribers that went away
  cut           \* subscribers whose transport the server closed

runVars == <<run, runCancelled, worker, server>>
closeVars == <<phase, stage, late, database>>
statusVars == <<snapshotMu, lastBroadcast, publishes>>
streamVars == <<streamClosed, streamCancelled, pending>>
clientVars == <<client, frame, channel, told, left, cut>>
vars == <<runVars, req, once, intent, announcement, closeVars, statusVars,
          streamVars, clientVars>>

Phases == <<"http", "workers", "persistence">>

Callers == Requesters \cup {"run"}

\* The subscribers with a Run under way, and those of them that are in the
\* hub.
Present == {c \in Clients : client[c] \notin {"off", "gone"}}
Subscribed == {c \in Clients : client[c] \in {"writing", "loop"}}

-----------------------------------------------------------------------------
(* ServiceStatusService. *)

\* PublishReplace: a full channel loses its oldest value.
Replaced(queue, value) ==
  Append(IF Len(queue) = StatusBuffer THEN Tail(queue) ELSE queue, value)

\* The end of PublishSnapshot: what was broadcast last is not repeated.
Broadcast(value) ==
  IF value = lastBroadcast THEN UNCHANGED <<lastBroadcast, channel>>
  ELSE /\ lastBroadcast' = value
       /\ channel' = [c \in Clients |->
            IF c \in Subscribed THEN Replaced(channel[c], value) ELSE channel[c]]

\* currentServiceStatusSnapshot of somebody who asked before the stop: the
\* status is read again after the probes.
Probed == IF intent THEN {"stopping"} ELSE Readiness

\* A change somewhere is published: PublishSnapshot, up to the probes.
BeginPublish ==
  /\ snapshotMu = None
  /\ ~intent
  /\ publishes < MaxPublishes
  /\ snapshotMu' = "publisher"
  /\ publishes' = publishes + 1
  /\ UNCHANGED <<runVars, req, once, intent, announcement, closeVars,
                 lastBroadcast, streamVars, clientVars>>

EndPublish ==
  /\ snapshotMu = "publisher"
  /\ \E value \in Probed : Broadcast(value)
  /\ snapshotMu' = None
  /\ UNCHANGED <<runVars, req, once, intent, announcement, closeVars,
                 publishes, streamVars, client, frame, told, left, cut>>

-----------------------------------------------------------------------------
(* Stream.Run of a subscriber. *)

Connect(c) ==
  /\ client[c] = "off"
  /\ server = "serving"
  /\ client' = [client EXCEPT ![c] = IF streamClosed THEN "gone" ELSE "registered"]
  /\ UNCHANGED <<runVars, req, once, intent, announcement, closeVars,
                 statusVars, streamVars, frame, channel, told, left, cut>>

\* SnapshotAndSubscribe: with the mutex, the stop is seen at once, and
\* anything else after the probes.
Snapshot(c) ==
  /\ client[c] = "registered"
  /\ snapshotMu = None
  /\ IF intent
     THEN /\ client' = [client EXCEPT ![c] = "writing"]
          /\ frame' = [frame EXCEPT ![c] = "stopping"]
          /\ UNCHANGED snapshotMu
     ELSE /\ client' = [client EXCEPT ![c] = "probing"]
          /\ snapshotMu' = c
          /\ UNCHANGED frame
  /\ UNCHANGED <<runVars, req, once, intent, announcement, closeVars,
                 lastBroadcast, publishes, streamVars, channel, told, left,
                 cut>>

Subscribe(c) ==
  /\ client[c] = "probing"
  /\ \E value \in Probed : frame' = [frame EXCEPT ![c] = value]
  /\ client' = [client EXCEPT ![c] = "writing"]
  /\ snapshotMu' = None
  /\ UNCHANGED <<runVars, req, once, intent, announcement, closeVars,
                 lastBroadcast, publishes, streamVars, channel, told, left,
                 cut>>

\* writeFrame succeeds; the stopping snapshot is what Shutdown waits for.
Write(c) ==
  /\ client[c] = "writing"
  /\ c \notin left \cup cut
  /\ client' = [client EXCEPT ![c] = "loop"]
  /\ frame' = [frame EXCEPT ![c] = None]
  /\ told' = IF frame[c] = "stopping" THEN told \cup {c} ELSE told
  /\ UNCHANGED <<runVars, req, once, intent, announcement, closeVars,
                 statusVars, streamVars, channel, left, cut>>

Receive(c) ==
  /\ client[c] = "loop"
  /\ channel[c] # <<>>
  /\ client' = [client EXCEPT ![c] = "writing"]
  /\ frame' = [frame EXCEPT ![c] = Head(channel[c])]
  /\ channel' = [channel EXCEPT ![c] = Tail(@)]
  /\ UNCHANGED <<runVars, req, once, intent, announcement, closeVars,
                 statusVars, streamVars, told, left, cut>>

\* The client goes away.
Disconnect(c) ==
  /\ c \in Present \ left
  /\ left' = left \cup {c}
  /\ UNCHANGED <<runVars, req, once, intent, announcement, closeVars,
                 statusVars, streamVars, client, frame, channel, told, cut>>

\* The callback of the stream's context ends the writer and the transport.
Cut(c) ==
  /\ streamCancelled
  /\ c \in Present \ cut
  /\ cut' = cut \cup {c}
  /\ UNCHANGED <<runVars, req, once, intent, announcement, closeVars,
                 statusVars, streamVars, client, frame, channel, told, left>>

\* Run returns: its context is done, the callback is stopped or over, and it
\* leaves the hub and the stream.
Leave(c) ==
  /\ client[c] \in {"writing", "loop"}
  /\ IF streamCancelled THEN c \in cut ELSE c \in left
  /\ client' = [client EXCEPT ![c] = "gone"]
  /\ frame' = [frame EXCEPT ![c] = None]
  /\ channel' = [channel EXCEPT ![c] = <<>>]
  /\ UNCHANGED <<runVars, req, once, intent, announcement, closeVars,
                 statusVars, streamVars, told, left, cut>>

-----------------------------------------------------------------------------
(* App.Run. *)

BeginRun ==
  /\ run = "idle"
  /\ run' = "preparing"
  /\ UNCHANGED <<runCancelled, worker, server, req, once, intent,
                 announcement, closeVars, statusVars, streamVars, clientVars>>

\* The environments are prepared; the services are started unless the run is
\* cancelled already, and it closes again when the adapters do not start.
Start ==
  /\ run = "preparing"
  /\ \/ /\ ~runCancelled
        /\ run' = "serving" /\ server' = "serving" /\ worker' = "running"
     \/ /\ ~runCancelled
        /\ run' = "closing" /\ worker' = "running"
        /\ UNCHANGED server
     \/ /\ runCancelled
        /\ run' = "closing"
        /\ UNCHANGED <<worker, server>>
  /\ UNCHANGED <<runCancelled, req, once, intent, announcement, closeVars,
                 statusVars, streamVars, clientVars>>

\* A signal, or the failure of a supervised goroutine.
CancelRun ==
  /\ run \in {"preparing", "serving"}
  /\ ~runCancelled
  /\ runCancelled' = TRUE
  /\ \/ UNCHANGED <<worker, server>>
     \/ worker = "running" /\ worker' = "ended" /\ UNCHANGED server
     \/ server = "serving" /\ server' = "ended" /\ UNCHANGED worker
  /\ UNCHANGED <<run, req, once, intent, announcement, closeVars, statusVars,
                 streamVars, clientVars>>

\* The worker sees that its context is done.
WorkerEnds ==
  /\ worker = "running"
  /\ runCancelled
  /\ worker' = "ended"
  /\ UNCHANGED <<run, runCancelled, server, req, once, intent, announcement,
                 closeVars, statusVars, streamVars, clientVars>>

EndServing ==
  /\ run = "serving"
  /\ runCancelled
  /\ run' = "closing"
  /\ UNCHANGED <<runCancelled, worker, server, req, once, intent,
                 announcement, closeVars, statusVars, streamVars, clientVars>>

-----------------------------------------------------------------------------
(* requestShutdown. *)

\* It is called by a handler, or by Close; one call runs it, the others wait
\* for that one.
RequestShutdown(c) ==
  /\ req[c] = "idle"
  /\ IF c = "run" THEN run = "closing" ELSE server = "serving"
  /\ IF once = None
     THEN /\ once' = c /\ intent' = TRUE /\ announcement' = "publishing"
          /\ req' = [req EXCEPT ![c] = "announcing"]
     ELSE /\ req' = [req EXCEPT ![c] = "waiting"]
          /\ UNCHANGED <<once, intent, announcement>>
  /\ UNCHANGED <<runVars, closeVars, statusVars, streamVars, clientVars>>

\* The announcement is over or late: the run is cancelled.
Announced(c) ==
  /\ req[c] = "announcing"
  /\ announcement = "done" \/ "announcement" \in late
  /\ req' = [req EXCEPT ![c] = "returned"]
  /\ once' = "done"
  /\ runCancelled' = TRUE
  /\ UNCHANGED <<run, worker, server, intent, announcement, closeVars,
                 statusVars, streamVars, clientVars>>

RequestReturns(c) ==
  /\ req[c] = "waiting"
  /\ once = "done"
  /\ req' = [req EXCEPT ![c] = "returned"]
  /\ UNCHANGED <<runVars, once, intent, announcement, closeVars, statusVars,
                 streamVars, clientVars>>

\* The goroutine of the announcement: PublishSnapshot, which probes nothing
\* now, and StopAdmission of the ingress.
PublishStopping ==
  /\ announcement = "publishing"
  /\ snapshotMu = None
  /\ announcement' = "marking"
  /\ Broadcast("stopping")
  /\ UNCHANGED <<runVars, req, once, intent, closeVars, snapshotMu, publishes,
                 streamVars, client, frame, told, left, cut>>

\* Mutant: subscribers that have not been written to at all are not waited
\* for.
MarkStreamMutant ==
  /\ announcement = "marking"
  /\ announcement' = "awaiting"
  /\ streamClosed' = TRUE
  /\ pending' = Subscribed
  /\ UNCHANGED <<runVars, req, once, intent, closeVars, statusVars,
                 streamCancelled, clientVars>>

\* Stream.Shutdown.
MarkStream ==
  /\ announcement = "marking"
  /\ announcement' = "awaiting"
  /\ streamClosed' = TRUE
  /\ pending' = Present
  /\ UNCHANGED <<runVars, req, once, intent, closeVars, statusVars,
                 streamCancelled, clientVars>>

CloseStream ==
  /\ announcement = "awaiting"
  /\ \/ \A c \in pending : c \in told \/ client[c] = "gone"
     \/ "announcement" \in late
  /\ announcement' = "closing"
  /\ streamCancelled' = TRUE
  /\ pending' = {}
  /\ UNCHANGED <<runVars, req, once, intent, closeVars, statusVars,
                 streamClosed, clientVars>>

\* Stream.Close waits for the subscribers to leave.
EndAnnouncement ==
  /\ announcement = "closing"
  /\ Present = {}
  /\ announcement' = "done"
  /\ UNCHANGED <<runVars, req, once, intent, closeVars, statusVars,
                 streamVars, clientVars>>

-----------------------------------------------------------------------------
(* Close, called by Run. *)

\* The phases one after the other, each when the one before has ended or is
\* late; Run returns after the last.
NextPhase ==
  /\ run = "closing"
  /\ req["run"] = "returned"
  /\ phase # 0 => stage[Phases[phase]] = "done" \/ Phases[phase] \in late
  /\ IF phase = Len(Phases)
     THEN run' = "returned" /\ UNCHANGED <<phase, stage, server>>
     ELSE /\ phase' = phase + 1
          /\ stage' = [stage EXCEPT ![Phases[phase + 1]] = "running"]
          /\ server' = IF server = "serving" THEN "ended" ELSE server
          /\ UNCHANGED run
  /\ UNCHANGED <<runCancelled, worker, req, once, intent, announcement, late,
                 database, statusVars, streamVars, clientVars>>

\* The budget of a phase, or of the announcement, is used up.
Late(p) ==
  /\ p \notin late
  /\ IF p = "announcement"
     THEN \E c \in Callers : req[c] = "announcing"
     ELSE phase > 0 /\ Phases[phase] = p /\ stage[p] = "running"
  /\ late' = late \cup {p}
  /\ UNCHANGED <<runVars, req, once, intent, announcement, phase, stage,
                 database, statusVars, streamVars, clientVars>>

\* The closers.  The server waits for its handlers until the budget is used
\* up, the workers phase for what Run supervises.
EndCloser(p) ==
  /\ stage[p] = "running"
  /\ CASE p = "http" ->
            \/ \A c \in Requesters : req[c] \in {"idle", "returned"}
            \/ p \in late
       [] p = "workers" -> worker # "running" /\ server # "serving"
       [] OTHER -> FALSE
  /\ stage' = [stage EXCEPT ![p] = "done"]
  /\ UNCHANGED <<runVars, req, once, intent, announcement, phase, late,
                 database, statusVars, streamVars, clientVars>>

\* Everything that may still use the database.
AllClosed ==
  /\ announcement = "done"
  /\ \A p \in {"http", "workers"} : stage[p] = "done"

\* The last phase gives up when its budget is used up first.
EndPersistence ==
  /\ stage["persistence"] = "running"
  /\ \/ AllClosed /\ database' = "closed"
     \/ "persistence" \in late /\ UNCHANGED database
  /\ stage' = [stage EXCEPT !["persistence"] = "done"]
  /\ UNCHANGED <<runVars, req, once, intent, announcement, phase, late,
                 statusVars, streamVars, clientVars>>

-----------------------------------------------------------------------------
Init ==
  /\ run = "idle" /\ runCancelled = FALSE
  /\ worker = "off" /\ server = "off"
  /\ req = [c \in Callers |-> "idle"]
  /\ once = None /\ intent = FALSE /\ announcement = "idle"
  /\ phase = 0 /\ late = {} /\ database = "open"
  /\ stage = [p \in {"http", "workers", "persistence"} |-> "idle"]
  /\ snapshotMu = None /\ lastBroadcast = None /\ publishes = 0
  /\ streamClosed = FALSE /\ streamCancelled = FALSE /\ pending = {}
  /\ client = [c \in Clients |-> "off"]
  /\ frame = [c \in Clients |-> None]
  /\ channel = [c \in Clients |-> <<>>]
  /\ told = {} /\ left = {} /\ cut = {}

\* What ends by itself: no probe, write, worker or closer is waited for.
Progress ==
  \/ Start \/ EndServing
  \/ RequestShutdown("run")
  \/ \E c \in Callers : Announced(c) \/ RequestReturns(c)
  \/ PublishStopping \/ MarkStream \/ CloseStream \/ EndAnnouncement
  \/ NextPhase \/ EndPersistence
  \/ \E p \in {"announcement", "http", "workers", "persistence"} : Late(p)
  \/ \E c \in Clients : Snapshot(c) \/ Receive(c) \/ Cut(c) \/ Leave(c)

Next ==
  \/ Progress
  \/ BeginRun \/ CancelRun \/ WorkerEnds
  \/ \E c \in Requesters : RequestShutdown(c)
  \/ \E p \in {"http", "workers"} : EndCloser(p)
  \/ BeginPublish \/ EndPublish
  \/ \E c \in Clients : Connect(c) \/ Subscribe(c) \/ Write(c) \/ Disconnect(c)

Spec == Init /\ [][Next]_vars /\ WF_vars(Progress)

-----------------------------------------------------------------------------
(* Properties. *)

\* The stop reaches every subscriber that does not go away: once it is
\* published, it is told, about to be written or in the channel of each that
\* has taken its snapshot, nothing else comes after it, and no transport is closed
\* before it was written, except when the budget of the announcement is used
\* up.
StoppingTold ==
  /\ \A c \in Present :
       LET frames == <<frame[c]>> \o channel[c] IN
       /\ announcement \notin {"idle", "publishing"} /\ c \in Subscribed \ told =>
            frames[Len(frames)] = "stopping"
       /\ \A i \in 1..(Len(frames) - 1) :
            c \in told \/ frames[i] = "stopping" =>
              frames[i + 1] = "stopping"
  /\ cut \subseteq told \cup left \/ "announcement" \in late

\* The database is closed after everything that may use it has ended: the
\* workers Run supervises, the subscribers, and the closers that their phase
\* left behind.
DatabaseLast ==
  database = "closed" =>
    /\ worker # "running" /\ server # "serving"
    /\ Present = {}
    /\ \A p \in {"http", "workers"} : stage[p] = "done"

\* The two together.
StopSound == StoppingTold /\ DatabaseLast

\* Whatever hangs, the run returns when it is asked to, and so does everybody
\* who asked.
ShutDown ==
  /\ runCancelled \/ intent => run = "returned"
  /\ \A c \in Requesters : req[c] \in {"idle", "returned"}

=============================================================================
