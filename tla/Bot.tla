---------------------------------- MODULE Bot ----------------------------------
(***************************************************************************)
(* The small components of the bot side, each with a state of its own: the *)
(* chat ingress (whose module this one extends), the window of the rate    *)
(* limiter, the conversation registry, the QQ gateway, the OneBot adapter, *)
(* the message statistics and the log of the server that the management    *)
(* shows.  They do not share state; what two of them name alike has a name *)
(* of its own here.                                                        *)
(***************************************************************************)
EXTENDS Ingress

CONSTANTS
  Callers, Limits, MaxWindow,  \* the window of the rate limiter
  Messages, ActorOf, Everybody, Owners, PluginOf, MaxSessions, MaxTotal,
  MaxPerPlugin, Timeouts, MaxLifetime, PluginsAwait,  \* the conversation registry
  MaxChanges,  \* the gateway of the QQ adapter
  Settings, MaxStarts, MaxAttach,  \* the OneBot adapter
  MaxTime, MaxCounted, MaxRuns,  \* the message statistics
  Logs, QueueCapacity, BatchSize, MaxKills   \* the management log

VARIABLES
  \* the window of the rate limiter
  limit, waiters, records, readied, pc, left, gaveUp, used,
  \* the conversation registry
  proc, stage, owner, session, asked, entries, routes, owned, parents, fired,
  watching, registryClosed, returned, issued,
  \* the gateway of the QQ adapter
  epoch, disabled, reloading, changed, resumable, lastSeq, qqShown, qqLoop,
  qqConn, frame, err, qqCaller, qqStopping,
  \* the OneBot adapter
  settings, started, shellStopping, life, over, supervisor, forwardConn,
  reverseConn, sessions, severed, workers, forwardState, reverseState, call,
  \* the message statistics
  now, run, up, flushLoop, stopped, uncommitted, state, offline, io, batch,
  view, hours, intervals, runs, counted,
  \* the management log
  log, queue, writer, replay, closed, closing, flush, kills, table, spool,
  shown, lost, garbled

Window == INSTANCE WindowLimiter WITH
  closed <- readied, cancelled <- gaveUp, queue <- waiters
Talk == INSTANCE Conversation WITH
  closed <- registryClosed
Gateway == INSTANCE QQGateway WITH
  session <- resumable, shown <- qqShown, loop <- qqLoop, conn <- qqConn,
  caller <- qqCaller, stopping <- qqStopping
Shell == INSTANCE OneBotShell WITH
  stopping <- shellStopping, loop <- supervisor, conn <- forwardConn
Stats == INSTANCE MessageStats WITH
  pending <- uncommitted, loop <- flushLoop
Stream == INSTANCE LogStream

\* What the components assume of their constants.
ASSUME BotAssumption ==
  /\ Talk!ConversationAssumption /\ Gateway!GatewayAssumption
  /\ Shell!ShellAssumption /\ Stats!MessageAssumption
  /\ Stream!LogsAssumption /\ Window!LimiterAssumption

windowVars == <<limit, waiters, records, readied, pc, left, gaveUp, used>>
talkVars == <<proc, stage, owner, session, asked, entries, routes, owned,
              parents, fired, watching, registryClosed, returned, issued>>
gatewayVars == <<epoch, disabled, reloading, changed, resumable, lastSeq,
                 qqShown, qqLoop, qqConn, frame, err, qqCaller, qqStopping>>
shellVars == <<settings, started, shellStopping, life, over, supervisor,
               forwardConn, reverseConn, sessions, severed, workers,
               forwardState, reverseState, call>>
statsVars == <<now, run, up, flushLoop, stopped, uncommitted, state, offline,
               io, batch, view, hours, intervals, runs, counted>>
streamVars == <<log, queue, writer, replay, closed, closing, flush, kills,
                table, spool, shown, lost, garbled>>

------------------------------------------------------------------------------
(* The properties. *)

\* A conversation is never left with a session nobody attends to: the
\* indexes of the registry agree with its entries, and a session that
\* waits has a timer, one whose answer is being handled has an answer that
\* will be completed or a deadline of its own, or a process that ended and
\* will be cleaned up after (conversation/registry.go:116-207, :302-331).
SessionsAttended ==
  Talk!IndexesAgree /\ Talk!SessionsAttended

\* "a late READY cannot revive the replaced session"
\* (qqofficial/reload.go:90): the session of a QQ adapter that would be
\* resumed was opened under the settings that hold, and it is reported as
\* connected only while its connection is up or its end is about to be
\* reported.
ConnectionCurrent ==
  Gateway!ConnectionCurrent

\* "preventing a reload from starting a second event dispatcher"
\* (onebot11/shell_run.go:24): whatever runs belongs to the last
\* lifecycle, though a Stop gave up on it, and a shell that has stopped
\* holds nothing; a reverse connection that was replaced does not disturb
\* the state of its successor, and connected is shown only of a connection
\* that counts and has sent its ready frame (onebot11/shell_lifecycle.go,
\* shell_run.go).
AdapterSound ==
  Shell!AdapterSound

\* No message is lost from the statistics or counted twice, whether a
\* flush commits, fails or meets messages that arrive while it runs, and a
\* query sees tables and memory at one boundary of a flush
\* (messagestats/service.go:222-330, view.go:236-274).  The offline
\* intervals of an adapter are long enough and never overlap, and only the
\* one the adapter is in is open, though it was saved as open before the
\* adapter came back, was reloaded, removed or switched off, or the server
\* crashed (service.go:112-221).
StatisticsSound ==
  Stats!StatisticsSound

\* No log that was shown or admitted is lost or shown twice, though the
\* queue overflows, the database fails, the spool is replayed while it
\* grows, and the server is killed: it is in the table or in the spool,
\* unless its loss was reported or it was only in the memory
\* (platform/logging/stream.go:118-255, spool.go:58-236).
LogsKept ==
  Stream!LogsKept

\* Nobody overtakes a caller that waits for room in the window, neither a
\* new call nor a notice that is only tried; every sending stays within
\* the limit; and exactly the first in the queue has the turn
\* (outbound/window_limiter.go:123-255).
AdmittedInTurn ==
  [][Window!AdmittedInTurnStep /\ Window!TurnAtHead]_windowVars

\* However a timer crosses the answer that ends or extends a session, it
\* ends only one whose time has passed: the time of the wait, or the
\* absolute lifetime once the answer is being handled
\* (conversation/registry.go:277-300, :342-361).
ExpiredInTime ==
  [][Talk!ExpiredInTimeStep]_talkVars
==============================================================================
