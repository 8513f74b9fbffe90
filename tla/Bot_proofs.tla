---------- MODULE Bot_proofs ----------
(* Proofs about four components of the bot.  Each is proved about on its own, by the names its
   state has in Bot. *)
EXTENDS Bot, Integers, FiniteSetTheorems, TLAPS

------------------------------------------------------------------------------
\* The QQ gateway: what is shown of the connection is true of it.

Connections == [epoch : Nat, opening : {"none", "identify", "resume"}, ready : BOOLEAN,
                cancelled : BOOLEAN]

GatewayTypes ==
  /\ epoch \in Nat /\ resumable \in Nat \cup {None} /\ lastSeq \in Nat \cup {None}
  /\ disabled \in BOOLEAN /\ reloading \in BOOLEAN /\ qqStopping \in BOOLEAN
  /\ qqConn \in Connections \cup {None}
  /\ qqCaller \in {"stop:cancel", "stop:show", "stop:wait", "stopped"} => qqStopping

\* Where the loop has a connection.
Connected == {"announce", "dialling", "reading", "frame", "handle", "closing", "clearing"}
Ending == {"closing", "clearing", "decide"}

\* A connection of other settings is cancelled, its READY comes too late for a
\* session, and its sequence numbers are nobody's.
Replaced ==
  /\ qqConn # None <=> qqLoop \in Connected
  /\ qqConn # None /\ (qqConn.epoch # epoch \/ reloading) => qqConn.cancelled
  /\ qqConn # None /\ qqConn.epoch # epoch => resumable = None
  /\ qqLoop = "handle" /\ Gateway!Up => lastSeq = epoch
  /\ qqLoop = "closing" => err = "failed"
  /\ qqLoop = "clearing" /\ Gateway!Up => err # "reload"

\* Connected is shown of a connection that is up, or ends by itself; all that
\* else ends it shows another state.
ShownSound ==
  /\ qqShown = "connected" /\ ~disabled /\ ~qqStopping /\ qqCaller # "reload:show" =>
       /\ ~reloading
       /\ \/ Gateway!Up /\ qqConn.ready
          \/ qqLoop \in Ending /\ err # "reload"
  /\ disabled /\ qqCaller \notin {"disable:wake", "disable:show"} => qqShown # "connected"
  /\ qqCaller \in {"disable:wake", "disable:show"} => disabled

GatewayInv == GatewayTypes /\ Replaced /\ ShownSound /\ Gateway!ConnectionCurrent

\* The invariant holds at the start.
LEMMA GatewayInit ==
  ASSUME Gateway!GatewayAssumption, Gateway!Init PROVE GatewayInv
  BY DEF Gateway!GatewayAssumption, Gateway!Init, GatewayInv, GatewayTypes, Replaced, ShownSound,
         Gateway!ConnectionCurrent, Gateway!Up, Gateway!Reported, Connected, Ending

\* None is no number and no connection.
LEMMA NoneApart ==
  ASSUME Gateway!GatewayAssumption
  PROVE  None \notin Nat /\ \A c \in Connections : c # None /\ c.epoch \in Nat
  BY DEF Gateway!GatewayAssumption, Connections

\* A connection changes in one field.
LEMMA ConnectionChanges ==
  ASSUME NEW c \in Connections, NEW d
  PROVE  /\ d = [c EXCEPT !.cancelled = TRUE] =>
              d \in Connections /\ d.epoch = c.epoch /\ d.cancelled
         /\ d = [c EXCEPT !.ready = TRUE] =>
              d \in Connections /\ d.epoch = c.epoch /\ d.ready /\ d.cancelled = c.cancelled
         /\ \A o \in {"identify", "resume"} : d = [c EXCEPT !.opening = o] =>
              d \in Connections /\ d.epoch = c.epoch /\ d.ready = c.ready
              /\ d.cancelled = c.cancelled
<1>1. ASSUME d = [c EXCEPT !.cancelled = TRUE]
      PROVE  d \in Connections /\ d.epoch = c.epoch /\ d.cancelled
  BY <1>1 DEF Connections
<1>2. ASSUME d = [c EXCEPT !.ready = TRUE]
      PROVE  d \in Connections /\ d.epoch = c.epoch /\ d.ready /\ d.cancelled = c.cancelled
  BY <1>2 DEF Connections
<1>3. ASSUME NEW o \in {"identify", "resume"}, d = [c EXCEPT !.opening = o]
      PROVE  /\ d \in Connections /\ d.epoch = c.epoch
             /\ d.ready = c.ready /\ d.cancelled = c.cancelled
  BY <1>3 DEF Connections
<1> QED
  BY <1>1, <1>2, <1>3

\* A new connection is one of the settings it is opened with.
LEMMA Opening ==
  ASSUME NEW d, epoch \in Nat,
         d = [epoch |-> epoch, opening |-> "none", ready |-> FALSE, cancelled |-> FALSE]
  PROVE  d \in Connections /\ d.epoch = epoch /\ ~d.cancelled
  BY DEF Connections

\* Whoever cancels the connection, if there is one.
CancelsConn ==
  IF qqConn # None THEN qqConn' \in Connections /\ qqConn'.epoch = qqConn.epoch /\ qqConn'.cancelled
                 ELSE qqConn' = None

\* What is left of the connection when it is cancelled.
LEMMA Cancelling ==
  ASSUME GatewayTypes, qqConn' = IF qqConn # None THEN [qqConn EXCEPT !.cancelled = TRUE] ELSE None
  PROVE  CancelsConn
  BY ConnectionChanges DEF GatewayTypes, CancelsConn

\* Every step keeps the invariant.
LEMMA GatewayStep ==
  ASSUME Gateway!GatewayAssumption, GatewayInv, [Gateway!Next]_Gateway!vars
  PROVE  GatewayInv'
<1>0. None \notin Nat /\ \A c \in Connections : c # None /\ c.epoch \in Nat
  BY NoneApart
<1> USE <1>0 DEF GatewayInv, GatewayTypes, Replaced, ShownSound,
            Gateway!ConnectionCurrent, Gateway!Up, Gateway!Reported, Connected, Ending,
            Gateway!settingsVars, Gateway!loopVars
<1>1. CASE Gateway!Top \/ Gateway!Park \/ Gateway!Wake
  BY <1>1 DEF Gateway!Top, Gateway!Park, Gateway!Wake, Gateway!Exit
<1>2. CASE Gateway!Begin
  <2>1. CASE disabled
    BY <1>2, <2>1 DEF Gateway!Begin
  <2>2. CASE ~disabled
    <3>0. /\ qqConn' = [epoch |-> epoch, opening |-> "none", ready |-> FALSE, cancelled |-> FALSE]
          /\ qqLoop = "begin" /\ qqLoop' = "announce" /\ reloading' = FALSE
      BY <1>2, <2>2, Zenon DEF Gateway!Begin
    <3>1. qqConn' \in Connections /\ qqConn'.epoch = epoch /\ ~qqConn'.cancelled
      BY <3>0, Opening, Zenon
    <3>a. qqLoop = "begin" /\ qqLoop' = "announce" /\ reloading' = FALSE
      BY <3>0
    <3>2. UNCHANGED <<epoch, disabled, resumable, lastSeq, qqShown, frame, err, qqCaller,
                      qqStopping>>
      BY <1>2 DEF Gateway!Begin
    <3>3. GatewayTypes'
      BY <3>1, <3>a, <3>2, <2>2
    <3>4. Replaced'
      BY <3>1, <3>a, <3>2, <2>2
    <3>5. ShownSound'
      BY <3>1, <3>a, <3>2, <2>2
    <3>6. Gateway!ConnectionCurrent'
      BY <3>1, <3>a, <3>2, <2>2
    <3> QED
      BY <3>3, <3>4, <3>5, <3>6
  <2> QED
    BY <2>1, <2>2
<1>3. CASE Gateway!Announce
  BY <1>3 DEF Gateway!Announce
<1>4. CASE Gateway!Dial
  <2>1. \E o \in {"identify", "resume"} : qqConn' = [qqConn EXCEPT !.opening = o]
    BY <1>4, Zenon DEF Gateway!Dial
  <2>2. qqConn \in Connections
    BY <1>4 DEF Gateway!Dial
  <2>3. /\ qqConn' \in Connections /\ qqConn'.epoch = qqConn.epoch
        /\ qqConn'.ready = qqConn.ready /\ qqConn'.cancelled = qqConn.cancelled
    BY <2>1, <2>2, ConnectionChanges
  <2>4. qqLoop = "dialling" /\ qqLoop' = "reading" /\ Gateway!Up
        /\ UNCHANGED <<epoch, disabled, reloading, resumable, lastSeq, qqShown, err, qqCaller,
                       qqStopping>>
    BY <1>4 DEF Gateway!Dial
  <2>5. qqConn # None /\ qqConn' # None
    BY <1>0, <2>2, <2>3
  <2>6. GatewayTypes'
    BY <2>3, <2>4, <2>5
  <2>7. Replaced'
    BY <2>3, <2>4, <2>5
  <2>8. ShownSound'
    BY <2>3, <2>4, <2>5
  <2>9. Gateway!ConnectionCurrent'
    BY <2>3, <2>4, <2>5
  <2> QED
    BY <2>6, <2>7, <2>8, <2>9
<1>5. CASE Gateway!DialFails \/ Gateway!Rejected \/ Gateway!Dropped
  BY <1>5 DEF Gateway!DialFails, Gateway!Rejected, Gateway!Dropped, Gateway!EndConn
<1>6. CASE Gateway!Observe
  BY <1>6 DEF Gateway!Observe, Gateway!EndConn
<1>7. CASE Gateway!Handle
  <2>1. CASE Gateway!Up /\ ~disabled /\ frame # "event"
    <3>1. qqConn \in Connections /\ qqConn' = [qqConn EXCEPT !.ready = TRUE]
      BY <1>7, <2>1 DEF Gateway!Handle
    <3>2. /\ qqConn' \in Connections /\ qqConn'.epoch = qqConn.epoch /\ qqConn'.ready
          /\ qqConn'.cancelled = qqConn.cancelled
      BY <3>1, ConnectionChanges
    <3>3. /\ qqLoop = "handle" /\ qqLoop' = "reading" /\ qqShown' = "connected"
          /\ resumable' = resumable \/ resumable' = qqConn.epoch
          /\ UNCHANGED <<epoch, disabled, reloading, lastSeq, err, qqCaller, qqStopping>>
      BY <1>7, <2>1 DEF Gateway!Handle
    <3>4. qqConn # None /\ ~qqConn.cancelled /\ ~disabled /\ qqConn' # None
      BY <2>1, <3>2, <1>0
    <3>5. qqConn.epoch = epoch /\ lastSeq = epoch /\ ~reloading
      BY <3>3, <3>4
    <3>6. GatewayTypes'
      BY <3>2, <3>3, <3>4, <3>5
    <3>7. Replaced'
      BY <3>2, <3>3, <3>4, <3>5
    <3>8. ShownSound'
      BY <3>2, <3>3, <3>4, <3>5
    <3>9. Gateway!ConnectionCurrent'
      BY <3>2, <3>3, <3>4, <3>5
    <3> QED
      BY <3>6, <3>7, <3>8, <3>9
  <2>2. CASE ~(Gateway!Up /\ ~disabled /\ frame # "event")
    BY <1>7, <2>2 DEF Gateway!Handle
  <2> QED
    BY <2>1, <2>2
<1>8. CASE Gateway!TakeReloading
  BY <1>8 DEF Gateway!TakeReloading
<1>9. CASE Gateway!ClearCancel
  <2>1. /\ qqConn' = None /\ qqLoop = "clearing" /\ qqLoop' = "decide"
        /\ UNCHANGED <<epoch, disabled, reloading, resumable, lastSeq, qqShown, err, qqCaller,
                       qqStopping>>
    BY <1>9 DEF Gateway!ClearCancel
  <2>2. GatewayTypes'
    BY <2>1
  <2>3. Replaced'
    BY <2>1
  <2>4. ShownSound'
    BY <2>1
  <2>5. Gateway!ConnectionCurrent'
    BY <2>1
  <2> QED
    BY <2>2, <2>3, <2>4, <2>5
<1>10. CASE Gateway!Decide
  BY <1>10 DEF Gateway!Decide, Gateway!Exit
<1>11. ASSUME NEW f \in Gateway!Frames, Gateway!Read(f) PROVE GatewayInv'
  BY <1>11 DEF Gateway!Read
<1>12. CASE Gateway!CancelOnStop
  <2>1. qqConn' = IF qqConn # None THEN [qqConn EXCEPT !.cancelled = TRUE] ELSE None
    BY <1>12 DEF Gateway!CancelOnStop
  <2>2. CancelsConn
    BY <2>1, Cancelling
  <2> QED
    BY <1>12, <2>2 DEF Gateway!CancelOnStop, CancelsConn
<1>13. CASE Gateway!Reload
  <2>1. CancelsConn
    BY <1>13, Cancelling DEF Gateway!Reload, Gateway!Invalidate
  <2>2. /\ qqCaller = "idle" /\ epoch' = epoch + 1 /\ resumable' = None /\ lastSeq' = None
        /\ reloading' = TRUE
        /\ qqCaller' = "reload:show"
        /\ UNCHANGED <<disabled, qqShown, qqLoop, err, qqStopping>>
    BY <1>13 DEF Gateway!Reload, Gateway!Invalidate
  <2>3. /\ qqConn = None => qqConn' = None
        /\ qqConn # None => /\ qqConn' \in Connections /\ qqConn' # None
                          /\ qqConn'.epoch = qqConn.epoch /\ qqConn'.cancelled
    BY <2>1, <1>0 DEF CancelsConn
  <2>4. GatewayTypes'
    BY <2>2, <2>3
  <2>5. Replaced'
    BY <2>2, <2>3
  <2>6. ShownSound'
    BY <2>2, <2>3
  <2>7. Gateway!ConnectionCurrent'
    BY <2>2, <2>3
  <2> QED
    BY <2>4, <2>5, <2>6, <2>7
<1>14. CASE Gateway!SetEnabled
  <2>1. CancelsConn
    BY <1>14, Cancelling DEF Gateway!SetEnabled, Gateway!Invalidate
  <2>2. /\ qqCaller = "idle" /\ epoch' = epoch + 1 /\ resumable' = None /\ lastSeq' = None
        /\ reloading' = TRUE
        /\ disabled' = ~disabled
        /\ qqCaller' = IF disabled THEN "enable:wake" ELSE "disable:wake"
        /\ UNCHANGED <<qqShown, qqLoop, err, qqStopping>>
    BY <1>14 DEF Gateway!SetEnabled, Gateway!Invalidate
  <2>3. /\ qqConn = None => qqConn' = None
        /\ qqConn # None => /\ qqConn' \in Connections /\ qqConn' # None
                          /\ qqConn'.epoch = qqConn.epoch /\ qqConn'.cancelled
    BY <2>1, <1>0 DEF CancelsConn
  <2>4. GatewayTypes'
    BY <2>2, <2>3
  <2>5. Replaced'
    BY <2>2, <2>3
  <2>6. ShownSound'
    BY <2>2, <2>3
  <2>7. Gateway!ConnectionCurrent'
    BY <2>2, <2>3
  <2> QED
    BY <2>4, <2>5, <2>6, <2>7
<1>15. CASE Gateway!Stop
  BY <1>15 DEF Gateway!Stop
<1>16. CASE Gateway!CallStep
  <2>1. CASE Gateway!StopCancel
    <3>1. CancelsConn
      BY <2>1, Cancelling DEF Gateway!StopCancel
    <3> QED
      BY <2>1, <3>1 DEF Gateway!StopCancel, CancelsConn
  <2>2. CASE \/ Gateway!Show("reload:show", "reload:wake", "connecting")
             \/ Gateway!Show("disable:show", "idle", "stopped")
             \/ Gateway!Show("stop:show", "stop:wait", "stopped")
    BY <2>2 DEF Gateway!Show
  <2>3. CASE Gateway!WakeLoop \/ Gateway!StopReturn
    BY <2>3 DEF Gateway!WakeLoop, Gateway!StopReturn
  <2> QED
    BY <1>16, <2>1, <2>2, <2>3 DEF Gateway!CallStep
<1>17. CASE UNCHANGED Gateway!vars
  BY <1>17 DEF Gateway!vars
<1> HIDE DEF GatewayInv
<1> QED
  BY <1>1, <1>2, <1>3, <1>4, <1>5, <1>6, <1>7, <1>8, <1>9, <1>10, <1>11, <1>12, <1>13, <1>14,
     <1>15, <1>16, <1>17 DEF Gateway!Next, Gateway!LoopStep

\* However often the settings change, are switched off or the adapter is stopped: the session that
\* would be resumed is one of the settings that hold, and connected is shown of a connection that is
\* up or whose end is about to be shown.
THEOREM GatewayKeepsConnection ==
  ASSUME Gateway!GatewayAssumption
  PROVE  Gateway!Spec => []ConnectionCurrent
<1>1. Gateway!Init => GatewayInv
  BY GatewayInit
<1>2. GatewayInv /\ [Gateway!Next]_Gateway!vars => GatewayInv'
  BY GatewayStep
<1>3. GatewayInv => ConnectionCurrent
  BY DEF GatewayInv, ConnectionCurrent
<1> QED
  BY <1>1, <1>2, <1>3, PTL DEF Gateway!Spec

------------------------------------------------------------------------------
\* The OneBot shell: one lifecycle, whose sessions are shown as they are.

SessionPlaces == {"attached", "waiting", "ready", "reading", "failing", "leaving", "gone"}
SessionRecords == [at : SessionPlaces, life : Nat, previous : Nat \cup {None}, early : BOOLEAN]
CallPlaces == {"start", "prime", "run", "stop", "cancel", "wait", "reverse", "mark", "apply",
               "retire"}
CallRecords == [at : CallPlaces, then : {"return", "restart", "retire"}, next : Settings, started : BOOLEAN,
                reverse : Nat \cup {None}]

ShellTypes ==
  /\ settings \in Settings
  /\ life \in Nat /\ over \subseteq 0 .. life
  /\ started \in BOOLEAN /\ shellStopping \in BOOLEAN /\ forwardConn \in BOOLEAN
  /\ sessions \in [DOMAIN sessions -> SessionRecords]
  /\ DOMAIN sessions = 1 .. Shell!Cardinality(DOMAIN sessions)
  /\ Shell!Cardinality(DOMAIN sessions) \in Nat
  /\ reverseConn \in DOMAIN sessions \cup {None}
  /\ call \in CallRecords \cup {None}

\* Where the supervisor is, and what that says of the lifecycle.
Supervised ==
  /\ supervisor # "none" => started
  /\ supervisor \in {"joining", "ending"} => shellStopping
  /\ supervisor = "ending" => workers = {} /\ Shell!Alive = {}
  /\ forwardConn <=> supervisor \in {"opening", "reading"}
  /\ forwardState = "connected" =>
       \/ supervisor = "reading"
       \/ supervisor \in {"leaving", "joining"} /\ life \in over

\* Where the call is.
Called ==
  call # None =>
    /\ call.at \in {"prime", "run"} => started /\ supervisor = "none"
    /\ call.at \in {"cancel", "wait", "reverse", "mark", "retire"} => shellStopping
    /\ call.at = "apply" => shellStopping \/ ~started
    /\ call.at = "prime" => \A a \in Shell!Alive : sessions[a].early

ShellInv == ShellTypes /\ Supervised /\ Called /\ Shell!AdapterSound

\* The instance counts as FiniteSets does.
LEMMA ShellCardinality ==
  \A S : Shell!Cardinality(S) = Cardinality(S)
  BY Zenon DEF Shell!Cardinality, Cardinality

\* The invariant holds at the start.
LEMMA ShellInit ==
  ASSUME Shell!ShellAssumption, Shell!Init PROVE ShellInv
<1>1. sessions = <<>> /\ DOMAIN sessions = {}
  BY DEF Shell!Init
<1>2. Shell!Cardinality(DOMAIN sessions) = 0
  BY <1>1, FS_EmptySet, ShellCardinality
<1>3. Shell!Alive = {}
  BY <1>1 DEF Shell!Alive
<1>4. ShellTypes
  <2>1. sessions \in [DOMAIN sessions -> SessionRecords]
    BY <1>1
  <2>2. DOMAIN sessions = 1 .. Shell!Cardinality(DOMAIN sessions)
    BY <1>1, <1>2
  <2>3. /\ settings \in Settings /\ life = 0 /\ over = {} /\ ~started /\ started \in BOOLEAN
        /\ shellStopping \in BOOLEAN /\ forwardConn \in BOOLEAN /\ reverseConn = None /\ call = None
    BY DEF Shell!Init
  <2> HIDE DEF Shell!Init
  <2> QED
    BY <1>2, <2>1, <2>2, <2>3 DEF ShellTypes
<1>5. Supervised /\ Called
  BY <1>3 DEF Shell!Init, Supervised, Called
<1>6. Shell!AdapterSound
  BY <1>3 DEF Shell!Init, Shell!AdapterSound, Shell!OneLifecycle, Shell!SessionsShown
<1> QED
  BY <1>4, <1>5, <1>6 DEF ShellInv

\* A session changes its place.
Placed(s, a, to) == [s EXCEPT ![a].at = to]
Started(s, a) == [s EXCEPT ![a].at = "waiting", ![a].previous = None]

\* A session that goes on to wait keeps its lifecycle.
LEMMA StartedRecord ==
  ASSUME NEW r \in SessionRecords, NEW u, u = [r EXCEPT !.at = "waiting", !.previous = None]
  PROVE  u \in SessionRecords /\ u.at = "waiting" /\ u.life = r.life /\ u.early = r.early
<1>1. u \in SessionRecords
  BY DEF SessionRecords, SessionPlaces
<1>2. u.at = "waiting" /\ u.life = r.life /\ u.early = r.early
  BY DEF SessionRecords
<1> QED
  BY <1>1, <1>2

\* What becomes of the records when one session moves.
LEMMA Moving ==
  ASSUME NEW s, NEW D, s \in [D -> SessionRecords], NEW a \in D, NEW to \in SessionPlaces, NEW t,
         t = Placed(s, a, to) \/ (t = Started(s, a) /\ to = "waiting")
  PROVE  /\ t \in [D -> SessionRecords] /\ DOMAIN t = D
         /\ \A b \in D : b # a => t[b] = s[b]
         /\ t[a].at = to
         /\ t[a].life = s[a].life
         /\ t[a].early = s[a].early
<1>1. CASE t = Placed(s, a, to)
  BY <1>1 DEF SessionRecords, Placed
<1>2. CASE t = Started(s, a) /\ to = "waiting"
  <2>1. DOMAIN t = D /\ \A b \in D : b # a => t[b] = s[b]
    BY <1>2, Zenon DEF Started
  <2>2. t[a] = [s[a] EXCEPT !.at = "waiting", !.previous = None]
    BY <1>2, Zenon DEF Started
  <2>3. /\ t[a] \in SessionRecords
        /\ t[a].at = "waiting" /\ t[a].life = s[a].life /\ t[a].early = s[a].early
    <3>1. s[a] \in SessionRecords
      OBVIOUS
    <3> QED
      BY <2>2, <3>1, StartedRecord
  <2>4. t = [b \in D |-> t[b]]
    BY <1>2, Zenon DEF Started
  <2>5. t \in [D -> SessionRecords]
    BY <2>1, <2>3, <2>4
  <2> QED
    BY <1>2, <2>1, <2>3, <2>5
<1> QED
  BY <1>1, <1>2

\* A call goes on.
LEMMA CallMoves ==
  ASSUME NEW c \in CallRecords, NEW d, NEW to \in CallPlaces, d = [c EXCEPT !.at = to]
  PROVE  d \in CallRecords /\ d.at = to /\ d.then = c.then
  BY DEF CallRecords

\* The record of a call that has not begun.
LEMMA CallBegins ==
  ASSUME ShellTypes
  PROVE  Shell!Idle \in CallRecords /\ Shell!Idle.at = "start"
<1>1. settings \in Settings
  BY DEF ShellTypes
<1>2. Shell!Idle = [at |-> "start", then |-> "return", next |-> settings, started |-> FALSE,
                    reverse |-> None]
  BY DEF Shell!Idle
<1>3. /\ "start" \in CallPlaces /\ "return" \in {"return", "restart", "retire"}
      /\ FALSE \in BOOLEAN /\ None \in Nat \cup {None}
  BY DEF CallPlaces
<1>4. Shell!Idle \in CallRecords
  BY <1>1, <1>2, <1>3, Zenon DEF CallRecords
<1>5. Shell!Idle.at = "start"
  BY <1>2
<1> QED
  BY <1>4, <1>5

\* Every call begins with a record of its kind.
LEMMA CallChosen ==
  ASSUME ShellTypes, NEW c, NEW to \in CallPlaces,
         \/ c = [Shell!Idle EXCEPT !.at = to, !.then = "retire"]
         \/ \E next \in Settings : \E then \in {"return", "restart"} :
              c = [Shell!Idle EXCEPT !.at = to, !.then = then, !.next = next]
  PROVE  c \in CallRecords /\ c.at = to
<1>1. Shell!Idle \in CallRecords
  BY CallBegins
<1> QED
  BY <1>1 DEF CallRecords

\* What leaves the sessions and the reverse connection alone, leaves what is
\* said of them alone.
Quiet == UNCHANGED <<sessions, reverseConn>>

\* The steps of the supervisor.
LEMMA SupervisorStep ==
  ASSUME Shell!ShellAssumption, ShellInv,
         \/ Shell!LoopStep \/ Shell!Dial \/ Shell!DialRefused \/ Shell!Connected
         \/ Shell!ConnectionEnds
  PROVE  ShellInv'
<1> USE DEF ShellInv, Shell!GoTo, Shell!Cancelled
<1>1. Quiet /\ UNCHANGED <<settings, life, call>>
  BY DEF Shell!LoopStep, Shell!Attempt, Shell!Parked, Shell!Dial, Shell!DialRefused,
     Shell!DialFails, Shell!Connected, Shell!ConnectionEnds, Shell!Leave, Shell!Join, Shell!End,
     Shell!lifeVars, Shell!connVars, Shell!shownVars, Quiet
<1>2. Shell!Alive' = Shell!Alive
  BY <1>1 DEF Quiet, Shell!Alive
<1>3. /\ over' \in {over, over \cup {life}} /\ started' \in {started, FALSE}
      /\ shellStopping' \in {shellStopping, TRUE} /\ forwardConn' \in {forwardConn, TRUE, FALSE}
  BY DEF Shell!LoopStep, Shell!Attempt, Shell!Parked, Shell!Dial,
     Shell!DialRefused, Shell!DialFails, Shell!Connected, Shell!ConnectionEnds, Shell!Leave,
     Shell!Join, Shell!End, Shell!lifeVars, Shell!connVars, Shell!shownVars
<1>4. ShellTypes'
  <2>1. over' \subseteq 0 .. life
    BY <1>3 DEF ShellTypes
  <2>2. started' \in BOOLEAN /\ shellStopping' \in BOOLEAN /\ forwardConn' \in BOOLEAN
    BY <1>3 DEF ShellTypes
  <2> QED
    BY <1>1, <2>1, <2>2 DEF ShellTypes, Quiet
<1>7. Called'
  <2>1. shellStopping => shellStopping'
    BY <1>3 DEF ShellTypes
  <2>2. started' => started
    BY <1>3 DEF ShellTypes
  <2>3. supervisor = "none" => FALSE
    BY DEF Shell!LoopStep, Shell!Attempt, Shell!Parked, Shell!Dial,
     Shell!DialRefused, Shell!DialFails, Shell!Connected, Shell!ConnectionEnds, Shell!Leave,
     Shell!Join, Shell!End
  <2> QED
    BY <1>1, <1>2, <2>1, <2>2, <2>3 DEF Called, Quiet
<1>8. Supervised'
  <2>1. CASE Shell!Attempt
    BY <2>1, <1>1, <1>2 DEF Supervised, ShellTypes, Shell!Attempt, Shell!lifeVars, Shell!connVars,
       Shell!shownVars, Shell!WithWorker, Quiet
  <2>2. CASE Shell!Parked
    BY <2>2, <1>1, <1>2 DEF Supervised, ShellTypes, Shell!Parked, Shell!lifeVars, Shell!connVars,
       Shell!shownVars, Shell!WithWorker, Quiet
  <2>3. CASE Shell!Dial
    BY <2>3, <1>1, <1>2 DEF Supervised, ShellTypes, Shell!Dial, Shell!lifeVars, Shell!connVars,
       Shell!shownVars, Shell!WithWorker, Quiet
  <2>4. CASE Shell!DialRefused
    BY <2>4, <1>1, <1>2
       DEF Supervised, ShellTypes, Shell!DialRefused, Shell!lifeVars, Shell!connVars,
       Shell!shownVars, Shell!WithWorker, Quiet
  <2>5. CASE Shell!DialFails
    BY <2>5, <1>1, <1>2
       DEF Supervised, ShellTypes, Shell!DialFails, Shell!lifeVars, Shell!connVars,
       Shell!shownVars, Shell!WithWorker, Quiet
  <2>6. CASE Shell!Connected
    <3>1. /\ supervisor = "opening" /\ supervisor' = "reading" /\ UNCHANGED <<started,
                                                                              shellStopping,
                                                                              forwardConn>>
          /\ forwardConn \in BOOLEAN
      BY <2>6 DEF Shell!Connected, Shell!lifeVars, ShellTypes
    <3> QED
      BY <3>1, <1>1, <1>2 DEF Supervised
  <2>7. CASE Shell!ConnectionEnds
    BY <2>7, <1>1, <1>2
       DEF Supervised, ShellTypes, Shell!ConnectionEnds, Shell!lifeVars, Shell!connVars,
       Shell!shownVars, Shell!WithWorker, Quiet
  <2>8. CASE Shell!Leave
    BY <2>8, <1>1, <1>2 DEF Supervised, ShellTypes, Shell!Leave, Shell!lifeVars, Shell!connVars,
       Shell!shownVars, Shell!WithWorker, Quiet
  <2>9. CASE Shell!Join
    BY <2>9, <1>1, <1>2 DEF Supervised, ShellTypes, Shell!Join, Shell!lifeVars, Shell!connVars,
       Shell!shownVars, Shell!WithWorker, Quiet
  <2>10. CASE Shell!End
    BY <2>10, <1>1, <1>2 DEF Supervised, ShellTypes, Shell!End, Shell!lifeVars, Shell!connVars,
       Shell!shownVars, Shell!WithWorker, Quiet
  <2> QED
    BY <2>1, <2>2, <2>3, <2>4, <2>5, <2>6, <2>7, <2>8, <2>9, <2>10 DEF Shell!LoopStep
<1>5. Shell!OneLifecycle'
  BY <1>1, <1>2 DEF Supervised, Called, Quiet, ShellTypes, Shell!LoopStep, Shell!Attempt,
     Shell!Parked, Shell!Dial, Shell!DialRefused, Shell!DialFails, Shell!Connected,
     Shell!ConnectionEnds, Shell!Leave, Shell!Join, Shell!End, Shell!lifeVars, Shell!connVars,
     Shell!shownVars, Shell!WithWorker, Shell!OneLifecycle, Shell!AdapterSound
<1>6. Shell!SessionsShown'
  BY <1>1, <1>2 DEF Supervised, Called, Quiet, ShellTypes, Shell!LoopStep, Shell!Attempt,
     Shell!Parked, Shell!Dial, Shell!DialRefused, Shell!DialFails, Shell!Connected,
     Shell!ConnectionEnds, Shell!Leave, Shell!Join, Shell!End, Shell!lifeVars, Shell!connVars,
     Shell!shownVars, Shell!SessionsShown, Shell!AdapterSound, Shell!ReverseDown
<1> QED
  BY <1>4, <1>5, <1>6, <1>7, <1>8 DEF Shell!AdapterSound

\* The end of a worker.
LEMMA WorkerStep ==
  ASSUME ShellInv, NEW w \in workers, Shell!WorkerEnds(w)
  PROVE  ShellInv'
<1> USE DEF ShellInv, Shell!WorkerEnds, Shell!lifeVars, Shell!connVars, Shell!shownVars
<1>1. Shell!Alive' = Shell!Alive
  BY DEF Shell!Alive
<1>2. ShellTypes'
  BY DEF ShellTypes
<1>3. Supervised' /\ Called'
  BY <1>1 DEF Supervised, Called
<1>4. Shell!AdapterSound'
  BY <1>1 DEF Shell!AdapterSound, Shell!OneLifecycle, Shell!SessionsShown, Shell!Cancelled
<1> QED
  BY <1>2, <1>3, <1>4

\* What the steps of a session have in common: it moves on, or leaves.
MovesOn(a) ==
  /\ DOMAIN sessions' = DOMAIN sessions
  /\ sessions' \in [DOMAIN sessions -> SessionRecords]
  /\ \A b \in DOMAIN sessions : b # a => sessions'[b] = sessions[b]
  /\ sessions'[a].at # "gone" =>
       sessions[a].at # "gone" /\ sessions'[a].life = sessions[a].life
       /\ sessions'[a].early = sessions[a].early
  /\ UNCHANGED <<settings, started, shellStopping, life, over, supervisor, forwardConn,
                 forwardState, call>>

\* Every step of a session moves that session only.
LEMMA SessionMoves ==
  ASSUME ShellTypes, NEW a \in DOMAIN sessions,
         Shell!SessionStep(a) \/ Shell!SeesReady(a) \/ Shell!ReverseEnds(a)
  PROVE  MovesOn(a)
<1>1. UNCHANGED <<settings, started, shellStopping, life, over, supervisor, forwardConn,
                  forwardState, call>>
  BY DEF Shell!SessionStep, Shell!CloseReplaced, Shell!ShowReady, Shell!ReverseFails,
     Shell!ReverseLeaves, Shell!SeesReady, Shell!ReverseEnds, Shell!Moves, Shell!lifeVars,
     Shell!connVars, Shell!shownVars
<1>2. sessions[a].at # "gone"
  BY DEF Shell!SessionStep, Shell!CloseReplaced, Shell!ShowReady, Shell!ReverseFails,
     Shell!ReverseLeaves, Shell!SeesReady, Shell!ReverseEnds
<1>3. CASE Shell!ReverseLeaves(a)
  <2>1. sessions' = [sessions EXCEPT ![a] = Shell!Gone] /\ Shell!Gone.at = "gone"
    BY <1>3 DEF Shell!ReverseLeaves, Shell!Gone
  <2>2. Shell!Gone \in SessionRecords
    <3>1. "gone" \in SessionPlaces /\ 0 \in Nat /\ None \in Nat \cup {None} /\ FALSE \in BOOLEAN
      BY DEF SessionPlaces
    <3> QED
      BY <3>1, Zenon DEF SessionRecords, Shell!Gone
  <2> QED
    BY <1>1, <2>1, <2>2 DEF MovesOn, ShellTypes
<1>4. CASE ~Shell!ReverseLeaves(a)
  <2>1. \E to \in SessionPlaces \ {"gone"} :
          sessions' = Placed(sessions, a, to) \/ (sessions' = Started(sessions, a) /\ to = "waiting")
    <3>1. CASE Shell!CloseReplaced(a)
      BY <3>1, Zenon DEF Shell!CloseReplaced, Started, SessionPlaces
    <3>2. CASE ~Shell!CloseReplaced(a)
      BY <3>2, <1>4, Zenon DEF Shell!SessionStep, Shell!ShowReady, Shell!ReverseFails,
         Shell!SeesReady, Shell!ReverseEnds, Shell!Moves, Placed, SessionPlaces
    <3> QED
      BY <3>1, <3>2
  <2>2. PICK to \in SessionPlaces \ {"gone"} :
          sessions' = Placed(sessions, a, to) \/ (sessions' = Started(sessions, a) /\ to = "waiting")
    BY <2>1
  <2>3. /\ sessions' \in [DOMAIN sessions -> SessionRecords]
        /\ DOMAIN sessions' = DOMAIN sessions
        /\ \A b \in DOMAIN sessions : b # a => sessions'[b] = sessions[b]
        /\ sessions'[a].at = to
        /\ sessions'[a].life = sessions[a].life
        /\ sessions'[a].early = sessions[a].early
    BY <2>2, Moving DEF ShellTypes
  <2>4. DOMAIN sessions' = DOMAIN sessions
    BY <2>3
  <2> QED
    BY <1>1, <1>2, <2>3, <2>4, Zenon DEF MovesOn
<1> QED
  BY <1>3, <1>4

\* A session that moves, but not to its end, is alive.
LEMMA MovesTo ==
  ASSUME ShellTypes, NEW a \in DOMAIN sessions, NEW to \in SessionPlaces, to # "gone",
         Shell!Moves(a, to) \/ (Shell!CloseReplaced(a) /\ to = "waiting")
  PROVE  sessions'[a].at = to /\ a \in Shell!Alive'
<1>1. sessions' = Placed(sessions, a, to) \/ (sessions' = Started(sessions, a) /\ to = "waiting")
  BY Zenon DEF Shell!Moves, Shell!CloseReplaced, Placed, Started
<1>2. sessions'[a].at = to /\ DOMAIN sessions' = DOMAIN sessions
  <2>1. sessions \in [DOMAIN sessions -> SessionRecords]
    BY DEF ShellTypes
  <2> QED
    BY <1>1, <2>1, Moving
<1> QED
  BY <1>2 DEF Shell!Alive

\* A session keeps the invariant.
LEMMA SessionStepSound ==
  ASSUME Shell!ShellAssumption, ShellInv, NEW a \in DOMAIN sessions,
         Shell!SessionStep(a) \/ Shell!SeesReady(a) \/ Shell!ReverseEnds(a)
  PROVE  ShellInv'
<1>1. MovesOn(a)
  BY SessionMoves DEF ShellInv
<1>2. a \in Shell!Alive
  BY DEF Shell!SessionStep, Shell!CloseReplaced, Shell!ShowReady, Shell!ReverseFails,
     Shell!ReverseLeaves, Shell!SeesReady, Shell!ReverseEnds, Shell!Alive
<1>3. /\ Shell!Alive' \subseteq Shell!Alive
      /\ \A b \in Shell!Alive' : /\ sessions'[b].life = sessions[b].life
                               /\ sessions'[b].early = sessions[b].early
      /\ \A b \in Shell!Alive : b # a => b \in Shell!Alive' /\ sessions'[b] = sessions[b]
  BY <1>1 DEF MovesOn, Shell!Alive
<1>4. /\ reverseConn' \in {reverseConn, None}
      /\ workers' \in {workers, workers \cup {<<life, "callback">>}}
  BY DEF Shell!SessionStep, Shell!CloseReplaced, Shell!ShowReady, Shell!ReverseFails,
     Shell!ReverseLeaves, Shell!SeesReady, Shell!ReverseEnds, Shell!Moves, Shell!WithWorker,
     Shell!connVars
<1>5. UNCHANGED <<settings, started, shellStopping, life, over, supervisor, forwardConn,
                  forwardState, call>>
  BY <1>1 DEF MovesOn
<1>6. started /\ supervisor # "ending" /\ sessions[a].life = life
  BY <1>2 DEF ShellInv, Supervised, Shell!AdapterSound, Shell!OneLifecycle
<1>7. ShellTypes'
  <2>1. DOMAIN sessions' = DOMAIN sessions /\ sessions' \in [DOMAIN sessions' -> SessionRecords]
    BY <1>1 DEF MovesOn
  <2> QED
    BY <1>4, <1>5, <2>1 DEF ShellTypes, ShellInv
<1>8. Supervised'
  BY <1>5, <1>6 DEF ShellInv, Supervised
<1>9. Called'
  BY <1>3, <1>5 DEF ShellInv, Called
<1>10. Shell!OneLifecycle'
  BY <1>3, <1>4, <1>5, <1>6 DEF ShellInv, Shell!AdapterSound, Shell!OneLifecycle
<1>11. Shell!SessionsShown'
  <2>1. a # None /\ a \in Shell!Alive
    BY <1>2 DEF ShellInv, ShellTypes, Shell!ShellAssumption
  <2>2. Shell!SessionsShown /\ \A b : b \in Shell!Alive => b \in DOMAIN sessions
    BY DEF ShellInv, Shell!AdapterSound, Shell!Alive
  <2> USE <1>3, <1>5, <1>6, <2>1, <2>2 DEF Shell!SessionsShown, Shell!Cancelled
  <2>3. CASE Shell!CloseReplaced(a)
    <3>1. UNCHANGED <<reverseConn, reverseState>> /\ sessions[a].at = "attached"
      BY <2>3 DEF Shell!CloseReplaced, Shell!shownVars
    <3>2. sessions'[a].at = "waiting" /\ a \in Shell!Alive'
      BY <2>3, MovesTo DEF ShellInv, SessionPlaces
    <3> QED
      BY <3>1, <3>2
  <2>4. CASE Shell!SeesReady(a)
    <3>1. UNCHANGED <<reverseConn, reverseState>> /\ sessions[a].at = "waiting"
      BY <2>4 DEF Shell!SeesReady
    <3>2. sessions'[a].at = "ready" /\ a \in Shell!Alive'
      BY <2>4, MovesTo DEF ShellInv, Shell!SeesReady, SessionPlaces
    <3> QED
      BY <3>1, <3>2
  <2>5. CASE Shell!ShowReady(a)
    <3>1. UNCHANGED reverseConn /\ sessions[a].at = "ready"
          /\ reverseState' = IF a = reverseConn THEN "connected" ELSE reverseState
      BY <2>5 DEF Shell!ShowReady
    <3>2. sessions'[a].at = (IF a = reverseConn THEN "reading" ELSE "leaving")
          /\ a \in Shell!Alive'
      BY <2>5, MovesTo DEF ShellInv, Shell!ShowReady, SessionPlaces
    <3> QED
      BY <3>1, <3>2
  <2>6. CASE Shell!ReverseEnds(a)
    <3>1. UNCHANGED <<reverseConn, reverseState>> /\ sessions[a].at \in {"waiting", "reading"}
      BY <2>6 DEF Shell!ReverseEnds
    <3>2. sessions'[a].at = (IF life \in over \/ shellStopping THEN "leaving" ELSE "failing")
          /\ a \in Shell!Alive'
      BY <2>6, MovesTo DEF ShellInv, Shell!ReverseEnds, SessionPlaces
    <3> QED
      BY <3>1, <3>2
  <2>7. CASE Shell!ReverseFails(a)
    <3>1. UNCHANGED reverseConn /\ sessions[a].at = "failing"
          /\ reverseState' = IF a = reverseConn THEN "listening" ELSE reverseState
      BY <2>7 DEF Shell!ReverseFails
    <3>2. sessions'[a].at = "leaving" /\ a \in Shell!Alive'
      BY <2>7, MovesTo DEF ShellInv, Shell!ReverseFails, SessionPlaces
    <3> QED
      BY <3>1, <3>2
  <2>8. CASE Shell!ReverseLeaves(a)
    <3>1. /\ sessions[a].at = "leaving"
          /\ reverseConn' = IF a = reverseConn THEN None ELSE reverseConn
          /\ \/ a = reverseConn /\ reverseState' \in {"idle", "stopped", "listening"}
             \/ a # reverseConn /\ shellStopping /\ reverseState' \in {"idle", "stopped", "listening"}
             \/ a # reverseConn /\ ~shellStopping /\ reverseState' = reverseState
      BY <2>8 DEF Shell!ReverseLeaves, Shell!ReverseDown
    <3>2. None \notin DOMAIN sessions
      BY DEF ShellInv, ShellTypes, Shell!ShellAssumption
    <3> QED
      BY <3>1, <3>2
  <2> QED
    BY <2>3, <2>4, <2>5, <2>6, <2>7, <2>8 DEF Shell!SessionStep
<1> QED
  BY <1>7, <1>8, <1>9, <1>10, <1>11 DEF ShellInv, Shell!AdapterSound

\* A reverse connection is attached.
LEMMA Attaching ==
  ASSUME Shell!ShellAssumption, ShellInv, NEW a \in Nat, Shell!Attach(a)
  PROVE  ShellInv'
<1> DEFINE n == Shell!Cardinality(DOMAIN sessions)
           new == [at |-> "attached", life |-> life, previous |-> reverseConn,
                   early |-> call # None /\ call.at = "prime"]
<1>1. /\ n \in Nat /\ a = n + 1 /\ DOMAIN sessions = 1 .. n
      /\ sessions' = [b \in 1 .. a |-> IF b < a THEN sessions[b] ELSE new]
  BY DEF Shell!Attach, ShellInv, ShellTypes
<1>2. /\ started /\ ~shellStopping /\ reverseConn' = a /\ reverseState' = "listening"
      /\ UNCHANGED <<settings, started, shellStopping, life, over, supervisor, forwardConn,
                     workers, forwardState,
                     call>>
  BY DEF Shell!Attach, Shell!lifeVars
<1>3. /\ new \in SessionRecords /\ new.at = "attached" /\ new.life = life
      /\ call # None /\ call.at = "prime" => new.early
  <2>1. life \in Nat /\ reverseConn \in Nat \cup {None}
    BY <1>1 DEF ShellInv, ShellTypes
  <2>2. (call # None /\ call.at = "prime") \in BOOLEAN
    OBVIOUS
  <2>3. new \in SessionRecords
    BY <2>1, <2>2 DEF SessionRecords, SessionPlaces
  <2> QED
    BY <2>3
<1>4. /\ DOMAIN sessions' = 1 .. a
      /\ sessions'[a] = new /\ \A b \in DOMAIN sessions : sessions'[b] = sessions[b]
  <2> HIDE DEF new, n
  <2> QED
    BY <1>1
<1>5. Shell!Cardinality(DOMAIN sessions') = a
  BY <1>1, <1>4, FS_Interval, ShellCardinality
<1>6. Shell!Alive' = Shell!Alive \cup {a}
  <2> HIDE DEF new, n
  <2> QED
    BY <1>1, <1>3, <1>4 DEF Shell!Alive
<1> HIDE DEF new, n
<1>7. ShellTypes'
  <2>1. sessions' \in [DOMAIN sessions' -> SessionRecords]
    BY <1>1, <1>3, <1>4 DEF ShellInv, ShellTypes
  <2>2. /\ DOMAIN sessions' = 1 .. Shell!Cardinality(DOMAIN sessions')
        /\ Shell!Cardinality(DOMAIN sessions') \in Nat
    BY <1>4, <1>5
  <2>3. reverseConn' \in DOMAIN sessions'
    BY <1>1, <1>2, <1>4
  <2> QED
    BY <1>2, <2>1, <2>2, <2>3, Zenon DEF ShellInv, ShellTypes
<1>8. Supervised'
  BY <1>2 DEF ShellInv, Supervised
<1>9. Called'
  BY <1>1, <1>2, <1>3, <1>4, <1>6 DEF ShellInv, Called, Shell!Alive
<1>10. Shell!OneLifecycle'
  BY <1>1, <1>2, <1>3, <1>4, <1>6 DEF ShellInv, Shell!AdapterSound, Shell!OneLifecycle, Shell!Alive
<1>11. Shell!SessionsShown'
  BY <1>1, <1>2, <1>3, <1>4, <1>6 DEF ShellInv, Shell!AdapterSound, Shell!SessionsShown,
     Shell!Cancelled
<1> QED
  BY <1>7, <1>8, <1>9, <1>10, <1>11 DEF ShellInv, Shell!AdapterSound

\* A call begins.
LEMMA CallStarts ==
  ASSUME Shell!ShellAssumption, ShellInv,
         Shell!StartCall \/ Shell!StopCall \/ \E next \in Settings : Shell!ReloadCall(next)
  PROVE  ShellInv'
<1>1. Quiet /\ UNCHANGED <<settings, started, shellStopping, life, over, supervisor, forwardConn,
                           workers,
                           forwardState, reverseState>>
  BY DEF Shell!StartCall, Shell!StopCall, Shell!ReloadCall, Shell!Untouched, Shell!shownVars, Quiet
<1>2. Shell!Alive' = Shell!Alive
  BY <1>1 DEF Quiet, Shell!Alive
<1>3. call' \in CallRecords /\ (call'.at \in {"start", "stop"} \/ (call'.at = "apply" /\ ~started))
  <2>1. CASE Shell!StartCall
    BY <2>1, CallBegins DEF ShellInv, Shell!StartCall
  <2>2. CASE Shell!StopCall
    BY <2>2, CallChosen DEF ShellInv, Shell!StopCall, CallPlaces
  <2>3. ASSUME NEW next \in Settings, Shell!ReloadCall(next)
        PROVE  call' \in CallRecords
               /\ (call'.at \in {"start", "stop"} \/ (call'.at = "apply" /\ ~started))
    <3>1. CASE started
      <4>1. call' = [Shell!Idle EXCEPT !.at = "stop", !.then = "restart", !.next = next]
        BY <2>3, <3>1, Zenon DEF Shell!ReloadCall
      <4>2. "stop" \in CallPlaces /\ "restart" \in {"return", "restart"}
        BY DEF CallPlaces
      <4>3. call' \in CallRecords /\ call'.at = "stop"
        BY <4>1, <4>2, CallChosen, Zenon DEF ShellInv
      <4> QED
        BY <4>3
    <3>2. CASE ~started
      <4>1. call' = [Shell!Idle EXCEPT !.at = "apply", !.then = "return", !.next = next]
        BY <2>3, <3>2, Zenon DEF Shell!ReloadCall
      <4> QED
        BY <3>2, <4>1, CallChosen DEF ShellInv, CallPlaces
    <3> QED
      BY <3>1, <3>2
  <2> QED
    BY <2>1, <2>2, <2>3
<1>4. ShellTypes'
  BY <1>1, <1>3 DEF ShellInv, ShellTypes, Quiet
<1>5. Supervised' /\ Called'
  BY <1>1, <1>2, <1>3 DEF ShellInv, Supervised, Called
<1>6. Shell!AdapterSound'
  BY <1>1, <1>2 DEF ShellInv, Shell!AdapterSound, Shell!OneLifecycle, Shell!SessionsShown, Quiet,
     Shell!Cancelled
<1> QED
  BY <1>4, <1>5, <1>6 DEF ShellInv

\* A call that goes to another place is a call there.
LEMMA CallGoes ==
  ASSUME ShellTypes, call # None, NEW to \in CallPlaces, Shell!Then(to)
  PROVE  call' \in CallRecords /\ call'.at = to
<1>1. call \in CallRecords /\ call' = [call EXCEPT !.at = to]
  BY Zenon DEF ShellTypes, Shell!Then
<1> QED
  BY <1>1, CallMoves

\* A Stop that takes the lifecycle down remembers it.
LEMMA CallTakes ==
  ASSUME ShellTypes, call # None,
         call' = [call EXCEPT !.at = "cancel", !.started = started, !.reverse = reverseConn]
  PROVE  call' \in CallRecords /\ call'.at = "cancel"
<1>1. call \in CallRecords /\ started \in BOOLEAN /\ reverseConn \in Nat \cup {None}
  BY DEF ShellTypes
<1> QED
  BY <1>1 DEF CallRecords, CallPlaces

\* What a step of a call does to the call: it ends, or goes to another place.
CallTo(to) == call' \in CallRecords /\ call'.at = to

\* The calls keep the invariant.
LEMMA CallStepSound ==
  ASSUME Shell!ShellAssumption, ShellInv, Shell!CallStep
  PROVE  ShellInv'
<1>1. call # None /\ Quiet /\ forwardConn' = forwardConn
  BY DEF Shell!CallStep, Shell!Start, Shell!Prime, Shell!Run, Shell!Stop, Shell!StopCancel,
     Shell!StopWait, Shell!StopTimesOut, Shell!StopMark, Shell!Apply, Shell!Untouched, Quiet
<1>2. Shell!Alive' = Shell!Alive
  BY <1>1 DEF Quiet, Shell!Alive
<1>3. ShellTypes /\ Supervised /\ Called /\ Shell!OneLifecycle /\ Shell!SessionsShown
  BY DEF ShellInv, Shell!AdapterSound
<1>4. CASE Shell!Start
  <2>1. CASE started
    <3>1. call' = None /\ UNCHANGED <<settings, started, shellStopping, life, over, supervisor,
                                      workers,
                                      forwardState, reverseState>>
      BY <1>4, <2>1 DEF Shell!Start, Shell!shownVars
    <3>2. ShellTypes'
      BY <1>1, <1>2, <1>3, <3>1
         DEF ShellTypes, Supervised, Called, Shell!OneLifecycle, CallTo, Quiet
    <3>3. Supervised'
      BY <1>1, <1>2, <1>3, <3>1
         DEF ShellTypes, Supervised, Called, Shell!OneLifecycle, CallTo, Quiet
    <3>4. Called'
      BY <1>1, <1>2, <1>3, <3>1
         DEF ShellTypes, Supervised, Called, Shell!OneLifecycle, CallTo, Quiet
    <3>5. Shell!OneLifecycle'
      BY <1>1, <1>2, <1>3, <3>1
         DEF ShellTypes, Supervised, Called, Shell!OneLifecycle, CallTo, Quiet
    <3>6. Shell!SessionsShown'
      BY <1>1, <1>2, <1>3, <3>1
         DEF ShellTypes, Supervised, Called, Shell!OneLifecycle, CallTo, Quiet,
             Shell!SessionsShown, Shell!Cancelled
    <3> QED
      BY <3>2, <3>3, <3>4, <3>5, <3>6 DEF ShellInv, Shell!AdapterSound
  <2>2. CASE ~started
    <3>1. /\ CallTo("prime") /\ started' = TRUE /\ shellStopping' = FALSE /\ life' = life + 1
          /\ UNCHANGED <<settings, over, supervisor, workers, forwardState, reverseState>>
      BY <1>4, <2>2, <1>1, <1>3, CallGoes DEF Shell!Start, CallPlaces, CallTo, Shell!shownVars
    <3>2. ShellTypes'
      <4>1. over' \subseteq 0 .. life' /\ life' \in Nat
        BY <1>3, <3>1 DEF ShellTypes
      <4>2. started' \in BOOLEAN /\ shellStopping' \in BOOLEAN /\ call' \in CallRecords
        BY <3>1 DEF CallTo
      <4> QED
        BY <1>1, <1>3, <3>1, <4>1, <4>2 DEF ShellTypes, Quiet
    <3>3. Supervised'
      BY <1>1, <1>2, <1>3, <2>2, <3>1
         DEF ShellTypes, Supervised, Called, Shell!OneLifecycle, CallTo, Quiet
    <3>4. Called'
      BY <1>1, <1>2, <1>3, <2>2, <3>1
         DEF ShellTypes, Supervised, Called, Shell!OneLifecycle, CallTo, Quiet
    <3>5. Shell!OneLifecycle'
      BY <1>1, <1>2, <1>3, <2>2, <3>1
         DEF ShellTypes, Supervised, Called, Shell!OneLifecycle, CallTo, Quiet
    <3>6. Shell!SessionsShown'
      BY <1>1, <1>2, <1>3, <2>2, <3>1
         DEF ShellTypes, Supervised, Called, Shell!OneLifecycle, CallTo, Quiet,
             Shell!SessionsShown, Shell!Cancelled
    <3> QED
      BY <3>2, <3>3, <3>4, <3>5, <3>6 DEF ShellInv, Shell!AdapterSound
  <2> QED
    BY <2>1, <2>2
<1>5. CASE Shell!Prime
  <2>1. /\ call.at = "prime" /\ CallTo("run") /\ forwardState' = "idle"
        /\ reverseState' \in {"idle", "listening"}
        /\ workers' \in {workers, workers \cup {<<life, "callback">>}}
        /\ UNCHANGED <<settings, started, shellStopping, life, over, supervisor>>
    BY <1>5, <1>1, <1>3, CallGoes
       DEF Shell!Prime, CallPlaces, CallTo, Shell!ReverseDown, Shell!WithWorker
  <2>2. ShellTypes'
    BY <1>1, <1>2, <1>3, <2>1 DEF ShellTypes, Supervised, Called, Shell!OneLifecycle, CallTo, Quiet
  <2>3. Supervised'
    BY <1>1, <1>2, <1>3, <2>1 DEF ShellTypes, Supervised, Called, Shell!OneLifecycle, CallTo, Quiet
  <2>4. Called'
    BY <1>1, <1>2, <1>3, <2>1 DEF ShellTypes, Supervised, Called, Shell!OneLifecycle, CallTo, Quiet
  <2>5. Shell!OneLifecycle'
    BY <1>1, <1>2, <1>3, <2>1 DEF ShellTypes, Supervised, Called, Shell!OneLifecycle, CallTo, Quiet
  <2>6. Shell!SessionsShown'
    BY <1>1, <1>2, <1>3, <2>1
       DEF ShellTypes, Supervised, Called, Shell!OneLifecycle, CallTo, Quiet, Shell!SessionsShown,
           Shell!Cancelled
  <2> QED
    BY <2>2, <2>3, <2>4, <2>5, <2>6 DEF ShellInv, Shell!AdapterSound
<1>6. CASE Shell!Run
  <2>1. /\ call.at = "run" /\ call' = None /\ supervisor' = "begin"
        /\ workers' \in {workers, workers \cup {<<life, "dispatcher">>}}
        /\ UNCHANGED <<settings, started, shellStopping, life, over, forwardState, reverseState>>
    BY <1>6, <1>1, <1>3, CallGoes
       DEF Shell!Run, CallPlaces, CallTo, Shell!WithWorker, Shell!shownVars
  <2>2. ShellTypes'
    BY <1>1, <1>2, <1>3, <2>1 DEF ShellTypes, Supervised, Called, Shell!OneLifecycle, CallTo, Quiet
  <2>3. Supervised'
    BY <1>1, <1>2, <1>3, <2>1 DEF ShellTypes, Supervised, Called, Shell!OneLifecycle, CallTo, Quiet
  <2>4. Called'
    BY <1>1, <1>2, <1>3, <2>1 DEF ShellTypes, Supervised, Called, Shell!OneLifecycle, CallTo, Quiet
  <2>5. Shell!OneLifecycle'
    BY <1>1, <1>2, <1>3, <2>1 DEF ShellTypes, Supervised, Called, Shell!OneLifecycle, CallTo, Quiet
  <2>6. Shell!SessionsShown'
    BY <1>1, <1>2, <1>3, <2>1
       DEF ShellTypes, Supervised, Called, Shell!OneLifecycle, CallTo, Quiet, Shell!SessionsShown,
           Shell!Cancelled
  <2> QED
    BY <2>2, <2>3, <2>4, <2>5, <2>6 DEF ShellInv, Shell!AdapterSound
<1>7. CASE Shell!Stop
  <2>1. /\ CallTo("cancel") /\ shellStopping' = TRUE
        /\ UNCHANGED <<settings, started, life, over, supervisor, workers, forwardState,
                       reverseState>>
    BY <1>7, <1>1, <1>3, CallTakes DEF Shell!Stop, CallTo, Shell!shownVars
  <2>2. ShellTypes'
    BY <1>1, <1>2, <1>3, <2>1 DEF ShellTypes, Supervised, Called, Shell!OneLifecycle, CallTo, Quiet
  <2>3. Supervised'
    BY <1>1, <1>2, <1>3, <2>1 DEF ShellTypes, Supervised, Called, Shell!OneLifecycle, CallTo, Quiet
  <2>4. Called'
    BY <1>1, <1>2, <1>3, <2>1 DEF ShellTypes, Supervised, Called, Shell!OneLifecycle, CallTo, Quiet
  <2>5. Shell!OneLifecycle'
    BY <1>1, <1>2, <1>3, <2>1 DEF ShellTypes, Supervised, Called, Shell!OneLifecycle, CallTo, Quiet
  <2>6. Shell!SessionsShown'
    BY <1>1, <1>2, <1>3, <2>1
       DEF ShellTypes, Supervised, Called, Shell!OneLifecycle, CallTo, Quiet, Shell!SessionsShown,
           Shell!Cancelled
  <2> QED
    BY <2>2, <2>3, <2>4, <2>5, <2>6 DEF ShellInv, Shell!AdapterSound
<1>8. CASE Shell!StopCancel
  <2>1. /\ call.at = "cancel" /\ CallTo(IF call.started THEN "wait" ELSE "reverse")
        /\ over' \in {over, over \cup {life}}
        /\ UNCHANGED <<settings, started, shellStopping, life, supervisor, workers, forwardState,
                       reverseState>>
    BY <1>8, <1>1, <1>3, CallGoes DEF Shell!StopCancel, CallPlaces, CallTo, Shell!shownVars
  <2>2. ShellTypes'
    BY <1>1, <1>2, <1>3, <2>1 DEF ShellTypes, Supervised, Called, Shell!OneLifecycle, CallTo, Quiet
  <2>3. Supervised'
    BY <1>1, <1>2, <1>3, <2>1 DEF ShellTypes, Supervised, Called, Shell!OneLifecycle, CallTo, Quiet
  <2>4. Called'
    BY <1>1, <1>2, <1>3, <2>1 DEF ShellTypes, Supervised, Called, Shell!OneLifecycle, CallTo, Quiet
  <2>5. Shell!OneLifecycle'
    BY <1>1, <1>2, <1>3, <2>1 DEF ShellTypes, Supervised, Called, Shell!OneLifecycle, CallTo, Quiet
  <2>6. Shell!SessionsShown'
    BY <1>1, <1>2, <1>3, <2>1
       DEF ShellTypes, Supervised, Called, Shell!OneLifecycle, CallTo, Quiet, Shell!SessionsShown,
           Shell!Cancelled
  <2> QED
    BY <2>2, <2>3, <2>4, <2>5, <2>6 DEF ShellInv, Shell!AdapterSound
<1>9. CASE Shell!StopWait
  <2>1. /\ call.at \in {"wait", "reverse"}
        /\ CallTo("reverse") \/ CallTo("mark") \/ CallTo("retire") \/ CallTo("apply")
        /\ UNCHANGED <<settings, started, shellStopping, life, over, supervisor, workers,
                       forwardState,
                       reverseState>>
    BY <1>9, <1>1, <1>3, CallGoes
       DEF Shell!StopWait, CallPlaces, CallTo, Shell!AfterStop, Shell!shownVars
  <2>2. ShellTypes'
    BY <1>1, <1>2, <1>3, <2>1 DEF ShellTypes, Supervised, Called, Shell!OneLifecycle, CallTo, Quiet
  <2>3. Supervised'
    BY <1>1, <1>2, <1>3, <2>1 DEF ShellTypes, Supervised, Called, Shell!OneLifecycle, CallTo, Quiet
  <2>4. Called'
    BY <1>1, <1>2, <1>3, <2>1 DEF ShellTypes, Supervised, Called, Shell!OneLifecycle, CallTo, Quiet
  <2>5. Shell!OneLifecycle'
    BY <1>1, <1>2, <1>3, <2>1 DEF ShellTypes, Supervised, Called, Shell!OneLifecycle, CallTo, Quiet
  <2>6. Shell!SessionsShown'
    BY <1>1, <1>2, <1>3, <2>1
       DEF ShellTypes, Supervised, Called, Shell!OneLifecycle, CallTo, Quiet, Shell!SessionsShown,
           Shell!Cancelled
  <2> QED
    BY <2>2, <2>3, <2>4, <2>5, <2>6 DEF ShellInv, Shell!AdapterSound
<1>10. CASE Shell!StopTimesOut
  <2>1. /\ call' = None
        /\ UNCHANGED <<settings, started, shellStopping, life, over, supervisor, workers,
                       forwardState,
                       reverseState>>
    BY <1>10, <1>1, <1>3, CallGoes DEF Shell!StopTimesOut, CallPlaces, CallTo, Shell!shownVars
  <2>2. ShellTypes'
    BY <1>1, <1>2, <1>3, <2>1 DEF ShellTypes, Supervised, Called, Shell!OneLifecycle, CallTo, Quiet
  <2>3. Supervised'
    BY <1>1, <1>2, <1>3, <2>1 DEF ShellTypes, Supervised, Called, Shell!OneLifecycle, CallTo, Quiet
  <2>4. Called'
    BY <1>1, <1>2, <1>3, <2>1 DEF ShellTypes, Supervised, Called, Shell!OneLifecycle, CallTo, Quiet
  <2>5. Shell!OneLifecycle'
    BY <1>1, <1>2, <1>3, <2>1 DEF ShellTypes, Supervised, Called, Shell!OneLifecycle, CallTo, Quiet
  <2>6. Shell!SessionsShown'
    BY <1>1, <1>2, <1>3, <2>1
       DEF ShellTypes, Supervised, Called, Shell!OneLifecycle, CallTo, Quiet, Shell!SessionsShown,
           Shell!Cancelled
  <2> QED
    BY <2>2, <2>3, <2>4, <2>5, <2>6 DEF ShellInv, Shell!AdapterSound
<1>11. CASE Shell!StopMark
  <2>1. /\ call.at = "mark" /\ (CallTo("retire") \/ CallTo("apply"))
        /\ forwardState' = "stopped" /\ reverseState' \in {"idle", "stopped"}
        /\ UNCHANGED <<settings, started, shellStopping, life, over, supervisor, workers>>
    BY <1>11, <1>1, <1>3, CallGoes
       DEF Shell!StopMark, CallPlaces, CallTo, Shell!ReverseDown, Shell!AfterStop
  <2>2. ShellTypes'
    BY <1>1, <1>2, <1>3, <2>1 DEF ShellTypes, Supervised, Called, Shell!OneLifecycle, CallTo, Quiet
  <2>3. Supervised'
    BY <1>1, <1>2, <1>3, <2>1 DEF ShellTypes, Supervised, Called, Shell!OneLifecycle, CallTo, Quiet
  <2>4. Called'
    BY <1>1, <1>2, <1>3, <2>1 DEF ShellTypes, Supervised, Called, Shell!OneLifecycle, CallTo, Quiet
  <2>5. Shell!OneLifecycle'
    BY <1>1, <1>2, <1>3, <2>1 DEF ShellTypes, Supervised, Called, Shell!OneLifecycle, CallTo, Quiet
  <2>6. Shell!SessionsShown'
    BY <1>1, <1>2, <1>3, <2>1
       DEF ShellTypes, Supervised, Called, Shell!OneLifecycle, CallTo, Quiet, Shell!SessionsShown,
           Shell!Cancelled
  <2> QED
    BY <2>2, <2>3, <2>4, <2>5, <2>6 DEF ShellInv, Shell!AdapterSound
<1>12. CASE Shell!Apply
  <2>1. /\ call.at = "apply" /\ (call' = None \/ CallTo("start"))
        /\ settings' \in Settings /\ forwardState' = "idle" /\ reverseState' = "idle"
        /\ UNCHANGED <<started, shellStopping, life, over, supervisor, workers>>
    BY <1>12, <1>1, <1>3, CallGoes DEF Shell!Apply, CallTo, CallPlaces, ShellTypes, CallRecords
  <2>2. ShellTypes'
    BY <1>1, <1>2, <1>3, <2>1 DEF ShellTypes, Supervised, Called, Shell!OneLifecycle, CallTo, Quiet
  <2>3. Supervised'
    BY <1>1, <1>2, <1>3, <2>1 DEF ShellTypes, Supervised, Called, Shell!OneLifecycle, CallTo, Quiet
  <2>4. Called'
    BY <1>1, <1>2, <1>3, <2>1 DEF ShellTypes, Supervised, Called, Shell!OneLifecycle, CallTo, Quiet
  <2>5. Shell!OneLifecycle'
    BY <1>1, <1>2, <1>3, <2>1 DEF ShellTypes, Supervised, Called, Shell!OneLifecycle, CallTo, Quiet
  <2>6. Shell!SessionsShown'
    BY <1>1, <1>2, <1>3, <2>1
       DEF ShellTypes, Supervised, Called, Shell!OneLifecycle, CallTo, Quiet, Shell!SessionsShown,
           Shell!Cancelled
  <2> QED
    BY <2>2, <2>3, <2>4, <2>5, <2>6 DEF ShellInv, Shell!AdapterSound
<1> QED
  BY <1>4, <1>5, <1>6, <1>7, <1>8, <1>9, <1>10, <1>11, <1>12
     DEF Shell!CallStep, ShellInv, Shell!AdapterSound

\* Every step keeps the invariant.
LEMMA ShellStep ==
  ASSUME Shell!ShellAssumption, ShellInv, [Shell!Next]_Shell!vars
  PROVE  ShellInv'
<1>1. CASE \/ Shell!LoopStep \/ Shell!Dial \/ Shell!DialRefused \/ Shell!Connected
           \/ Shell!ConnectionEnds
  BY <1>1, SupervisorStep
<1>2. ASSUME NEW w \in workers, Shell!WorkerEnds(w) PROVE ShellInv'
  BY <1>2, WorkerStep
<1>3. ASSUME NEW a \in 1 .. MaxAttach, Shell!Attach(a) PROVE ShellInv'
  BY <1>3, Attaching
<1>4. ASSUME NEW a \in DOMAIN sessions,
             Shell!SessionStep(a) \/ Shell!SeesReady(a) \/ Shell!ReverseEnds(a)
      PROVE  ShellInv'
  BY <1>4, SessionStepSound
<1>5. CASE Shell!StartCall \/ Shell!StopCall \/ \E next \in Settings : Shell!ReloadCall(next)
  BY <1>5, CallStarts
<1>6. CASE Shell!CallStep
  BY <1>6, CallStepSound
<1>7. CASE UNCHANGED Shell!vars
  <2>1. Quiet /\ UNCHANGED <<settings, started, shellStopping, life, over, supervisor,
                             forwardConn, workers,
                             forwardState, reverseState, call>>
    BY <1>7 DEF Shell!vars, Shell!lifeVars, Shell!connVars, Shell!shownVars, Quiet
  <2>2. Shell!Alive' = Shell!Alive
    BY <2>1 DEF Quiet, Shell!Alive
  <2> QED
    BY <2>1, <2>2 DEF ShellInv, ShellTypes, Supervised, Called, Quiet, Shell!AdapterSound,
       Shell!OneLifecycle, Shell!SessionsShown, Shell!Cancelled
<1> QED
  BY <1>1, <1>2, <1>3, <1>4, <1>5, <1>6, <1>7 DEF Shell!Next

\* Whatever connects, is replaced or ends while the shell is started, reloaded and stopped: all that
\* runs is of one lifecycle, a shell that stopped holds nothing, and the state of a connection is
\* shown as it is, for all settings and any number of connections.
THEOREM ShellKeepsLifecycle ==
  ASSUME Shell!ShellAssumption
  PROVE  Shell!Spec => []AdapterSound
<1>1. Shell!Init => ShellInv
  BY ShellInit
<1>2. ShellInv /\ [Shell!Next]_Shell!vars => ShellInv'
  BY ShellStep
<1>3. ShellInv => AdapterSound
  BY DEF ShellInv, AdapterSound
<1> QED
  BY <1>1, <1>2, <1>3, PTL DEF Shell!Spec

------------------------------------------------------------------------------
\* The message statistics: nothing is lost or counted twice, and no intervals overlap.

\* When the adapter went offline, what a flush has taken, and the intervals in the table.
Since == state.since
Taken == IF Stats!Flushing THEN batch.offline ELSE Stats!Empty
Open(k) == k \in DOMAIN intervals /\ intervals[k] = None
Closed(k) == k \in DOMAIN intervals /\ intervals[k] # None

TookTypes ==
  /\ batch.count \in Nat /\ batch.at \in Nat /\ batch.stopped \in Nat \cup {None}
  /\ batch.offline \in [DOMAIN batch.offline -> Nat] /\ DOMAIN batch.offline \subseteq Nat
  /\ batch.intervals \in [DOMAIN batch.intervals -> Nat \cup {None}]
  /\ DOMAIN batch.intervals \subseteq Nat

StatsTypes ==
  /\ now \in Nat /\ run \in Nat /\ uncommitted \in Nat /\ hours \in Nat /\ counted \in Nat
  /\ up \in BOOLEAN
  /\ state \in [enabled : BOOLEAN, connected : BOOLEAN, since : Nat \cup {None}]
  /\ stopped \in Nat \cup {None}
  /\ offline \in [DOMAIN offline -> Nat] /\ DOMAIN offline \subseteq Nat
  /\ Stats!Flushing => TookTypes
  /\ intervals \in [DOMAIN intervals -> Nat \cup {None}]
  /\ DOMAIN intervals \subseteq (1 .. run) \X Nat
  /\ runs \in [1 .. run -> [alive : Nat, stopped : Nat \cup {None}]]

\* Intervals that ended by now, one after the other; those in memory after those a flush took, and
\* these after those in the table.
Line(f) ==
  /\ \A s \in DOMAIN f : s + 1 <= f[s] /\ f[s] <= now
  /\ \A s, t \in DOMAIN f : s # t => f[s] <= t \/ f[t] <= s

InLine ==
  /\ Line(offline) /\ Line(Taken)
  /\ \A k \in DOMAIN intervals : Closed(k) => k[2] + 1 <= intervals[k] /\ intervals[k] <= now
  /\ \A j, k \in DOMAIN intervals : Closed(j) /\ Closed(k) /\ j # k =>
       intervals[j] <= k[2] \/ intervals[k] <= j[2]
  /\ \A k \in DOMAIN intervals : Closed(k) =>
       /\ \A s \in DOMAIN Taken : intervals[k] <= s
       /\ \A s \in DOMAIN offline : intervals[k] <= s
  /\ \A s \in DOMAIN Taken, t \in DOMAIN offline : Taken[s] <= t

\* All of them ended before the adapter went offline.
BeforeSince ==
  Since # None =>
    /\ \A s \in DOMAIN offline : offline[s] <= Since
    /\ \A s \in DOMAIN Taken : Taken[s] <= Since
    /\ \A k \in DOMAIN intervals : Closed(k) => intervals[k] <= Since

\* One interval at most is open in the table, the last one, and its end is known or not reached.
Opened ==
  /\ \A j, k \in DOMAIN intervals : Open(j) /\ Closed(k) => intervals[k] <= j[2]
  /\ \A j, k \in DOMAIN intervals : Open(j) /\ Open(k) => j = k
  /\ \A k \in DOMAIN intervals : Open(k) =>
       /\ k[1] = run /\ runs[run].stopped = None /\ k[2] + 1 <= runs[run].alive
       /\ up => Since = k[2] \/ k[2] \in DOMAIN offline \/ k[2] \in DOMAIN Taken

\* What a flush took agrees with the memory that it left, and with the table.
Took ==
  Stats!Flushing =>
    /\ up
    /\ batch.at <= now /\ runs[run].alive <= batch.at
    /\ batch.stopped # None => batch.intervals = batch.offline
    /\ DOMAIN batch.offline \subseteq DOMAIN batch.intervals
    /\ \A s \in DOMAIN batch.intervals : batch.intervals[s] # None =>
         s \in DOMAIN batch.offline /\ batch.intervals[s] = batch.offline[s]
    /\ \A s \in DOMAIN batch.intervals : batch.intervals[s] = None =>
         /\ s + 1 <= batch.at /\ (Since = s \/ s \in DOMAIN offline)
         /\ s \notin DOMAIN batch.offline
         /\ \A k \in DOMAIN intervals : Closed(k) => intervals[k] <= s
    /\ \A s, t \in DOMAIN batch.intervals :
         batch.intervals[s] = None /\ batch.intervals[t] = None => s = t
    /\ \A k \in DOMAIN intervals : Open(k) => k[2] \in DOMAIN batch.intervals

Resting ==
  /\ ~up => Since = None /\ offline = Stats!Empty /\ io = "free" /\ stopped = None
            /\ uncommitted = 0 /\ counted = hours
  /\ up => run >= 1
  /\ ~state.enabled \/ state.connected => Since = None
  /\ run >= 1 => runs[run].alive <= now

\* Nothing is open or flushed by the ticker after Stop has begun.
Halted ==
  /\ io = "flush" => flushLoop = "running"
  /\ stopped # None =>
       /\ up /\ flushLoop = "done" /\ Since = None
       /\ stopped <= now /\ runs[run].alive <= stopped
       /\ Stats!Flushing => batch.at <= stopped

Viewed ==
  io = "query" =>
    /\ up /\ view.total = hours
    /\ view.intervals = [k \in {k \in DOMAIN intervals : intervals[k] # None \/ k[1] # run} |->
                           intervals[k]]

StatsInv ==
  /\ StatsTypes /\ InLine /\ BeforeSince /\ Opened /\ Took /\ Resting /\ Halted /\ Viewed
  /\ Stats!NothingLost

\* Nothing is in the empty table.
LEMMA EmptyFacts == DOMAIN Stats!Empty = {} /\ Stats!Empty \in [DOMAIN Stats!Empty -> Nat]
  BY DEF Stats!Empty

\* What the memory knows of the intervals, the one that is going on ended now or left open.
Going == Since # None /\ Since + 1 <= now

\* What EndedNow is: the memory, and the interval that goes on, ended now.
LEMMA EndedFacts ==
  ASSUME Stats!MessageAssumption, StatsTypes
  PROVE  /\ Stats!IsOffline <=> Going
         /\ ~Going => Stats!EndedNow = offline
         /\ Going =>
              /\ Since \in Nat /\ DOMAIN Stats!EndedNow = DOMAIN offline \cup {Since}
              /\ Stats!EndedNow[Since] = now
              /\ \A s \in DOMAIN offline : s # Since => Stats!EndedNow[s] = offline[s]
         /\ Stats!EndedNow \in [DOMAIN Stats!EndedNow -> Nat] /\ DOMAIN Stats!EndedNow \subseteq Nat
<1>a. now \in Nat /\ None \notin Int /\ (Since # None => Since \in Nat)
  BY DEF StatsTypes, Since, Stats!MessageAssumption
<1>b. offline \in [DOMAIN offline -> Nat] /\ DOMAIN offline \subseteq Nat
  BY DEF StatsTypes
<1>1. Stats!IsOffline <=> Going
  BY <1>a DEF Stats!IsOffline, Going, Since, Stats!Least, StatsTypes
<1>2. ASSUME ~Going PROVE Stats!EndedNow = offline
  BY <1>1, <1>2 DEF Stats!EndedNow
<1>3. ASSUME Going
      PROVE  Stats!EndedNow = [s \in DOMAIN offline \cup {Since} |->
                                 IF s = Since THEN now ELSE offline[s]]
  <2> DEFINE f == [s \in {Since} |-> now]
  <2>1. Stats!EndedNow = Stats!Over(f, offline)
    BY <1>1, <1>3, <1>a DEF Stats!EndedNow, Since, Going
  <2>2. DOMAIN f = {Since} /\ f[Since] = now
    OBVIOUS
  <2> QED
    BY <2>1, <2>2 DEF Stats!Over
<1>4. Stats!EndedNow \in [DOMAIN Stats!EndedNow -> Nat] /\ DOMAIN Stats!EndedNow \subseteq Nat
  <2>1. CASE Going
    BY <1>a, <1>b, <1>3, <2>1 DEF Going
  <2>2. CASE ~Going
    BY <1>b, <1>2, <2>2
  <2> QED
    BY <2>1, <2>2
<1> QED
  BY <1>a, <1>b, <1>1, <1>2, <1>3, <1>4 DEF Going

\* What KnownIntervals is: the memory, and the interval that goes on, left open.
LEMMA KnownFacts ==
  ASSUME Stats!MessageAssumption, StatsTypes
  PROVE  /\ DOMAIN Stats!KnownIntervals = DOMAIN offline \cup (IF Going THEN {Since} ELSE {})
         /\ Going => Since \in Nat /\ Stats!KnownIntervals[Since] = None
         /\ \A s \in DOMAIN offline : ~(Going /\ s = Since) => Stats!KnownIntervals[s] = offline[s]
         /\ Stats!KnownIntervals \in [DOMAIN Stats!KnownIntervals -> Nat \cup {None}]
<1>a. now \in Nat /\ None \notin Int /\ (Since # None => Since \in Nat)
  BY DEF StatsTypes, Since, Stats!MessageAssumption
<1>b. offline \in [DOMAIN offline -> Nat] /\ DOMAIN offline \subseteq Nat
  BY DEF StatsTypes
<1>1. CASE ~Going
  <2>1. Stats!KnownIntervals = Stats!Over(Stats!Empty, offline)
    BY <1>1, EndedFacts DEF Stats!KnownIntervals
  <2>2. Stats!KnownIntervals = [s \in DOMAIN offline |-> offline[s]]
    BY <2>1, EmptyFacts DEF Stats!Over
  <2> QED
    BY <1>1, <1>b, <2>2
<1>2. CASE Going
  <2> DEFINE f == [s \in {Since} |-> None]
  <2>1. Stats!KnownIntervals = Stats!Over(f, offline)
    BY <1>2, <1>a, EndedFacts DEF Stats!KnownIntervals, Since
  <2>2. DOMAIN f = {Since} /\ f[Since] = None
    OBVIOUS
  <2>3. Stats!KnownIntervals = [s \in DOMAIN offline \cup {Since} |->
                                  IF s = Since THEN None ELSE offline[s]]
    BY <2>1, <2>2 DEF Stats!Over
  <2> QED
    BY <1>2, <1>a, <1>b, <2>3 DEF Going
<1> QED
  BY <1>1, <1>2

\* What is recorded is in the memory, was taken by a flush, or is in the table alone.
LEMMA RecordedFacts ==
  ASSUME Stats!MessageAssumption, StatsInv
  PROVE  \A k \in DOMAIN Stats!Recorded :
           /\ k \in Nat \X Nat
           /\ \/ k[1] = run /\ k[2] \in DOMAIN offline /\ Stats!Recorded[k] = offline[k[2]]
              \/ k[1] = run /\ Going /\ k[2] = Since /\ Stats!Recorded[k] = None
              \/ k[1] = run /\ k[2] \in DOMAIN Taken /\ Stats!Recorded[k] = Taken[k[2]]
              \/ Closed(k) /\ Stats!Recorded[k] = intervals[k]
              \/ Open(k) /\ Stats!Recorded[k] = None /\ ~up
<1>a. StatsTypes /\ Opened /\ Resting
  BY DEF StatsInv
<1> DEFINE K == Stats!KnownIntervals
           M == [k \in {<<run, s>> : s \in DOMAIN K} |-> K[k[2]]]
           B == IF Stats!Flushing
                THEN [k \in {<<run, s>> : s \in DOMAIN batch.offline} |-> batch.offline[k[2]]]
                ELSE Stats!Empty
<1>1. /\ DOMAIN M = {<<run, s>> : s \in DOMAIN K}
      /\ \A s \in DOMAIN K : M[<<run, s>>] = K[s]
  OBVIOUS
<1>2. /\ DOMAIN B = {<<run, s>> : s \in DOMAIN Taken}
      /\ \A s \in DOMAIN Taken : B[<<run, s>>] = Taken[s]
  BY EmptyFacts DEF Taken
<1>3. Stats!Recorded = Stats!Over(M, Stats!Over(B, intervals))
  BY DEF Stats!Recorded
<1> HIDE DEF M, B, K
<1>4. /\ DOMAIN Stats!Recorded = DOMAIN M \cup DOMAIN B \cup DOMAIN intervals
      /\ \A x \in DOMAIN M : Stats!Recorded[x] = M[x]
      /\ \A x \in DOMAIN B : x \notin DOMAIN M => Stats!Recorded[x] = B[x]
      /\ \A x \in DOMAIN intervals :
           x \notin DOMAIN M /\ x \notin DOMAIN B => Stats!Recorded[x] = intervals[x]
  <2> DEFINE G == Stats!Over(B, intervals)
  <2>1. /\ DOMAIN G = DOMAIN B \cup DOMAIN intervals
        /\ \A x \in DOMAIN B : G[x] = B[x]
        /\ \A x \in DOMAIN intervals : x \notin DOMAIN B => G[x] = intervals[x]
    BY DEF Stats!Over
  <2>2. Stats!Recorded = Stats!Over(M, G)
    BY <1>3
  <2> HIDE DEF G
  <2>3. /\ DOMAIN Stats!Over(M, G) = DOMAIN M \cup DOMAIN G
        /\ \A x \in DOMAIN M : Stats!Over(M, G)[x] = M[x]
        /\ \A x \in DOMAIN G : x \notin DOMAIN M => Stats!Over(M, G)[x] = G[x]
    BY DEF Stats!Over
  <2> QED
    BY <2>1, <2>2, <2>3
<1>5. /\ DOMAIN K = DOMAIN offline \cup (IF Going THEN {Since} ELSE {})
      /\ Going => Since \in Nat /\ K[Since] = None
      /\ \A s \in DOMAIN offline : ~(Going /\ s = Since) => K[s] = offline[s]
  BY <1>a, KnownFacts DEF K
<1>6. run \in Nat /\ DOMAIN offline \subseteq Nat /\ DOMAIN Taken \subseteq Nat
      /\ DOMAIN intervals \subseteq (1 .. run) \X Nat
  BY <1>a, EmptyFacts DEF StatsTypes, TookTypes, Taken
<1> TAKE k \in DOMAIN Stats!Recorded
<1>7. CASE k \in DOMAIN M
  <2>1. PICK s \in DOMAIN K : k = <<run, s>>
    BY <1>1, <1>7
  <2>2. k[1] = run /\ k[2] = s /\ Stats!Recorded[k] = K[s]
    BY <1>1, <1>4, <1>7, <2>1
  <2> QED
    BY <1>5, <1>6, <2>1, <2>2
<1>8. CASE k \notin DOMAIN M /\ k \in DOMAIN B
  <2>1. PICK s \in DOMAIN Taken : k = <<run, s>>
    BY <1>2, <1>8
  <2>2. k[1] = run /\ k[2] = s /\ Stats!Recorded[k] = Taken[s]
    BY <1>2, <1>4, <1>8, <2>1
  <2> QED
    BY <1>6, <2>1, <2>2
<1>9. CASE k \notin DOMAIN M /\ k \notin DOMAIN B
  <2>1. k \in DOMAIN intervals /\ Stats!Recorded[k] = intervals[k] /\ k \in Nat \X Nat
    BY <1>4, <1>6, <1>9
  <2>2. ASSUME Open(k), up PROVE FALSE
    <3>1. /\ k[1] = run /\ k[2] + 1 <= runs[run].alive /\ runs[run].alive <= now
          /\ Since = k[2] \/ k[2] \in DOMAIN offline \/ k[2] \in DOMAIN Taken
      BY <1>a, <2>1, <2>2 DEF Opened, Resting
    <3>2. k = <<run, k[2]>> /\ k[2] \in Nat /\ now \in Nat /\ runs[run].alive \in Nat
      BY <1>a, <1>6, <2>1, <2>2, <3>1 DEF StatsTypes, Resting
    <3>3. k[2] \notin DOMAIN K /\ k[2] \notin DOMAIN Taken
      BY <1>1, <1>2, <1>9, <3>2
    <3>4. Since = k[2] => Going
      BY <1>a, <3>1, <3>2 DEF Going, StatsTypes, Stats!MessageAssumption
    <3> QED
      BY <1>5, <3>1, <3>3, <3>4
  <2> QED
    BY <2>1, <2>2, <1>a DEF Open, Closed, StatsTypes
<1> QED
  BY <1>7, <1>8, <1>9

\* What the invariant says of what is recorded and of the answers.
LEMMA StatsSound ==
  ASSUME Stats!MessageAssumption, StatsInv PROVE Stats!StatisticsSound
<1>a. /\ StatsTypes /\ InLine /\ BeforeSince /\ Opened /\ Resting /\ Viewed
      /\ Stats!NothingLost
  BY DEF StatsInv
<1>b. /\ now \in Nat /\ run \in Nat /\ None \notin Int /\ (Since # None => Since \in Nat)
      /\ \A s \in DOMAIN offline : s \in Nat /\ offline[s] \in Nat
      /\ \A s \in DOMAIN Taken : s \in Nat /\ Taken[s] \in Nat
      /\ \A k \in DOMAIN intervals : Closed(k) => intervals[k] \in Nat
      /\ DOMAIN intervals \subseteq Nat \X Nat
  BY <1>a, EmptyFacts
     DEF StatsTypes, TookTypes, Stats!MessageAssumption, Since, Taken, Closed
<1> DEFINE R == Stats!Recorded
           end(k) == IF R[k] = None THEN now ELSE R[k]
           A1(k) == k[1] = run /\ k[2] \in DOMAIN offline /\ end(k) = offline[k[2]]
           A2(k) == k[1] = run /\ Going /\ k[2] = Since /\ end(k) = now
           A3(k) == k[1] = run /\ k[2] \in DOMAIN Taken /\ end(k) = Taken[k[2]]
           A4(k) == Closed(k) /\ end(k) = intervals[k]
           A5(k) == Open(k) /\ end(k) = now /\ ~up
<1>1. \A k \in DOMAIN R : k \in Nat \X Nat /\ (A1(k) \/ A2(k) \/ A3(k) \/ A4(k) \/ A5(k))
  BY <1>b, RecordedFacts DEF Closed
<1>2. up => \A k \in DOMAIN R : R[k] = None => k = <<run, state.since>>
  BY <1>b, RecordedFacts DEF Closed, Going, Since
<1> HIDE DEF R, end
<1>3. ~up => ~Going /\ DOMAIN offline = {} /\ DOMAIN Taken = {}
  BY <1>a, EmptyFacts DEF Resting, Going, Since, Taken, Stats!Flushing
<1>4. /\ \A k \in DOMAIN intervals : Open(k) => k[2] + 1 <= now
      /\ Going => Since + 1 <= now
      /\ \A k \in DOMAIN intervals : Open(k) => k[1] = run
  <2>1. \A k \in DOMAIN intervals : Open(k) => run >= 1 /\ k[1] = run
    BY <1>a, <1>b DEF Opened, StatsTypes
  <2>2. run >= 1 => runs[run].alive \in Nat /\ runs[run].alive <= now
    BY <1>a DEF StatsTypes, Resting
  <2> QED
    BY <1>a, <1>b, <2>1, <2>2 DEF Opened, Going
<1>5. \A k \in DOMAIN R : end(k) - k[2] >= 1
  BY <1>a, <1>b, <1>1, <1>4 DEF InLine, Line, Open, Closed
<1>6. ASSUME NEW j \in DOMAIN R, NEW k \in DOMAIN R, j # k
      PROVE  end(j) <= k[2] \/ end(k) <= j[2]
  <2>a. /\ j \in Nat \X Nat /\ k \in Nat \X Nat
        /\ j[1] = k[1] => j[2] # k[2]
    BY <1>1, <1>6
  <2>b. A1(k) \/ A2(k) \/ A3(k) \/ A4(k) \/ A5(k)
    BY <1>1
  <2>1. CASE A1(j)
    BY <1>a, <1>b, <1>3, <2>a, <2>b, <2>1 DEF InLine, Line, BeforeSince, Closed, Going
  <2>2. CASE A2(j)
    BY <1>a, <1>b, <1>3, <2>a, <2>b, <2>2 DEF InLine, Line, BeforeSince, Closed, Going
  <2>3. CASE A3(j)
    BY <1>a, <1>b, <1>3, <2>a, <2>b, <2>3 DEF InLine, Line, BeforeSince, Closed, Going
  <2>4. CASE A4(j)
    BY <1>a, <1>b, <1>3, <2>a, <2>b, <1>6, <2>4
       DEF InLine, Line, BeforeSince, Closed, Open, Going, Opened
  <2>5. CASE A5(j)
    BY <1>a, <1>b, <1>3, <2>a, <2>b, <1>6, <2>5
       DEF InLine, Line, BeforeSince, Closed, Open, Going, Opened
  <2> QED
    BY <1>1, <2>1, <2>2, <2>3, <2>4, <2>5
<1>7. Stats!IntervalsSound
  BY <1>2, <1>5, <1>6 DEF Stats!IntervalsSound, Stats!EndOf, Stats!Least, R, end
<1>8. ASSUME io = "query" PROVE Stats!Answer = [total |-> counted, intervals |-> Stats!Recorded]
  <2>1. /\ up /\ ~Stats!Flushing /\ view.total = hours /\ hours + uncommitted = counted
        /\ view.intervals = [k \in {k \in DOMAIN intervals : intervals[k] # None \/ k[1] # run} |->
                               intervals[k]]
    BY <1>a, <1>8 DEF Viewed, Stats!NothingLost, StatsTypes, Stats!Flushing
  <2> DEFINE K == Stats!KnownIntervals
             M == [k \in {<<run, s>> : s \in DOMAIN K} |-> K[k[2]]]
  <2>2. /\ Stats!Recorded = Stats!Over(M, Stats!Over(Stats!Empty, intervals))
        /\ Stats!Answer = [total |-> view.total + uncommitted,
                           intervals |-> Stats!Over(M, view.intervals)]
    BY <2>1 DEF Stats!Recorded, Stats!Answer
  <2>3. \A k \in DOMAIN intervals : Open(k) => k \in DOMAIN M
    <3> SUFFICES ASSUME NEW k \in DOMAIN intervals, Open(k) PROVE k \in DOMAIN M
      OBVIOUS
    <3>1. k = <<run, k[2]>> /\ k[2] \in Nat
      BY <1>b, <1>4
    <3>2. Since = k[2] \/ k[2] \in DOMAIN offline
      BY <1>a, <2>1, EmptyFacts DEF Opened, Taken
    <3>3. Since = k[2] => Going
      BY <1>b, <1>4, <3>1 DEF Going
    <3>4. DOMAIN K = DOMAIN offline \cup (IF Going THEN {Since} ELSE {})
      BY <1>a, KnownFacts
    <3>5. k[2] \in DOMAIN K
      BY <3>2, <3>3, <3>4
    <3> QED
      BY <3>1, <3>5
  <2> HIDE DEF M
  <2>4. \A x \in DOMAIN view.intervals : x \in DOMAIN intervals /\ view.intervals[x] = intervals[x]
    BY <2>1
  <2>5. \A x \in DOMAIN intervals : x \in DOMAIN view.intervals \/ x \in DOMAIN M
    BY <1>b, <2>1, <2>3, <1>4 DEF Open
  <2>6. Stats!Over(Stats!Empty, intervals) = [x \in DOMAIN intervals |-> intervals[x]]
    BY EmptyFacts DEF Stats!Over
  <2>7. DOMAIN M \cup DOMAIN view.intervals = DOMAIN M \cup DOMAIN intervals
    BY <2>4, <2>5
  <2>8. Stats!Over(M, view.intervals) = Stats!Over(M, Stats!Over(Stats!Empty, intervals))
    <3>1. \A x \in DOMAIN M \cup DOMAIN intervals : x \notin DOMAIN M =>
            view.intervals[x] = [y \in DOMAIN intervals |-> intervals[y]][x]
      BY <2>4, <2>5
    <3> QED
      BY <2>6, <2>7, <3>1 DEF Stats!Over
  <2> QED
    BY <2>1, <2>2, <2>8
<1> QED
  BY <1>a, <1>7, <1>8 DEF Stats!StatisticsSound, Stats!QueryExact

\* The invariant holds at the start.
LEMMA StatsStart ==
  ASSUME Stats!MessageAssumption, Stats!Init PROVE StatsInv
<1>1. /\ now = 0 /\ run = 0 /\ ~up /\ stopped = None /\ uncommitted = 0 /\ state = Stats!Unknown
      /\ io = "free" /\ hours = 0 /\ counted = 0 /\ ~Stats!Flushing
      /\ offline = Stats!Empty /\ intervals = Stats!Empty /\ runs = Stats!Empty
      /\ Since = None /\ Taken = Stats!Empty /\ up \in BOOLEAN
  BY DEF Stats!Init, Since, Taken, Stats!Unknown, Stats!Flushing
<1>2. DOMAIN offline = {} /\ DOMAIN intervals = {} /\ DOMAIN runs = {} /\ DOMAIN Taken = {}
  BY <1>1, EmptyFacts
<1>3. StatsTypes
  <2>1. /\ offline \in [DOMAIN offline -> Nat] /\ intervals \in [DOMAIN intervals -> Nat \cup {None}]
        /\ runs \in [1 .. run -> [alive : Nat, stopped : Nat \cup {None}]]
    BY <1>1, <1>2 DEF Stats!Empty
  <2>2. state \in [enabled : BOOLEAN, connected : BOOLEAN, since : Nat \cup {None}]
    BY <1>1 DEF Stats!Unknown
  <2> QED
    BY <1>1, <1>2, <2>1, <2>2 DEF StatsTypes
<1>4. InLine /\ BeforeSince
  BY <1>1, <1>2 DEF InLine, Line, BeforeSince
<1>5. Opened /\ Took /\ Resting /\ Halted /\ Viewed /\ Stats!NothingLost
  BY <1>1, <1>2 DEF Opened, Took, Resting, Halted, Viewed, Stats!NothingLost
<1> QED
  BY <1>3, <1>4, <1>5 DEF StatsInv

\* What was observed of the adapter leaves the memory as it was, or ends what was going on.
Observes ==
  /\ state' \in [enabled : BOOLEAN, connected : BOOLEAN, since : Nat \cup {None}]
  /\ ~state'.enabled \/ state'.connected => Since' = None
  /\ \/ offline' = offline /\ Since' = Since
     \/ offline' = Stats!EndedNow /\ (Since' # None => Since' \in Nat /\ now <= Since')

\* ObserveAdapters and ReloadAdapter do no more than that.
LEMMA Observing ==
  ASSUME Stats!MessageAssumption, StatsInv,
         \/ \E e \in BOOLEAN, c \in BOOLEAN : Stats!ObserveAdapters(e, c)
         \/ Stats!ForgetAdapter \/ Stats!ReloadAdapter
  PROVE  /\ Observes /\ up /\ stopped = None
         /\ UNCHANGED <<now, run, up, flushLoop, stopped, uncommitted, io, batch, view, hours,
                        intervals,
                        runs, counted>>
<1>a. StatsTypes /\ Resting
  BY DEF StatsInv
<1>b. /\ now \in Nat /\ now + Stats!Grace \in Nat /\ now <= now + Stats!Grace /\ None \notin Int
      /\ now # None /\ now + Stats!Grace # None
      /\ state \in [enabled : BOOLEAN, connected : BOOLEAN, since : Nat \cup {None}]
  BY <1>a DEF StatsTypes, Stats!Grace, Stats!MessageAssumption
<1>c. /\ up /\ stopped = None
      /\ UNCHANGED <<now, run, up, flushLoop, stopped, uncommitted, io, batch, view, hours,
                     intervals, runs,
                     counted>>
  BY DEF Stats!ObserveAdapters, Stats!ForgetAdapter, Stats!ReloadAdapter, Stats!tables
<1>1. ASSUME NEW e \in BOOLEAN, NEW c \in BOOLEAN, Stats!ObserveAdapters(e, c)
      PROVE  Observes
  <2>1. /\ state' = Stats!Observed(e, c)
        /\ offline' = IF ~e \/ c THEN Stats!EndedNow ELSE offline
    BY <1>1 DEF Stats!ObserveAdapters
  <2> DEFINE t == IF ~e \/ c THEN None
                  ELSE IF ~state.enabled THEN now + Stats!Grace
                  ELSE IF state.connected THEN now ELSE state.since
  <2>2. state' = [enabled |-> e, connected |-> c, since |-> t]
    BY <2>1 DEF Stats!Observed
  <2>3. t \in Nat \cup {None}
    BY <1>b
  <2>4. /\ state' \in [enabled : BOOLEAN, connected : BOOLEAN, since : Nat \cup {None}]
        /\ state'.enabled = e /\ state'.connected = c /\ Since' = t
    BY <2>2, <2>3 DEF Since
  <2>5. CASE ~e \/ c
    BY <2>1, <2>4, <2>5 DEF Observes
  <2>6. CASE e /\ ~c /\ (~state.enabled \/ state.connected)
    <3>1. Stats!EndedNow = offline
      BY <1>a, <2>6, EndedFacts DEF Going, Resting
    <3>2. Since' \in Nat /\ now <= Since'
      BY <1>b, <2>4, <2>6
    <3> QED
      BY <2>1, <2>4, <2>6, <3>1, <3>2 DEF Observes
  <2>7. CASE e /\ ~c /\ ~(~state.enabled \/ state.connected)
    BY <2>1, <2>4, <2>7 DEF Observes, Since
  <2> QED
    BY <2>5, <2>6, <2>7
<1>2. ASSUME Stats!ForgetAdapter PROVE Observes
  <2>1. state' = Stats!Unknown /\ offline' = Stats!EndedNow
    BY <1>2 DEF Stats!ForgetAdapter
  <2> QED
    BY <2>1 DEF Observes, Since, Stats!Unknown
<1>3. ASSUME Stats!ReloadAdapter PROVE Observes
  <2>1. state' = Stats!Restarted /\ offline' = Stats!EndedNow
    BY <1>3 DEF Stats!ReloadAdapter
  <2> DEFINE t == IF state.enabled THEN now + Stats!Grace ELSE None
  <2>2. state' = [enabled |-> state.enabled, connected |-> FALSE, since |-> t]
    BY <2>1 DEF Stats!Restarted
  <2>3. /\ state' \in [enabled : BOOLEAN, connected : BOOLEAN, since : Nat \cup {None}]
        /\ state'.enabled = state.enabled /\ ~state'.connected /\ Since' = t
    BY <1>b, <2>2 DEF Since
  <2> QED
    BY <1>b, <2>1, <2>3 DEF Observes
<1> QED
  BY <1>c, <1>1, <1>2, <1>3

\* Such a step keeps the invariant.
LEMMA ObservedKeeps ==
  ASSUME Stats!MessageAssumption, StatsInv, Observes, up, stopped = None,
         UNCHANGED <<now, run, up, flushLoop, stopped, uncommitted, io, batch, view, hours,
                     intervals, runs,
                     counted>>
  PROVE  StatsInv'
<1>a. /\ StatsTypes /\ InLine /\ BeforeSince /\ Opened /\ Took /\ Resting /\ Halted /\ Viewed
      /\ Stats!NothingLost
  BY DEF StatsInv
<1>b. /\ now \in Nat /\ run \in Nat /\ None \notin Int /\ (Since # None => Since \in Nat)
      /\ \A s \in DOMAIN offline : s \in Nat /\ offline[s] \in Nat
      /\ \A s \in DOMAIN Taken : s \in Nat /\ Taken[s] \in Nat
      /\ \A k \in DOMAIN intervals : k[2] \in Nat /\ (Closed(k) => intervals[k] \in Nat)
  BY <1>a, EmptyFacts DEF StatsTypes, TookTypes, Stats!MessageAssumption, Since, Taken, Closed
<1>c. /\ \A k : Closed(k)' <=> Closed(k)
      /\ \A k : Open(k)' <=> Open(k)
      /\ Taken' = Taken /\ (Stats!Flushing' <=> Stats!Flushing)
  BY DEF Closed, Open, Taken, Stats!Flushing
<1>1. CASE offline' = offline /\ Since' = Since
  <2>1. StatsTypes' /\ Resting' /\ Halted'
    BY <1>a, <1>c, <1>1 DEF StatsTypes, TookTypes, Resting, Halted, Observes
  <2>2. InLine' /\ BeforeSince' /\ Opened' /\ Took' /\ Viewed' /\ Stats!NothingLost'
    BY <1>a, <1>c, <1>1
       DEF InLine, Line, BeforeSince, Opened, Took, Viewed, Stats!NothingLost
  <2> QED
    BY <2>1, <2>2 DEF StatsInv
<1>2. CASE /\ offline' = Stats!EndedNow
           /\ Since' # None => Since' \in Nat /\ now <= Since'
  <2>1. /\ ~Going => offline' = offline
        /\ Going =>
             /\ Since \in Nat /\ DOMAIN offline' = DOMAIN offline \cup {Since}
             /\ offline'[Since] = now
             /\ \A s \in DOMAIN offline : s # Since => offline'[s] = offline[s]
        /\ offline' \in [DOMAIN offline' -> Nat] /\ DOMAIN offline' \subseteq Nat
    BY <1>a, <1>2, EndedFacts
  <2>2. \A s \in DOMAIN offline : s \in DOMAIN offline' /\ (Going => s # Since) /\ offline'[s] = offline[s]
    BY <1>a, <1>b, <2>1 DEF BeforeSince, InLine, Line, Going
  <2>3. StatsTypes'
    BY <1>a, <1>c, <2>1 DEF StatsTypes, TookTypes, Observes
  <2>4. InLine'
    <3>1. \A s \in DOMAIN offline' :
            \/ s \in DOMAIN offline /\ offline'[s] = offline[s]
            \/ Going /\ s = Since /\ offline'[s] = now
      BY <2>1, <2>2
    <3>2. Line(offline)'
      BY <1>a, <1>b, <3>1 DEF InLine, Line, BeforeSince, Going
    <3>3. /\ \A k \in DOMAIN intervals : Closed(k) => \A s \in DOMAIN offline' : intervals[k] <= s
          /\ \A s \in DOMAIN Taken, t \in DOMAIN offline' : Taken[s] <= t
      BY <1>a, <3>1 DEF InLine, BeforeSince, Going
    <3> QED
      BY <1>a, <1>c, <3>2, <3>3 DEF InLine, Line
  <2>5. BeforeSince'
    BY <1>a, <1>b, <1>c, <1>2, <2>1, <2>2 DEF BeforeSince, InLine, Line
  <2>6. Opened'
    <3>1. \A k \in DOMAIN intervals : Open(k) /\ Since = k[2] => Going
      BY <1>a, <1>b DEF Opened, Resting, Going, StatsTypes
    <3>2. \A k \in DOMAIN intervals : Open(k) => k[2] \in DOMAIN offline' \/ k[2] \in DOMAIN Taken
      BY <1>a, <2>1, <2>2, <3>1 DEF Opened
    <3> QED
      BY <1>a, <1>c, <3>2 DEF Opened
  <2>7. Took'
    <3>1. ASSUME Stats!Flushing, NEW s \in DOMAIN batch.intervals, batch.intervals[s] = None
          PROVE  s \in DOMAIN offline'
      <4>1. s + 1 <= batch.at /\ batch.at <= now /\ (Since = s \/ s \in DOMAIN offline)
            /\ s \in Nat /\ batch.at \in Nat
        BY <1>a, <3>1 DEF Took, StatsTypes, TookTypes
      <4> QED
        BY <1>b, <2>1, <2>2, <4>1 DEF Going
    <3> QED
      BY <1>a, <1>c, <3>1 DEF Took
  <2>8. Resting' /\ Halted' /\ Viewed' /\ Stats!NothingLost'
    BY <1>a, <1>c DEF Resting, Halted, Viewed, Stats!NothingLost, Observes
  <2> QED
    BY <2>3, <2>4, <2>5, <2>6, <2>7, <2>8 DEF StatsInv
<1> QED
  BY <1>1, <1>2 DEF Observes

\* Every step keeps the invariant.
LEMMA StatsStep ==
  ASSUME Stats!MessageAssumption, StatsInv, [Stats!Next]_Stats!vars
  PROVE  StatsInv'
<1>a. /\ StatsTypes /\ InLine /\ BeforeSince /\ Opened /\ Took /\ Resting /\ Halted /\ Viewed
      /\ Stats!NothingLost
  BY DEF StatsInv
<1>b. /\ now \in Nat /\ run \in Nat /\ None \notin Int /\ (Since # None => Since \in Nat)
      /\ \A s \in DOMAIN offline : s \in Nat /\ offline[s] \in Nat
      /\ \A s \in DOMAIN Taken : s \in Nat /\ Taken[s] \in Nat
      /\ \A k \in DOMAIN intervals : k[2] \in Nat /\ (Closed(k) => intervals[k] \in Nat)
      /\ offline \in [DOMAIN offline -> Nat] /\ DOMAIN offline \subseteq Nat
      /\ DOMAIN intervals \subseteq (1 .. run) \X Nat
      /\ run >= 1 => runs[run].alive \in Nat
  BY <1>a, EmptyFacts DEF StatsTypes, TookTypes, Stats!MessageAssumption, Since, Taken, Closed
<1>c. /\ UNCHANGED intervals => \A k : (Closed(k)' <=> Closed(k)) /\ (Open(k)' <=> Open(k))
      /\ UNCHANGED <<io, batch>> => Taken' = Taken /\ (Stats!Flushing' <=> Stats!Flushing)
      /\ UNCHANGED state => Since' = Since
      /\ ~Stats!Flushing => Taken = Stats!Empty
      /\ ~Stats!Flushing' => Taken' = Stats!Empty
      /\ Stats!Flushing' => Taken' = batch'.offline
      /\ Stats!Flushing => Taken = batch.offline
  BY DEF Closed, Open, Taken, Stats!Flushing, Since
<1>d. DOMAIN Stats!Empty = {} /\ Stats!Empty \in [DOMAIN Stats!Empty -> Nat]
  BY EmptyFacts
<1>e. \A k \in DOMAIN intervals : Open(k) =>
        run >= 1 /\ k[1] = run /\ k[2] + 1 <= runs[run].alive /\ runs[run].alive <= now
  BY <1>a, <1>b DEF Opened, Resting
<1>1. CASE Stats!Count
  <2>1. /\ uncommitted' = uncommitted + 1 /\ counted' = counted + 1
        /\ UNCHANGED <<now, run, up, flushLoop, stopped, state, offline, io, batch, view, hours,
                       intervals,
                       runs>>
    BY <1>1 DEF Stats!Count, Stats!tables
  <2>2. StatsTypes'
    BY <1>a, <1>c, <2>1 DEF StatsTypes, TookTypes
  <2>3. Stats!NothingLost'
    <3>1. /\ uncommitted \in Nat /\ hours \in Nat /\ counted \in Nat
          /\ Stats!Flushing => batch.count \in Nat
      BY <1>a DEF StatsTypes, TookTypes
    <3>2. CASE Stats!Flushing
      BY <1>a, <1>c, <2>1, <3>1, <3>2 DEF Stats!NothingLost
    <3>3. CASE ~Stats!Flushing
      BY <1>a, <1>c, <2>1, <3>1, <3>3 DEF Stats!NothingLost
    <3> QED
      BY <3>2, <3>3
  <2>4. Resting' /\ Halted' /\ Viewed'
    BY <1>1, <1>a, <1>c, <2>1 DEF Resting, Halted, Viewed, Stats!Count
  <2> QED
    BY <1>a, <1>c, <2>1, <2>2, <2>3, <2>4
       DEF StatsInv, InLine, Line, BeforeSince, Opened, Took
<1>2. CASE Stats!FlushTake
  <2> DEFINE K == Stats!KnownIntervals
  <2>1. /\ up /\ flushLoop = "running" /\ io = "free" /\ io' = "flush" /\ uncommitted' = 0
        /\ batch' = [count |-> uncommitted, offline |-> offline, intervals |-> K, at |-> now,
                     stopped |-> None]
        /\ offline' = Stats!Empty
        /\ UNCHANGED <<now, run, up, flushLoop, stopped, state, view, hours, intervals, runs,
                       counted>>
    BY <1>2 DEF Stats!FlushTake, Stats!Batch, Stats!tables
  <2>2. /\ DOMAIN K = DOMAIN offline \cup (IF Going THEN {Since} ELSE {})
        /\ Going => Since \in Nat /\ K[Since] = None
        /\ \A s \in DOMAIN offline : ~(Going /\ s = Since) => K[s] = offline[s]
        /\ K \in [DOMAIN K -> Nat \cup {None}]
    BY <1>a, KnownFacts
  <2> HIDE DEF K
  <2>3. /\ ~Stats!Flushing /\ Stats!Flushing' /\ Taken = Stats!Empty /\ Taken' = offline
        /\ DOMAIN offline' = {} /\ DOMAIN Taken = {}
        /\ stopped = None /\ Since' = Since
    BY <1>a, <1>c, <1>d, <2>1 DEF Stats!Flushing, Halted
  <2>4. \A s \in DOMAIN offline : ~(Going /\ s = Since)
    BY <1>a, <1>b DEF BeforeSince, InLine, Line, Going
  <2>5. StatsTypes'
    <3>1. TookTypes'
      BY <1>a, <1>b, <2>1, <2>2 DEF TookTypes, StatsTypes
    <3> QED
      BY <1>a, <1>d, <2>1, <2>3, <3>1 DEF StatsTypes
  <2>6. InLine' /\ BeforeSince'
    BY <1>a, <1>c, <2>1, <2>3 DEF InLine, Line, BeforeSince
  <2>7. Opened'
    BY <1>a, <1>c, <2>1, <2>3 DEF Opened
  <2>8. Took'
    <3>1. /\ \A s \in DOMAIN K : K[s] # None => s \in DOMAIN offline /\ K[s] = offline[s]
          /\ \A s \in DOMAIN K : K[s] = None => Going /\ s = Since /\ s \notin DOMAIN offline
      BY <1>b, <2>2, <2>4
    <3>2. \A k \in DOMAIN intervals : Open(k) => k[2] \in DOMAIN K
      <4>1. \A k \in DOMAIN intervals : Open(k) => Since = k[2] \/ k[2] \in DOMAIN offline
        BY <1>a, <2>1, <2>3 DEF Opened
      <4>2. \A k \in DOMAIN intervals : Open(k) /\ Since = k[2] => Going
        BY <1>b, <1>e DEF Going
      <4> QED
        BY <2>2, <4>1, <4>2
    <3>3. runs[run].alive <= now
      BY <1>a, <2>1 DEF Resting
    <3>4. /\ batch'.at = now /\ batch'.stopped = None /\ batch'.intervals = K
          /\ batch'.offline = offline
      BY <2>1
    <3>5. Going => \A k \in DOMAIN intervals : Closed(k) => intervals[k] <= Since
      BY <1>a DEF BeforeSince, Going
    <3>6. \A q \in DOMAIN K : K[q] = None =>
            /\ q + 1 <= now /\ Since' = q /\ q \notin DOMAIN offline
            /\ \A k \in DOMAIN intervals : Closed(k)' => intervals[k] <= q
      BY <1>c, <2>1, <2>3, <3>1, <3>5 DEF Going
    <3>7. \A k \in DOMAIN intervals : Open(k)' => k[2] \in DOMAIN K
      BY <1>c, <2>1, <3>2
    <3>8. /\ up' /\ now' = now /\ run' = run /\ runs' = runs /\ intervals' = intervals
          /\ DOMAIN offline \subseteq DOMAIN K
          /\ \A q, w \in DOMAIN K : K[q] = None /\ K[w] = None => q = w
      BY <2>1, <2>2, <3>1
    <3> QED
      BY ONLY <1>b, <3>1, <3>3, <3>4, <3>6, <3>7, <3>8 DEF Took
  <2>9. Resting' /\ Halted' /\ Viewed' /\ Stats!NothingLost'
    BY <1>a, <1>b, <2>1, <2>3 DEF Resting, Halted, Viewed, Stats!NothingLost, StatsTypes, Since
  <2> QED
    BY <2>5, <2>6, <2>7, <2>8, <2>9 DEF StatsInv
<1>3. CASE Stats!FlushCommit
  <2> DEFINE F == batch.intervals
             N == [k \in {<<run, s>> : s \in DOMAIN F} |-> F[k[2]]]
  <2>1. /\ up /\ Stats!Flushing /\ hours' = hours + batch.count /\ io' = "free"
        /\ runs' = [runs EXCEPT ![run] = [alive |-> batch.at, stopped |-> batch.stopped]]
        /\ intervals' = Stats!Over(N, intervals)
        /\ UNCHANGED <<now, run, up, flushLoop, stopped, uncommitted, state, offline, view,
                       counted>>
    BY <1>3 DEF Stats!FlushCommit, Stats!memory
  <2>2. /\ DOMAIN N = {<<run, s>> : s \in DOMAIN F} /\ \A s \in DOMAIN F : N[<<run, s>>] = F[s]
    OBVIOUS
  <2>3. /\ F \in [DOMAIN F -> Nat \cup {None}] /\ DOMAIN F \subseteq Nat /\ run >= 1
        /\ batch.at \in Nat /\ batch.stopped \in Nat \cup {None} /\ batch.count \in Nat
    BY <1>a, <2>1 DEF StatsTypes, TookTypes, Resting
  <2> HIDE DEF N, F
  <2>4. /\ DOMAIN intervals' = DOMAIN N \cup DOMAIN intervals
        /\ \A k \in DOMAIN N : intervals'[k] = N[k]
        /\ \A k \in DOMAIN intervals : k \notin DOMAIN N => intervals'[k] = intervals[k]
    BY <2>1 DEF Stats!Over
  <2>5. \A k \in DOMAIN N : k = <<run, k[2]>> /\ k[2] \in DOMAIN F /\ k[1] = run /\ N[k] = F[k[2]]
                            /\ k \in (1 .. run) \X Nat
    BY <1>b, <2>2, <2>3
  <2>6. ~Stats!Flushing' /\ Taken' = Stats!Empty /\ DOMAIN Taken' = {} /\ Taken = batch.offline
        /\ Since' = Since
    BY <1>c, <1>d, <2>1 DEF Stats!Flushing
  <2>7. /\ DOMAIN Taken \subseteq DOMAIN F
        /\ \A s \in DOMAIN F : F[s] # None => s \in DOMAIN Taken /\ F[s] = Taken[s]
        /\ \A s \in DOMAIN F : F[s] = None =>
             /\ s + 1 <= batch.at /\ (Since = s \/ s \in DOMAIN offline)
             /\ s \notin DOMAIN Taken
             /\ \A k \in DOMAIN intervals : Closed(k) => intervals[k] <= s
        /\ \A s, t \in DOMAIN F : F[s] = None /\ F[t] = None => s = t
        /\ \A k \in DOMAIN intervals : Open(k) => k[2] \in DOMAIN F
        /\ batch.stopped # None => \A s \in DOMAIN F : F[s] # None
        /\ batch.at <= now
    <3>1. batch.stopped # None => \A s \in DOMAIN F : F[s] # None
      BY <1>a, <1>b, <2>1, <2>6 DEF Took, F
    <3> QED
      BY <1>a, <2>1, <2>6, <3>1 DEF Took, F
  <2>8. \A k \in DOMAIN intervals' : Closed(k)' =>
          \/ /\ k[1] = run /\ k[2] \in DOMAIN Taken /\ intervals'[k] = Taken[k[2]]
          \/ /\ k \in DOMAIN intervals /\ Closed(k) /\ intervals'[k] = intervals[k]
    BY <2>4, <2>5, <2>7 DEF Closed
  <2>9. \A k \in DOMAIN intervals' : Open(k)' =>
          k[1] = run /\ k[2] \in DOMAIN F /\ F[k[2]] = None /\ k = <<run, k[2]>>
    <3> SUFFICES ASSUME NEW k \in DOMAIN intervals', Open(k)'
                 PROVE  k[1] = run /\ k[2] \in DOMAIN F /\ F[k[2]] = None /\ k = <<run, k[2]>>
      OBVIOUS
    <3>1. CASE k \in DOMAIN N
      BY <2>4, <2>5, <3>1 DEF Open
    <3>2. CASE k \notin DOMAIN N
      <4>1. k \in DOMAIN intervals /\ Open(k)
        BY <2>4, <3>2 DEF Open
      <4>2. k = <<run, k[2]>> /\ k[2] \in DOMAIN F
        BY <1>b, <1>e, <2>7, <4>1
      <4> QED
        BY <2>2, <3>2, <4>2
    <3> QED
      BY <3>1, <3>2
  <2>10. StatsTypes'
    <3>1. intervals' \in [DOMAIN intervals' -> Nat \cup {None}]
      <4>1. \A k \in DOMAIN intervals' : intervals'[k] \in Nat \cup {None}
        BY <1>a, <2>3, <2>4, <2>5 DEF StatsTypes
      <4>2. intervals' = [k \in DOMAIN intervals' |-> intervals'[k]]
        BY <2>1 DEF Stats!Over
      <4> QED
        BY <4>1, <4>2
    <3>2. DOMAIN intervals' \subseteq (1 .. run) \X Nat
      BY <1>b, <2>4, <2>5
    <3>3. runs' \in [1 .. run -> [alive : Nat, stopped : Nat \cup {None}]]
      BY <1>a, <2>1, <2>3 DEF StatsTypes
    <3>4. /\ now' = now /\ run' = run /\ up' = up /\ state' = state /\ stopped' = stopped
          /\ uncommitted' = uncommitted /\ counted' = counted /\ offline' = offline
          /\ hours' = hours + batch.count
      BY <2>1
    <3>5. /\ now' \in Nat /\ run' \in Nat /\ uncommitted' \in Nat /\ hours' \in Nat
          /\ counted' \in Nat /\ up' \in BOOLEAN
      BY <1>a, <2>3, <3>4 DEF StatsTypes
    <3>6. /\ state' \in [enabled : BOOLEAN, connected : BOOLEAN, since : Nat \cup {None}]
          /\ stopped' \in Nat \cup {None}
          /\ offline' \in [DOMAIN offline' -> Nat] /\ DOMAIN offline' \subseteq Nat
      BY <1>a, <3>4 DEF StatsTypes
    <3>7. runs' \in [1 .. run' -> [alive : Nat, stopped : Nat \cup {None}]]
          /\ DOMAIN intervals' \subseteq (1 .. run') \X Nat
      BY <3>2, <3>3, <3>4
    <3> QED
      BY <2>6, <3>1, <3>5, <3>6, <3>7, Zenon DEF StatsTypes
  <2>11. InLine'
    <3>1. \A k \in DOMAIN intervals' : Closed(k)' => k[2] + 1 <= intervals'[k] /\ intervals'[k] <= now
      BY <1>a, <2>8 DEF InLine, Line
    <3>2. ASSUME NEW j \in DOMAIN intervals', NEW k \in DOMAIN intervals', Closed(j)', Closed(k)',
                 j # k
          PROVE  intervals'[j] <= k[2] \/ intervals'[k] <= j[2]
      <4>1. j[1] = run /\ k[1] = run => j[2] # k[2]
        <5>1. j \in Nat \X Nat /\ k \in Nat \X Nat
          BY <1>b, <2>4, <2>5
        <5> QED
          BY <3>2, <5>1
      <4> QED
        BY <1>a, <2>8, <3>2, <4>1 DEF InLine, Line
    <3>3. \A k \in DOMAIN intervals' : Closed(k)' => \A s \in DOMAIN offline : intervals'[k] <= s
      BY <1>a, <2>8 DEF InLine
    <3>4. Line(offline)' /\ Line(Taken)'
      BY <1>a, <2>1, <2>6 DEF InLine, Line
    <3> QED
      BY <2>1, <2>6, <3>1, <3>2, <3>3, <3>4 DEF InLine
  <2>12. BeforeSince'
    BY <1>a, <2>1, <2>6, <2>8 DEF BeforeSince
  <2>13. Opened'
    <3>1. \A j, k \in DOMAIN intervals' : Open(j)' /\ Open(k)' => j = k
      BY <2>7, <2>9
    <3>2. \A j, k \in DOMAIN intervals' : Open(j)' /\ Closed(k)' => intervals'[k] <= j[2]
      <4> SUFFICES ASSUME NEW j \in DOMAIN intervals', NEW k \in DOMAIN intervals', Open(j)', Closed(k)'
                   PROVE  intervals'[k] <= j[2]
        OBVIOUS
      <4>1. /\ j[2] \in DOMAIN F /\ F[j[2]] = None /\ (Since = j[2] \/ j[2] \in DOMAIN offline)
            /\ Since = j[2] => Since # None
        BY <1>b, <2>3, <2>7, <2>9
      <4> QED
        BY <1>a, <2>7, <2>8, <4>1 DEF InLine, BeforeSince
    <3>3. runs'[run] = [alive |-> batch.at, stopped |-> batch.stopped]
      BY <1>a, <2>1, <2>3 DEF StatsTypes
    <3>4. \A k \in DOMAIN intervals' : Open(k)' =>
            /\ k[1] = run /\ runs'[run].stopped = None /\ k[2] + 1 <= runs'[run].alive
            /\ Since = k[2] \/ k[2] \in DOMAIN offline
      BY <2>7, <2>9, <3>3
    <3> QED
      BY <2>1, <2>6, <3>1, <3>2, <3>4 DEF Opened
  <2>14. Took' /\ Viewed'
    BY <2>1, <2>6 DEF Took, Viewed
  <2>15. Resting' /\ Halted'
    <3>1. runs'[run].alive = batch.at
      BY <1>a, <2>1, <2>3 DEF StatsTypes
    <3> QED
      BY <1>a, <2>1, <2>6, <2>7, <3>1 DEF Resting, Halted
  <2>16. Stats!NothingLost'
    BY <1>a, <2>1, <2>3, <2>6 DEF Stats!NothingLost, StatsTypes
  <2> QED
    BY <2>10, <2>11, <2>12, <2>13, <2>14, <2>15, <2>16 DEF StatsInv
<1>4. CASE Stats!FlushFail
  <2>1. /\ up /\ Stats!Flushing /\ uncommitted' = uncommitted + batch.count /\ io' = "free"
        /\ offline' = Stats!Over(offline, batch.offline)
        /\ UNCHANGED <<now, run, up, flushLoop, stopped, state, view, hours, intervals, runs,
                       counted>>
    BY <1>4 DEF Stats!FlushFail, Stats!tables
  <2>2. /\ ~Stats!Flushing' /\ Taken' = Stats!Empty /\ DOMAIN Taken' = {} /\ Taken = batch.offline
        /\ Since' = Since /\ batch.count \in Nat
        /\ Taken \in [DOMAIN Taken -> Nat] /\ DOMAIN Taken \subseteq Nat
    BY <1>a, <1>c, <1>d, <2>1 DEF Stats!Flushing, StatsTypes, TookTypes
  <2>3. /\ DOMAIN offline' = DOMAIN offline \cup DOMAIN Taken
        /\ \A s \in DOMAIN offline : offline'[s] = offline[s]
        /\ \A s \in DOMAIN Taken : s \notin DOMAIN offline => offline'[s] = Taken[s]
        /\ offline' = [s \in DOMAIN offline' |-> offline'[s]]
    BY <2>1, <2>2 DEF Stats!Over
  <2>4. \A s \in DOMAIN offline' :
          \/ s \in DOMAIN offline /\ offline'[s] = offline[s]
          \/ s \in DOMAIN Taken /\ offline'[s] = Taken[s]
    BY <2>3
  <2>5. StatsTypes'
    <3>1. \A s \in DOMAIN offline' : s \in Nat /\ offline'[s] \in Nat
      BY <1>b, <2>4
    <3>2. offline' \in [DOMAIN offline' -> Nat] /\ DOMAIN offline' \subseteq Nat
      BY <2>3, <3>1
    <3> QED
      BY <1>a, <2>1, <2>2, <3>2 DEF StatsTypes
  <2>6. InLine'
    <3>1. Line(offline)'
      BY <1>a, <1>b, <2>1, <2>4 DEF InLine, Line
    <3> QED
      BY <1>a, <1>c, <2>1, <2>2, <2>4, <3>1 DEF InLine, Line
  <2>7. BeforeSince' /\ Opened'
    BY <1>a, <1>c, <2>1, <2>2, <2>3, <2>4 DEF BeforeSince, Opened
  <2>8. Took' /\ Viewed' /\ Resting' /\ Halted'
    BY <1>a, <2>1, <2>2 DEF Took, Viewed, Resting, Halted
  <2>9. Stats!NothingLost'
    BY <1>a, <2>1, <2>2 DEF Stats!NothingLost, StatsTypes
  <2> QED
    BY <2>5, <2>6, <2>7, <2>8, <2>9 DEF StatsInv
<1>5. CASE Stats!StopLoop
  <2>1. /\ io # "flush" /\ flushLoop' = "done"
        /\ UNCHANGED <<now, run, up, stopped, uncommitted, state, offline, io, batch, view, hours,
                       intervals, runs, counted>>
    BY <1>5 DEF Stats!StopLoop, Stats!memory, Stats!tables
  <2>2. StatsTypes' /\ Stats!NothingLost' /\ Halted'
    BY <1>a, <1>c, <2>1 DEF StatsTypes, TookTypes, Stats!NothingLost, Halted
  <2> QED
    BY <1>a, <1>c, <2>1, <2>2
       DEF StatsInv, InLine, Line, BeforeSince, Opened, Took, Resting, Viewed
<1>6. CASE Stats!StopTake
  <2> DEFINE E == Stats!EndedNow
  <2>1. /\ up /\ flushLoop = "done" /\ io = "free" /\ io' = "stop" /\ uncommitted' = 0
        /\ stopped' = (IF stopped = None THEN now ELSE stopped) /\ state' = Stats!Unknown
        /\ batch' = [count |-> uncommitted, offline |-> E, intervals |-> E, at |-> stopped',
                     stopped |-> stopped']
        /\ offline' = Stats!Empty
        /\ UNCHANGED <<now, run, up, flushLoop, view, hours, intervals, runs, counted>>
    BY <1>6 DEF Stats!StopTake, Stats!tables
  <2>2. /\ ~Going => E = offline
        /\ Going =>
             /\ Since \in Nat /\ DOMAIN E = DOMAIN offline \cup {Since} /\ E[Since] = now
             /\ \A s \in DOMAIN offline : s # Since => E[s] = offline[s]
        /\ E \in [DOMAIN E -> Nat] /\ DOMAIN E \subseteq Nat
    BY <1>a, EndedFacts
  <2> HIDE DEF E
  <2>3. /\ ~Stats!Flushing /\ Stats!Flushing' /\ Taken = Stats!Empty /\ Taken' = E
        /\ DOMAIN offline' = {} /\ DOMAIN Taken = {} /\ Since' = None
        /\ stopped' \in Nat /\ stopped' <= now /\ run >= 1 /\ runs[run].alive <= stopped'
    BY <1>a, <1>c, <1>d, <2>1
       DEF Stats!Flushing, Halted, Resting, Since, Stats!Unknown, StatsTypes
  <2>4. \A s \in DOMAIN E :
          \/ s \in DOMAIN offline /\ E[s] = offline[s]
          \/ Going /\ s = Since /\ E[s] = now
    BY <2>2
  <2>5. StatsTypes'
    <3>1. TookTypes'
      <4>1. /\ batch'.count = uncommitted /\ batch'.at = stopped' /\ batch'.stopped = stopped'
            /\ batch'.offline = E /\ batch'.intervals = E
        BY <2>1
      <4>2. E \in [DOMAIN E -> Nat \cup {None}]
        BY <2>2
      <4> QED
        BY <1>a, <2>2, <2>3, <4>1, <4>2 DEF TookTypes, StatsTypes
    <3>2. state' \in [enabled : BOOLEAN, connected : BOOLEAN, since : Nat \cup {None}]
      BY <2>1 DEF Stats!Unknown
    <3> QED
      BY <1>a, <1>d, <2>1, <2>3, <3>1, <3>2 DEF StatsTypes
  <2>6. InLine' /\ BeforeSince'
    <3>1. Line(Taken)'
      BY <1>a, <1>b, <2>1, <2>3, <2>4 DEF InLine, Line, BeforeSince, Going
    <3>2. \A k \in DOMAIN intervals : Closed(k) => \A s \in DOMAIN E : intervals[k] <= s
      BY <1>a, <2>4 DEF InLine, BeforeSince, Going
    <3> QED
      BY <1>a, <1>c, <2>1, <2>3, <3>1, <3>2 DEF InLine, Line, BeforeSince
  <2>7. \A k \in DOMAIN intervals : Open(k) => k[2] \in DOMAIN E
    <3>1. \A k \in DOMAIN intervals : Open(k) => Since = k[2] \/ k[2] \in DOMAIN offline
      BY <1>a, <2>1, <2>3 DEF Opened
    <3>2. \A k \in DOMAIN intervals : Open(k) /\ Since = k[2] => Going
      BY <1>b, <1>e DEF Going
    <3> QED
      BY <2>2, <3>1, <3>2
  <2>8. Opened'
    BY <1>a, <1>c, <2>1, <2>3, <2>7 DEF Opened
  <2>9. Took'
    <3>1. /\ batch'.at = stopped' /\ batch'.stopped = stopped' /\ batch'.intervals = E
          /\ batch'.offline = E
      BY <2>1
    <3>2. \A s \in DOMAIN E : E[s] # None
      BY <1>b, <2>2
    <3> QED
      BY <1>c, <2>1, <2>3, <2>7, <3>1, <3>2 DEF Took
  <2>10. Resting' /\ Halted' /\ Viewed' /\ Stats!NothingLost'
    <3>1. Stats!Unknown.enabled = FALSE /\ batch'.at = stopped' /\ batch'.count = uncommitted
      BY <2>1 DEF Stats!Unknown
    <3> QED
      BY <1>a, <1>b, <2>1, <2>3, <3>1 DEF Resting, Halted, Viewed, Stats!NothingLost, StatsTypes
  <2> QED
    BY <2>5, <2>6, <2>8, <2>9, <2>10 DEF StatsInv
<1>7. CASE Stats!QueryRead
  <2>1. /\ up /\ io = "free" /\ io' = "query"
        /\ view' = [total |-> hours,
                    intervals |-> [k \in {k \in DOMAIN intervals :
                                            intervals[k] # None \/ k[1] # run} |-> intervals[k]]]
        /\ UNCHANGED <<now, run, up, flushLoop, stopped, uncommitted, state, offline, batch,
                       hours, intervals,
                       runs, counted>>
    BY <1>7 DEF Stats!QueryRead, Stats!memory, Stats!tables
  <2>2. ~Stats!Flushing /\ ~Stats!Flushing' /\ Taken' = Taken
    BY <1>c, <2>1 DEF Stats!Flushing
  <2>3. StatsTypes' /\ Stats!NothingLost' /\ Halted'
    <3>1. StatsTypes'
      BY <1>a, <2>1, <2>2 DEF StatsTypes
    <3>2. Stats!NothingLost'
      BY <1>a, <2>1, <2>2 DEF Stats!NothingLost
    <3>3. Halted'
      BY <1>a, <1>c, <2>1, <2>2 DEF Halted
    <3> QED
      BY <3>1, <3>2, <3>3
  <2>4. Viewed'
    BY <2>1 DEF Viewed
  <2> QED
    BY <1>a, <1>c, <2>1, <2>2, <2>3, <2>4
       DEF StatsInv, InLine, Line, BeforeSince, Opened, Took, Resting
<1>8. CASE Stats!QueryCopy
  <2>1. /\ up /\ io = "query" /\ io' = "free"
        /\ UNCHANGED <<now, run, up, flushLoop, stopped, uncommitted, state, offline, batch,
                       hours, intervals,
                       runs, counted>>
    BY <1>8 DEF Stats!QueryCopy, Stats!memory, Stats!tables
  <2>2. ~Stats!Flushing /\ ~Stats!Flushing' /\ Taken' = Taken
    BY <1>c, <2>1 DEF Stats!Flushing
  <2>3. StatsTypes' /\ Stats!NothingLost' /\ Halted'
    <3>1. StatsTypes'
      BY <1>a, <2>1, <2>2 DEF StatsTypes
    <3>2. Stats!NothingLost'
      BY <1>a, <2>1, <2>2 DEF Stats!NothingLost
    <3>3. Halted'
      BY <1>a, <1>c, <2>1, <2>2 DEF Halted
    <3> QED
      BY <3>1, <3>2, <3>3
  <2> QED
    BY <1>a, <1>c, <2>1, <2>2, <2>3
       DEF StatsInv, InLine, Line, BeforeSince, Opened, Took, Resting, Viewed
<1>9. CASE Stats!End
  <2>1. /\ up' = FALSE /\ uncommitted' = 0 /\ offline' = Stats!Empty /\ state' = Stats!Unknown
        /\ stopped' = None /\ io' = "free" /\ counted' = hours
        /\ UNCHANGED <<now, run, flushLoop, hours, intervals, runs>>
    BY <1>9 DEF Stats!End, Stats!tables
  <2>2. /\ ~Stats!Flushing' /\ DOMAIN Taken' = {} /\ DOMAIN offline' = {} /\ Since' = None
        /\ offline' \in [DOMAIN offline' -> Nat]
        /\ state' \in [enabled : BOOLEAN, connected : BOOLEAN, since : Nat \cup {None}]
    BY <1>c, <1>d, <2>1 DEF Stats!Flushing, Since, Stats!Unknown
  <2>3. StatsTypes' /\ Stats!NothingLost' /\ Resting' /\ Halted' /\ Viewed'
    BY <1>a, <2>1, <2>2 DEF StatsTypes, Stats!NothingLost, Resting, Halted, Viewed
  <2> QED
    BY <1>a, <1>c, <2>1, <2>2, <2>3 DEF StatsInv, InLine, Line, BeforeSince, Opened, Took
<1>10. ASSUME NEW e \in BOOLEAN, Stats!New(e) PROVE StatsInv'
  <2> DEFINE t == IF e THEN now + Stats!Grace ELSE None
  <2>1. /\ ~up /\ up' = TRUE /\ flushLoop' = "running" /\ run' = run + 1
        /\ intervals' =
             [k \in DOMAIN intervals |->
                IF intervals[k] # None THEN intervals[k]
                ELSE IF runs[k[1]].stopped # None THEN runs[k[1]].stopped
                ELSE runs[k[1]].alive]
        /\ runs' =
             [r \in 1 .. run + 1 |->
                IF r = run + 1 THEN [alive |-> now, stopped |-> None]
                ELSE IF runs[r].stopped = None
                  THEN [runs[r] EXCEPT !.stopped = runs[r].alive]
                ELSE runs[r]]
        /\ state' = [enabled |-> e, connected |-> FALSE, since |-> t]
        /\ UNCHANGED <<now, stopped, uncommitted, offline, io, batch, view, hours, counted>>
    BY <1>10 DEF Stats!New
  <2>2. /\ Since = None /\ offline = Stats!Empty /\ io = "free" /\ stopped = None
        /\ ~Stats!Flushing /\ ~Stats!Flushing' /\ DOMAIN Taken = {} /\ DOMAIN Taken' = {}
        /\ DOMAIN offline = {} /\ uncommitted = 0 /\ counted = hours
    BY <1>a, <1>c, <1>d, <2>1 DEF Resting, Stats!Flushing
  <2>3. /\ t \in Nat \cup {None} /\ Since' = t /\ (Since' # None => now <= Since')
        /\ state' \in [enabled : BOOLEAN, connected : BOOLEAN, since : Nat \cup {None}]
        /\ state'.enabled = e /\ ~state'.connected
    BY <1>b, <2>1 DEF Since, Stats!Grace
  <2> HIDE DEF t
  <2>4. \A k \in DOMAIN intervals :
          \/ Closed(k) /\ intervals'[k] = intervals[k]
          \/ Open(k) /\ intervals'[k] = runs[run].alive
    <3>1. \A k \in DOMAIN intervals : Open(k) => runs[k[1]].stopped = None /\ k[1] = run
      BY <1>a DEF Opened
    <3> QED
      BY <2>1, <3>1 DEF Open, Closed
  <2>5. DOMAIN intervals' = DOMAIN intervals
    BY <2>1
  <2>6. \A k \in DOMAIN intervals : intervals'[k] \in Nat
    BY <1>b, <1>e, <2>4
  <2>7. StatsTypes'
    <3>1. intervals' \in [DOMAIN intervals' -> Nat \cup {None}]
      BY <2>1, <2>6
    <3>2. DOMAIN intervals' \subseteq (1 .. run + 1) \X Nat
      BY <1>b, <2>5
    <3>3. runs' \in [1 .. run + 1 -> [alive : Nat, stopped : Nat \cup {None}]]
      <4>1. \A r \in 1 .. run + 1 : r = run + 1 \/ r \in 1 .. run
        BY <1>b
      <4>2. \A r \in 1 .. run : runs[r] \in [alive : Nat, stopped : Nat \cup {None}]
        BY <1>a DEF StatsTypes
      <4>3. \A r \in 1 .. run : [runs[r] EXCEPT !.stopped = runs[r].alive] \in
              [alive : Nat, stopped : Nat \cup {None}]
        BY <4>2
      <4>4. [alive |-> now, stopped |-> None] \in [alive : Nat, stopped : Nat \cup {None}]
        BY <1>b
      <4> QED
        BY <2>1, <4>1, <4>2, <4>3, <4>4
    <3>4. run' = run + 1 /\ run' \in Nat
      BY <1>b, <2>1
    <3> QED
      BY <1>a, <2>1, <2>2, <2>3, <3>1, <3>2, <3>3, <3>4 DEF StatsTypes
  <2>8. \A k : ~Open(k)' /\ (Closed(k)' <=> k \in DOMAIN intervals)
    BY <1>b, <2>5, <2>6 DEF Open, Closed
  <2>9. /\ \A k \in DOMAIN intervals : k[2] + 1 <= intervals'[k] /\ intervals'[k] <= now
        /\ \A j, k \in DOMAIN intervals : j # k =>
             intervals'[j] <= k[2] \/ intervals'[k] <= j[2]
    <3>1. \A k \in DOMAIN intervals : k[2] + 1 <= intervals'[k] /\ intervals'[k] <= now
      BY <1>a, <1>e, <2>4 DEF InLine
    <3>2. \A j, k \in DOMAIN intervals : j # k => intervals'[j] <= k[2] \/ intervals'[k] <= j[2]
      BY <1>a, <2>4 DEF InLine, Opened
    <3> QED
      BY <3>1, <3>2
  <2>10. InLine' /\ BeforeSince' /\ Opened'
    <3>1. Since' # None => \A k \in DOMAIN intervals : intervals'[k] <= Since'
      BY <1>b, <2>3, <2>6, <2>9
    <3> QED
      BY <2>1, <2>2, <2>5, <2>8, <2>9, <3>1 DEF InLine, Line, BeforeSince, Opened
  <2>11. Took' /\ Viewed' /\ Halted' /\ Stats!NothingLost'
    BY <1>a, <2>1, <2>2 DEF Took, Viewed, Halted, Stats!NothingLost, StatsTypes
  <2>12. Resting'
    <3>1. run' = run + 1 /\ run + 1 \in 1 .. run + 1 /\ runs'[run + 1].alive = now
      BY <1>b, <2>1
    <3> QED
      BY <1>b, <2>1, <2>3, <3>1 DEF Resting, t
  <2> QED
    BY <2>7, <2>10, <2>11, <2>12 DEF StatsInv
<1>11. CASE Stats!Tick
  <2>1. /\ now' = now + 1
        /\ UNCHANGED <<run, up, flushLoop, stopped, uncommitted, state, offline, io, batch, view,
                       hours,
                       intervals, runs, counted>>
    BY <1>11 DEF Stats!Tick, Stats!memory, Stats!tables
  <2>2. /\ StatsTypes' /\ Stats!NothingLost'
        /\ Stats!Flushing => batch.at \in Nat
        /\ stopped # None => stopped \in Nat
    BY <1>a, <1>c, <2>1 DEF StatsTypes, TookTypes, Stats!NothingLost
  <2>3. InLine' /\ BeforeSince' /\ Opened'
    BY <1>a, <1>b, <1>c, <2>1 DEF InLine, Line, BeforeSince, Opened
  <2>4. Took' /\ Resting' /\ Halted' /\ Viewed'
    BY <1>a, <1>b, <1>c, <2>1, <2>2 DEF Took, Resting, Halted, Viewed
  <2> QED
    BY <2>2, <2>3, <2>4 DEF StatsInv
<1>12. CASE \/ \E e \in BOOLEAN, c \in BOOLEAN : Stats!ObserveAdapters(e, c)
            \/ Stats!ForgetAdapter \/ Stats!ReloadAdapter
  BY <1>12, Observing, ObservedKeeps
<1>13. CASE UNCHANGED Stats!vars
  <2>1. UNCHANGED <<now, run, up, flushLoop, stopped, uncommitted, state, offline, io, batch,
                    view, hours,
                    intervals, runs, counted>>
    BY <1>13 DEF Stats!vars, Stats!memory, Stats!tables
  <2>2. StatsTypes' /\ Stats!NothingLost'
    BY <1>a, <1>c, <2>1 DEF StatsTypes, TookTypes, Stats!NothingLost
  <2> QED
    BY <1>a, <1>c, <2>1, <2>2
       DEF StatsInv, InLine, Line, BeforeSince, Opened, Took, Resting, Halted, Viewed
<1> QED
  BY <1>1, <1>2, <1>3, <1>4, <1>5, <1>6, <1>7, <1>8, <1>9, <1>10, <1>11, <1>12, <1>13
     DEF Stats!Next

\* Whatever is counted, observed and asked while flushes commit, fail or are cut off by a crash:
\* no message is lost or counted twice, a query is exact, and the offline intervals are sound.
THEOREM StatisticsStaySound ==
  ASSUME Stats!MessageAssumption
  PROVE  Stats!Spec => []StatisticsSound
<1>1. Stats!Init => StatsInv
  BY StatsStart
<1>2. StatsInv /\ [Stats!Next]_Stats!vars => StatsInv'
  BY StatsStep
<1>3. StatsInv => StatisticsSound
  BY StatsSound DEF StatisticsSound
<1> QED
  BY <1>1, <1>2, <1>3, PTL DEF Stats!Spec

------------------------------------------------------------------------------
\* The management log: no log is lost without a report, and none is shown twice.

Lines == Logs \cup {Stream!Bad, Stream!Torn}

Writers == [phase : {"taking", "saving", "spooling", "saved", "ended"}, batch : Seq(Logs),
            after : {None, Stream!Mark, "end"}]
Replays == [phase : {"idle", "lines", "rewriting", "ended"}, lines : Seq(Lines), next : Nat]
Flushes == [phase : {"idle", "waiting", "answered", "failed"}, before : SUBSET Logs]

StreamTypes ==
  /\ log \in [Logs -> {"new", "queued", "overflow", "over"}]
  /\ queue \in Seq(Logs \cup {Stream!Mark})
  /\ writer \in Writers
  /\ replay \in Replays
  /\ flush \in Flushes
  /\ spool \in Seq(Lines) /\ shown \in Seq(Logs)

Injective(s) == \A i, j \in 1 .. Len(s) : s[i] = s[j] => i = j
Has(s, y) == \E i \in 1 .. Len(s) : s[i] = y

\* A log is queued while it is in the queue or in the batch, and in one place only.
InOnePlace ==
  /\ Injective(queue) /\ Injective(writer.batch)
  /\ \A l \in Logs : log[l] = "queued" <=> Has(queue, l) \/ Has(writer.batch, l)
  /\ \A l \in Logs : ~(Has(queue, l) /\ Has(writer.batch, l))

\* A log is shown once, when it is over.
ShownOnce ==
  /\ Injective(shown)
  /\ \A l \in Logs : Has(shown, l) => log[l] = "over"

\* What comes behind the mark of a flush is not awaited by it.
After(s, y) == \E m, i \in 1 .. Len(s) : s[m] = Stream!Mark /\ m < i /\ s[i] = y
Awaited ==
  /\ flush.phase = "idle" => writer.after # Stream!Mark
  /\ flush.phase = "idle" \/ writer.after = Stream!Mark => ~Has(queue, Stream!Mark)
  /\ flush.phase # "idle" => \A l \in flush.before : log[l] # "new"
  /\ flush.phase = "waiting" => \A l \in flush.before : ~After(queue, l)
  /\ flush.phase = "waiting" /\ writer.after = Stream!Mark =>
       \A l \in flush.before : ~Has(queue, l)
  /\ flush.phase = "answered" => \A l \in flush.before : log[l] # "queued"

\* Nothing enters a queue that is closed.
Closing ==
  /\ closed <=> closing # "idle"
  /\ closed => \A l \in Logs : log[l] # "overflow"
  /\ writer.after = "end" \/ writer.phase = "ended" => closed /\ queue = <<>>
  /\ writer.phase \in {"saved", "ended"} => writer.batch = <<>>
  /\ closing = "returned" => writer.phase = "ended"

\* The spool goes on where the lines of a replay end, and those that were replayed are saved.
Replayed ==
  replay.phase \in {"lines", "rewriting"} =>
    /\ Len(replay.lines) <= Len(spool) /\ replay.next \in 1 .. Len(replay.lines) + 1
    /\ \A i \in 1 .. Len(replay.lines) : spool[i] \in Logs => replay.lines[i] = spool[i]
    /\ \A i \in 1 .. Len(replay.lines) : i < replay.next /\ replay.lines[i] \in Logs =>
         replay.lines[i] \in table

Stored(l) == l \in table \/ Has(spool, l)
Accounted ==
  /\ \A l \in Logs : Has(shown, l) => Stored(l) \/ l \in garbled
  /\ \A l \in Logs : log[l] = "over" => Stored(l) \/ l \in lost \/ l \in garbled

StreamInv ==
  StreamTypes /\ InOnePlace /\ ShownOnce /\ Awaited /\ Closing /\ Replayed /\ Accounted

\* Cardinality, as the component has it, is that of the library.
LEMMA StreamCardinality == \A S : Stream!Cardinality(S) = Cardinality(S)
  BY Zenon DEF Stream!Cardinality, Cardinality

\* A sequence without repetitions has as many elements as places.
LEMMA InjectiveCounts ==
  ASSUME NEW S, NEW s \in Seq(S), Injective(s)
  PROVE  Stream!Cardinality(Stream!ToSet(s)) = Len(s)
<1> DEFINE n == Len(s)
           T == {s[i] : i \in 1 .. n}
           f == [i \in 1 .. n |-> s[i]]
<1>1. n \in Nat /\ DOMAIN s = 1 .. n /\ Stream!ToSet(s) = T
  BY DEF Stream!ToSet
<1>2. f \in [1 .. n -> T]
  OBVIOUS
<1>3. \A i, j \in DOMAIN f : f[i] = f[j] => i = j
  BY DEF Injective
<1>4. \A t \in T : \E i \in 1 .. n : f[i] = t
  OBVIOUS
<1>5. f \in Bijection(1 .. n, T)
  BY <1>2, <1>3, <1>4 DEF Bijection, Injection, Surjection, IsInjective
<1>6. ExistsBijection(1 .. n, T)
  BY <1>5 DEF ExistsBijection
<1> HIDE DEF T
<1>7. Cardinality(T) = n
  BY <1>1, <1>6, FS_CountingElements
<1> QED
  BY <1>1, <1>7, StreamCardinality

\* The empty sequence has nothing.
LEMMA EmptyHas == Injective(<<>>) /\ \A y : ~Has(<<>>, y)
  BY DEF Injective, Has

\* The elements of a sequence are what it has.
LEMMA SetHas ==
  ASSUME NEW S, NEW s \in Seq(S)
  PROVE  \A y : y \in Stream!ToSet(s) <=> Has(s, y) /\ y \in S
<1>1. DOMAIN s = 1 .. Len(s) /\ \A i \in 1 .. Len(s) : s[i] \in S
  OBVIOUS
<1> QED
  BY <1>1 DEF Stream!ToSet, Has

Grows(s, t, x) ==
  /\ \A y : Has(t, y) <=> Has(s, y) \/ y = x
  /\ Injective(s) /\ ~Has(s, x) => Injective(t)
  /\ \A y : After(t, y) => After(s, y) \/ (y = x /\ Has(s, Stream!Mark))

\* What a sequence has after an entry was put behind it.
LEMMA Growing ==
  ASSUME NEW S, NEW s \in Seq(S), NEW x \in S
  PROVE  Append(s, x) \in Seq(S) /\ Grows(s, Append(s, x), x)
<1> DEFINE n == Len(s)
           t == Append(s, x)
<1>1. /\ n \in Nat /\ t \in Seq(S) /\ Len(t) = n + 1 /\ t[n + 1] = x
      /\ \A i \in 1 .. n : t[i] = s[i]
  OBVIOUS
<1> HIDE DEF t
<1>2. \A i \in 1 .. n + 1 : i = n + 1 \/ i \in 1 .. n
  BY <1>1
<1>3. \A y : Has(t, y) <=> Has(s, y) \/ y = x
  BY <1>1, <1>2 DEF Has
<1>4. Injective(s) /\ ~Has(s, x) => Injective(t)
  BY <1>1, <1>2 DEF Has, Injective
<1>5. ASSUME NEW y, After(t, y) PROVE After(s, y) \/ (y = x /\ Has(s, Stream!Mark))
  <2>1. PICK m \in 1 .. n + 1, i \in 1 .. n + 1 : t[m] = Stream!Mark /\ m < i /\ t[i] = y
    BY <1>1, <1>5 DEF After
  <2>2. m \in 1 .. n /\ s[m] = Stream!Mark
    BY <1>1, <2>1
  <2> QED
    BY <1>1, <1>2, <2>1, <2>2 DEF After, Has
<1> QED
  BY <1>1, <1>3, <1>4, <1>5 DEF Grows, t

Shrinks(s, t, x) ==
  /\ \A y : Has(s, y) <=> Has(t, y) \/ y = x
  /\ Injective(s) => Injective(t) /\ ~Has(t, x)
  /\ \A y : After(t, y) => After(s, y)
  /\ x = Stream!Mark => \A y : Has(t, y) => After(s, y)

\* What a sequence has after its first entry was taken.
LEMMA Shrinking ==
  ASSUME NEW S, NEW s \in Seq(S), s # <<>>
  PROVE  Head(s) \in S /\ Tail(s) \in Seq(S) /\ Shrinks(s, Tail(s), Head(s))
<1> DEFINE n == Len(s)
           t == Tail(s)
           x == Head(s)
<1>1. /\ n \in Nat /\ n >= 1 /\ t \in Seq(S) /\ Len(t) = n - 1 /\ x = s[1] /\ x \in S
      /\ \A i \in 1 .. n - 1 : t[i] = s[i + 1]
  OBVIOUS
<1> HIDE DEF t, x
<1>2. /\ \A i \in 1 .. n : i = 1 \/ i - 1 \in 1 .. n - 1
      /\ \A i \in 1 .. n - 1 : i + 1 \in 1 .. n /\ 1 < i + 1
      /\ 1 \in 1 .. n /\ \A i \in 1 .. n : (i - 1) + 1 = i
  BY <1>1
<1>3. \A i \in 1 .. n : i = 1 \/ s[i] = t[i - 1]
  BY <1>1, <1>2
<1>4. \A y : Has(s, y) <=> Has(t, y) \/ y = x
  <2>1. ASSUME NEW y, Has(s, y) PROVE Has(t, y) \/ y = x
    <3>1. PICK i \in 1 .. n : s[i] = y
      BY <1>1, <2>1 DEF Has
    <3>2. i = 1 \/ (i - 1 \in 1 .. Len(t) /\ t[i - 1] = y)
      BY <1>1, <1>2, <1>3, <3>1
    <3> QED
      BY <1>1, <3>1, <3>2 DEF Has
  <2>2. ASSUME NEW y, Has(t, y) \/ y = x PROVE Has(s, y)
    BY <1>1, <1>2, <2>2 DEF Has
  <2> QED
    BY <2>1, <2>2
<1>5. Injective(s) => Injective(t) /\ ~Has(t, x)
  BY <1>1, <1>2 DEF Has, Injective
<1>6. \A y : After(t, y) => After(s, y)
  <2> SUFFICES ASSUME NEW y, After(t, y) PROVE After(s, y)
    OBVIOUS
  <2>1. PICK m \in 1 .. n - 1, i \in 1 .. n - 1 : t[m] = Stream!Mark /\ m < i /\ t[i] = y
    BY <1>1 DEF After
  <2>2. m + 1 \in 1 .. n /\ i + 1 \in 1 .. n /\ m + 1 < i + 1
    BY <1>1, <2>1
  <2> QED
    BY <1>1, <2>1, <2>2 DEF After
<1>7. x = Stream!Mark => \A y : Has(t, y) => After(s, y)
  BY <1>1, <1>2 DEF Has, After
<1> QED
  BY <1>1, <1>4, <1>5, <1>6, <1>7 DEF Shrinks, t, x

\* What a sequence has that was put behind another one.
LEMMA Joining ==
  ASSUME NEW S, NEW s \in Seq(S), NEW t \in Seq(S)
  PROVE  /\ s \o t \in Seq(S)
         /\ \A y : Has(s \o t, y) <=> Has(s, y) \/ Has(t, y)
         /\ Injective(s) /\ Injective(t) /\ (\A y \in S : ~(Has(s, y) /\ Has(t, y)))
              => Injective(s \o t)
<1> DEFINE n == Len(s)
           k == Len(t)
           u == s \o t
<1>1. /\ n \in Nat /\ k \in Nat /\ u \in Seq(S) /\ Len(u) = n + k
      /\ \A i \in 1 .. n : u[i] = s[i] /\ s[i] \in S
      /\ \A i \in n + 1 .. n + k : u[i] = t[i - n]
  OBVIOUS
<1> HIDE DEF u, n, k
<1>2. /\ \A i \in 1 .. n : i \in 1 .. n + k
      /\ \A j \in 1 .. k : n + j \in n + 1 .. n + k /\ n + j \in 1 .. n + k /\ (n + j) - n = j
      /\ \A i \in 1 .. n + k : i \in 1 .. n \/ (i \in n + 1 .. n + k /\ i - n \in 1 .. k)
  BY <1>1
<1>3. \A j \in 1 .. k : u[n + j] = t[j]
  BY <1>1, <1>2
<1>4. \A y : Has(u, y) <=> Has(s, y) \/ Has(t, y)
  BY <1>1, <1>2, <1>3 DEF Has, n, k
<1>5. ASSUME Injective(s), Injective(t), \A y \in S : ~(Has(s, y) /\ Has(t, y))
      PROVE  Injective(u)
  <2> SUFFICES ASSUME NEW i \in 1 .. n + k, NEW j \in 1 .. n + k, u[i] = u[j] PROVE i = j
    BY <1>1 DEF Injective
  <2>1. CASE i \in 1 .. n /\ j \in 1 .. n
    BY <1>1, <1>5, <2>1 DEF Injective, n
  <2>2. CASE i - n \in 1 .. k /\ j - n \in 1 .. k /\ i \in n + 1 .. n + k /\ j \in n + 1 .. n + k
    <3>1. i - n = j - n
      BY <1>1, <1>5, <2>2 DEF Injective, k
    <3> QED
      BY <1>1, <3>1
  <2>3. CASE i \in 1 .. n /\ j \in n + 1 .. n + k /\ j - n \in 1 .. k
    BY <1>1, <1>5, <2>3 DEF Has, n, k
  <2>4. CASE j \in 1 .. n /\ i \in n + 1 .. n + k /\ i - n \in 1 .. k
    BY <1>1, <1>5, <2>4 DEF Has, n, k
  <2> QED
    BY <1>2, <2>1, <2>2, <2>3, <2>4
<1> QED
  BY <1>1, <1>4, <1>5 DEF u

\* The entries of what comes behind the first r of a sequence.
LEMMA SuffixHas ==
  ASSUME NEW S, NEW s \in Seq(S), NEW r \in Nat, r <= Len(s)
  PROVE  /\ SubSeq(s, r + 1, Len(s)) \in Seq(S) /\ Len(SubSeq(s, r + 1, Len(s))) = Len(s) - r
         /\ \A i \in 1 .. Len(s) - r : SubSeq(s, r + 1, Len(s))[i] = s[r + i]
<1> DEFINE n == Len(s)
           v == SubSeq(s, r + 1, n)
<1>1. n \in Nat
  OBVIOUS
<1>2. CASE r = n
  <2>1. v = <<>>
    BY <1>1, <1>2
  <2> QED
    BY <1>1, <1>2, <2>1
<1>3. CASE r < n
  <2>1. /\ v \in Seq(S) /\ Len(v) = n - r
        /\ \A i \in 1 .. n - r : v[i] = s[((r + 1) + i) - 1]
    BY <1>1, <1>3
  <2> QED
    BY <1>1, <2>1
<1> QED
  BY <1>1, <1>2, <1>3

\* What the invariant says of the logs.
LEMMA StreamSound ==
  ASSUME Stream!LogsAssumption, StreamInv PROVE Stream!LogsKept
<1>a. StreamTypes /\ InOnePlace /\ ShownOnce /\ Awaited /\ Closing /\ Accounted
  BY DEF StreamInv
<1>b. /\ spool \in Seq(Lines) /\ shown \in Seq(Logs) /\ flush.before \subseteq Logs
      /\ log \in [Logs -> {"new", "queued", "overflow", "over"}] /\ Logs \subseteq Lines
  BY <1>a DEF StreamTypes, Flushes, Lines
<1>1. \A l : /\ l \in Stream!ToSet(spool) <=> Has(spool, l) /\ l \in Lines
             /\ l \in Stream!ToSet(shown) <=> Has(shown, l) /\ l \in Logs
  BY <1>b, SetHas
<1>2. \A l \in Logs : Stored(l) <=> l \in Stream!Kept
  BY <1>b, <1>1 DEF Stored, Stream!Kept
<1>3. Stream!ToSet(shown) \subseteq Stream!Kept \cup garbled
  BY <1>a, <1>1, <1>2 DEF Accounted
<1>4. {l \in Logs : log[l] = "over"} \subseteq Stream!Kept \cup lost \cup garbled
  BY <1>a, <1>2 DEF Accounted
<1>5. Stream!Cardinality(Stream!ToSet(shown)) = Len(shown)
  BY <1>a, <1>b, InjectiveCounts DEF ShownOnce
<1>6. closing = "returned" => \A l \in Logs : log[l] \in {"new", "over"}
  BY <1>a, <1>b, EmptyHas DEF Closing, InOnePlace
<1> QED
  BY <1>a, <1>3, <1>4, <1>5, <1>6 DEF Stream!LogsKept, Awaited

\* A spool that another one extends: its logs stay, and nothing but a log changes.
Extends(f) ==
  /\ f \in Seq(Lines) /\ Len(spool) <= Len(f)
  /\ \A i \in 1 .. Len(spool) : spool[i] \in Logs \/ f[i] \in Logs => f[i] = spool[i]

\* What an append leaves, done or failed.
LEMMA Appending ==
  ASSUME Stream!LogsAssumption, spool \in Seq(Lines)
  PROVE  /\ \A l \in Logs : Extends(Stream!Appended(spool, l))
         /\ \A f \in Stream!Failed(spool) : Extends(f)
<1>1. Stream!Bad \notin Logs /\ Stream!Torn \notin Logs /\ Stream!Bad \in Lines /\ Stream!Torn \in Lines
  BY DEF Stream!LogsAssumption, Lines
<1>2. \A x \in Lines : Extends(Append(spool, x))
  BY DEF Extends
<1>3. ASSUME spool # <<>>, Stream!Last(spool) = Stream!Torn, NEW x \in Lines \ Logs
      PROVE  Extends(Append(Stream!Front(spool), x))
  <2> DEFINE n == Len(spool)
             g == Append(Stream!Front(spool), x)
  <2>1. n \in Nat /\ n > 0 /\ spool[n] = Stream!Torn
    BY <1>3 DEF Stream!Last
  <2>2. /\ Stream!Front(spool) \in Seq(Lines) /\ Len(Stream!Front(spool)) = n - 1
        /\ \A i \in 1 .. n - 1 : Stream!Front(spool)[i] = spool[i]
    BY <2>1 DEF Stream!Front
  <2>3. g \in Seq(Lines) /\ Len(g) = n /\ g[n] = x /\ \A i \in 1 .. n - 1 : g[i] = spool[i]
    BY <2>1, <2>2
  <2> QED
    BY <2>1, <2>3, <1>1 DEF Extends
<1>4. Extends(spool)
  BY DEF Extends
<1>5. ASSUME NEW l \in Logs PROVE Extends(Stream!Appended(spool, l))
  BY <1>1, <1>2, <1>3 DEF Stream!Appended, Lines
<1>6. ASSUME NEW f \in Stream!Failed(spool) PROVE Extends(f)
  BY <1>1, <1>2, <1>3, <1>4 DEF Stream!Failed
<1> QED
  BY <1>5, <1>6

\* A spool that is extended keeps what is stored, and goes on where a replay ends.
LEMMA ExtendsKeeps ==
  ASSUME StreamTypes, Extends(spool')
  PROVE  /\ spool' \in Seq(Lines)
         /\ \A l \in Logs : Has(spool, l) => Has(spool, l)'
         /\ Replayed /\ UNCHANGED <<replay, table>> => Replayed'
<1>1. spool \in Seq(Lines) /\ Len(spool) \in Nat /\ Len(spool') \in Nat /\ Len(replay.lines) \in Nat
  BY DEF StreamTypes, Extends, Replays
<1>2. \A l \in Logs : Has(spool, l) => Has(spool, l)'
  BY <1>1 DEF Has, Extends
<1>3. Replayed /\ UNCHANGED <<replay, table>> => Replayed'
  BY <1>1 DEF Replayed, Extends
<1> QED
  BY <1>2, <1>3 DEF Extends

\* What appendToSpool makes of the spool and of what is known of a log.
SpoolTakes(l) ==
  /\ Extends(spool')
  /\ \/ /\ shown' \in Seq(Logs) /\ Grows(shown, shown', l) /\ lost' = lost
        /\ \/ Has(spool', l) /\ garbled' = garbled
           \/ garbled' = garbled \cup {l}
     \/ lost' = lost \cup {l} /\ UNCHANGED <<shown, garbled>>

\* appendToSpool leaves a log in the spool, or reports it lost, or garbles it.
LEMMA SpoolTaking ==
  ASSUME Stream!LogsAssumption, StreamTypes, NEW l \in Logs, Stream!AppendToSpool(l)
  PROVE  SpoolTakes(l)
<1>1. Extends(spool')
  BY Appending DEF Stream!AppendToSpool, StreamTypes
<1>2. spool' = Stream!Appended(spool, l) /\ Stream!Last(spool') = l => Has(spool', l)
  <2>1. spool' \in Seq(Lines) /\ Len(spool') \in Nat
    BY <1>1 DEF Extends
  <2>2. spool' = Stream!Appended(spool, l) => Len(spool') > 0
    <3>1. \A s \in Seq(Lines), x \in Lines \cup {l} : Len(Append(s, x)) = Len(s) + 1 /\ Len(s) \in Nat
      OBVIOUS
    <3>2. spool # <<>> => Stream!Front(spool) \in Seq(Lines)
      BY DEF Stream!Front, StreamTypes
    <3> QED
      BY <3>1, <3>2 DEF StreamTypes, Stream!Appended, Lines
  <2>3. ASSUME spool' = Stream!Appended(spool, l), Stream!Last(spool') = l PROVE Has(spool', l)
    <3>1. Len(spool') \in 1 .. Len(spool') /\ spool'[Len(spool')] = l
      BY <2>1, <2>2, <2>3 DEF Stream!Last
    <3> QED
      BY <3>1 DEF Has
  <2> QED
    BY <2>3
<1>3. Append(shown, l) \in Seq(Logs) /\ Grows(shown, Append(shown, l), l)
  BY Growing DEF StreamTypes
<1> QED
  BY <1>1, <1>2, <1>3 DEF Stream!AppendToSpool, SpoolTakes

\* The invariant holds at the start.
LEMMA StreamInit ==
  ASSUME Stream!LogsAssumption, Stream!Init PROVE StreamInv
<1>1. /\ writer \in Writers /\ writer.batch = <<>> /\ writer.phase = "taking" /\ writer.after = None
      /\ replay \in Replays /\ replay.phase = "idle"
      /\ flush \in Flushes /\ flush.phase = "idle" /\ flush.before = {}
  BY DEF Stream!Init, Stream!IdleWriter, Stream!IdleReplay, Stream!NoFlush, Writers, Replays,
         Flushes
<1>2. queue = <<>> /\ shown = <<>> /\ spool = <<>>
  BY DEF Stream!Init
<1>3. StreamTypes
  BY <1>1, <1>2 DEF Stream!Init, StreamTypes
<1>4. InOnePlace /\ ShownOnce
  BY <1>1, <1>2, EmptyHas DEF Stream!Init, InOnePlace, ShownOnce
<1>5. Awaited /\ Closing
  BY <1>1, <1>2, EmptyHas DEF Stream!Init, Stream!LogsAssumption, Awaited, Closing
<1>6. Replayed /\ Accounted
  BY <1>1, <1>2, EmptyHas DEF Stream!Init, Replayed, Accounted
<1> QED
  BY <1>3, <1>4, <1>5, <1>6 DEF StreamInv

\* Every step keeps the invariant.
LEMMA StreamStep ==
  ASSUME Stream!LogsAssumption, StreamInv, [Stream!Next]_Stream!vars
  PROVE  StreamInv'
<1>a. StreamTypes /\ InOnePlace /\ ShownOnce /\ Awaited /\ Closing /\ Replayed /\ Accounted
  BY DEF StreamInv
<1>p. /\ Injective(<<>>) /\ \A y : ~Has(<<>>, y)
      /\ \A q, y : After(q, y) => Has(q, Stream!Mark)
  BY EmptyHas DEF After, Has
<1>b. /\ log \in [Logs -> {"new", "queued", "overflow", "over"}]
      /\ queue \in Seq(Logs \cup {Stream!Mark}) /\ Len(queue) \in Nat
      /\ writer \in Writers /\ replay \in Replays /\ flush \in Flushes
      /\ spool \in Seq(Lines) /\ Len(spool) \in Nat /\ shown \in Seq(Logs) /\ Len(shown) \in Nat
  BY <1>a DEF StreamTypes
<1>c. /\ writer.batch \in Seq(Logs) /\ Len(writer.batch) \in Nat
      /\ replay.lines \in Seq(Lines) /\ Len(replay.lines) \in Nat /\ replay.next \in Nat
      /\ flush.before \subseteq Logs
      /\ writer.phase \in {"taking", "saving", "spooling", "saved", "ended"}
      /\ writer.after \in {None, Stream!Mark, "end"}
  BY <1>b DEF Writers, Replays, Flushes
<1>d. /\ Stream!Mark \notin Logs /\ Stream!Mark # "end" /\ None # "end" /\ None # Stream!Mark
  BY DEF Stream!LogsAssumption, Stream!Mark
<1>1. ASSUME NEW l \in Logs, Stream!Admit(l)
      PROVE  StreamInv'
  <2>1. /\ log[l] = "new"
        /\ \/ /\ closed /\ log' = [log EXCEPT ![l] = "over"] /\ lost' = lost \cup {l} /\ queue' = queue
           \/ /\ ~closed /\ log' = [log EXCEPT ![l] = "queued"] /\ lost' = lost /\ Grows(queue, queue', l)
           \/ ~closed /\ log' = [log EXCEPT ![l] = "overflow"] /\ lost' = lost /\ queue' = queue
        /\ queue' \in Seq(Logs \cup {Stream!Mark})
        /\ UNCHANGED <<writer, closed, closing, flush, replay, table, spool, shown, garbled>>
    <3>1. Append(queue, l) \in Seq(Logs \cup {Stream!Mark}) /\ Grows(queue, Append(queue, l), l)
      BY <1>b, Growing
    <3> QED
      BY <1>1, <1>b, <3>1 DEF Stream!Admit, Stream!memory, Stream!disk, Stream!history
  <2>2. StreamTypes'
    BY <1>b, <2>1 DEF StreamTypes, Grows
  <2>3. InOnePlace'
    BY <1>a, <1>p, <1>b, <1>d, <2>1 DEF InOnePlace, Awaited, Closing, Grows
  <2>4. ShownOnce'
    BY <1>a, <1>b, <2>1 DEF ShownOnce, InOnePlace, Grows
  <2>5. Awaited'
    BY <1>a, <1>p, <1>b, <1>c, <1>d, <2>1 DEF Awaited, InOnePlace, Closing, Grows
  <2>6. Closing'
    BY <1>a, <1>b, <1>d, <2>1 DEF Closing, InOnePlace, Grows
  <2>7. Replayed'
    BY <1>a, <1>b, <1>c, <2>1 DEF Replayed, Grows
  <2>8. Accounted'
    BY <1>a, <1>b, <1>p, <2>1 DEF Accounted, Stored, Grows
  <2> QED
    BY <2>2, <2>3, <2>4, <2>5, <2>6, <2>7, <2>8 DEF StreamInv
<1>2. ASSUME NEW l \in Logs, Stream!Overflow(l)
      PROVE  StreamInv'
  <2>1. /\ log[l] = "overflow" /\ log' = [log EXCEPT ![l] = "over"] /\ SpoolTakes(l)
        /\ UNCHANGED <<queue, writer, closed, closing, flush, replay, table>>
    BY <1>2, <1>a, SpoolTaking DEF Stream!Overflow, Stream!memory, Stream!disk, Stream!history
  <2>x. /\ spool' \in Seq(Lines) /\ \A k \in Logs : Has(spool, k) => Has(spool, k)'
        /\ Replayed /\ UNCHANGED <<replay, table>> => Replayed'
    BY <1>a, <2>1, ExtendsKeeps DEF SpoolTakes
  <2>2. StreamTypes'
    BY <1>b, <2>1, <2>x DEF StreamTypes, SpoolTakes, Grows
  <2>3. InOnePlace'
    BY <1>a, <1>p, <1>b, <1>d, <2>1 DEF InOnePlace, Awaited, Closing
  <2>4. ShownOnce'
    BY <1>a, <1>b, <2>1 DEF ShownOnce, InOnePlace, SpoolTakes, Grows
  <2>5. Awaited'
    BY <1>a, <1>p, <1>b, <1>c, <1>d, <2>1 DEF Awaited, InOnePlace, Closing
  <2>6. Closing'
    BY <1>a, <1>b, <1>d, <2>1 DEF Closing, InOnePlace
  <2>7. Replayed'
    BY <1>a, <1>b, <1>c, <2>1, <2>x DEF SpoolTakes, SpoolTakes, Grows
  <2>8. Accounted'
    BY <1>a, <1>b, <1>p, <2>1, <2>x DEF Accounted, Stored, SpoolTakes, Grows
  <2> QED
    BY <2>2, <2>3, <2>4, <2>5, <2>6, <2>7, <2>8 DEF StreamInv
<1>3. CASE Stream!Take
  <2>1. /\ writer.phase = "taking" /\ Shrinks(queue, queue', Head(queue)) /\ writer' \in Writers
        /\ queue # <<>> /\ queue' \in Seq(Logs \cup {Stream!Mark})
        /\ \/ /\ Head(queue) = Stream!Mark /\ writer'.batch = writer.batch
              /\ writer'.after = Stream!Mark /\ writer'.phase = "saving"
           \/ /\ Head(queue) \in Logs /\ Grows(writer.batch, writer'.batch, Head(queue))
              /\ writer'.after = writer.after /\ writer'.phase \in {"taking", "saving"}
        /\ UNCHANGED <<log, closed, closing, flush, replay, table, spool, shown, lost, garbled>>
    <3>1. /\ writer.phase = "taking" /\ queue # <<>> /\ queue' = Tail(queue)
          /\ UNCHANGED <<log, closed, closing, flush, replay, table, spool, shown, lost, garbled>>
      BY <1>3 DEF Stream!Take, Stream!memory, Stream!disk, Stream!history
    <3> DEFINE x == Head(queue)
    <3>2. /\ x \in Logs \cup {Stream!Mark} /\ Shrinks(queue, queue', x)
          /\ queue' \in Seq(Logs \cup {Stream!Mark})
      BY <1>b, <3>1, Shrinking
    <3>3. CASE x = Stream!Mark
      <4>1. writer' = [phase |-> "saving", batch |-> writer.batch, after |-> Stream!Mark]
        BY <1>3, <1>b, <3>2, <3>3 DEF Stream!Take, Writers
      <4> QED
        BY <1>c, <3>1, <3>2, <3>3, <4>1 DEF Writers
    <3>4. CASE x \in Logs
      <4>1. PICK ph \in {"taking", "saving"} :
              writer' = [phase |-> ph, batch |-> Append(writer.batch, x), after |-> writer.after]
        BY <1>3, <1>b, <1>d, <3>1, <3>2, <3>4 DEF Stream!Take, Writers
      <4>2. Append(writer.batch, x) \in Seq(Logs) /\ Grows(writer.batch, Append(writer.batch, x), x)
        BY <1>c, <3>4, Growing
      <4>3. writer' \in Writers
        BY <1>c, <4>1, <4>2 DEF Writers
      <4> QED
        BY <3>1, <3>2, <3>4, <4>1, <4>2, <4>3
    <3> QED
      BY <3>2, <3>3, <3>4
  <2>2. StreamTypes'
    BY <1>b, <2>1 DEF StreamTypes, Grows, Shrinks
  <2>3. InOnePlace'
    BY <1>a, <1>p, <1>b, <1>d, <2>1 DEF InOnePlace, Awaited, Closing, Grows, Shrinks
  <2>4. ShownOnce'
    BY <1>a, <1>b, <2>1 DEF ShownOnce, InOnePlace, Grows, Shrinks
  <2>5. Awaited'
    BY <1>a, <1>p, <1>b, <1>c, <1>d, <2>1 DEF Awaited, InOnePlace, Closing, Grows, Shrinks
  <2>6. Closing'
    BY <1>a, <1>b, <1>d, <2>1 DEF Closing, InOnePlace, Grows, Shrinks
  <2>7. Replayed'
    BY <1>a, <1>b, <1>c, <2>1 DEF Replayed, Grows, Shrinks
  <2>8. Accounted'
    BY <1>a, <1>b, <1>p, <2>1 DEF Accounted, Stored, Grows, Shrinks
  <2> QED
    BY <2>2, <2>3, <2>4, <2>5, <2>6, <2>7, <2>8 DEF StreamInv
<1>4. CASE Stream!BatchDelay
  <2>1. /\ writer.phase = "taking" /\ writer' \in Writers /\ writer'.phase = "saving"
        /\ writer'.batch = writer.batch /\ writer'.after = writer.after
        /\ UNCHANGED <<log, queue, closed, closing, flush, replay, table, spool, shown, lost,
                       garbled>>
    BY <1>4, <1>b DEF Stream!BatchDelay, Stream!memory, Stream!disk, Stream!history, Writers
  <2>2. StreamTypes'
    BY <1>b, <2>1 DEF StreamTypes
  <2>3. InOnePlace'
    BY <1>a, <1>p, <1>b, <1>d, <2>1 DEF InOnePlace, Awaited, Closing
  <2>4. ShownOnce'
    BY <1>a, <1>b, <2>1 DEF ShownOnce, InOnePlace
  <2>5. Awaited'
    BY <1>a, <1>p, <1>b, <1>c, <1>d, <2>1 DEF Awaited, InOnePlace, Closing
  <2>6. Closing'
    BY <1>a, <1>b, <1>d, <2>1 DEF Closing, InOnePlace
  <2>7. Replayed'
    BY <1>a, <1>b, <1>c, <2>1 DEF Replayed
  <2>8. Accounted'
    BY <1>a, <1>b, <1>p, <2>1 DEF Accounted, Stored
  <2> QED
    BY <2>2, <2>3, <2>4, <2>5, <2>6, <2>7, <2>8 DEF StreamInv
<1>5. CASE Stream!EndOfQueue
  <2>1. /\ closed /\ queue = <<>> /\ writer.phase = "taking"
        /\ writer' \in Writers /\ writer'.phase = "saving"
        /\ writer'.batch = writer.batch /\ writer'.after = "end"
        /\ UNCHANGED <<log, queue, closed, closing, flush, replay, table, spool, shown, lost,
                       garbled>>
    BY <1>5, <1>b DEF Stream!EndOfQueue, Stream!memory, Stream!disk, Stream!history, Writers
  <2>2. StreamTypes'
    BY <1>b, <2>1 DEF StreamTypes
  <2>3. InOnePlace'
    BY <1>a, <1>p, <1>b, <1>d, <2>1 DEF InOnePlace, Awaited, Closing
  <2>4. ShownOnce'
    BY <1>a, <1>b, <2>1 DEF ShownOnce, InOnePlace
  <2>5. Awaited'
    BY <1>a, <1>p, <1>b, <1>c, <1>d, <2>1 DEF Awaited, InOnePlace, Closing
  <2>6. Closing'
    BY <1>a, <1>b, <1>d, <2>1 DEF Closing, InOnePlace
  <2>7. Replayed'
    BY <1>a, <1>b, <1>c, <2>1 DEF Replayed
  <2>8. Accounted'
    BY <1>a, <1>b, <1>p, <2>1 DEF Accounted, Stored
  <2> QED
    BY <2>2, <2>3, <2>4, <2>5, <2>6, <2>7, <2>8 DEF StreamInv
<1>6. CASE Stream!SaveBatch
  <2>1. /\ writer.phase = "saving" /\ writer' \in Writers /\ writer'.after = writer.after
        /\ \/ /\ \A l \in Logs : l \in table' <=> l \in table \/ Has(writer.batch, l)
              /\ shown' \in Seq(Logs) /\ \A y : Has(shown', y) <=> Has(shown, y) \/ Has(writer.batch, y)
              /\ Injective(shown) /\ Injective(writer.batch)
                   /\ (\A y \in Logs : ~(Has(shown, y) /\ Has(writer.batch, y))) => Injective(shown')
              /\ log' \in [Logs -> {"new", "queued", "overflow", "over"}]
              /\ \A l \in Logs : Has(writer.batch, l) => log'[l] = "over"
              /\ \A l \in Logs : ~Has(writer.batch, l) => log'[l] = log[l]
              /\ writer'.phase = "saved" /\ writer'.batch = <<>>
           \/ /\ writer'.phase = "spooling" /\ writer'.batch = writer.batch
              /\ UNCHANGED <<table, shown, log>>
        /\ UNCHANGED <<queue, closed, closing, flush, replay, spool, lost, garbled>>
    <3>1. /\ writer.phase = "saving"
          /\ UNCHANGED <<queue, closed, closing, flush, replay, spool, lost, garbled>>
          /\ \A l \in Logs : l \in Stream!ToSet(writer.batch) <=> Has(writer.batch, l)
      BY <1>6, <1>c, SetHas DEF Stream!SaveBatch, Stream!memory, Stream!disk, Stream!history
    <3>2. CASE table' = table \cup Stream!ToSet(writer.batch)
               /\ shown' = shown \o writer.batch
               /\ log' = [l \in Logs |-> IF l \in Stream!ToSet(writer.batch) THEN "over" ELSE log[l]]
               /\ writer' = [writer EXCEPT !.phase = "saved", !.batch = <<>>]
      <4>1. /\ shown' \in Seq(Logs) /\ \A y : Has(shown', y) <=> Has(shown, y) \/ Has(writer.batch, y)
            /\ Injective(shown) /\ Injective(writer.batch)
                 /\ (\A y \in Logs : ~(Has(shown, y) /\ Has(writer.batch, y))) => Injective(shown')
        BY <1>b, <1>c, <3>2, Joining
      <4>2. writer' = [phase |-> "saved", batch |-> <<>>, after |-> writer.after]
        BY <1>b, <3>2 DEF Writers
      <4>3. /\ writer' \in Writers /\ writer'.after = writer.after /\ writer'.phase = "saved"
            /\ writer'.batch = <<>>
        BY <1>c, <4>2 DEF Writers
      <4>4. /\ log' \in [Logs -> {"new", "queued", "overflow", "over"}]
            /\ \A l \in Logs : Has(writer.batch, l) => log'[l] = "over"
            /\ \A l \in Logs : ~Has(writer.batch, l) => log'[l] = log[l]
        BY <1>b, <3>1, <3>2
      <4>5. \A l \in Logs : l \in table' <=> l \in table \/ Has(writer.batch, l)
        BY <3>1, <3>2
      <4> QED
        BY <3>1, <4>1, <4>3, <4>4, <4>5
    <3>3. CASE writer' = [writer EXCEPT !.phase = "spooling"] /\ UNCHANGED <<table, shown, log>>
      BY <1>b, <3>1, <3>3 DEF Writers
    <3> QED
      BY <1>6, <3>2, <3>3 DEF Stream!SaveBatch
  <2>2. StreamTypes'
    BY <1>b, <2>1 DEF StreamTypes
  <2>3. InOnePlace'
    BY <1>a, <1>p, <1>b, <1>d, <2>1 DEF InOnePlace, Awaited, Closing
  <2>4. ShownOnce'
    BY <1>a, <1>b, <2>1 DEF ShownOnce, InOnePlace
  <2>5. Awaited'
    BY <1>a, <1>p, <1>b, <1>c, <1>d, <2>1 DEF Awaited, InOnePlace, Closing
  <2>6. Closing'
    BY <1>a, <1>b, <1>d, <2>1 DEF Closing, InOnePlace
  <2>7. Replayed'
    BY <1>a, <1>b, <1>c, <2>1 DEF Replayed
  <2>8. Accounted'
    BY <1>a, <1>b, <1>p, <2>1 DEF Accounted, Stored
  <2> QED
    BY <2>2, <2>3, <2>4, <2>5, <2>6, <2>7, <2>8 DEF StreamInv
<1>7. CASE Stream!SpoolBatch
  <2>1. /\ writer.phase = "spooling" /\ writer' \in Writers /\ writer'.after = writer.after
        /\ \/ /\ writer'.phase = "saved" /\ writer.batch = <<>> /\ writer'.batch = writer.batch
              /\ UNCHANGED <<log, spool, shown, lost, garbled>>
           \/ /\ Head(writer.batch) \in Logs /\ writer'.phase = writer.phase
              /\ Shrinks(writer.batch, writer'.batch, Head(writer.batch))
              /\ log' = [log EXCEPT ![Head(writer.batch)] = "over"] /\ SpoolTakes(Head(writer.batch))
        /\ UNCHANGED <<queue, closed, closing, flush, replay, table>>
    <3>1. /\ writer.phase = "spooling"
          /\ UNCHANGED <<queue, closed, closing, flush, replay, table>>
      BY <1>7 DEF Stream!SpoolBatch, Stream!memory, Stream!disk, Stream!history
    <3>2. CASE writer.batch = <<>>
      BY <1>7, <1>b, <3>1, <3>2
         DEF Stream!SpoolBatch, Stream!memory, Stream!disk, Stream!history, Writers
    <3>3. CASE writer.batch # <<>>
      <4> DEFINE l == Head(writer.batch)
      <4>1. l \in Logs /\ Tail(writer.batch) \in Seq(Logs) /\ Shrinks(writer.batch, Tail(writer.batch), l)
        BY <1>c, <3>3, Shrinking
      <4>2. /\ writer' = [writer EXCEPT !.batch = Tail(writer.batch)] /\ Stream!AppendToSpool(l)
            /\ log' = [log EXCEPT ![l] = "over"]
        BY <1>7, <3>3 DEF Stream!SpoolBatch
      <4>3. SpoolTakes(l)
        BY <1>a, <4>1, <4>2, SpoolTaking
      <4>4. /\ writer' \in Writers /\ writer'.after = writer.after /\ writer'.phase = writer.phase
            /\ writer'.batch = Tail(writer.batch)
        <5>1. writer' = [phase |-> writer.phase, batch |-> Tail(writer.batch), after |-> writer.after]
          BY <1>b, <4>2 DEF Writers
        <5> QED
          BY <1>c, <4>1, <5>1 DEF Writers
      <4> QED
        BY <3>1, <4>1, <4>2, <4>3, <4>4
    <3> QED
      BY <3>2, <3>3
  <2>x. /\ spool' \in Seq(Lines) /\ \A k \in Logs : Has(spool, k) => Has(spool, k)'
        /\ Replayed /\ UNCHANGED <<replay, table>> => Replayed'
    <3>1. CASE UNCHANGED spool
      BY <1>b, <2>1, <3>1 DEF Replayed, Has
    <3>2. CASE Extends(spool')
      BY <1>a, <3>2, ExtendsKeeps
    <3> QED
      BY <2>1, <3>1, <3>2 DEF SpoolTakes
  <2>2. StreamTypes'
    BY <1>b, <2>1, <2>x DEF StreamTypes, Shrinks, SpoolTakes, Grows
  <2>3. InOnePlace'
    BY <1>a, <1>p, <1>b, <1>d, <2>1 DEF InOnePlace, Awaited, Closing, Shrinks
  <2>4. ShownOnce'
    BY <1>a, <1>b, <2>1 DEF ShownOnce, InOnePlace, Shrinks, SpoolTakes, Grows
  <2>5. Awaited'
    BY <1>a, <1>p, <1>b, <1>c, <1>d, <2>1 DEF Awaited, InOnePlace, Closing, Shrinks
  <2>6. Closing'
    BY <1>a, <1>b, <1>d, <2>1 DEF Closing, InOnePlace, Shrinks
  <2>7. Replayed'
    BY <1>a, <1>b, <1>c, <2>1, <2>x DEF SpoolTakes, Shrinks, SpoolTakes, Grows
  <2>8. Accounted'
    <3>1. \A k \in Logs : Stored(k) => Stored(k)'
      BY <2>1, <2>x DEF Stored
    <3>2. CASE UNCHANGED <<log, spool, shown, lost, garbled>>
      BY <1>a, <2>1, <3>2 DEF Accounted, Stored
    <3>3. CASE /\ Head(writer.batch) \in Logs /\ log' = [log EXCEPT ![Head(writer.batch)] = "over"]
               /\ SpoolTakes(Head(writer.batch))
      <4> DEFINE x == Head(writer.batch)
      <4>1. \A k \in Logs : log'[k] = "over" => log[k] = "over" \/ k = x
        BY <1>b, <3>3
      <4>2. /\ \A k \in Logs : Has(shown', k) => Has(shown, k) \/ (k = x /\ shown' # shown)
            /\ lost \subseteq lost' /\ garbled \subseteq garbled'
            /\ \A k \in Logs : k = x =>
                 Stored(k)' \/ k \in garbled' \/ (k \in lost' /\ shown' = shown)
        BY <3>3 DEF SpoolTakes, Grows, Stored
      <4> QED
        BY <1>a, <3>1, <4>1, <4>2 DEF Accounted
    <3> QED
      BY <2>1, <3>2, <3>3
  <2> QED
    BY <2>2, <2>3, <2>4, <2>5, <2>6, <2>7, <2>8 DEF StreamInv
<1>8. CASE Stream!Saved
  <2>1. /\ writer.phase = "saved" /\ writer' \in Writers /\ writer'.batch = <<>> /\ writer'.after = None
        /\ \/ writer'.phase = "taking"
           \/ writer'.phase = "ended" /\ writer.after = "end"
        /\ flush' \in Flushes /\ flush'.before = flush.before
        /\ \/ flush' = flush /\ ~(writer.after = Stream!Mark /\ flush.phase = "waiting")
           \/ writer.after = Stream!Mark /\ flush.phase = "waiting" /\ flush'.phase = "answered"
        /\ UNCHANGED <<log, queue, closed, closing, replay, table, spool, shown, lost, garbled>>
    <3>1. /\ writer.phase = "saved"
          /\ UNCHANGED <<log, queue, closed, closing, replay, table, spool, shown, lost, garbled>>
          /\ writer' = [phase |-> IF writer.after = "end" THEN "ended" ELSE "taking",
                        batch |-> <<>>, after |-> None]
          /\ flush' = IF writer.after = Stream!Mark /\ flush.phase = "waiting"
                      THEN [flush EXCEPT !.phase = "answered"] ELSE flush
      BY <1>8 DEF Stream!Saved, Stream!IdleWriter, Stream!memory, Stream!disk, Stream!history
    <3>2. writer' \in Writers
      BY <3>1 DEF Writers
    <3>3. flush' \in Flushes /\ flush'.before = flush.before
      BY <1>b, <3>1 DEF Flushes
    <3>4. \/ flush' = flush /\ ~(writer.after = Stream!Mark /\ flush.phase = "waiting")
          \/ writer.after = Stream!Mark /\ flush.phase = "waiting" /\ flush'.phase = "answered"
      BY <1>b, <3>1 DEF Flushes
    <3> QED
      BY <3>1, <3>2, <3>3, <3>4
  <2>2. StreamTypes'
    BY <1>b, <2>1 DEF StreamTypes
  <2>3. InOnePlace'
    BY <1>a, <1>p, <1>b, <1>d, <2>1 DEF InOnePlace, Awaited, Closing
  <2>4. ShownOnce'
    BY <1>a, <1>b, <2>1 DEF ShownOnce, InOnePlace
  <2>5. Awaited'
    BY <1>a, <1>p, <1>b, <1>c, <1>d, <2>1 DEF Awaited, InOnePlace, Closing
  <2>6. Closing'
    BY <1>a, <1>b, <1>d, <2>1 DEF Closing, InOnePlace
  <2>7. Replayed'
    BY <1>a, <1>b, <1>c, <2>1 DEF Replayed
  <2>8. Accounted'
    BY <1>a, <1>b, <1>p, <2>1 DEF Accounted, Stored
  <2> QED
    BY <2>2, <2>3, <2>4, <2>5, <2>6, <2>7, <2>8 DEF StreamInv
<1>9. CASE Stream!BeginFlush
  <2>1. /\ flush.phase = "idle" /\ ~closed /\ Grows(queue, queue', Stream!Mark) /\ queue' \in Seq(Logs \cup {Stream!Mark})
        /\ flush' \in Flushes /\ flush'.phase = "waiting"
        /\ flush'.before = {l \in Logs : log[l] # "new"}
        /\ UNCHANGED <<log, writer, closed, closing, replay, table, spool, shown, lost, garbled>>
    <3>1. /\ Append(queue, Stream!Mark) \in Seq(Logs \cup {Stream!Mark})
          /\ Grows(queue, Append(queue, Stream!Mark), Stream!Mark)
      BY <1>b, Growing
    <3> QED
      BY <1>9, <3>1 DEF Stream!BeginFlush, Stream!memory, Stream!disk, Stream!history, Flushes
  <2>2. StreamTypes'
    BY <1>b, <2>1 DEF StreamTypes, Grows
  <2>3. InOnePlace'
    BY <1>a, <1>p, <1>b, <1>d, <2>1 DEF InOnePlace, Awaited, Closing, Grows
  <2>4. ShownOnce'
    BY <1>a, <1>b, <2>1 DEF ShownOnce, InOnePlace, Grows
  <2>5. Awaited'
    BY <1>a, <1>p, <1>b, <1>c, <1>d, <2>1 DEF Awaited, InOnePlace, Closing, Grows
  <2>6. Closing'
    BY <1>a, <1>b, <1>d, <2>1 DEF Closing, InOnePlace, Grows
  <2>7. Replayed'
    BY <1>a, <1>b, <1>c, <2>1 DEF Replayed, Grows
  <2>8. Accounted'
    BY <1>a, <1>b, <1>p, <2>1 DEF Accounted, Stored, Grows
  <2> QED
    BY <2>2, <2>3, <2>4, <2>5, <2>6, <2>7, <2>8 DEF StreamInv
<1>10. CASE Stream!FlushGivesUp
  <2>1. /\ flush.phase = "waiting" /\ flush' \in Flushes /\ flush'.phase = "failed"
        /\ flush'.before = flush.before
        /\ UNCHANGED <<log, queue, writer, closed, closing, replay, table, spool, shown, lost,
                       garbled>>
    BY <1>10, <1>b DEF Stream!FlushGivesUp, Stream!memory, Stream!disk, Stream!history, Flushes
  <2>2. StreamTypes'
    BY <1>b, <2>1 DEF StreamTypes
  <2>3. InOnePlace'
    BY <1>a, <1>p, <1>b, <1>d, <2>1 DEF InOnePlace, Awaited, Closing
  <2>4. ShownOnce'
    BY <1>a, <1>b, <2>1 DEF ShownOnce, InOnePlace
  <2>5. Awaited'
    BY <1>a, <1>p, <1>b, <1>c, <1>d, <2>1 DEF Awaited, InOnePlace, Closing
  <2>6. Closing'
    BY <1>a, <1>b, <1>d, <2>1 DEF Closing, InOnePlace
  <2>7. Replayed'
    BY <1>a, <1>b, <1>c, <2>1 DEF Replayed
  <2>8. Accounted'
    BY <1>a, <1>b, <1>p, <2>1 DEF Accounted, Stored
  <2> QED
    BY <2>2, <2>3, <2>4, <2>5, <2>6, <2>7, <2>8 DEF StreamInv
<1>11. CASE Stream!BeginReplay
  <2>1. /\ replay' \in Replays /\ replay'.phase = "lines" /\ replay'.lines = spool /\ replay'.next = 1
        /\ UNCHANGED <<log, queue, writer, closed, closing, flush, table, spool, shown, lost,
                       garbled>>
    BY <1>11, <1>b DEF Stream!BeginReplay, Stream!memory, Stream!disk, Stream!history, Replays
  <2>2. StreamTypes'
    BY <1>b, <2>1 DEF StreamTypes
  <2>3. InOnePlace'
    BY <1>a, <1>p, <1>b, <1>d, <2>1 DEF InOnePlace, Awaited, Closing
  <2>4. ShownOnce'
    BY <1>a, <1>b, <2>1 DEF ShownOnce, InOnePlace
  <2>5. Awaited'
    BY <1>a, <1>p, <1>b, <1>c, <1>d, <2>1 DEF Awaited, InOnePlace, Closing
  <2>6. Closing'
    BY <1>a, <1>b, <1>d, <2>1 DEF Closing, InOnePlace
  <2>7. Replayed'
    BY <1>a, <1>b, <1>c, <2>1 DEF Replayed
  <2>8. Accounted'
    BY <1>a, <1>b, <1>p, <2>1 DEF Accounted, Stored
  <2> QED
    BY <2>2, <2>3, <2>4, <2>5, <2>6, <2>7, <2>8 DEF StreamInv
<1>12. CASE Stream!ReplayLine
  <2>1. /\ replay.phase = "lines" /\ replay' \in Replays /\ replay'.lines = replay.lines
        /\ table \subseteq table'
        /\ \/ replay'.phase = "rewriting" /\ replay'.next = replay.next
           \/ /\ replay'.phase = "lines" /\ replay'.next = replay.next + 1
              /\ replay.next <= Len(replay.lines)
              /\ replay.lines[replay.next] \in Logs => replay.lines[replay.next] \in table'
        /\ UNCHANGED <<log, queue, writer, closed, closing, flush, spool, shown, lost, garbled>>
    <3>1. /\ replay.phase = "lines"
          /\ UNCHANGED <<log, queue, writer, closed, closing, flush, spool, shown, lost, garbled>>
      BY <1>12 DEF Stream!ReplayLine, Stream!memory, Stream!disk, Stream!history
    <3>2. CASE replay' = [replay EXCEPT !.phase = "rewriting"] /\ UNCHANGED table
      BY <1>b, <3>1, <3>2 DEF Replays
    <3>3. CASE /\ replay.next <= Len(replay.lines) /\ replay' = [replay EXCEPT !.next = replay.next + 1]
               /\ table' = table \cup ({replay.lines[replay.next]} \cap Logs)
      BY <1>b, <1>c, <3>1, <3>3 DEF Replays
    <3> QED
      BY <1>12, <1>c, <3>2, <3>3 DEF Stream!ReplayLine
  <2>2. StreamTypes'
    BY <1>b, <2>1 DEF StreamTypes
  <2>3. InOnePlace'
    BY <1>a, <1>p, <1>b, <1>d, <2>1 DEF InOnePlace, Awaited, Closing
  <2>4. ShownOnce'
    BY <1>a, <1>b, <2>1 DEF ShownOnce, InOnePlace
  <2>5. Awaited'
    BY <1>a, <1>p, <1>b, <1>c, <1>d, <2>1 DEF Awaited, InOnePlace, Closing
  <2>6. Closing'
    BY <1>a, <1>b, <1>d, <2>1 DEF Closing, InOnePlace
  <2>7. Replayed'
    BY <1>a, <1>b, <1>c, <2>1 DEF Replayed
  <2>8. Accounted'
    BY <1>a, <1>b, <1>p, <2>1 DEF Accounted, Stored
  <2> QED
    BY <2>2, <2>3, <2>4, <2>5, <2>6, <2>7, <2>8 DEF StreamInv
<1>13. CASE Stream!Rewrite
  <2>1. /\ replay.phase = "rewriting" /\ replay' \in Replays /\ replay'.phase = "idle"
        /\ spool' \in Seq(Lines) /\ \A l \in Logs : Stored(l) => Stored(l)'
        /\ UNCHANGED <<log, queue, writer, closed, closing, flush, table, shown, lost, garbled>>
    <3>1. /\ replay.phase = "rewriting"
          /\ UNCHANGED <<log, queue, writer, closed, closing, flush, table, shown, lost, garbled>>
          /\ replay' \in Replays /\ replay'.phase = "idle"
      BY <1>13
         DEF Stream!Rewrite, Stream!memory, Stream!disk, Stream!history, Stream!IdleReplay, Replays
    <3> DEFINE r == Len(replay.lines)
               k == replay.next
               n == Len(spool)
               u == SubSeq(replay.lines, k, r)
               v == SubSeq(spool, r + 1, n)
    <3>2. /\ r \in Nat /\ n \in Nat /\ r <= n /\ k \in 1 .. r + 1
          /\ \A i \in 1 .. r : spool[i] \in Logs => replay.lines[i] = spool[i]
          /\ \A i \in 1 .. r : i < k /\ replay.lines[i] \in Logs => replay.lines[i] \in table
      BY <1>a, <1>b, <1>c, <3>1 DEF Replayed
    <3>3. /\ u \in Seq(Lines) /\ Len(u) = (r - k) + 1
          /\ \A i \in 1 .. (r - k) + 1 : u[i] = replay.lines[(k + i) - 1]
      BY <1>c, <3>2
    <3>4. v \in Seq(Lines) /\ Len(v) = n - r /\ \A i \in 1 .. n - r : v[i] = spool[r + i]
      BY <1>b, <3>2, SuffixHas
    <3> HIDE DEF u, v, r, k, n
    <3>5. ASSUME NEW l \in Logs, Has(spool, l) PROVE l \in table \/ Has(u, l) \/ Has(v, l)
      <4>1. PICK i \in 1 .. n : spool[i] = l
        BY <3>5 DEF Has, n
      <4>2. CASE i <= r
        <5>1. replay.lines[i] = l /\ (i < k => l \in table)
          BY <3>2, <4>1, <4>2
        <5>2. i >= k => (i - k) + 1 \in 1 .. Len(u) /\ u[(i - k) + 1] = l
          BY <3>2, <3>3, <4>1, <4>2, <5>1
        <5> QED
          BY <3>2, <4>1, <5>1, <5>2 DEF Has
      <4>3. CASE i > r
        <5>1. i - r \in 1 .. Len(v) /\ v[i - r] = l
          BY <3>2, <3>4, <4>1, <4>3
        <5> QED
          BY <5>1 DEF Has
      <4> QED
        BY <3>2, <4>1, <4>2, <4>3
    <3>6. u \o v \in Seq(Lines) /\ \A y : Has(u \o v, y) <=> Has(u, y) \/ Has(v, y)
      BY <3>3, <3>4, Joining
    <3>7. CASE spool' = Stream!Rewritten(u \o v)
      <4> DEFINE w == u \o v
      <4>1. w \in Seq(Lines) /\ Len(w) \in Nat /\ DOMAIN w = 1 .. Len(w)
        BY <3>6
      <4> HIDE DEF w
      <4>2. /\ spool' = [i \in 1 .. Len(w) |-> IF w[i] = Stream!Torn THEN Stream!Bad ELSE w[i]]
            /\ \A i \in 1 .. Len(w) : w[i] \in Lines
        BY <3>7, <4>1 DEF Stream!Rewritten, w
      <4>3. spool' \in Seq(Lines) /\ Len(spool') = Len(w)
        BY <4>1, <4>2 DEF Lines
      <4>4. \A l \in Logs : Has(w, l) => Has(spool', l)
        BY <4>1, <4>2, <4>3 DEF Has, Stream!LogsAssumption
      <4>5. \A l \in Logs : Stored(l) => Stored(l)'
        BY <3>1, <3>5, <3>6, <4>4 DEF Stored, w
      <4> QED
        BY <3>1, <4>3, <4>5
    <3>8. CASE UNCHANGED spool
      BY <1>b, <3>1, <3>8 DEF Stored
    <3> QED
      BY <1>13, <3>7, <3>8 DEF Stream!Rewrite, u, v, r, k, n
  <2>2. StreamTypes'
    BY <1>b, <2>1 DEF StreamTypes
  <2>3. InOnePlace'
    BY <1>a, <1>p, <1>b, <1>d, <2>1 DEF InOnePlace, Awaited, Closing
  <2>4. ShownOnce'
    BY <1>a, <1>b, <2>1 DEF ShownOnce, InOnePlace
  <2>5. Awaited'
    BY <1>a, <1>p, <1>b, <1>c, <1>d, <2>1 DEF Awaited, InOnePlace, Closing
  <2>6. Closing'
    BY <1>a, <1>b, <1>d, <2>1 DEF Closing, InOnePlace
  <2>7. Replayed'
    BY <1>a, <1>b, <1>c, <2>1 DEF Replayed
  <2>8. Accounted'
    BY <1>a, <1>b, <2>1 DEF Accounted
  <2> QED
    BY <2>2, <2>3, <2>4, <2>5, <2>6, <2>7, <2>8 DEF StreamInv
<1>14. CASE Stream!EndReplays
  <2>1. /\ replay' \in Replays /\ replay'.phase = "ended"
        /\ UNCHANGED <<log, queue, writer, closed, closing, flush, table, spool, shown, lost,
                       garbled>>
    BY <1>14, <1>b DEF Stream!EndReplays, Stream!memory, Stream!disk, Stream!history, Replays
  <2>2. StreamTypes'
    BY <1>b, <2>1 DEF StreamTypes
  <2>3. InOnePlace'
    BY <1>a, <1>p, <1>b, <1>d, <2>1 DEF InOnePlace, Awaited, Closing
  <2>4. ShownOnce'
    BY <1>a, <1>b, <2>1 DEF ShownOnce, InOnePlace
  <2>5. Awaited'
    BY <1>a, <1>p, <1>b, <1>c, <1>d, <2>1 DEF Awaited, InOnePlace, Closing
  <2>6. Closing'
    BY <1>a, <1>b, <1>d, <2>1 DEF Closing, InOnePlace
  <2>7. Replayed'
    BY <1>a, <1>b, <1>c, <2>1 DEF Replayed
  <2>8. Accounted'
    BY <1>a, <1>b, <1>p, <2>1 DEF Accounted, Stored
  <2> QED
    BY <2>2, <2>3, <2>4, <2>5, <2>6, <2>7, <2>8 DEF StreamInv
<1>15. CASE Stream!BeginClose
  <2>1. /\ \A l \in Logs : log[l] # "overflow"
        /\ closing = "idle" /\ closing' = "waiting" /\ closed' = TRUE
        /\ UNCHANGED <<log, queue, writer, flush, replay, table, spool, shown, lost, garbled>>
    BY <1>15 DEF Stream!BeginClose, Stream!memory, Stream!disk, Stream!history
  <2>2. StreamTypes'
    BY <1>b, <2>1 DEF StreamTypes
  <2>3. InOnePlace'
    BY <1>a, <1>p, <1>b, <1>d, <2>1 DEF InOnePlace, Awaited, Closing
  <2>4. ShownOnce'
    BY <1>a, <1>b, <2>1 DEF ShownOnce, InOnePlace
  <2>5. Awaited'
    BY <1>a, <1>p, <1>b, <1>c, <1>d, <2>1 DEF Awaited, InOnePlace, Closing
  <2>6. Closing'
    BY <1>a, <1>b, <1>d, <2>1 DEF Closing, InOnePlace
  <2>7. Replayed'
    BY <1>a, <1>b, <1>c, <2>1 DEF Replayed
  <2>8. Accounted'
    BY <1>a, <1>b, <1>p, <2>1 DEF Accounted, Stored
  <2> QED
    BY <2>2, <2>3, <2>4, <2>5, <2>6, <2>7, <2>8 DEF StreamInv
<1>16. CASE Stream!EndClose
  <2>1. /\ closing = "waiting" /\ writer.phase = "ended" /\ closing' = "returned"
        /\ UNCHANGED <<log, queue, writer, closed, flush, replay, table, spool, shown, lost,
                       garbled>>
    BY <1>16 DEF Stream!EndClose, Stream!memory, Stream!disk, Stream!history
  <2>2. StreamTypes'
    BY <1>b, <2>1 DEF StreamTypes
  <2>3. InOnePlace'
    BY <1>a, <1>p, <1>b, <1>d, <2>1 DEF InOnePlace, Awaited, Closing
  <2>4. ShownOnce'
    BY <1>a, <1>b, <2>1 DEF ShownOnce, InOnePlace
  <2>5. Awaited'
    BY <1>a, <1>p, <1>b, <1>c, <1>d, <2>1 DEF Awaited, InOnePlace, Closing
  <2>6. Closing'
    BY <1>a, <1>b, <1>d, <2>1 DEF Closing, InOnePlace
  <2>7. Replayed'
    BY <1>a, <1>b, <1>c, <2>1 DEF Replayed
  <2>8. Accounted'
    BY <1>a, <1>b, <1>p, <2>1 DEF Accounted, Stored
  <2> QED
    BY <2>2, <2>3, <2>4, <2>5, <2>6, <2>7, <2>8 DEF StreamInv
<1>17. CASE Stream!Restart
  <2>1. /\ lost' = lost \cup {l \in Logs : log[l] \in {"queued", "overflow"}}
        /\ log' = [l \in Logs |-> IF log[l] = "new" THEN "new" ELSE "over"]
        /\ queue' = <<>> /\ writer' \in Writers /\ writer'.batch = <<>>
        /\ writer'.phase = "taking" /\ writer'.after = None
        /\ replay' \in Replays /\ replay'.phase = "idle" /\ flush' \in Flushes /\ flush'.phase = "idle"
        /\ flush'.before = {} /\ closed' = FALSE /\ closing' = "idle" /\ Extends(spool')
        /\ UNCHANGED <<table, shown, garbled>>
    <3>1. /\ lost' = lost \cup {l \in Logs : log[l] \in {"queued", "overflow"}}
          /\ log' = [l \in Logs |-> IF log[l] = "new" THEN "new" ELSE "over"]
          /\ queue' = <<>> /\ writer' = Stream!IdleWriter /\ replay' = Stream!IdleReplay
          /\ flush' = Stream!NoFlush /\ closed' = FALSE /\ closing' = "idle"
          /\ spool' \in Stream!Failed(spool) \cup {spool} /\ UNCHANGED <<table, shown, garbled>>
      BY <1>17 DEF Stream!Restart
    <3>2. Extends(spool')
      <4>1. CASE spool' \in Stream!Failed(spool)
        BY <1>b, <4>1, Appending
      <4>2. CASE spool' = spool
        BY <1>b, <4>2 DEF Extends
      <4> QED
        BY <3>1, <4>1, <4>2
    <3>3. writer' \in Writers /\ replay' \in Replays /\ flush' \in Flushes
      BY <3>1 DEF Stream!IdleWriter, Stream!IdleReplay, Stream!NoFlush, Writers, Replays, Flushes
    <3> QED
      BY <3>1, <3>2, <3>3 DEF Stream!IdleWriter, Stream!IdleReplay, Stream!NoFlush
  <2>x. /\ spool' \in Seq(Lines) /\ \A k \in Logs : Has(spool, k) => Has(spool, k)'
        /\ Replayed /\ UNCHANGED <<replay, table>> => Replayed'
    BY <1>a, <2>1, ExtendsKeeps
  <2>2. StreamTypes'
    BY <1>b, <2>1, <2>x DEF StreamTypes
  <2>3. InOnePlace'
    BY <1>a, <1>p, <1>b, <1>d, <2>1 DEF InOnePlace, Awaited, Closing
  <2>4. ShownOnce'
    BY <1>a, <1>b, <2>1 DEF ShownOnce, InOnePlace
  <2>5. Awaited'
    BY <1>a, <1>p, <1>b, <1>c, <1>d, <2>1 DEF Awaited, InOnePlace, Closing
  <2>6. Closing'
    BY <1>a, <1>b, <1>d, <2>1 DEF Closing, InOnePlace
  <2>7. Replayed'
    BY <1>a, <1>b, <1>c, <2>1, <2>x DEF Replayed
  <2>8. Accounted'
    BY <1>a, <1>b, <1>p, <2>1, <2>x DEF Accounted, Stored
  <2> QED
    BY <2>2, <2>3, <2>4, <2>5, <2>6, <2>7, <2>8 DEF StreamInv
<1>18. CASE UNCHANGED Stream!vars
  <2>1. UNCHANGED <<log, queue, writer, closed, closing, flush, replay, table, spool, shown, lost,
                    garbled>>
    BY <1>18 DEF Stream!vars, Stream!memory, Stream!disk, Stream!history
  <2> QED
    BY <1>a, <2>1
       DEF StreamInv, StreamTypes, InOnePlace, ShownOnce, Awaited, Closing, Replayed, Accounted, Stored
<1> QED
  BY <1>1, <1>2, <1>3, <1>4, <1>5, <1>6, <1>7, <1>8, <1>9, <1>10, <1>11, <1>12, <1>13, <1>14,
     <1>15, <1>16, <1>17, <1>18 DEF Stream!Next, Stream!WriterStep, Stream!ReplayStep

\* However the queue overflows, the database and the spool fail, the spool is replayed while it
\* grows and the server is killed: no log that was shown or admitted is lost or shown twice, but
\* for those that were reported, or written behind a part of another.
THEOREM LogsStayKept ==
  ASSUME Stream!LogsAssumption
  PROVE  Stream!Spec => []LogsKept
<1>1. Stream!Init => StreamInv
  BY StreamInit
<1>2. StreamInv /\ [Stream!Next]_Stream!vars => StreamInv'
  BY StreamStep
<1>3. StreamInv => LogsKept
  BY StreamSound DEF LogsKept
<1> QED
  BY <1>1, <1>2, <1>3, PTL DEF Stream!Spec
==============================================================================
