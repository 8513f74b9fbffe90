---------------------------- MODULE MessageStats ----------------------------
(***************************************************************************)
(* The message statistics (bot/messagestats): the counters in memory, the  *)
(* flush that moves them into the database, the queries that add both up,  *)
(* the offline intervals of an adapter, Stop, and the recovery after a     *)
(* crash.                                                                  *)
(*                                                                         *)
(* One hour and one adapter stand for all: every key has counters of its   *)
(* own, and every adapter intervals of its own.  A unit of time is the 30  *)
(* seconds an interval must last to be recorded; the startup grace is two. *)
(***************************************************************************)
EXTENDS Integers, FiniteSets

CONSTANTS
  MaxTime,     \* bound: units of time in a behaviour
  MaxCounted,  \* bound: messages counted
  MaxRuns,     \* bound: runs of the service
  None

\* None is not a time.
MessageAssumption == None \notin Int

VARIABLES
  now,
  run,       \* the current run: its row in the table of runs
  up,        \* whether the service runs
  loop,      \* the flush goroutine: "running", or "done" after Stop
  stopped,   \* the time of Stop, None before
  pending,   \* messages counted since the last flush
  state,     \* the adapter as observed: [enabled, connected, since]
  offline,   \* intervals that ended since the last flush: start to end
  io,        \* who holds ioMu: "free", "flush", "stop" or "query"
  batch,     \* what the flush under way took
  view,      \* what the query under way has read of the tables
  hours,     \* the table of messages
  intervals, \* the table of offline intervals: [run, start] to its end or None
  runs,      \* the table of runs: [alive, stopped]
  counted    \* every message counted by a run that did not crash after it

memory == <<stopped, pending, state, offline>>
tables == <<hours, intervals, runs>>
vars == <<now, run, up, loop, memory, io, batch, view, tables, counted>>

Grace == 2
Least == 1
Empty == [x \in {} |-> None]

\* The state of an adapter that is not known: that of any other is set before
\* it is read, and one that is disabled is observed like it.
Unknown == [enabled |-> FALSE, connected |-> FALSE, since |-> None]

\* Whether a flush, of the ticker or of Stop, holds ioMu with what it took.
Flushing == io \in {"flush", "stop"}

\* f over g: what f says, and g where f says nothing.
Over(f, g) ==
  [x \in DOMAIN f \cup DOMAIN g |-> IF x \in DOMAIN f THEN f[x] ELSE g[x]]

-----------------------------------------------------------------------------
(* Offline intervals in memory. *)

\* Whether the adapter has been offline for an interval worth recording.
IsOffline == state.since # None /\ now - state.since >= Least

\* endOffline
EndedNow == IF IsOffline THEN Over([s \in {state.since} |-> now], offline)
            ELSE offline

\* openOffline
KnownIntervals ==
  Over(IF IsOffline THEN [s \in {state.since} |-> None] ELSE Empty, offline)

\* What ObserveAdapters makes of an adapter that is in the snapshot.
Observed(enabled, connected) ==
  [enabled |-> enabled, connected |-> connected,
   since |-> IF ~enabled \/ connected THEN None
             ELSE IF ~state.enabled THEN now + Grace
             ELSE IF state.connected THEN now
             ELSE state.since]

ObserveAdapters(enabled, connected) ==
  /\ up /\ stopped = None
  /\ offline' = IF ~enabled \/ connected THEN EndedNow ELSE offline
  /\ state' = Observed(enabled, connected)
  /\ UNCHANGED <<now, run, up, loop, stopped, pending, io, batch, view, tables,
                 counted>>

\* An adapter that is no longer in the snapshot.
ForgetAdapter ==
  /\ up /\ stopped = None
  /\ offline' = EndedNow
  /\ state' = Unknown
  /\ UNCHANGED <<now, run, up, loop, stopped, pending, io, batch, view, tables,
                 counted>>

\* The state ReloadAdapter leaves.
Restarted ==
  [enabled |-> state.enabled, connected |-> FALSE,
   since |-> IF state.enabled THEN now + Grace ELSE None]

ReloadAdapter ==
  /\ up /\ stopped = None
  /\ offline' = EndedNow
  /\ state' = Restarted
  /\ UNCHANGED <<now, run, up, loop, stopped, pending, io, batch, view, tables,
                 counted>>

-----------------------------------------------------------------------------
(* Counting, flushing and Stop. *)

\* count, for a message received or sent.
Count ==
  /\ up /\ stopped = None
  /\ counted < MaxCounted
  /\ pending' = pending + 1
  /\ counted' = counted + 1
  /\ UNCHANGED <<now, run, up, loop, stopped, state, offline, io, batch, view,
                 tables>>

\* What flush takes from the memory under mu.
Batch == [count |-> pending, offline |-> offline, intervals |-> KnownIntervals,
          at |-> now, stopped |-> None]

\* The ticker.
FlushTake ==
  /\ up /\ loop = "running"
  /\ io = "free"
  /\ io' = "flush"
  /\ batch' = Batch
  /\ pending' = 0 /\ offline' = Empty
  /\ UNCHANGED <<now, run, up, loop, stopped, state, view, tables, counted>>

\* The transaction of flush.
FlushCommit ==
  /\ up /\ Flushing
  /\ hours' = hours + batch.count
  /\ intervals' =
       Over([k \in {<<run, s>> : s \in DOMAIN batch.intervals} |->
               batch.intervals[k[2]]], intervals)
  /\ runs' = [runs EXCEPT ![run] = [alive |-> batch.at, stopped |-> batch.stopped]]
  /\ io' = "free" /\ batch' = None
  /\ UNCHANGED <<now, run, up, loop, memory, view, counted>>

\* Mutant: what was counted during the flush is overwritten.
FlushFailMutant ==
  /\ up /\ Flushing
  /\ pending' = batch.count
  /\ offline' = Over(offline, batch.offline)
  /\ io' = "free" /\ batch' = None
  /\ UNCHANGED <<now, run, up, loop, stopped, state, view, tables, counted>>

\* A transaction that fails: its batch goes back to the memory.
FlushFail ==
  /\ up /\ Flushing
  /\ pending' = pending + batch.count
  /\ offline' = Over(offline, batch.offline)
  /\ io' = "free" /\ batch' = None
  /\ UNCHANGED <<now, run, up, loop, stopped, state, view, tables, counted>>

\* Stop, until the goroutine has ended.
StopLoop ==
  /\ up /\ loop = "running"
  /\ io # "flush"
  /\ loop' = "done"
  /\ UNCHANGED <<now, run, up, memory, io, batch, view, tables, counted>>

\* The rest of Stop, up to the transaction of its flush.
StopTake ==
  /\ up /\ loop = "done"
  /\ io = "free"
  /\ io' = "stop"
  /\ stopped' = IF stopped = None THEN now ELSE stopped
  /\ state' = Unknown
  /\ batch' = [count |-> pending, offline |-> EndedNow, intervals |-> EndedNow,
               at |-> stopped', stopped |-> stopped']
  /\ pending' = 0 /\ offline' = Empty
  /\ UNCHANGED <<now, run, up, loop, view, tables, counted>>

-----------------------------------------------------------------------------
(* Queries. *)

\* querySnapshot reads the tables: the intervals of this run that are still
\* open are left to the memory.
QueryRead ==
  /\ up
  /\ io = "free"
  /\ io' = "query"
  /\ view' = [total |-> hours,
              intervals |-> [k \in {k \in DOMAIN intervals :
                                      intervals[k] # None \/ k[1] # run} |->
                               intervals[k]]]
  /\ UNCHANGED <<now, run, up, loop, memory, batch, tables, counted>>

\* The answer, when the memory is copied now.
Answer ==
  [total |-> view.total + pending,
   intervals |-> Over([k \in {<<run, s>> : s \in DOMAIN KnownIntervals} |->
                         KnownIntervals[k[2]]], view.intervals)]

QueryCopy ==
  /\ up
  /\ io = "query"
  /\ io' = "free" /\ view' = None
  /\ UNCHANGED <<now, run, up, loop, memory, batch, tables, counted>>

-----------------------------------------------------------------------------
(* The process ends, by a crash or after Stop, and another one starts. *)

End ==
  /\ up
  /\ up' = FALSE
  /\ pending' = 0 /\ offline' = Empty /\ state' = Unknown /\ stopped' = None
  /\ io' = "free" /\ batch' = None /\ view' = None
  /\ counted' = hours
  /\ UNCHANGED <<now, run, loop, tables>>

\* New: RecoverMessageStatsOffline, RecoverMessageStatsRuns and
\* StartMessageStatsRun in one transaction, then the configured adapter.
New(enabled) ==
  /\ ~up
  /\ run < MaxRuns
  /\ up' = TRUE /\ loop' = "running"
  /\ intervals' =
       [k \in DOMAIN intervals |->
          IF intervals[k] # None THEN intervals[k]
          ELSE IF runs[k[1]].stopped # None THEN runs[k[1]].stopped
          ELSE runs[k[1]].alive]
  /\ runs' =
       [r \in 1 .. run + 1 |->
          IF r = run + 1 THEN [alive |-> now, stopped |-> None]
          ELSE IF runs[r].stopped = None
            THEN [runs[r] EXCEPT !.stopped = runs[r].alive]
          ELSE runs[r]]
  /\ run' = run + 1
  /\ state' = [enabled |-> enabled, connected |-> FALSE,
               since |-> IF enabled THEN now + Grace ELSE None]
  /\ UNCHANGED <<now, stopped, pending, offline, io, batch, view, hours, counted>>

Tick ==
  /\ now < MaxTime
  /\ now' = now + 1
  /\ UNCHANGED <<run, up, loop, memory, io, batch, view, tables, counted>>

Init ==
  /\ now = 0 /\ run = 0 /\ up = FALSE /\ loop = "done"
  /\ stopped = None /\ pending = 0 /\ state = Unknown /\ offline = Empty
  /\ io = "free" /\ batch = None /\ view = None
  /\ hours = 0 /\ intervals = Empty /\ runs = Empty /\ counted = 0

Next ==
  \/ \E e \in BOOLEAN, c \in BOOLEAN : ObserveAdapters(e, c)
  \/ ForgetAdapter \/ ReloadAdapter
  \/ Count
  \/ FlushTake \/ FlushCommit \/ FlushFail \/ StopLoop \/ StopTake
  \/ QueryRead \/ QueryCopy
  \/ End \/ \E e \in BOOLEAN : New(e)
  \/ Tick

Spec == Init /\ [][Next]_vars

-----------------------------------------------------------------------------
(* Properties. *)

\* No message is lost or counted twice: the table, the batch of a flush and
\* the memory add up to what was counted, whether the flush commits, fails,
\* or meets messages that arrive while it runs.
NothingLost ==
  up => hours + pending + (IF Flushing THEN batch.count ELSE 0) = counted

\* Every offline interval known; the end None is now.
Recorded ==
  Over([k \in {<<run, s>> : s \in DOMAIN KnownIntervals} |->
          KnownIntervals[k[2]]],
       Over(IF Flushing
            THEN [k \in {<<run, s>> : s \in DOMAIN batch.offline} |->
                    batch.offline[k[2]]]
            ELSE Empty, intervals))

EndOf(k) == IF Recorded[k] = None THEN now ELSE Recorded[k]

\* The offline intervals are sound: each lasted long enough, no two overlap,
\* and only the one the adapter is in is open while the service runs, though
\* it was saved as open before the adapter was reloaded, removed, switched
\* off or connected, or before a crash.
IntervalsSound ==
  /\ \A k \in DOMAIN Recorded : EndOf(k) - k[2] >= Least
  /\ \A j, k \in DOMAIN Recorded :
       j # k => EndOf(j) <= k[2] \/ EndOf(k) <= j[2]
  /\ up => \A k \in DOMAIN Recorded :
             Recorded[k] = None => k = <<run, state.since>>

\* A query, which reads the tables and the memory one after the other, sees
\* them at one boundary of a flush, though messages arrive and intervals end
\* meanwhile: its total is exact and its intervals are those recorded.
QueryExact ==
  io = "query" => Answer = [total |-> counted, intervals |-> Recorded]

StatisticsSound == NothingLost /\ QueryExact /\ IntervalsSound

=============================================================================
