----------------------------- MODULE LogStream -----------------------------
(***************************************************************************)
(* The management log (logging.Stream and SpoolQueue): logs are put into a *)
(* bounded queue, written to the database in batches and then shown; what  *)
(* finds the queue full or cannot be written goes to the spool file, which *)
(* is replayed to the database beside all that.  The server may be killed  *)
(* at any moment and started again on the same files.                      *)
(*                                                                         *)
(* To write to the database, to append to the spool, to rewrite it and to  *)
(* put a line aside may fail.  An append that fails, or is cut off by a    *)
(* kill, may leave the first part of its line without the line break.      *)
(***************************************************************************)
EXTENDS Naturals, Sequences, SequencesExt, FiniteSets

CONSTANTS
  Logs,          \* log summaries; each is appended once
  QueueCapacity, \* writeQueueCapacity
  BatchSize,     \* writeBatchSize
  MaxKills,      \* bound: kills of the server
  None

VARIABLES
  log,       \* of each log: "new", "queued", "overflow" or "over"
  queue,     \* writeQueue, of logs and of marks of Flush
  writer,    \* writeLoop: [phase, batch, after]
  replay,    \* the replay of the spool: [phase, lines, next]
  closed,    \* Append and Flush are refused, the queue is closed
  closing,   \* Close: "idle", "waiting" or "returned"
  flush,     \* a call of Flush: [phase, before]
  kills,
  table,     \* the rows of management_logs
  spool,     \* the lines of the spool file
  shown,     \* history: what was published, in this order
  lost,      \* history: logs whose loss was reported, that came too late, or
             \* that were in the memory of a killed server
  garbled    \* history: logs whose line was written behind a part of one

memory == <<log, queue, writer, closed, closing, flush>>
disk == <<table, spool>>
history == <<shown, lost, garbled>>
vars == <<memory, replay, kills, disk, history>>

\* A line that cannot be decoded, and the start of one.
Bad == "bad"
Torn == "torn"

Mark == "flush"

\* No log is one of them, and None is no end of a batch.
LogsAssumption ==
  /\ Logs \cap {Bad, Torn, Mark} = {}
  /\ None \notin {Mark, "end"}

IdleWriter == [phase |-> "taking", batch |-> <<>>, after |-> None]
IdleReplay == [phase |-> "idle", lines |-> <<>>, next |-> 1]
NoFlush == [phase |-> "idle", before |-> {}]

-----------------------------------------------------------------------------
(* SpoolQueue. *)

\* Append writes a line at the end of the file, behind whatever is there.
Appended(file, l) ==
  IF file # <<>> /\ Last(file) = Torn
  THEN Append(Front(file), Bad)
  ELSE Append(file, l)

\* What an append leaves that does not succeed.
Failed(file) ==
  {file, Append(IF file # <<>> /\ Last(file) = Torn THEN Front(file) ELSE file,
                Torn)}

\* rewrite ends every line.
Rewritten(lines) == [i \in DOMAIN lines |-> IF lines[i] = Torn THEN Bad ELSE lines[i]]

\* appendToSpool: the log is published when it is in the spool.
AppendToSpool(l) ==
  \/ /\ spool' = Appended(spool, l)
     /\ shown' = Append(shown, l)
     /\ garbled' = IF Last(spool') = l THEN garbled ELSE garbled \cup {l}
     /\ UNCHANGED lost
  \/ /\ spool' \in Failed(spool)
     /\ lost' = lost \cup {l}
     /\ UNCHANGED <<shown, garbled>>

-----------------------------------------------------------------------------
(* Append. *)

Admit(l) ==
  /\ log[l] = "new"
  /\ IF closed
     THEN /\ log' = [log EXCEPT ![l] = "over"]
          /\ lost' = lost \cup {l}
          /\ UNCHANGED queue
     ELSE /\ IF Len(queue) < QueueCapacity
             THEN /\ queue' = Append(queue, l)
                  /\ log' = [log EXCEPT ![l] = "queued"]
             ELSE /\ log' = [log EXCEPT ![l] = "overflow"]
                  /\ UNCHANGED queue
          /\ UNCHANGED lost
  /\ UNCHANGED <<writer, closed, closing, flush, replay, kills, disk, shown,
                 garbled>>

Overflow(l) ==
  /\ log[l] = "overflow"
  /\ log' = [log EXCEPT ![l] = "over"]
  /\ AppendToSpool(l)
  /\ UNCHANGED <<queue, writer, closed, closing, flush, replay, kills, table>>

-----------------------------------------------------------------------------
(* writeLoop. *)

\* The select: a log joins the batch, which is written when it is full; a
\* mark has the batch written first; so has the end of the queue.
Take ==
  /\ writer.phase = "taking"
  /\ queue # <<>>
  /\ LET head == Head(queue)
         batch == Append(writer.batch, head) IN
     writer' = IF head = Mark THEN [writer EXCEPT !.phase = "saving", !.after = Mark]
               ELSE [writer EXCEPT !.batch = batch,
                       !.phase = IF Len(batch) = BatchSize THEN "saving" ELSE "taking"]
  /\ queue' = Tail(queue)
  /\ UNCHANGED <<log, closed, closing, flush, replay, kills, disk, history>>

BatchDelay ==
  /\ writer.phase = "taking"
  /\ writer.batch # <<>>
  /\ writer' = [writer EXCEPT !.phase = "saving"]
  /\ UNCHANGED <<log, queue, closed, closing, flush, replay, kills, disk, history>>

EndOfQueue ==
  /\ writer.phase = "taking"
  /\ closed /\ queue = <<>>
  /\ writer' = [writer EXCEPT !.phase = "saving", !.after = "end"]
  /\ UNCHANGED <<log, queue, closed, closing, flush, replay, kills, disk, history>>

\* saveBatch: the transaction commits and all is shown, or everything goes
\* to the spool, one log after the other.
SaveBatch ==
  /\ writer.phase = "saving"
  /\ \/ /\ table' = table \cup ToSet(writer.batch)
        /\ shown' = shown \o writer.batch
        /\ log' = [l \in Logs |-> IF l \in ToSet(writer.batch) THEN "over" ELSE log[l]]
        /\ writer' = [writer EXCEPT !.phase = "saved", !.batch = <<>>]
     \/ /\ writer' = [writer EXCEPT !.phase = "spooling"]
        /\ UNCHANGED <<table, shown, log>>
  /\ UNCHANGED <<queue, closed, closing, flush, replay, kills, spool, lost,
                 garbled>>

SpoolBatch ==
  /\ writer.phase = "spooling"
  /\ IF writer.batch = <<>>
     THEN /\ writer' = [writer EXCEPT !.phase = "saved"]
          /\ UNCHANGED <<log, spool, history>>
     ELSE LET l == Head(writer.batch) IN
          /\ writer' = [writer EXCEPT !.batch = Tail(@)]
          /\ log' = [log EXCEPT ![l] = "over"]
          /\ AppendToSpool(l)
  /\ UNCHANGED <<queue, closed, closing, flush, replay, kills, table>>

\* The mark is answered, or the loop ends.
Saved ==
  /\ writer.phase = "saved"
  /\ writer' = [IdleWriter EXCEPT !.phase = IF writer.after = "end" THEN "ended" ELSE "taking"]
  /\ flush' = IF writer.after = Mark /\ flush.phase = "waiting"
              THEN [flush EXCEPT !.phase = "answered"] ELSE flush
  /\ UNCHANGED <<log, queue, closed, closing, replay, kills, disk, history>>

-----------------------------------------------------------------------------
(* Flush. *)

BeginFlush ==
  /\ flush.phase = "idle"
  /\ ~closed
  /\ Len(queue) < QueueCapacity
  /\ queue' = Append(queue, Mark)
  /\ flush' = [phase |-> "waiting", before |-> {l \in Logs : log[l] # "new"}]
  /\ UNCHANGED <<log, writer, closed, closing, replay, kills, disk, history>>

\* Its context is done.
FlushGivesUp ==
  /\ flush.phase = "waiting"
  /\ flush' = [flush EXCEPT !.phase = "failed"]
  /\ UNCHANGED <<log, queue, writer, closed, closing, replay, kills, disk, history>>

-----------------------------------------------------------------------------
(* The replay of the spool: flushLoop, or FlushSpool at the start.  Only one *)
(* at a time has flushMu; the file itself is locked while it is read and     *)
(* while it is rewritten.                                                    *)

\* Close is noticed by a select that may as well choose another replay.
BeginReplay ==
  /\ replay.phase = "idle"
  /\ spool # <<>>
  /\ replay' = [phase |-> "lines", lines |-> spool, next |-> 1]
  /\ UNCHANGED <<memory, kills, disk, history>>

\* Each line is written to the table, where a second one of a log changes
\* nothing, or put aside when it cannot be decoded; a failure, or the end of
\* the context, ends the replay.
ReplayLine ==
  /\ replay.phase = "lines"
  /\ IF replay.next > Len(replay.lines)
     THEN /\ replay' = [replay EXCEPT !.phase = "rewriting"]
          /\ UNCHANGED table
     ELSE LET line == replay.lines[replay.next] IN
          \/ /\ replay' = [replay EXCEPT !.next = @ + 1]
             /\ table' = table \cup ({line} \cap Logs)
          \/ /\ replay' = [replay EXCEPT !.phase = "rewriting"]
             /\ UNCHANGED table
  /\ UNCHANGED <<memory, kills, spool, history>>

\* Mutant: the file is written as it was read, without what came since.
RewriteMutant ==
  /\ replay.phase = "rewriting"
  /\ spool' = Rewritten(SubSeq(replay.lines, replay.next, Len(replay.lines)))
  /\ replay' = IdleReplay
  /\ UNCHANGED <<memory, kills, table, history>>

\* What is left of the lines that were read, and the lines after as many as
\* were read.
Rewrite ==
  LET read == Len(replay.lines) IN
  /\ replay.phase = "rewriting"
  /\ \/ spool' = Rewritten(SubSeq(replay.lines, replay.next, read)
                           \o SubSeq(spool, read + 1, Len(spool)))
     \/ UNCHANGED spool
  /\ replay' = IdleReplay
  /\ UNCHANGED <<memory, kills, table, history>>

EndReplays ==
  /\ replay.phase = "idle"
  /\ closed
  /\ replay' = [replay EXCEPT !.phase = "ended"]
  /\ UNCHANGED <<memory, kills, disk, history>>

-----------------------------------------------------------------------------
(* Close, and the end of the process. *)

\* Close gets the admission lock when no Append is under way.
BeginClose ==
  /\ closing = "idle"
  /\ \A l \in Logs : log[l] # "overflow"
  /\ closing' = "waiting"
  /\ closed' = TRUE
  /\ UNCHANGED <<log, queue, writer, flush, replay, kills, disk, history>>

EndClose ==
  /\ closing = "waiting"
  /\ writer.phase = "ended"
  /\ replay.phase = "ended"
  /\ closing' = "returned"
  /\ UNCHANGED <<log, queue, writer, closed, flush, replay, kills, disk, history>>

\* The server ends, or is killed, and starts again on its files.
Restart ==
  /\ kills < MaxKills
  /\ kills' = kills + 1
  /\ lost' = lost \cup {l \in Logs : log[l] \in {"queued", "overflow"}}
  /\ log' = [l \in Logs |-> IF log[l] = "new" THEN "new" ELSE "over"]
  /\ queue' = <<>> /\ writer' = IdleWriter /\ replay' = IdleReplay
  /\ closed' = FALSE /\ closing' = "idle" /\ flush' = NoFlush
  /\ spool' \in IF writer.phase = "spooling" \/ \E l \in Logs : log[l] = "overflow"
               THEN Failed(spool) ELSE {spool}
  /\ UNCHANGED <<table, shown, garbled>>

-----------------------------------------------------------------------------
Init ==
  /\ log = [l \in Logs |-> "new"]
  /\ queue = <<>> /\ writer = IdleWriter /\ replay = IdleReplay
  /\ closed = FALSE /\ closing = "idle" /\ flush = NoFlush
  /\ kills = 0 /\ table = {}
  /\ spool = <<>>
  /\ shown = <<>> /\ lost = {} /\ garbled = {}

WriterStep ==
  \/ Take \/ BatchDelay \/ EndOfQueue
  \/ SaveBatch \/ SpoolBatch \/ Saved

ReplayStep == ReplayLine \/ Rewrite

Next ==
  \/ \E l \in Logs : Admit(l) \/ Overflow(l)
  \/ WriterStep
  \/ BeginFlush \/ FlushGivesUp
  \/ BeginReplay \/ ReplayStep \/ EndReplays
  \/ BeginClose \/ EndClose \/ Restart

\* Each goroutine goes on beside the others; the select of flushLoop does not
\* choose another replay for ever.
Spec ==
  /\ Init /\ [][Next]_vars
  /\ WF_vars(WriterStep) /\ WF_vars(ReplayStep) /\ SF_vars(EndReplays)
  /\ WF_vars(EndClose)
  /\ \A l \in Logs : WF_vars(Overflow(l))

-----------------------------------------------------------------------------
(* Properties. *)

\* In the table or in the spool, in a line that can be decoded.
Kept == table \cup (ToSet(spool) \cap Logs)

\* Nothing is lost: what was shown is kept, over kills and replays, and shown
\* once, though it is written again after a kill; what was admitted is kept
\* too, unless its loss was reported or it was in the memory of a killed
\* server; and Flush that succeeds, and Close, leave nothing of what came
\* before in the memory.  The exception is a log whose line was written
\* behind a part of another.
LogsKept ==
  /\ ToSet(shown) \subseteq Kept \cup garbled
  /\ Cardinality(ToSet(shown)) = Len(shown)
  /\ {l \in Logs : log[l] = "over"} \subseteq Kept \cup lost \cup garbled
  /\ flush.phase = "answered" => \A l \in flush.before : log[l] # "queued"
  /\ closing = "returned" => \A l \in Logs : log[l] \in {"new", "over"}

\* What was admitted gets out of the memory, Flush is answered, and Close
\* returns.
LogsSettle ==
  /\ \A l \in Logs : log[l] \in {"new", "over"}
  /\ flush.phase # "waiting"
  /\ closing # "waiting"

=============================================================================
