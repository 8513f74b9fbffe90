--------------------------- MODULE WindowLimiter ---------------------------
(***************************************************************************)
(* The limiter of outbound messages (bot/pipeline/outbound/                *)
(* window_limiter.go), for one target.  A message is admitted when fewer   *)
(* than limit.count messages were admitted within the last limit.window;   *)
(* otherwise its caller joins a queue and sleeps until the oldest record   *)
(* leaves the window, the limit changes or its context ends.  The head of  *)
(* the queue is told that it is its turn by closing its channel `ready`.   *)
(* Every critical section of windowLimiter.mu is one action.  The targets  *)
(* share only the mutex and the limit.                                     *)
(*                                                                         *)
(* Time is relative: a record is its age, a timer the time it has left.    *)
(* Ages stop one unit above the longest window, where every record is      *)
(* expired.  The entry of a target that the map lacks is an empty one.     *)
(***************************************************************************)
EXTENDS Naturals, Sequences, SequencesExt

CONSTANTS
  Callers,    \* goroutines that call Wait, again and again
  Limits,     \* the limits the configuration may set, [count, window]
  MaxWindow   \* the longest window in Limits

VARIABLES
  limit,      \* windowLimiter.limit
  queue,      \* windowState.queue
  records,    \* windowState.records, the oldest first
  closed,     \* how often windowWaiter.ready was closed, of each caller
  pc,         \* where each caller is in Wait
  left,       \* what is left on the timer of each sleeping caller
  cancelled,  \* the callers whose context is done
  used        \* history: admissions inside every window since they were made

\* A window of the configuration is positive (config.ParseRateLimit).
LimiterAssumption ==
  MaxWindow \in Nat /\ Limits \subseteq [count : Nat, window : 1 .. MaxWindow]

vars == <<limit, queue, records, closed, pc, left, cancelled, used>>

Positions == {"idle", "queued", "turn", "sleeping", "leaving"}

Waiting == {c \in Callers : pc[c] # "idle"}

Init ==
  /\ limit \in Limits
  /\ queue = <<>>
  /\ records = <<>>
  /\ closed = [c \in Callers |-> 0]
  /\ pc = [c \in Callers |-> "idle"]
  /\ left = [c \in Callers |-> 0]
  /\ cancelled = {}
  /\ used = <<>>

\* The records before the first that counts are dropped; one exactly as old
\* as the window still counts.
Within(ages, window) ==
  LET first == SelectInSeq(ages, LAMBDA age : age <= window) IN
  IF first = 0 THEN <<>> ELSE SubSeq(ages, first, Len(ages))

Prune(ages) == Within(ages, limit.window)

HasRoom == Len(Prune(records)) < limit.count

\* The record of an admission is made with the check that allows it.
Admit ==
  /\ HasRoom
  /\ records' = Append(Prune(records), 0)
  /\ used' = Append(used, 0)

Returns(c) ==
  /\ pc' = [pc EXCEPT ![c] = "idle"]
  /\ cancelled' = cancelled \ {c}

-----------------------------------------------------------------------------
(* Wait and TryReserve. *)

\* A context that is done on entry.
WaitRefused(c) ==
  /\ pc[c] = "idle"
  /\ c \in cancelled
  /\ Returns(c)
  /\ UNCHANGED <<limit, queue, records, closed, left, used>>

Reserve(c) ==
  /\ pc[c] = "idle"
  /\ c \notin cancelled
  /\ queue = <<>>
  /\ Admit
  /\ UNCHANGED <<limit, queue, closed, pc, left, cancelled>>

\* Without room, or behind others.  The first of an empty queue has its
\* turn at once.
Enqueue(c) ==
  /\ pc[c] = "idle"
  /\ c \notin cancelled
  /\ queue # <<>> \/ ~HasRoom
  /\ queue' = Append(queue, c)
  /\ records' = IF queue = <<>> THEN Prune(records) ELSE records
  /\ closed' = [closed EXCEPT ![c] = IF queue = <<>> THEN 1 ELSE 0]
  /\ pc' = [pc EXCEPT ![c] = "queued"]
  /\ UNCHANGED <<limit, left, cancelled, used>>

\* TryReserve of a notice that must not wait.
TryReserve ==
  /\ queue = <<>>
  /\ Admit
  /\ UNCHANGED <<limit, queue, closed, pc, left, cancelled>>

\* <-waiter.ready
TakeTurn(c) ==
  /\ pc[c] = "queued"
  /\ closed[c] > 0
  /\ pc' = [pc EXCEPT ![c] = "turn"]
  /\ UNCHANGED <<limit, queue, records, closed, left, cancelled, used>>

IsHead(c) == queue # <<>> /\ Head(queue) = c

\* The close of the channel of the caller that is now first.
TurnOf(q) ==
  [c \in Callers |-> IF q # <<>> /\ Head(q) = c THEN closed[c] + 1 ELSE closed[c]]

\* Mutant: popHead does not tell the next caller.
ReserveTurnMutant(c) ==
  /\ pc[c] = "turn"
  /\ c \notin cancelled
  /\ IsHead(c)
  /\ Admit
  /\ queue' = Tail(queue)
  /\ Returns(c)
  /\ UNCHANGED <<limit, closed, left>>

\* tryReserve admits the head, and popHead passes the turn on.
ReserveTurn(c) ==
  /\ pc[c] = "turn"
  /\ c \notin cancelled
  /\ IsHead(c)
  /\ Admit
  /\ queue' = Tail(queue)
  /\ closed' = TurnOf(Tail(queue))
  /\ Returns(c)
  /\ UNCHANGED <<limit, left>>

\* How long a caller sleeps: until the oldest record expires, and never
\* less than a moment; also who is not the head looks again in a moment.
Delay(c) ==
  IF IsHead(c) /\ limit.window > Prune(records)[1]
  THEN limit.window - Prune(records)[1] ELSE 1

\* tryReserve finds no room.  The channel `updated` of this moment is
\* returned with the delay.
Sleep(c) ==
  /\ pc[c] = "turn"
  /\ c \notin cancelled
  /\ ~(IsHead(c) /\ HasRoom)
  /\ records' = IF IsHead(c) THEN Prune(records) ELSE records
  /\ left' = [left EXCEPT ![c] = Delay(c)]
  /\ pc' = [pc EXCEPT ![c] = "sleeping"]
  /\ UNCHANGED <<limit, queue, closed, cancelled, used>>

\* <-timer.C
Wake(c) ==
  /\ pc[c] = "sleeping"
  /\ left[c] = 0
  /\ pc' = [pc EXCEPT ![c] = "turn"]
  /\ UNCHANGED <<limit, queue, records, closed, left, cancelled, used>>

\* ctx.Done() in either select, or ctx.Err() in tryReserve.
SeeCancelled(c) ==
  /\ pc[c] \in {"queued", "turn", "sleeping"}
  /\ c \in cancelled
  /\ pc' = [pc EXCEPT ![c] = "leaving"]
  /\ left' = [left EXCEPT ![c] = 0]
  /\ UNCHANGED <<limit, queue, records, closed, cancelled, used>>

\* Mutant: whoever leaves, the channel of the first is closed.
CancelWaiterMutant(c) ==
  /\ pc[c] = "leaving"
  /\ queue' = RemoveFirst(queue, c)
  /\ closed' = TurnOf(RemoveFirst(queue, c))
  /\ records' = Prune(records)
  /\ Returns(c)
  /\ UNCHANGED <<limit, left, used>>

\* cancelWaiter: a caller that leaves from the front passes its turn on.
CancelWaiter(c) ==
  /\ pc[c] = "leaving"
  /\ queue' = RemoveFirst(queue, c)
  /\ closed' = IF IsHead(c) THEN TurnOf(Tail(queue)) ELSE closed
  /\ records' = Prune(records)
  /\ Returns(c)
  /\ UNCHANGED <<limit, left, used>>

-----------------------------------------------------------------------------
(* The environment: contexts, the configuration, time. *)

Cancel(c) ==
  /\ c \notin cancelled
  /\ cancelled' = cancelled \cup {c}
  /\ UNCHANGED <<limit, queue, records, closed, pc, left, used>>

\* SetLimit closes `updated`, which ends the sleep of every caller.
SetLimit(l) ==
  /\ l # limit
  /\ limit' = l
  /\ records' = Within(records, l.window)
  /\ used' = Within(used, l.window)
  /\ pc' = [c \in Callers |-> IF pc[c] = "sleeping" THEN "turn" ELSE pc[c]]
  /\ left' = [c \in Callers |-> 0]
  /\ UNCHANGED <<queue, closed, cancelled>>

Older(age) == IF age > MaxWindow THEN age ELSE age + 1

Aged(ages) == [i \in DOMAIN ages |-> Older(ages[i])]

Tick ==
  /\ records' = Aged(records)
  /\ used' = Within(Aged(used), limit.window)
  /\ left' = [c \in Callers |-> IF left[c] > 0 THEN left[c] - 1 ELSE 0]
  /\ UNCHANGED <<limit, queue, closed, pc, cancelled>>

Begin(c) == WaitRefused(c) \/ Reserve(c) \/ Enqueue(c)

\* What a caller inside Wait does by itself.
Proceed(c) ==
  \/ TakeTurn(c)
  \/ ReserveTurn(c)
  \/ Sleep(c)
  \/ Wake(c)
  \/ SeeCancelled(c)
  \/ CancelWaiter(c)

Next ==
  \/ \E c \in Callers : Begin(c) \/ Proceed(c) \/ Cancel(c)
  \/ TryReserve
  \/ \E l \in Limits : SetLimit(l)
  \/ Tick

Fairness == WF_vars(Tick) /\ \A c \in Callers : WF_vars(Proceed(c))

Spec == Init /\ [][Next]_vars /\ Fairness

-----------------------------------------------------------------------------
(* Properties. *)

Ages == 0 .. MaxWindow + 1

\* Typing of the variables.
TypeOK ==
  /\ limit \in Limits
  /\ queue \in Seq(Callers)
  /\ records \in Seq(Ages)
  /\ closed \in [Callers -> Nat]
  /\ pc \in [Callers -> Positions]
  /\ left \in [Callers -> 0 .. MaxWindow]
  /\ cancelled \subseteq Callers
  /\ used \in Seq(0 .. MaxWindow)

\* Exactly the head of the queue has its turn, and its channel was closed
\* once: a second close would panic, a missing one would stop the queue
\* for ever, whoever gives up and however turns and timeouts cross.
TurnAtHead ==
  /\ ToSet(queue) = Waiting
  /\ \A i \in DOMAIN queue :
       /\ closed[queue[i]] = IF i = 1 THEN 1 ELSE 0
       /\ i > 1 => pc[queue[i]] \in {"queued", "leaving"}

\* An admission never overtakes a caller that came before: neither does a
\* notice of TryReserve nor a fresh call (the comments of reserveOrEnqueue
\* and TryReserve), and the window never holds more than the limit allows,
\* counting everything admitted inside the windows in force since.
AdmittedInTurnStep ==
  used' # <<>> /\ used'[Len(used')] = 0 /\ Len(used') > Len(used)
   => /\ Len(used') <= limit.count
      /\ \/ queue = <<>>
         \/ queue' = Tail(queue) /\ pc'[Head(queue)] = "idle"
AdmittedInTurn == [][AdmittedInTurnStep]_vars

\* A caller has come back.
Back(c) == pc[c] = "idle"

=============================================================================
