------------------------------ MODULE MCDispatch ------------------------------
(***************************************************************************)
(* The dispatcher in four situations. "queues": plugin a with two          *)
(* executors and short queues; three ordinary events, two of them for one  *)
(* chat, and one control event. "swap": a is reloaded, drained or          *)
(* deregistered while a chat message is admitted. Its first version        *)
(* outranks b; its second one declares the message as its command, so that *)
(* b comes before it, and what passes b stops there. The runtime of b may  *)
(* stop at any time. "answer" and "close": b is registered anew, reloaded, *)
(* drained or deregistered and its runtime may stop, while a conversation  *)
(* answer for one of its processes is admitted; or while it has a          *)
(* scheduled run and the server shuts down, so that these operations       *)
(* overlap DrainAll and Close, as they can when an earlier shutdown phase  *)
(* overran its budget.                                                     *)
(* Each behaviour starts in one of them: the events and operations of the  *)
(* others are set aside.                                                   *)
(***************************************************************************)
EXTENDS Dispatcher

MCPlugins == {"a", "b"}
MCSlots == MCPlugins \X (1..2)
Traffic == {"talk1", "talk2", "other", "started"}
MCEvents == Traffic \union {"chat", "answer", "hourly"}

MCKind == [e \in MCEvents |->
             CASE e \in Traffic \ {"started"} -> "broadcast"
               [] e = "chat" -> "message"
               [] e = "answer" -> "process"
               [] OTHER -> "direct"]
MCTarget == [e \in MCEvents |-> IF e = "started" THEN "a" ELSE "b"]
MCLane == [e \in MCEvents |-> CASE e \in {"other", "hourly"} -> "one"
                                [] e = "started" -> "two"
                                [] OTHER -> "room"]
MCSubscribes == [e \in MCEvents |-> CASE e \in Traffic -> {<<"a", 1>>}
                                      [] e = "chat" -> MCSlots
                                      [] OTHER -> {}]
MCCommandTargets == [e \in MCEvents |-> {}]
MCDeclares == [e \in MCEvents |-> IF e = "chat" THEN {<<"a", 2>>} ELSE {}]
MCPriority == [s \in MCSlots |-> CASE s = <<"a", 1>> -> 2 [] s[1] = "b" -> 1 [] OTHER -> 0]
MCConcurrency == [s \in MCSlots |-> IF s[1] = "a" THEN 2 ELSE 1]
MCBlock == {<<"b", 1>>}
MCOps == [p \in MCPlugins |-> IF p = "a" THEN {"swap", "drain", "deregister"}
                              ELSE {"register", "swap", "drain", "deregister", "crash"}]

\* Init for the plugins and events of one situation. What is set aside has an
\* operation that is never taken up, or a call that has returned.
Start(plugins, operated, events, mode) ==
  /\ created = [p \in Plugins |-> IF p \in plugins THEN 1 ELSE 0]
  /\ current = created
  /\ accepting = plugins \X {1} /\ ready = accepting
  /\ retired = {} /\ canceled = {} /\ exited = {} /\ polled = {}
  /\ closed = FALSE /\ closing = FALSE
  /\ eventQueue = [s \in Slots |-> <<>>] /\ controlQueue = [s \in Slots |-> <<>>]
  /\ pendingEvents = [s \in Slots |-> 0] /\ pendingControl = [s \in Slots |-> 0]
  /\ pendingByLane = [s \in Slots |-> [l \in Lanes |-> <<>>]]
  /\ lanes = [s \in Slots |-> {}]
  /\ call = [e \in Events |-> IF e \in events THEN "idle" ELSE "returned"]
  /\ todo = [e \in Events |-> {}]
  /\ pin = [d \in Deliveries |-> 0] /\ layer = [d \in Deliveries |-> 0]
  /\ open = [e \in Events |-> 0] /\ stopLayer = [e \in Events |-> 0]
  /\ status = [d \in Deliveries |-> "none"] /\ gen = [d \in Deliveries |-> 0]
  /\ result = [d \in Deliveries |-> "none"]
  /\ background = {} /\ records = [d \in Deliveries |-> 0]
  /\ op = [p \in Plugins |-> IF p \in operated THEN "idle" ELSE "aside"]
  /\ opGen = [p \in Plugins |-> 0]
  /\ shutdown = mode /\ closeSet = {}
  /\ log = [s \in Slots |-> <<>>] /\ overtook = [s \in Slots |-> 0]

MCInit ==
  \/ Start({"a"}, {}, Traffic, "aside")
  \/ Start({"a", "b"}, {"a"}, {"chat"}, "aside")
  \/ Start({"b"}, {"b"}, {"answer"}, "aside")
  \/ Start({"b"}, {"b"}, {"hourly"}, "running")

MCSpec == MCInit /\ [][Next]_vars
=============================================================================
