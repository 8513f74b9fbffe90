-------------------------- MODULE MCDispatchShutdown --------------------------
(***************************************************************************)
(* Two plugins, two messages, a shutdown: a chat message both plugins      *)
(* subscribe to and a command of "high", which both see as well. "high"    *)
(* outranks "low", yet low sees the command of high first, because a       *)
(* subscriber with a priority comes before the targets of a command: the   *)
(* layers of the messages run in opposite orders over the same workers,    *)
(* in different lanes of each.                                             *)
(***************************************************************************)
EXTENDS Dispatcher
CONSTANTS high, low, chat, cmdHigh, room, dm

MCPlugins == {high, low}
MCEvents == {chat, cmdHigh}
MCKind == [e \in Events |-> "message"]
MCTarget == [e \in Events |-> high]
MCLane == [e \in Events |-> IF e = cmdHigh THEN dm ELSE room]
MCSlots == MCPlugins \X {1}
MCSubscribes == [e \in Events |-> MCSlots]
MCDeclares == [e \in Events |-> {}]
MCCommandTargets == [e \in Events |-> IF e = cmdHigh THEN {high} ELSE {}]
MCPriority == [s \in MCSlots |-> IF s[1] = high THEN 2 ELSE 1]
MCConcurrency == [s \in MCSlots |-> 1]
MCOps == [p \in MCPlugins |-> {}]
=============================================================================
