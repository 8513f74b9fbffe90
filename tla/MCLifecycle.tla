---------------------------- MODULE MCLifecycle ----------------------------
(***************************************************************************)
(* The lifecycle of one plugin. Its constants are numbers and sets of      *)
(* strings, so the configurations give them directly: all kinds of calls   *)
(* with a small budget of calls and faults, and two that take just the     *)
(* calls and faults of one disagreement with the documentation.            *)
(***************************************************************************)
EXTENDS Lifecycle
=============================================================================
