---------------------------- MODULE MCPluginLate ----------------------------
(***************************************************************************)
(* A plugin without concurrency that ends its events with messages, and    *)
(* two events, the first of which may be over for the host by then.        *)
(***************************************************************************)
EXTENDS PluginRuntime
=============================================================================
