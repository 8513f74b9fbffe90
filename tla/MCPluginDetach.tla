--------------------------- MODULE MCPluginDetach ---------------------------
(***************************************************************************)
(* One event whose handler moves it to the background and ends it with a   *)
(* message.                                                                *)
(***************************************************************************)
EXTENDS PluginSDK

DetachOnly == {<<"e", "detach">>}
=============================================================================
