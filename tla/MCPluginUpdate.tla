----------------------------- MODULE MCPluginUpdate -----------------------------
(***************************************************************************)
(* PluginUpdate for TLC.  Three transactions are the fewest of which one   *)
(* must be pruned.                                                         *)
(***************************************************************************)
EXTENDS PluginUpdate

=============================================================================
