-------------------------- MODULE MCReloadTriggers --------------------------
(* Instances of ReloadTriggers for TLC. *)
EXTENDS ReloadTriggers
=============================================================================
