------------------------------ MODULE MCShutdown ------------------------------
(* Instances of Shutdown for TLC. *)
EXTENDS Shutdown
=============================================================================
