------------------------ MODULE MCClientCallbacks -------------------------
(* ClientCallbacks for TLC. The faults may be of any kind, in any order.   *)
EXTENDS ClientCallbacks
=============================================================================
