---------------------------- MODULE MCJobServer ----------------------------
(***************************************************************************)
(* Small instances of JobServer: the query flags that the DELETE requests  *)
(* of a run use, the points at which its solver processes die, symmetry.   *)
(***************************************************************************)
EXTENDS JobServerInvariants, TLC

\* DELETE /cuopt/request/{id} without flags sets both.
BothFlags    == {[running |-> TRUE, queued |-> TRUE]}
RunningOnly  == {[running |-> TRUE, queued |-> FALSE]}
QueuedOnly   == {[running |-> FALSE, queued |-> TRUE]}

Anywhere     == AllCrashPoints
InSolve      == {"solving"}
Nowhere      == {}

JobSymmetry == Permutations(Jobs)
=============================================================================
