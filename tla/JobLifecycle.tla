--------------------------- MODULE JobLifecycle ---------------------------
(***************************************************************************)
(* What a client of the cuOpt server may rely on, job by job, whatever the *)
(* threads and processes behind it do: the id of a request names nothing,  *)
(* then a pending job, then one outcome that never changes, until the      *)
(* client removes it (the answers of GET and DELETE                        *)
(* /cuopt/solution/{id}: get_solution_for_id).                             *)
(***************************************************************************)
CONSTANT Jobs
VARIABLE view   \* what a GET of the solution of each job would find

Outcomes == {"answer", "aborted"}

Init == view = [j \in Jobs |-> "unknown"]

Accept(j) ==
  /\ view[j] = "unknown"
  /\ view' = [view EXCEPT ![j] = "pending"]

\* The POST is refused, and its id forgotten.
Refuse(j) ==
  /\ view[j] = "pending"
  /\ view' = [view EXCEPT ![j] = "removed"]

Settle(j) ==
  /\ view[j] = "pending"
  /\ \E o \in Outcomes : view' = [view EXCEPT ![j] = o]

Remove(j) ==
  /\ view[j] \in Outcomes
  /\ view' = [view EXCEPT ![j] = "removed"]

Next == \E j \in Jobs : Accept(j) \/ Refuse(j) \/ Settle(j) \/ Remove(j)

Spec == Init /\ [][Next]_view
=============================================================================
