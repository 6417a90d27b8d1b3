--------------------------- MODULE MCMipHeuristics ---------------------------
(* An instance of MipHeuristics for TLC: two binary variables and five       *)
(* solutions of their four points. Solution 5 is infeasible and at the same  *)
(* point as solution 1 (their continuous variables differ). Solution 3 is    *)
(* feasible with an excess. Solution 0 is the one a constructor makes.       *)
EXTENDS MipHeuristics

MCAt == [s \in All |-> <<{}, {1}, {1, 2}, {2}, {}, {1}>>[s + 1]]
MCObj == [s \in All |-> <<0, 2, 4, 3, 6, 0>>[s + 1]]
MCExcess == [s \in All |-> <<0, 0, 0, 1, 0, 1>>[s + 1]]
=============================================================================
