-------------------------- MODULE MCBranchAndBound --------------------------
(***************************************************************************)
(* Instances of BranchAndBound: every problem over a tree of the given     *)
(* size and objective values, but for the order of siblings and for what   *)
(* lies below an integral node, which the code never visits.               *)
(***************************************************************************)
EXTENDS BranchAndBound

LPBounds ==
  {f \in [Nodes -> Values] :
     \A n \in 1..Inner : f[n] <= f[2 * n] /\ f[n] <= f[2 * n + 1]}

\* The best integer point of each node, from the integral LP solutions.
BestOf(f, ints) ==
  LET b[n \in Nodes] == IF n \in ints THEN f[n]
                        ELSE IF n > Inner THEN Inf
                        ELSE Smaller(b[2 * n], b[2 * n + 1])
  IN b

\* The children of a node are interchangeable, as are their subtrees.
InOrder(p) ==
  \A n \in 1..Inner :
    \/ p.lp[2 * n] < p.lp[2 * n + 1]
    \/ p.lp[2 * n] = p.lp[2 * n + 1] /\ p.best[2 * n] <= p.best[2 * n + 1]

\* One representative of what lies below an integral node.
Trimmed(p) ==
  \A n \in 1..Inner :
    p.integral[n] => p.integral[2 * n] /\ p.lp[2 * n] = p.lp[n]
                     /\ p.lp[2 * n + 1] = Inf

AllProblems ==
  LET Problem(f, ints) == [lp |-> f, best |-> BestOf(f, ints),
                           integral |-> [n \in Nodes |-> n \in ints]]
      Feasible(f) == {n \in Nodes : f[n] < Inf}
  IN {p \in UNION {{Problem(f, ints \cup {n \in Feasible(f) : n > Inner}) :
                      ints \in SUBSET {n \in Feasible(f) : n <= Inner}} :
                     f \in LPBounds} :
        IsProblem(p) /\ InOrder(p) /\ Trimmed(p) /\ p.lp[Root] \in {0, Inf}}
=============================================================================
