--------------------------- MODULE BranchAndBound ---------------------------
(***************************************************************************)
(* Branch and bound for mixed integer programs, beside the thread of the   *)
(* primal heuristics that injects solutions                                *)
(* (cpp/src/dual_simplex: branch_and_bound.cpp, mip_node.hpp).             *)
(*                                                                         *)
(* The linear algebra is an oracle. A problem gives, for every node of the *)
(* tree that branching would unfold, the optimum of its LP relaxation, the *)
(* optimum over its integer points, and whether the LP solution is         *)
(* integral. Objective values are small numbers, to be minimised; a        *)
(* difference of one exceeds every numerical tolerance of the code.        *)
(*                                                                         *)
(* The tree, the heap and the locals belong to one thread: its steps end   *)
(* where it reads or writes the upper bound or the repair queue, which it  *)
(* shares with the heuristics.                                             *)
(***************************************************************************)
EXTENDS Integers, Sequences

CONSTANTS
  Inner,       \* nodes 1..Inner of the whole tree have children 2n, 2n+1
  MaxObj,      \* the largest objective value
  Problems,    \* the problems to solve: records of lp, best and integral
  AbsGap,      \* settings.absolute_mip_gap_tol
  RelGap,      \* settings.relative_mip_gap_tol, in percent
  MaxInjected  \* bound on the solutions the heuristics inject

Nodes == 1..(2 * Inner + 1)
Root == 1
Inf == MaxObj + 1   \* no solution
NegInf == -1        \* no bound
Objectives == 0..MaxObj
Values == 0..Inf

\* Children are more constrained than their parent, branching loses no
\* integer point, an integral LP solution is the best of its node, and where
\* nothing is left to branch on an LP solution is integral.
IsProblem(p) ==
  /\ p.lp \in [Nodes -> Values]
  /\ p.best \in [Nodes -> Values]
  /\ p.integral \in [Nodes -> BOOLEAN]
  /\ \A n \in Nodes :
       /\ p.lp[n] <= p.best[n]
       /\ p.integral[n] => p.lp[n] = p.best[n] /\ p.lp[n] < Inf
       /\ n > Inner => p.integral[n] \/ p.lp[n] = Inf
  /\ \A n \in 1..Inner :
       /\ p.lp[n] <= p.lp[2 * n] /\ p.lp[n] <= p.lp[2 * n + 1]
       /\ p.best[n] <= p.best[2 * n] /\ p.best[n] <= p.best[2 * n + 1]
       /\ p.best[n] \in {p.best[2 * n], p.best[2 * n + 1]}

ASSUME ConstantsAssumption ==
  /\ Inner \in Nat /\ MaxObj \in Nat /\ MaxInjected \in Nat
  /\ AbsGap \in Objectives /\ RelGap \in 0..100
  /\ \A p \in Problems : IsProblem(p)

VARIABLES
  lp, best, integral, \* the problem
  root,      \* root_status
  upper,     \* global upper_bound
  lower,     \* global lower_bound, and the local of that name
  repairq,   \* repair_queue: what repairing each solution will give
  status,    \* status of each node, or whether it exists
  lb,        \* lower_bound of each node
  heap,      \* the nodes on the heap
  pc,        \* program counter of solve()
  node,      \* node_ptr, or the node set_status has come to
  ub, gap,   \* the locals upper_bound and gap
  torepair,  \* the local to_repair
  result,    \* the local status
  sent,      \* objective of incumbent, as last passed to solution_callback
  hbest,     \* best of the heuristics' solutions that are feasible here too
  hpend,     \* a solution the heuristics are about to queue for repair
  injected   \* solutions injected so far

problemVars == <<lp, best, integral>>
treeVars == <<status, lb, heap>>
localVars == <<ub, gap, torepair>>
heuristicVars == <<hbest, hpend, injected>>
vars == <<problemVars, root, upper, lower, repairq, treeVars, pc, node,
          localVars, result, sent, heuristicVars>>

-----------------------------------------------------------------------------
InactiveStatus == {"integer", "infeasible", "fathomed"}

PCs == {"root", "loop", "repair", "repairing", "solve", "offer",
        "settle", "finish", "verdict", "empty", "done"}

RootStatus == {"unsolved", "optimal", "infeasible", "unbounded",
               "time limit", "unsettled"}

Results == {"unset", "optimal", "infeasible", "unbounded", "time limit",
            "numerical"}

TypeOK ==
  /\ lp \in [Nodes -> Values]
  /\ best \in [Nodes -> Values]
  /\ integral \in [Nodes -> BOOLEAN]
  /\ root \in RootStatus
  /\ upper \in Values
  /\ lower \in Values \cup {NegInf}
  /\ repairq \in Seq(Values)
  /\ status \in [Nodes -> {"none", "active", "freed"} \cup InactiveStatus]
  /\ lb \in [Nodes -> Values]
  /\ heap \subseteq Nodes
  /\ pc \in PCs
  /\ node \in Nodes
  /\ ub \in Values
  /\ gap \in Int
  /\ torepair \in Seq(Values)
  /\ result \in Results
  /\ sent \in Values
  /\ hbest \in Values
  /\ hpend \in Values \cup {NegInf}
  /\ injected \in 0..MaxInjected

Init ==
  /\ \E p \in Problems : lp = p.lp /\ best = p.best /\ integral = p.integral
  /\ root = "unsolved"
  /\ upper = Inf /\ lower = NegInf
  /\ repairq = <<>>
  /\ status = [n \in Nodes |-> IF n = Root THEN "active" ELSE "none"]
  /\ lb = [n \in Nodes |-> 0]
  /\ heap = {}
  /\ pc = "root" /\ node = Root
  /\ ub = Inf /\ gap = Inf /\ torepair = <<>>
  /\ result = "unset"
  /\ sent = Inf
  /\ hbest = Inf /\ hpend = NegInf /\ injected = 0

-----------------------------------------------------------------------------
(* Bounds and gaps.                                                       *)

Smaller(a, b) == IF a <= b THEN a ELSE b

GapOf(u, l) == IF u = Inf THEN Inf ELSE u - l

\* Mutant: no upper bound (0/0, "not a number") passes for a closed gap.
RelClosedWithoutUpper(u, l) ==
  u = Inf \/ 100 * (IF u >= l THEN u - l ELSE l - u) <= RelGap * u

\* relative_gap(u, l) <= relative_mip_gap_tol.
RelClosed(u, l) ==
  u < Inf /\ 100 * (IF u >= l THEN u - l ELSE l - u) <= RelGap * u

\* The lower bound once the loop has ended.
FinalLower == IF heap = {} THEN lb[Root] ELSE lower

\* Mutant: the heap is not ordered.
AnyNode == heap

\* heap.top(): a node of least bound.
Top == {n \in heap : \A m \in heap : lb[n] <= lb[m]}

\* leaf_objective < upper_bound, read under the lock.
Improves(obj) == obj < upper

\* Mutant: nodes above the lower bound are not branched on.
BranchOnBest(n) == lp[n] <= lower

\* leaf_objective <= upper_bound + fathom_tol, with the value read earlier.
WorthBranching(n) == lp[n] <= ub

\* The callback gets a repaired solution that is better.
SentAfterRepair(obj) == obj

Parent(n) == n \div 2

\* Mutant: the children of a tree counted from zero.
ChildrenFromZero(n) == {2 * n + 1, 2 * n + 2}

Children(n) == {2 * n, 2 * n + 1}

\* Mutant: one inactive child is enough.
OneInactive(s, p) == \E n \in Children(p) : s[n] \in InactiveStatus

\* mip_node_t::is_inactive, for a parent whose children exist.
IsInactive(s, p) == \A n \in Children(p) : s[n] \in InactiveStatus

-----------------------------------------------------------------------------
(* solve(): the root relaxation.                                          *)

RootTimeLimit ==
  /\ pc = "root"
  /\ root' = "time limit"
  /\ result' = "time limit"
  /\ pc' = "done"
  /\ UNCHANGED <<problemVars, upper, lower, repairq, treeVars, node,
                 localVars, sent, heuristicVars>>

RootInfeasible ==
  /\ pc = "root"
  /\ lp[Root] = Inf
  /\ root' = "infeasible"
  /\ result' = "infeasible"
  /\ pc' = "done"
  /\ UNCHANGED <<problemVars, upper, lower, repairq, treeVars, node,
                 localVars, sent, heuristicVars>>

\* The oracle has no values for an unbounded relaxation; none is read here.
RootUnbounded ==
  /\ pc = "root"
  /\ root' = "unbounded"
  /\ result' = "unbounded"
  /\ pc' = "done"
  /\ UNCHANGED <<problemVars, upper, lower, repairq, treeVars, node,
                 localVars, sent, heuristicVars>>

\* x has no fractional variable: its objective is both bounds.
NothingFractional(obj) ==
  /\ lower' = obj /\ upper' = obj /\ sent' = obj
  /\ result' = "optimal"
  /\ pc' = "done"
  /\ UNCHANGED <<problemVars, repairq, treeVars, node, localVars,
                 heuristicVars>>

RootIntegral ==
  /\ pc = "root"
  /\ lp[Root] < Inf /\ integral[Root]
  /\ root' = "optimal"
  /\ NothingFractional(lp[Root])

\* Numerical trouble, an iteration limit, a cutoff or a halt: solve() goes on
\* with x as it was made, all zero, whatever the constraints say of it.
RootUnsettled ==
  /\ pc = "root"
  /\ root' = "unsettled"
  /\ \E obj \in Objectives : NothingFractional(obj)

\* Two nodes with the parent's bound, on the heap and in the tree.
AddChildren(n, bound) ==
  /\ status' = [m \in Nodes |-> IF m \in Children(n) THEN "active"
                                ELSE status[m]]
  /\ lb' = [m \in Nodes |-> IF m \in Children(n) \cup {n} THEN bound
                            ELSE lb[m]]
  /\ heap' = heap \cup Children(n)

\* Strong branching chooses a variable, and the loop is entered.
RootBranch ==
  /\ pc = "root"
  /\ lp[Root] < Inf /\ ~integral[Root]
  /\ root' = "optimal"
  /\ lower' = lp[Root]
  /\ AddChildren(Root, lp[Root])
  /\ gap' = GapOf(upper, lp[Root])
  /\ pc' = "loop"
  /\ UNCHANGED <<problemVars, upper, repairq, node, ub, torepair, result,
                 sent, heuristicVars>>

SolveRoot ==
  \/ RootTimeLimit \/ RootInfeasible \/ RootUnbounded
  \/ RootIntegral \/ RootUnsettled \/ RootBranch

-----------------------------------------------------------------------------
(* The loop over the nodes.                                               *)

\* The condition of the loop: gap is the local, as last computed.
Loop ==
  /\ pc = "loop"
  /\ pc' = IF gap > AbsGap /\ ~RelClosed(upper, lower) /\ heap # {}
           THEN "repair" ELSE "finish"
  /\ UNCHANGED <<problemVars, root, upper, lower, repairq, treeVars, node,
                 localVars, result, sent, heuristicVars>>

\* Take the whole repair queue.
TakeRepairs ==
  /\ pc = "repair"
  /\ torepair' = repairq
  /\ repairq' = <<>>
  /\ pc' = "repairing"
  /\ UNCHANGED <<problemVars, root, upper, lower, treeVars, node, ub, gap,
                 result, sent, heuristicVars>>

\* Repair a solution; under the lock, adopt and send it if it is better.
RepairOne ==
  /\ pc = "repairing"
  /\ torepair # <<>>
  /\ torepair' = Tail(torepair)
  /\ LET obj == Head(torepair)
     IN IF Improves(obj)
        THEN upper' = obj /\ sent' = SentAfterRepair(obj)
        ELSE UNCHANGED <<upper, sent>>
  /\ UNCHANGED <<problemVars, root, lower, repairq, treeVars, pc, node, ub,
                 gap, result, heuristicVars>>

\* The node is worse than the upper bound by now.
PopFathomed ==
  /\ pc = "repairing" /\ torepair = <<>>
  /\ \E n \in Top :
       /\ upper < lb[n]
       /\ heap' = heap \ {n}
       /\ node' = n
       /\ status' = [status EXCEPT ![n] = "fathomed"]
  /\ ub' = upper
  /\ pc' = "settle"
  /\ UNCHANGED <<problemVars, root, upper, lower, repairq, lb, gap, torepair,
                 result, sent, heuristicVars>>

\* The node gives the lower bound; stop if the time is over.
PopNode ==
  /\ pc = "repairing" /\ torepair = <<>>
  /\ \E n \in Top :
       /\ upper >= lb[n]
       /\ heap' = heap \ {n}
       /\ node' = n
       /\ lower' = lb[n]
       /\ gap' = GapOf(upper, lb[n])
  /\ ub' = upper
  /\ \/ pc' = "solve" /\ UNCHANGED result
     \/ pc' = "finish" /\ result' = "time limit"
  /\ UNCHANGED <<problemVars, root, upper, repairq, status, lb, torepair,
                 sent, heuristicVars>>

\* set_status(s) for the node in hand.
CloseNode(s, bound) ==
  /\ status' = [status EXCEPT ![node] = s]
  /\ lb' = [lb EXCEPT ![node] = bound]
  /\ pc' = "settle"

\* Dual simplex finds the LP of the node infeasible.
LeafInfeasible ==
  /\ pc = "solve"
  /\ lp[node] = Inf
  /\ CloseNode("infeasible", Inf)
  /\ UNCHANGED <<problemVars, root, upper, lower, repairq, heap, node,
                 localVars, result, sent, heuristicVars>>

\* Its objective passes the cutoff on the way, the upper bound as read.
LeafCutoff ==
  /\ pc = "solve"
  /\ ub < Inf /\ lp[node] > ub
  /\ CloseNode("fathomed", ub)
  /\ UNCHANGED <<problemVars, root, upper, lower, repairq, heap, node,
                 localVars, result, sent, heuristicVars>>

\* Optimal with an integral solution: offer it.
LeafIntegral ==
  /\ pc = "solve"
  /\ lp[node] < Inf /\ integral[node]
  /\ lb' = [lb EXCEPT ![node] = lp[node]]
  /\ pc' = "offer"
  /\ UNCHANGED <<problemVars, root, upper, lower, repairq, status, heap,
                 node, localVars, result, sent, heuristicVars>>

\* Optimal, fractional and not worse than the upper bound: branch.
LeafBranch ==
  /\ pc = "solve"
  /\ lp[node] < Inf /\ ~integral[node] /\ WorthBranching(node)
  /\ AddChildren(node, lp[node])
  /\ pc' = "loop"
  /\ UNCHANGED <<problemVars, root, upper, lower, repairq, node, localVars,
                 result, sent, heuristicVars>>

\* Optimal, fractional, and worse.
LeafFathom ==
  /\ pc = "solve"
  /\ lp[node] < Inf /\ ~integral[node] /\ ~WorthBranching(node)
  /\ CloseNode("fathomed", lp[node])
  /\ UNCHANGED <<problemVars, root, upper, lower, repairq, heap, node,
                 localVars, result, sent, heuristicVars>>

\* Any other status of the LP ends the loop.
LeafNumerical ==
  /\ pc = "solve"
  /\ result' = "numerical"
  /\ pc' = "finish"
  /\ UNCHANGED <<problemVars, root, upper, lower, repairq, treeVars, node,
                 localVars, sent, heuristicVars>>

SolveLeaf ==
  \/ LeafInfeasible \/ LeafCutoff \/ LeafIntegral \/ LeafBranch
  \/ LeafFathom \/ LeafNumerical

\* Under the lock: adopt the integral solution if it is better, and send it.
Offer ==
  /\ pc = "offer"
  /\ IF Improves(lb[node])
     THEN /\ upper' = lb[node] /\ sent' = lb[node]
          /\ ub' = lb[node] /\ gap' = lb[node] - lower
     ELSE UNCHANGED <<upper, sent, ub, gap>>
  /\ status' = [status EXCEPT ![node] = "integer"]
  /\ pc' = "settle"
  /\ UNCHANGED <<problemVars, root, lower, repairq, lb, heap, node, torepair,
                 result, heuristicVars>>

\* set_status goes on with the parent if both its children are inactive:
\* it gets their bound, and remove_fathomed_nodes frees them.
SettleParent ==
  /\ pc = "settle"
  /\ node # Root
  /\ IsInactive(status, Parent(node))
  /\ node' = Parent(node)
  /\ lb' = [lb EXCEPT ![Parent(node)] =
              Smaller(lb[2 * Parent(node)], lb[2 * Parent(node) + 1])]
  /\ status' = [m \in Nodes |->
                  IF m \in Children(Parent(node)) THEN "freed"
                  ELSE IF m = Parent(node) THEN "fathomed" ELSE status[m]]
  /\ UNCHANGED <<problemVars, root, upper, lower, repairq, heap, pc,
                 localVars, result, sent, heuristicVars>>

Settled ==
  /\ pc = "settle"
  /\ ~(node # Root /\ IsInactive(status, Parent(node)))
  /\ pc' = "loop"
  /\ UNCHANGED <<problemVars, root, upper, lower, repairq, treeVars, node,
                 localVars, result, sent, heuristicVars>>

-----------------------------------------------------------------------------
(* solve(): the result.                                                   *)

Finish ==
  /\ pc = "finish"
  /\ lower' = FinalLower
  /\ gap' = IF heap = {} THEN GapOf(upper, lower') ELSE gap
  /\ pc' = "verdict"
  /\ UNCHANGED <<problemVars, root, upper, repairq, treeVars, node, ub,
                 torepair, result, sent, heuristicVars>>

Verdict ==
  /\ pc = "verdict"
  /\ result' = IF gap <= AbsGap \/ RelClosed(upper, lower) THEN "optimal"
               ELSE result
  /\ pc' = "empty"
  /\ UNCHANGED <<problemVars, root, upper, lower, repairq, treeVars, node,
                 localVars, sent, heuristicVars>>

EmptyHeap ==
  /\ pc = "empty"
  /\ result' = IF heap = {} /\ upper = Inf THEN "infeasible" ELSE result
  /\ pc' = "done"
  /\ UNCHANGED <<problemVars, root, upper, lower, repairq, treeVars, node,
                 localVars, sent, heuristicVars>>

\* solve() has returned.
Done == pc = "done" /\ UNCHANGED vars

Solve ==
  \/ SolveRoot \/ Loop \/ TakeRepairs \/ RepairOne
  \/ PopFathomed \/ PopNode \/ SolveLeaf \/ Offer \/ SettleParent \/ Settled
  \/ Finish \/ Verdict \/ EmptyHeap

-----------------------------------------------------------------------------
(* The heuristics: set_new_solution.                                      *)

\* A better solution than the heuristics had, feasible for branch and bound
\* too, lowers the upper bound if it is better than that.
InjectFeasible ==
  /\ hpend = NegInf
  /\ injected < MaxInjected
  /\ \E obj \in Objectives :
       /\ best[Root] <= obj /\ obj < hbest
       /\ hbest' = obj
       /\ upper' = Smaller(upper, obj)
  /\ injected' = injected + 1
  /\ UNCHANGED <<problemVars, root, lower, repairq, treeVars, pc, node,
                 localVars, result, sent, hpend>>

\* One that is not feasible for branch and bound is to be repaired, ...
InjectInfeasible ==
  /\ hpend = NegInf
  /\ injected < MaxInjected
  /\ \E obj \in Values : best[Root] <= obj /\ hpend' = obj
  /\ injected' = injected + 1
  /\ UNCHANGED <<problemVars, root, upper, lower, repairq, treeVars, pc,
                 node, localVars, result, sent, hbest>>

\* ... and is queued under another lock.
QueueRepair ==
  /\ hpend # NegInf
  /\ repairq' = Append(repairq, hpend)
  /\ hpend' = NegInf
  /\ UNCHANGED <<problemVars, root, upper, lower, treeVars, pc, node,
                 localVars, result, sent, hbest, injected>>

Heuristics == InjectFeasible \/ InjectInfeasible \/ QueueRepair

Next == Solve \/ Done \/ Heuristics

Spec == Init /\ [][Next]_vars

-----------------------------------------------------------------------------
(* What branch and bound promises.                                        *)

\* A lower bound is one: best-first search, cutoffs and fathoming with stale
\* upper bounds, and the bounds that set_status hands up the tree never claim
\* more than the optimum.  The upper bound is that of a solution that the
\* heuristics, whose population gives the answer, have found or were sent.
\* Where the root relaxation was given up, neither bound is one
\* (OptimalIsOptimal).
BoundsAreValid ==
  root # "unsettled" =>
    /\ lower <= best[Root]
    /\ upper = Smaller(hbest, sent)

\* When set_status has closed the root, the tree has been searched: the upper
\* bound is the optimum, or infinite because there is none.
ExhaustedIsSolved == status[Root] \in InactiveStatus => upper = best[Root]

\* An upper bound within the tolerances of the optimum.
IsNearOptimum(u) ==
  /\ u < Inf
  /\ best[Root] <= u
  /\ u - best[Root] <= AbsGap \/ RelClosed(u, best[Root])

\* OPTIMAL is only returned for an upper bound within the tolerances of the
\* optimum, whatever stopped the loop and whatever was injected meanwhile,
\* unless the root relaxation was given up.  And the loop never ends without
\* a status: if neither time nor numerical trouble ended it, the final bounds
\* close the gap or prove infeasibility.
StatusIsRight ==
  /\ result = "optimal" /\ root # "unsettled" => IsNearOptimum(upper)
  /\ pc = "done" => result # "unset"

\* A node on the heap is part of the tree: remove_fathomed_nodes never frees
\* a node that the heap still points to.
HeapIsAlive ==
  \A n \in heap : status[n] = "active" /\ status[Parent(n)] = "active"

\* INFEASIBLE means that there is no solution.
InfeasibleIsInfeasible == result = "infeasible" => best[Root] = Inf

\* "Optimal solution found at root node" (branch_and_bound.cpp:470) is one:
\* OPTIMAL means an upper bound within the tolerances of the optimum, however
\* the root relaxation ended.
OptimalIsOptimal == result = "optimal" => IsNearOptimum(upper)
=============================================================================
