------------------------ MODULE BranchAndBoundProofs ------------------------
(***************************************************************************)
(* Theorems about BranchAndBound, for every tree, every problem and any    *)
(* number of solutions that the heuristics inject: the bounds are bounds,  *)
(* a tree that has been searched is solved, and the status is right.       *)
(***************************************************************************)
EXTENDS BranchAndBound, TLAPS, WellFoundedInduction

-----------------------------------------------------------------------------
(* The inductive invariant, in parts.                                      *)

\* The node in hand is not on the heap.
InHand == IF pc \in {"root", "solve", "offer"} THEN {node} ELSE {}

\* The nodes that have still to be solved.
Open == heap \cup InHand

\* The problem is one.
Problem ==
  /\ \A n \in Nodes :
       /\ lp[n] <= best[n]
       /\ integral[n] => lp[n] = best[n] /\ lp[n] < Inf
       /\ n > Inner => integral[n] \/ lp[n] = Inf
  /\ \A n \in 1..Inner :
       /\ best[n] <= best[2 * n] /\ best[n] <= best[2 * n + 1]
       /\ best[n] \in {best[2 * n], best[2 * n + 1]}

\* Only solutions of the problem lower the upper bound, or are to do so.
UpperInv ==
  /\ best[Root] <= upper
  /\ upper = Smaller(hbest, sent)
  /\ \A i \in DOMAIN repairq : best[Root] <= repairq[i]
  /\ \A i \in DOMAIN torepair : best[Root] <= torepair[i]
  /\ hpend # NegInf => best[Root] <= hpend
  /\ hbest < Inf => best[Root] <= hbest
  /\ pc = "solve" => upper <= ub

\* The bounds of the nodes are bounds, and what is closed cannot improve on
\* the upper bound.
LowerInv ==
  /\ lower <= best[Root]
  /\ \A n \in Nodes : lb[n] <= best[n]
  /\ \A n \in Nodes : status[n] \in InactiveStatus => upper <= lb[n]
  /\ pc = "offer" => lb[node] = best[node] /\ best[node] < Inf

\* The tree: it hangs together at its top, the nodes on the heap and the one
\* in hand are leaves of it, and what set_status has closed has no children.
TreeInv ==
  /\ \A n \in Nodes \ {Root} :
       status[n] \in {"active"} \cup InactiveStatus =>
         status[Parent(n)] = "active"
  /\ \A n \in Nodes \ {Root} :
       status[n] # "none" => status[Parent(n)] # "none"
  /\ Root \notin heap /\ status[Root] # "none" /\ status[Root] # "freed"
  /\ heap \cap InHand = {}
  /\ \A n \in Open :
       /\ status[n] = "active"
       /\ best[Root] <= best[n]
       /\ \A c \in Children(n) \cap Nodes : status[c] = "none"
  /\ pc = "root" => node = Root
  /\ pc = "settle" => status[node] \in InactiveStatus

\* Until the loop has ended for want of time or precision, no node is lost:
\* an active node is open or has an active child, unless set_status is about
\* to close it, and the optimum is found or in an open node.
SearchInv ==
  /\ pc \notin {"finish", "verdict", "empty", "done"} => result = "unset"
  /\ result = "unset" =>
       /\ upper = best[Root] \/ \E n \in Open : best[n] = best[Root]
       /\ \A n \in Nodes \ Open : status[n] = "active" =>
            /\ n <= Inner
            /\ \A c \in Children(n) :
                 status[c] \in {"active"} \cup InactiveStatus
            /\ \/ \E c \in Children(n) : status[c] = "active"
               \/ pc = "settle" /\ node \in Children(n)

\* A gap within the tolerance is one to the optimum.
GapInv ==
  gap <= AbsGap => upper < Inf /\ upper - gap <= best[Root]

\* Why the loop ended, if not with a status.
EndInv ==
  /\ result = "optimal" =>
       /\ upper < Inf
       /\ upper - best[Root] <= AbsGap \/ RelClosed(upper, best[Root])
  /\ result = "unset" =>
       /\ pc = "finish" =>
            /\ gap <= AbsGap \/ RelClosed(upper, lower) \/ heap = {}
            /\ heap = {} => status[Root] \in InactiveStatus
       /\ pc = "verdict" =>
            \/ gap <= AbsGap \/ RelClosed(upper, lower)
            \/ heap = {} /\ upper = Inf /\ best[Root] = Inf
       /\ pc = "empty" => heap = {} /\ upper = Inf /\ best[Root] = Inf
       /\ pc # "done"

\* This holds of a solve whose root relaxation was not given up.
Inv ==
  /\ TypeOK /\ Problem /\ UpperInv /\ LowerInv /\ TreeInv /\ SearchInv
  /\ GapInv /\ EndInv

-----------------------------------------------------------------------------
(* Lemmas about the tree.                                                  *)

\* A set of nodes has a last one.
LEMMA LastNode ==
  ASSUME NEW A \in SUBSET Nodes, A # {}
  PROVE  \E n \in A : \A m \in A : m <= n
<1> DEFINE l == 2 * Inner + 1
<1> DEFINE B == {l - n : n \in A}
<1> DEFINE R == {p \in Nat \X Nat : p[1] < p[2]}
<1>1. l \in Nat /\ A \subseteq 1..l
  BY ConstantsAssumption DEF Nodes
<1> HIDE DEF l
<1>2. B \subseteq Nat /\ B # {}
  <2>1. \A n \in A : l - n \in Nat
    BY <1>1
  <2> QED
    BY <2>1
<1>3. IsWellFoundedOn(R, Nat)
  BY NatLessThanWellFounded, Zenon DEF OpToRel
<1> HIDE DEF B
<1>4. PICK x \in B : \A y \in B : ~(<<y, x>> \in R)
  <2> HIDE DEF R
  <2> QED
    BY <1>2, <1>3, WFMin
<1>5. ASSUME NEW y \in B PROVE x <= y
  <2>1. x \in Nat /\ y \in Nat /\ ~(<<y, x>> \in R)
    BY <1>2, <1>4
  <2>2. ~(y < x)
    BY <2>1, Zenon
  <2> HIDE DEF R
  <2> QED
    BY <2>1, <2>2
<1>6. PICK n \in A : x = l - n
  BY DEF B
<1>7. \A m \in A : l - n <= l - m
  BY <1>5, <1>6 DEF B
<1> QED
  BY <1>1, <1>7

\* The constants: the root is a node, bounds are naturals up to Inf, and the
\* gaps are those of the settings.
LEMMA Constants ==
  /\ Inner \in Nat /\ MaxObj \in Nat /\ Root \in Nodes /\ Nodes \subseteq Nat
  /\ Inf \in Values /\ Inf \in Nat /\ Values \subseteq Nat /\ NegInf = -1
  /\ AbsGap \in Nat /\ AbsGap < Inf /\ RelGap \in Nat /\ RelGap <= 100
  /\ \A v \in Values : v <= Inf
BY ConstantsAssumption DEF Root, Nodes, Inf, Values, NegInf, Objectives

\* Parents and children.
LEMMA Family ==
  /\ \A n \in 1..Inner : Children(n) \subseteq Nodes \ {Root}
  /\ \A n \in Nodes : \A c \in Children(n) : c > n /\ Parent(c) = n
  /\ \A n \in Nodes \ {Root} :
       /\ Parent(n) \in 1..Inner /\ Parent(n) \in Nodes
       /\ n \in Children(Parent(n)) /\ Parent(n) < n
<1>1. \A n \in 1..Inner : Children(n) \subseteq Nodes \ {Root}
  BY ConstantsAssumption DEF Children, Nodes, Root
<1>2. ASSUME NEW n \in Nodes, NEW c \in Children(n)
      PROVE  c > n /\ Parent(c) = n
  BY <1>2, ConstantsAssumption DEF Children, Nodes, Parent
<1>3. ASSUME NEW n \in Nodes \ {Root}
      PROVE  /\ Parent(n) \in 1..Inner /\ Parent(n) \in Nodes
             /\ n \in Children(Parent(n)) /\ Parent(n) < n
  BY <1>3, ConstantsAssumption DEF Children, Nodes, Parent, Root
<1> QED
  BY <1>1, <1>2, <1>3

-----------------------------------------------------------------------------
(* Types.                                                                  *)

\* The values that bounds are computed from.
LEMMA Types ==
  ASSUME TypeOK
  PROVE  /\ \A n \in Nodes : lp[n] \in Values /\ best[n] \in Values
                             /\ lb[n] \in Values
         /\ upper \in Values /\ ub \in Values /\ sent \in Values
         /\ hbest \in Values /\ gap \in Int /\ lower \in Int
         /\ lower \in Values \cup {NegInf} /\ node \in Nodes
BY Constants DEF TypeOK

\* A node that is branched on is an inner one.
LEMMA BranchesInside ==
  ASSUME Problem, NEW n \in Nodes, lp[n] < Inf, ~integral[n]
  PROVE  n \in 1..Inner
<1>1. ~(n > Inner)
  <2>1. lp[n] # Inf
    BY Constants
  <2> QED
    BY <2>1 DEF Problem
<1> QED
  BY <1>1, Constants DEF Nodes

\* Gaps are integers, and the smaller of two bounds is a bound.
LEMMA GapType ==
  ASSUME NEW u \in Values, NEW l \in Values
  PROVE  GapOf(u, l) \in Int /\ Smaller(u, l) \in Values
BY Constants DEF GapOf, Smaller

\* The root relaxation keeps the types.
LEMMA RootTyped ==
  ASSUME Inv, SolveRoot
  PROVE  TypeOK'
<1> USE DEF problemVars, treeVars, localVars, heuristicVars
<1>0. TypeOK /\ Problem
  BY DEF Inv
<1>1. CASE RootTimeLimit \/ RootInfeasible \/ RootUnbounded
  BY <1>0, <1>1 DEF RootTimeLimit, RootInfeasible, RootUnbounded, TypeOK,
     RootStatus, Results, PCs
<1>2. CASE RootIntegral \/ RootUnsettled
  <2>1. PICK obj \in Values : NothingFractional(obj)
    <3>1. Objectives \subseteq Values /\ lp[Root] \in Values
      BY <1>0, Types, Constants DEF Objectives, Values, Inf
    <3> QED
      BY <1>2, <3>1 DEF RootIntegral, RootUnsettled
  <2>2. root' \in RootStatus
    BY <1>2 DEF RootIntegral, RootUnsettled, RootStatus
  <2> QED
    BY <1>0, <2>1, <2>2 DEF NothingFractional, TypeOK, Results, PCs
<1>3. CASE RootBranch
  <2>1. Children(Root) \subseteq Nodes
    BY <1>0, <1>3, Constants, BranchesInside, Family DEF RootBranch
  <2>2. lp[Root] \in Values /\ gap' \in Int
    BY <1>0, <1>3, Constants, Types, GapType DEF RootBranch
  <2>3. heap' \subseteq Nodes /\ lb' \in [Nodes -> Values]
        /\ status' \in [Nodes -> {"none", "active", "freed"}
                                   \cup InactiveStatus]
    BY <1>0, <1>3, <2>1, <2>2 DEF RootBranch, AddChildren, TypeOK
  <2> QED
    BY <1>0, <1>3, <2>2, <2>3 DEF RootBranch, TypeOK, RootStatus, PCs
<1> QED
  BY <1>1, <1>2, <1>3 DEF SolveRoot

\* The loop condition, the repairs and the taking of a node keep the types.
LEMMA LoopTyped ==
  ASSUME TypeOK,
         Loop \/ TakeRepairs \/ RepairOne \/ PopFathomed \/ PopNode
  PROVE  TypeOK'
<1> USE DEF problemVars, treeVars, localVars, heuristicVars
<1>1. CASE Loop
  BY <1>1 DEF Loop, TypeOK, PCs
<1>2. CASE TakeRepairs
  BY <1>2 DEF TakeRepairs, TypeOK, PCs
<1>3. CASE RepairOne
  <2>1. Head(torepair) \in Values /\ torepair' \in Seq(Values)
    BY <1>3 DEF RepairOne, TypeOK
  <2>2. upper' \in Values /\ sent' \in Values
    BY <1>3, <2>1 DEF RepairOne, SentAfterRepair, TypeOK
  <2> QED
    BY <1>3, <2>1, <2>2 DEF RepairOne, TypeOK
<1>4. CASE PopFathomed
  <2>1. heap' \subseteq Nodes /\ node' \in Nodes /\ ub' \in Values
        /\ status' \in [Nodes -> {"none", "active", "freed"}
                                   \cup InactiveStatus]
    BY <1>4 DEF PopFathomed, Top, TypeOK, InactiveStatus
  <2> QED
    BY <1>4, <2>1 DEF PopFathomed, TypeOK, PCs
<1>5. CASE PopNode
  <2>1. PICK n \in Top : heap' = heap \ {n} /\ node' = n
                         /\ lower' = lb[n] /\ gap' = GapOf(upper, lb[n])
    BY <1>5 DEF PopNode
  <2>2. n \in Nodes /\ lb[n] \in Values
    BY Types DEF Top, TypeOK
  <2>3. heap' \subseteq Nodes /\ node' \in Nodes /\ ub' \in Values
        /\ lower' \in Values /\ gap' \in Int
    BY <1>5, <2>1, <2>2, GapType DEF PopNode, TypeOK
  <2>4. result' \in Results /\ pc' \in PCs
    BY <1>5 DEF PopNode, TypeOK, PCs, Results
  <2> QED
    BY <1>5, <2>3, <2>4 DEF PopNode, TypeOK
<1> QED
  BY <1>1, <1>2, <1>3, <1>4, <1>5

\* A node relaxation and what follows from it keeps the types.
LEMMA LeafTyped ==
  ASSUME Inv, SolveLeaf \/ Offer \/ SettleParent \/ Settled
  PROVE  TypeOK'
<1> USE DEF problemVars, treeVars, localVars, heuristicVars
<1>0. TypeOK /\ Problem
  BY DEF Inv
<1>1. node \in Nodes /\ lp[node] \in Values /\ lb[node] \in Values
      /\ ub \in Values /\ Inf \in Values
  BY <1>0, Types, Constants
<1>2. CASE LeafInfeasible \/ LeafCutoff \/ LeafFathom
  <2>1. lb' \in [Nodes -> Values] /\ pc' \in PCs
        /\ status' \in [Nodes -> {"none", "active", "freed"}
                                   \cup InactiveStatus]
    BY <1>0, <1>1, <1>2 DEF LeafInfeasible, LeafCutoff, LeafFathom,
       CloseNode, TypeOK, InactiveStatus, PCs
  <2> QED
    BY <1>0, <1>2, <2>1 DEF LeafInfeasible, LeafCutoff, LeafFathom, TypeOK
<1>3. CASE LeafIntegral
  <2>1. lb' \in [Nodes -> Values] /\ pc' \in PCs
    BY <1>0, <1>1, <1>3 DEF LeafIntegral, TypeOK, PCs
  <2> QED
    BY <1>0, <1>3, <2>1 DEF LeafIntegral, TypeOK
<1>4. CASE LeafBranch
  <2>1. Children(node) \subseteq Nodes
    BY <1>0, <1>1, <1>4, BranchesInside, Family DEF LeafBranch
  <2>2. heap' \subseteq Nodes /\ lb' \in [Nodes -> Values] /\ pc' \in PCs
        /\ status' \in [Nodes -> {"none", "active", "freed"}
                                   \cup InactiveStatus]
    BY <1>0, <1>1, <1>4, <2>1 DEF LeafBranch, AddChildren, TypeOK, PCs
  <2> QED
    BY <1>0, <1>4, <2>2 DEF LeafBranch, TypeOK
<1>5. CASE LeafNumerical
  BY <1>0, <1>5 DEF LeafNumerical, TypeOK, PCs, Results
<1>6. CASE Offer
  <2>1. upper' \in Values /\ sent' \in Values /\ ub' \in Values
        /\ gap' \in Int
    <3>1. lb[node] \in Int
      <4>1. \A v \in Values : v \in Int
        BY Constants
      <4>2. lb[node] \in Values
        BY <1>1
      <4> QED
        BY <4>1, <4>2
    <3>2. lower \in Int
      BY <1>0, Types
    <3>3. lb[node] - lower \in Int
      BY <3>1, <3>2
    <3> QED
      BY <1>0, <1>1, <1>6, <3>3 DEF Offer, TypeOK
  <2>2. status' \in [Nodes -> {"none", "active", "freed"}
                               \cup InactiveStatus] /\ pc' \in PCs
    BY <1>0, <1>1, <1>6 DEF Offer, TypeOK, InactiveStatus, PCs
  <2> QED
    BY <1>0, <1>6, <2>1, <2>2 DEF Offer, TypeOK
<1>7. CASE SettleParent
  <2>1. /\ Parent(node) \in 1..Inner /\ Parent(node) \in Nodes
        /\ Children(Parent(node)) \subseteq Nodes
    BY <1>1, <1>7, Family DEF SettleParent
  <2>2. lb[2 * Parent(node)] \in Values /\ lb[2 * Parent(node) + 1] \in Values
    BY <1>0, <2>1, Types DEF Children
  <2>3. lb' \in [Nodes -> Values]
    BY <1>0, <1>7, <2>1, <2>2, GapType DEF SettleParent, TypeOK
  <2>4. status' \in [Nodes -> {"none", "active", "freed"}
                               \cup InactiveStatus]
    BY <1>0, <1>7 DEF SettleParent, TypeOK, InactiveStatus
  <2> QED
    BY <1>0, <1>7, <2>1, <2>3, <2>4 DEF SettleParent, TypeOK
<1>8. CASE Settled
  BY <1>0, <1>8 DEF Settled, TypeOK, PCs
<1> QED
  BY <1>2, <1>3, <1>4, <1>5, <1>6, <1>7, <1>8 DEF SolveLeaf

\* The end of a solve, and the heuristics beside it, keep the types.
LEMMA EndTyped ==
  ASSUME TypeOK, Finish \/ Verdict \/ EmptyHeap \/ Heuristics
  PROVE  TypeOK'
<1> USE DEF problemVars, treeVars, localVars, heuristicVars
<1>1. CASE Finish
  <2>1. lower' \in Values \cup {NegInf} /\ gap' \in Int /\ pc' \in PCs
    <3>1. lb[Root] \in Values
      BY Types, Constants
    <3>2. GapOf(upper, lb[Root]) \in Int
      BY <3>1, Types, GapType
    <3> QED
      BY <1>1, <3>1, <3>2 DEF Finish, FinalLower, TypeOK, PCs
  <2> QED
    BY <1>1, <2>1 DEF Finish, TypeOK
<1>2. CASE Verdict \/ EmptyHeap
  BY <1>2 DEF Verdict, EmptyHeap, TypeOK, PCs, Results
<1>3. CASE InjectFeasible
  <2>1. PICK obj \in Objectives : hbest' = obj /\ upper' = Smaller(upper, obj)
    BY <1>3 DEF InjectFeasible
  <2>2. obj \in Values
    BY Constants DEF Objectives, Values, Inf
  <2>3. hbest' \in Values /\ upper' \in Values
    BY <2>1, <2>2, Types, GapType
  <2>4. injected' \in 0..MaxInjected
    BY <1>3, ConstantsAssumption DEF InjectFeasible, TypeOK
  <2> QED
    BY <1>3, <2>3, <2>4 DEF InjectFeasible, TypeOK
<1>4. CASE InjectInfeasible
  <2>1. injected' \in 0..MaxInjected /\ hpend' \in Values \cup {NegInf}
    BY <1>4, ConstantsAssumption DEF InjectInfeasible, TypeOK
  <2> QED
    BY <1>4, <2>1 DEF InjectInfeasible, TypeOK
<1>5. CASE QueueRepair
  <2>1. repairq' \in Seq(Values)
    BY <1>5 DEF QueueRepair, TypeOK
  <2> QED
    BY <1>5, <2>1 DEF QueueRepair, TypeOK
<1> QED
  BY <1>1, <1>2, <1>3, <1>4, <1>5 DEF Heuristics

\* Every step keeps the types.
LEMMA NextTyped ==
  ASSUME Inv, [Next]_vars
  PROVE  TypeOK'
<1>0. TypeOK
  BY DEF Inv
<1>1. CASE UNCHANGED vars
  BY <1>0, <1>1 DEF vars, problemVars, treeVars, localVars, heuristicVars,
     TypeOK
<1> QED
  BY <1>0, <1>1, RootTyped, LoopTyped, LeafTyped, EndTyped
  DEF Next, Solve, Done

-----------------------------------------------------------------------------
(* The upper bound.                                                        *)

\* An element of a longer sequence is the new one or an old one.
LEMMA AppendedOrOld ==
  ASSUME NEW S, NEW s \in Seq(S), NEW x \in S
  PROVE  \A i \in DOMAIN Append(s, x) :
           \/ Append(s, x)[i] = x
           \/ i \in DOMAIN s /\ Append(s, x)[i] = s[i]
OBVIOUS

\* What is compared is a number.
LEMMA Numbers ==
  ASSUME TypeOK
  PROVE  /\ Inf \in Nat /\ NegInf = -1 /\ Root \in Nodes /\ node \in Nodes
         /\ \A n \in Nodes :
              /\ lp[n] \in Nat /\ best[n] \in Nat /\ lb[n] \in Nat
              /\ lp[n] <= Inf /\ best[n] <= Inf /\ lb[n] <= Inf
         /\ upper \in Nat /\ ub \in Nat /\ sent \in Nat /\ hbest \in Nat
         /\ upper <= Inf /\ ub <= Inf /\ sent <= Inf /\ hbest <= Inf
         /\ gap \in Int /\ lower \in Int
<1>1. \A v \in Values : v \in Nat /\ v <= Inf
  BY Constants
<1> QED
  BY <1>1, Constants, Types

\* The problem stays, and the upper bound only gets better.
LEMMA UpperStep ==
  ASSUME Inv, [Next]_vars, root' # "unsettled"
  PROVE  UNCHANGED problemVars /\ upper' <= upper /\ UpperInv'
<1> USE DEF problemVars, treeVars, localVars, heuristicVars
<1>0. UNCHANGED problemVars
  BY DEF Next, Solve, SolveRoot, RootUnsettled, RootTimeLimit, RootInfeasible,
     RootUnbounded, RootIntegral, NothingFractional, RootBranch, Loop,
     TakeRepairs, RepairOne, PopFathomed, PopNode, SolveLeaf, LeafInfeasible,
     LeafCutoff, LeafIntegral, LeafBranch, LeafFathom, LeafNumerical, Offer,
     SettleParent, Settled, Finish, Verdict, EmptyHeap, Done, Heuristics,
     InjectFeasible, InjectInfeasible, QueueRepair, vars
<1> SUFFICES upper' <= upper /\ UpperInv'
  BY <1>0
<1>a. TypeOK /\ UpperInv /\ Problem
  BY DEF Inv
<1>b. /\ upper \in Nat /\ hbest \in Nat /\ sent \in Nat /\ best[Root] \in Nat
      /\ hbest <= Inf /\ Inf \in Nat /\ NegInf = -1
      /\ repairq \in Seq(Values) /\ torepair \in Seq(Values)
      /\ \A v \in Values : v \in Nat
  BY <1>a, Numbers, Constants DEF TypeOK
\* A better solution found or repaired by branch and bound is sent.
<1>c. ASSUME NEW obj \in Nat, best[Root] <= obj,
             UNCHANGED <<best, hbest, hpend, repairq>>,
             IF obj < upper THEN upper' = obj /\ sent' = obj
                            ELSE UNCHANGED <<upper, sent>>,
             \A i \in DOMAIN torepair' : best[Root] <= torepair'[i],
             pc' # "solve"
      PROVE  upper' <= upper /\ UpperInv'
  BY <1>a, <1>b, <1>c DEF UpperInv, Smaller
<1>1. CASE /\ UNCHANGED <<upper, sent, repairq, torepair, hbest, hpend>>
           /\ pc' = "solve" => pc = "solve" /\ UNCHANGED ub
  <2>1. UpperInv'
    BY <1>0, <1>1, <1>a DEF UpperInv
  <2> QED
    BY <1>1, <1>b, <2>1
<1>2. CASE RootIntegral
  <2>1. /\ upper' = lp[Root] /\ sent' = lp[Root] /\ pc' = "done"
        /\ UNCHANGED <<best, hbest, hpend, repairq, torepair>>
        /\ lp[Root] = best[Root]
    BY <1>2, <1>a, Constants DEF RootIntegral, NothingFractional, Problem
  <2> QED
    BY <1>a, <1>b, <2>1 DEF UpperInv, Smaller
<1>3. CASE TakeRepairs
  <2>1. /\ UNCHANGED <<best, upper, hbest, sent, hpend>> /\ pc' = "repairing"
        /\ repairq' = <<>> /\ torepair' = repairq
    BY <1>3 DEF TakeRepairs
  <2> QED
    BY <1>a, <1>b, <2>1 DEF UpperInv
<1>4. CASE RepairOne
  <2>1. /\ torepair # <<>> /\ torepair' = Tail(torepair)
        /\ UNCHANGED <<best, hbest, hpend, repairq, pc>> /\ pc = "repairing"
        /\ IF Head(torepair) < upper
           THEN upper' = Head(torepair) /\ sent' = Head(torepair)
           ELSE UNCHANGED <<upper, sent>>
    BY <1>4 DEF RepairOne, Improves, SentAfterRepair
  <2>2. /\ Head(torepair) \in Nat /\ Head(torepair) = torepair[1]
        /\ 1 \in DOMAIN torepair
        /\ \A i \in DOMAIN torepair' :
             i + 1 \in DOMAIN torepair /\ torepair'[i] = torepair[i + 1]
    BY <1>b, <2>1
  <2>3. best[Root] <= Head(torepair)
    BY <1>a, <2>2 DEF UpperInv
  <2>4. \A i \in DOMAIN torepair' : best[Root] <= torepair'[i]
    BY <1>a, <2>2 DEF UpperInv
  <2> QED
    BY <1>c, <2>1, <2>2, <2>3, <2>4
<1>5. CASE Offer
  <2>1. /\ UNCHANGED <<best, hbest, hpend, repairq, torepair>>
        /\ pc' = "settle" /\ pc = "offer"
        /\ IF lb[node] < upper THEN upper' = lb[node] /\ sent' = lb[node]
                               ELSE UNCHANGED <<upper, sent>>
    BY <1>5 DEF Offer, Improves
  <2>2. lb[node] = best[node] /\ best[Root] <= best[node]
    BY <2>1 DEF Inv, LowerInv, TreeInv, Open, InHand
  <2>3. lb[node] \in Nat
    BY <1>a, Numbers
  <2>4. \A i \in DOMAIN torepair' : best[Root] <= torepair'[i]
    BY <1>a, <2>1 DEF UpperInv
  <2> QED
    BY <1>c, <2>1, <2>2, <2>3, <2>4
<1>6. CASE PopNode
  <2>1. /\ UNCHANGED <<best, upper, hbest, sent, hpend, repairq, torepair>>
        /\ ub' = upper
    BY <1>6 DEF PopNode
  <2> QED
    BY <1>a, <1>b, <2>1 DEF UpperInv
<1>7. CASE InjectFeasible
  <2>1. PICK obj \in Objectives :
          best[Root] <= obj /\ obj < hbest /\ hbest' = obj
          /\ upper' = Smaller(upper, obj)
    BY <1>7 DEF InjectFeasible
  <2>2. UNCHANGED <<best, sent, hpend, repairq, torepair, pc, ub>>
    BY <1>7 DEF InjectFeasible
  <2>3. obj \in Nat
    BY ConstantsAssumption DEF Objectives
  <2>4. ub \in Nat
    BY <1>a, Numbers
  <2> QED
    BY <1>a, <1>b, <2>1, <2>2, <2>3, <2>4 DEF UpperInv, Smaller
<1>8. CASE InjectInfeasible
  <2>1. /\ UNCHANGED <<best, upper, hbest, sent, repairq, torepair, pc, ub>>
        /\ best[Root] <= hpend'
    BY <1>8 DEF InjectInfeasible
  <2> QED
    BY <1>a, <1>b, <2>1 DEF UpperInv
<1>9. CASE QueueRepair
  <2>1. /\ UNCHANGED <<best, upper, hbest, sent, torepair, pc, ub>>
        /\ hpend' = NegInf /\ hpend # NegInf
        /\ repairq' = Append(repairq, hpend)
    BY <1>9 DEF QueueRepair
  <2>2. hpend \in Values /\ best[Root] <= hpend
    BY <1>a, <2>1 DEF TypeOK, UpperInv
  <2>3. \A i \in DOMAIN repairq' : best[Root] <= repairq'[i]
    <3>1. \A i \in DOMAIN repairq' :
            \/ repairq'[i] = hpend
            \/ i \in DOMAIN repairq /\ repairq'[i] = repairq[i]
      BY <1>b, <2>1, <2>2, AppendedOrOld
    <3> QED
      BY <1>a, <2>2, <3>1 DEF UpperInv
  <2> QED
    BY <1>a, <1>b, <2>1, <2>3 DEF UpperInv
<1> QED
  BY <1>0, <1>1, <1>2, <1>3, <1>4, <1>5, <1>6, <1>7, <1>8, <1>9
  DEF Next, Solve, SolveRoot, RootUnsettled, RootTimeLimit, RootInfeasible,
      RootUnbounded, RootBranch, Loop, PopFathomed, SolveLeaf, LeafInfeasible,
      LeafCutoff, CloseNode, LeafIntegral, LeafBranch, LeafFathom,
      LeafNumerical, SettleParent, Settled, Finish, Verdict, EmptyHeap, Done,
      Heuristics, vars

-----------------------------------------------------------------------------
(* The lower bounds.                                                       *)

\* What is best in a node is best in one of its children.
LEMMA BestInChild ==
  ASSUME TypeOK, Problem, NEW n \in 1..Inner
  PROVE  /\ n \in Nodes /\ 2 * n \in Nodes /\ 2 * n + 1 \in Nodes
         /\ Children(n) = {2 * n, 2 * n + 1}
         /\ best[n] <= best[2 * n] /\ best[n] <= best[2 * n + 1]
         /\ best[n] = best[2 * n] \/ best[n] = best[2 * n + 1]
<1>1. n \in Nodes /\ 2 * n \in Nodes /\ 2 * n + 1 \in Nodes
  BY ConstantsAssumption DEF Nodes
<1> QED
  BY <1>1 DEF Problem, Children

\* The bound of a parent whose children are closed is that of one of them.
LEMMA ParentBound ==
  ASSUME Inv, SettleParent
  PROVE  /\ Parent(node) \in 1..Inner /\ Parent(node) \in Nodes
         /\ \A n \in Nodes :
              n # Parent(node) => lb'[n] = lb[n]
         /\ lb'[Parent(node)] <= best[Parent(node)]
         /\ upper <= lb'[Parent(node)]
<1> DEFINE p == Parent(node)
<1>0. TypeOK /\ Problem /\ LowerInv
  BY DEF Inv
<1>1. /\ p \in 1..Inner /\ p \in Nodes
  BY <1>0, Numbers, Family DEF SettleParent
<1> HIDE DEF p
<1>2. /\ lb' = [lb EXCEPT ![p] = Smaller(lb[2 * p], lb[2 * p + 1])]
      /\ IsInactive(status, p)
  BY DEF SettleParent, p
<1>3. /\ 2 * p \in Nodes /\ 2 * p + 1 \in Nodes
      /\ Children(p) = {2 * p, 2 * p + 1}
      /\ best[p] = best[2 * p] \/ best[p] = best[2 * p + 1]
  BY <1>0, <1>1, BestInChild
<1>4. /\ lb[2 * p] <= best[2 * p] /\ lb[2 * p + 1] <= best[2 * p + 1]
      /\ upper <= lb[2 * p] /\ upper <= lb[2 * p + 1]
  BY <1>0, <1>2, <1>3 DEF LowerInv, IsInactive
<1>5. /\ lb[2 * p] \in Nat /\ lb[2 * p + 1] \in Nat
      /\ best[2 * p] \in Nat /\ best[2 * p + 1] \in Nat
      /\ upper \in Nat
  BY <1>0, <1>3, Numbers
<1>6. lb \in [Nodes -> Values]
  BY <1>0 DEF TypeOK
<1>7. \A n \in Nodes : n # p => lb'[n] = lb[n]
  BY <1>2, <1>6
<1>8. lb'[p] = Smaller(lb[2 * p], lb[2 * p + 1])
  BY <1>1, <1>2, <1>6
<1>9. lb'[p] <= best[p] /\ upper <= lb'[p]
  BY <1>3, <1>4, <1>5, <1>8 DEF Smaller
<1> QED
  BY <1>1, <1>7, <1>9 DEF p

\* The children that are added get the bound of their parent.
LEMMA ChildrenBound ==
  ASSUME Inv, NEW n \in Nodes, lp[n] < Inf, ~integral[n],
         AddChildren(n, lp[n])
  PROVE  /\ n \in 1..Inner /\ Children(n) \subseteq Nodes \ {Root}
         /\ \A m \in Nodes : lb'[m] <= best[m]
         /\ \A m \in Nodes : status'[m] \in InactiveStatus =>
              lb'[m] = lb[m] \/ m = n
<1>0. TypeOK /\ Problem /\ LowerInv
  BY DEF Inv
<1>1. n \in 1..Inner
  BY <1>0, BranchesInside
<1>2. Children(n) \subseteq Nodes \ {Root}
  BY <1>1, Family
<1>3. /\ \A m \in Nodes : lb'[m] = IF m \in Children(n) \cup {n} THEN lp[n]
                                   ELSE lb[m]
      /\ \A m \in Nodes : status'[m] = IF m \in Children(n) THEN "active"
                                       ELSE status[m]
  BY DEF AddChildren
<1>4. lp[n] <= best[n] /\ lp[n] \in Nat /\ best[n] \in Nat
  BY <1>0, Numbers DEF Problem
<1>5. \A m \in Children(n) : best[n] <= best[m] /\ best[m] \in Nat
  BY <1>0, <1>1, BestInChild, Numbers
<1>6. \A m \in Nodes : lb'[m] <= best[m]
  BY <1>0, <1>3, <1>4, <1>5 DEF LowerInv
<1> QED
  BY <1>1, <1>2, <1>3, <1>6 DEF InactiveStatus

\* The node that is taken from the heap gives a lower bound.
LEMMA TopIsLower ==
  ASSUME Inv, pc = "repairing", NEW n \in Top, upper >= lb[n]
  PROVE  lb[n] <= best[Root]
<1>0. TypeOK /\ LowerInv /\ SearchInv /\ UpperInv
  BY DEF Inv
<1>1. upper = best[Root] \/ \E m \in heap : best[m] = best[Root]
  BY <1>0 DEF SearchInv, Open, InHand
<1>2. n \in Nodes /\ \A m \in heap : m \in Nodes /\ lb[n] <= lb[m]
  BY <1>0 DEF Top, TypeOK
<1>3. CASE upper = best[Root]
  BY <1>0, <1>2, <1>3, Numbers
<1>4. CASE \E m \in heap : best[m] = best[Root]
  <2>1. PICK m \in heap : best[m] = best[Root]
    BY <1>4
  <2>2. m \in Nodes /\ lb[n] <= lb[m] /\ lb[m] <= best[m]
    BY <1>0, <1>2, <2>1 DEF LowerInv
  <2>3. lb[n] \in Nat /\ lb[m] \in Nat /\ best[m] \in Nat
    BY <1>0, <1>2, <2>2, Numbers
  <2> QED
    BY <2>1, <2>2, <2>3
<1> QED
  BY <1>1, <1>3, <1>4

\* A step that closes nothing and changes no bound.
LEMMA LowerFrame ==
  ASSUME Inv, TypeOK', UNCHANGED <<best, lb, status>>,
         upper' <= upper, lower' <= best[Root],
         pc' = "offer" => pc = "offer" /\ UNCHANGED node
  PROVE  LowerInv'
<1>0. TypeOK /\ LowerInv
  BY DEF Inv
<1>1. ASSUME NEW n \in Nodes, status'[n] \in InactiveStatus
      PROVE  upper' <= lb'[n]
  <2>1. upper <= lb[n]
    BY <1>0, <1>1 DEF LowerInv
  <2>2. upper \in Nat /\ upper' \in Nat /\ lb[n] \in Nat
    <3>1. \A v \in Values : v \in Nat
      BY Constants
    <3> QED
      BY <1>0, <3>1, Numbers DEF TypeOK
  <2> QED
    BY <2>1, <2>2
<1>2. pc' = "offer" => (lb[node] = best[node] /\ best[node] < Inf)'
  BY <1>0 DEF LowerInv
<1> QED
  BY <1>0, <1>1, <1>2 DEF LowerInv

\* Every step keeps LowerInv.
LEMMA LowerStep ==
  ASSUME Inv, [Next]_vars, root' # "unsettled"
  PROVE  LowerInv'
<1> USE DEF problemVars, treeVars, localVars, heuristicVars
<1>a. TypeOK /\ TypeOK' /\ Problem /\ LowerInv
  BY NextTyped DEF Inv
<1>b. UNCHANGED <<lp, best, integral>> /\ upper' <= upper
  BY UpperStep
<1>c. /\ upper \in Nat /\ upper' \in Nat /\ node \in Nodes /\ Root \in Nodes
      /\ \A n \in Nodes : lb[n] \in Nat /\ best[n] \in Nat /\ lp[n] \in Nat
  <2>1. \A v \in Values : v \in Nat
    BY Constants
  <2> QED
    BY <1>a, <2>1, Numbers DEF TypeOK
<1>d. lower <= best[Root] /\ lb[Root] <= best[Root]
  BY <1>a, <1>c DEF LowerInv
<1>e. lb \in [Nodes -> Values]
      /\ status \in [Nodes -> {"none", "active", "freed"}
                               \cup InactiveStatus]
  BY <1>a DEF TypeOK
<1>1. CASE /\ UNCHANGED <<lb, status, lower>>
           /\ pc' = "offer" => pc = "offer" /\ UNCHANGED node
  BY <1>a, <1>b, <1>d, <1>1, LowerFrame
<1>2. CASE RootIntegral
  <2>1. UNCHANGED <<lb, status>> /\ lower' = lp[Root] /\ pc' = "done"
    BY <1>2 DEF RootIntegral, NothingFractional
  <2>2. lp[Root] <= best[Root]
    BY <1>a, <1>c DEF Problem
  <2> QED
    BY <1>a, <1>b, <2>1, <2>2, LowerFrame
<1>3. CASE PopNode
  <2>1. PICK n \in Top : upper >= lb[n] /\ lower' = lb[n]
    BY <1>3 DEF PopNode
  <2>2. lower' <= best[Root]
    BY <1>3, <2>1, TopIsLower DEF PopNode
  <2>3. UNCHANGED <<lb, status>> /\ pc' # "offer"
    BY <1>3 DEF PopNode
  <2> QED
    BY <1>a, <1>b, <2>2, <2>3, LowerFrame
<1>4. CASE Finish
  <2>1. UNCHANGED <<lb, status>> /\ pc' = "verdict"
        /\ lower' \in {lb[Root], lower}
    BY <1>4 DEF Finish, FinalLower
  <2> QED
    BY <1>a, <1>b, <1>d, <2>1, LowerFrame
\* The other steps close nodes, or add some: what is left to show of them.
<1>5. ASSUME UNCHANGED lower, \A n \in Nodes : lb'[n] <= best[n],
             \A n \in Nodes : status'[n] \in InactiveStatus =>
               \/ status[n] \in InactiveStatus /\ lb'[n] = lb[n]
               \/ upper' <= lb'[n],
             pc' = "offer" => lb'[node'] = best[node'] /\ best[node'] < Inf
      PROVE  LowerInv'
  <2>1. \A n \in Nodes : status'[n] \in InactiveStatus => upper' <= lb'[n]
    BY <1>a, <1>b, <1>c, <1>5 DEF LowerInv
  <2> QED
    BY <1>b, <1>d, <1>5, <2>1 DEF LowerInv
<1>6. CASE RootBranch
  <2>1. /\ lp[Root] < Inf /\ ~integral[Root] /\ lower' = lp[Root]
        /\ AddChildren(Root, lp[Root]) /\ pc' = "loop" /\ pc = "root"
    BY <1>6 DEF RootBranch
  <2>2. /\ \A m \in Nodes : lb'[m] <= best[m]
        /\ \A m \in Nodes : status'[m] \in InactiveStatus =>
             lb'[m] = lb[m] \/ m = Root
    BY <1>c, <2>1, ChildrenBound
  <2>3. status[Root] = "active"
    BY <2>1 DEF Inv, TreeInv, Open, InHand
  <2>4. \A m \in Nodes : status'[m] \in InactiveStatus => status'[m] = status[m]
    BY <2>1 DEF AddChildren, InactiveStatus
  <2>5. \A m \in Nodes : status'[m] \in InactiveStatus => upper' <= lb'[m]
    BY <1>a, <1>b, <1>c, <2>2, <2>3, <2>4 DEF LowerInv, InactiveStatus
  <2>6. lower' <= best[Root]
    BY <1>a, <1>c, <2>1 DEF Problem
  <2> QED
    BY <1>b, <2>1, <2>2, <2>5, <2>6 DEF LowerInv
<1>7. CASE PopFathomed
  <2>1. PICK n \in Top : upper < lb[n] /\ status' = [status EXCEPT ![n]
                                                        = "fathomed"]
    BY <1>7 DEF PopFathomed
  <2>2. n \in Nodes /\ UNCHANGED <<lower, lb, upper>> /\ pc' = "settle"
    BY <1>7, <1>a DEF PopFathomed, Top, TypeOK
  <2>3. \A m \in Nodes : m # n => status'[m] = status[m]
    BY <1>e, <2>1
  <2> QED
    BY <1>5, <1>a, <1>c, <2>1, <2>2, <2>3 DEF LowerInv
<1>8. CASE LeafInfeasible \/ LeafCutoff \/ LeafFathom
  <2>1. PICK s, bound :
          /\ status' = [status EXCEPT ![node] = s]
          /\ lb' = [lb EXCEPT ![node] = bound]
          /\ \/ bound = Inf /\ lp[node] = Inf
             \/ bound = ub /\ lp[node] > ub
             \/ bound = lp[node] /\ lp[node] > ub
    <3>1. ub \in Nat
      BY <1>a, Numbers
    <3> QED
      BY <1>8, <1>c, <3>1
      DEF LeafInfeasible, LeafCutoff, LeafFathom, CloseNode, WorthBranching
  <2>2. /\ UNCHANGED <<lower, upper>> /\ pc = "solve" /\ pc' = "settle"
    BY <1>8 DEF LeafInfeasible, LeafCutoff, LeafFathom, CloseNode
  <2>3. /\ \A m \in Nodes : m # node => status'[m] = status[m]
        /\ \A m \in Nodes : m # node => lb'[m] = lb[m]
        /\ lb'[node] = bound
    BY <1>c, <1>e, <2>1
  <2>4. upper <= ub /\ ub \in Nat /\ upper <= Inf /\ Inf \in Nat
        /\ lp[node] <= best[node] /\ best[node] <= Inf
    BY <1>a, <1>c, <2>2, Numbers DEF Inv, UpperInv, Problem
  <2>5. bound <= best[node] /\ upper <= bound
    BY <1>c, <2>1, <2>4
  <2>6. \A m \in Nodes : lb'[m] <= best[m]
    BY <1>a, <2>3, <2>5 DEF LowerInv
  <2>7. \A m \in Nodes : status'[m] \in InactiveStatus =>
          \/ status[m] \in InactiveStatus /\ lb'[m] = lb[m]
          \/ upper' <= lb'[m]
    BY <2>2, <2>3, <2>5
  <2> QED
    BY <1>5, <2>2, <2>6, <2>7
<1>9. CASE LeafIntegral
  <2>1. /\ lp[node] < Inf /\ integral[node]
        /\ lb' = [lb EXCEPT ![node] = lp[node]] /\ pc' = "offer"
        /\ pc = "solve" /\ UNCHANGED <<lower, upper, node, status>>
    BY <1>9 DEF LeafIntegral
  <2>2. lp[node] = best[node]
    BY <1>a, <1>c, <2>1 DEF Problem
  <2>3. /\ \A m \in Nodes : m # node => lb'[m] = lb[m]
        /\ lb'[node] = best[node]
    BY <1>c, <1>e, <2>1, <2>2
  <2>4. status[node] \notin InactiveStatus
    BY <2>1 DEF Inv, TreeInv, Open, InHand, InactiveStatus
  <2>5. \A m \in Nodes : lb'[m] <= best[m]
    BY <1>a, <1>c, <2>3 DEF LowerInv
  <2> QED
    BY <1>5, <1>b, <2>1, <2>2, <2>3, <2>4, <2>5
<1>10. CASE LeafBranch
  <2>1. /\ lp[node] < Inf /\ ~integral[node] /\ UNCHANGED lower
        /\ AddChildren(node, lp[node]) /\ pc' = "loop" /\ pc = "solve"
    BY <1>10 DEF LeafBranch
  <2>2. /\ \A m \in Nodes : lb'[m] <= best[m]
        /\ \A m \in Nodes : status'[m] \in InactiveStatus =>
             lb'[m] = lb[m] \/ m = node
    BY <1>c, <2>1, ChildrenBound
  <2>3. status[node] \notin InactiveStatus
    BY <2>1 DEF Inv, TreeInv, Open, InHand, InactiveStatus
  <2>4. \A m \in Nodes : status'[m] \in InactiveStatus => status'[m] = status[m]
    BY <2>1 DEF AddChildren, InactiveStatus
  <2> QED
    BY <1>5, <2>1, <2>2, <2>3, <2>4
<1>11. CASE Offer
  <2>1. /\ UNCHANGED <<lower, lb>> /\ pc = "offer" /\ pc' = "settle"
        /\ upper' = lb[node] \/ (~(lb[node] < upper) /\ upper' = upper)
        /\ status' = [status EXCEPT ![node] = "integer"]
    BY <1>11 DEF Offer, Improves
  <2>2. upper' <= lb'[node]
    BY <1>c, <2>1
  <2>3. \A m \in Nodes : m # node => status'[m] = status[m]
    BY <1>e, <2>1
  <2>4. \A m \in Nodes : lb'[m] <= best[m]
    BY <1>a, <2>1 DEF LowerInv
  <2> QED
    BY <1>5, <2>1, <2>2, <2>3, <2>4
<1>12. CASE SettleParent
  <2>1. /\ Parent(node) \in Nodes
        /\ \A n \in Nodes : n # Parent(node) => lb'[n] = lb[n]
        /\ lb'[Parent(node)] <= best[Parent(node)]
        /\ upper <= lb'[Parent(node)]
    BY <1>12, ParentBound
  <2>2. UNCHANGED <<lower, upper>> /\ pc = "settle" /\ pc' = "settle"
    BY <1>12 DEF SettleParent
  <2>3. \A m \in Nodes : status'[m] \in InactiveStatus =>
          m = Parent(node) \/ status'[m] = status[m]
    BY <1>12 DEF SettleParent, InactiveStatus
  <2>4. \A m \in Nodes : lb'[m] <= best[m]
    BY <1>a, <2>1 DEF LowerInv
  <2> QED
    BY <1>5, <2>1, <2>2, <2>3, <2>4
<1> QED
  BY <1>1, <1>2, <1>3, <1>4, <1>6, <1>7, <1>8, <1>9, <1>10, <1>11, <1>12
  DEF Next, Solve, SolveRoot, RootUnsettled, RootTimeLimit, RootInfeasible,
      RootUnbounded, Loop, TakeRepairs, RepairOne, SolveLeaf, LeafNumerical,
      Settled, Verdict, EmptyHeap, Done, Heuristics, InjectFeasible,
      InjectInfeasible, QueueRepair, vars

-----------------------------------------------------------------------------
(* The tree.                                                               *)

\* Steps that leave the tree and the heap alone.
LEMMA TreeFrame ==
  ASSUME TreeInv, UNCHANGED <<best, status, heap>>, InHand' \subseteq InHand,
         pc' \in {"root", "settle"} => UNCHANGED <<pc, node>>
  PROVE  TreeInv'
<1>1. Open' \subseteq Open
  BY DEF Open
<1>2. \A n \in Open' :
        /\ status'[n] = "active" /\ best'[Root] <= best'[n]
        /\ \A c \in Children(n) \cap Nodes : status'[c] = "none"
  BY <1>1 DEF TreeInv
<1>3. heap' \cap InHand' = {}
  BY DEF TreeInv
<1> QED
  BY <1>2, <1>3 DEF TreeInv

\* The node in hand gets children.
LEMMA TreeBranch ==
  ASSUME Inv, TypeOK', NEW n \in InHand, n \in 1..Inner, UNCHANGED best,
         AddChildren(n, lp[n]), pc' = "loop"
  PROVE  TreeInv'
<1>0. TypeOK /\ Problem /\ TreeInv
  BY DEF Inv
<1>1. /\ n \in Nodes /\ Children(n) \subseteq Nodes \ {Root}
      /\ \A c \in Children(n) : Parent(c) = n /\ c > n
  BY Family, <1>0, BestInChild
<1>2. /\ \A m \in Nodes : status'[m] = IF m \in Children(n) THEN "active"
                                       ELSE status[m]
      /\ heap' = heap \cup Children(n) /\ InHand' = {}
      /\ Open' = heap \cup Children(n)
  BY DEF AddChildren, InHand, Open
<1>3. /\ status[n] = "active" /\ best[Root] <= best[n] /\ n \notin heap
      /\ \A c \in Children(n) : status[c] = "none"
  BY <1>0, <1>1 DEF TreeInv, Open
<1>4. n \notin Children(n) /\ status'[n] = "active"
  <2>1. n \in Nat
    OBVIOUS
  <2> QED
    BY <1>1, <1>2, <1>3, <2>1
<1>5. ASSUME NEW m \in Nodes \ {Root}
      PROVE  /\ status'[m] \in {"active"} \cup InactiveStatus =>
                  status'[Parent(m)] = "active"
             /\ status'[m] # "none" => status'[Parent(m)] # "none"
  <2>1. Parent(m) \in Nodes
    BY Family
  <2>2. CASE m \in Children(n)
    BY <1>1, <1>4, <2>2
  <2>3. CASE m \notin Children(n)
    BY <1>0, <1>2, <2>1, <2>3 DEF TreeInv
  <2> QED
    BY <2>2, <2>3
<1>6. ASSUME NEW m \in heap, NEW c \in Children(m) \cap Nodes
      PROVE  status'[c] = "none"
  <2>1. m \in Nodes /\ Parent(c) = m /\ m # n
    BY <1>0, <1>3, Family DEF TypeOK
  <2>2. c \notin Children(n)
    BY <1>1, <2>1
  <2> QED
    BY <1>0, <1>2, <2>2 DEF TreeInv, Open
<1>7. ASSUME NEW m \in Children(n), NEW c \in Children(m) \cap Nodes
      PROVE  status'[c] = "none"
  <2>1. /\ m \in Nodes /\ Parent(c) = m /\ m # n /\ c \in Nodes \ {Root}
    <3>1. m \in Nodes /\ m > n /\ n \in Nat /\ m \in Nat
      BY <1>1, Constants
    <3>2. Parent(c) = m /\ c > m
      BY <3>1, Family
    <3> QED
      BY <3>1, <3>2, Constants DEF Root
  <2>2. c \notin Children(n)
    BY <1>1, <2>1
  <2> QED
    BY <1>0, <1>2, <1>3, <2>1, <2>2 DEF TreeInv
<1>8. ASSUME NEW m \in Children(n) PROVE best[Root] <= best[m]
  <2>1. best[n] <= best[m] /\ m \in Nodes
    BY <1>0, <1>1, BestInChild
  <2>2. best[Root] \in Nat /\ best[n] \in Nat /\ best[m] \in Nat
    BY <1>0, <1>1, <2>1, Numbers
  <2> QED
    BY <1>3, <2>1, <2>2
<1>9. \A m \in Open' :
        /\ status'[m] = "active" /\ best'[Root] <= best'[m]
        /\ \A c \in Children(m) \cap Nodes : status'[c] = "none"
  <2>1. \A m \in heap : m \in Nodes /\ status[m] = "active"
                        /\ best[Root] <= best[m]
    BY <1>0 DEF TreeInv, Open, TypeOK
  <2> QED
    BY <1>1, <1>2, <1>6, <1>7, <1>8, <2>1
<1>10. /\ Root \notin heap' /\ status'[Root] # "none"
       /\ status'[Root] # "freed"
  BY <1>0, <1>1, <1>2, Constants DEF TreeInv
<1> QED
  BY <1>2, <1>5, <1>9, <1>10 DEF TreeInv

\* A leaf is closed.
LEMMA TreeClose ==
  ASSUME Inv, NEW n \in Open, NEW s \in InactiveStatus, UNCHANGED best,
         status' = [status EXCEPT ![n] = s], heap' = heap \ {n},
         node' = n, pc' = "settle"
  PROVE  TreeInv'
<1>0. TypeOK /\ TreeInv
  BY DEF Inv
<1>1. n \in Nodes /\ Open \subseteq Nodes
  BY <1>0, Types DEF Open, InHand, TypeOK
<1>2. /\ \A m \in Nodes : status'[m] = IF m = n THEN s ELSE status[m]
      /\ InHand' = {} /\ Open' = heap \ {n}
  BY <1>0, <1>1 DEF TypeOK, InHand, Open
<1>3. /\ status[n] = "active"
      /\ \A c \in Children(n) \cap Nodes : status[c] = "none"
  BY <1>0 DEF TreeInv
<1>4. ASSUME NEW m \in Nodes \ {Root}
      PROVE  /\ status'[m] \in {"active"} \cup InactiveStatus =>
                  status'[Parent(m)] = "active"
             /\ status'[m] # "none" => status'[Parent(m)] # "none"
  <2>1. /\ Parent(m) \in Nodes /\ m \in Children(Parent(m))
        /\ Parent(m) # m
    <3>1. Parent(m) < m /\ Parent(m) \in Nodes /\ m \in Children(Parent(m))
      BY Family
    <3>2. m \in Nat /\ Parent(m) \in Nat
      BY <3>1, Constants
    <3> QED
      BY <3>1, <3>2
  <2>2. CASE m = n
    BY <1>0, <1>2, <1>3, <2>1, <2>2 DEF TreeInv
  <2>3. CASE m # n /\ Parent(m) = n
    BY <1>0, <1>2, <1>3, <2>1, <2>3 DEF TreeInv, InactiveStatus
  <2>4. CASE m # n /\ Parent(m) # n
    BY <1>0, <1>2, <2>1, <2>4 DEF TreeInv
  <2> QED
    BY <2>2, <2>3, <2>4
<1>5. \A m \in Open' :
        /\ status'[m] = "active" /\ best'[Root] <= best'[m]
        /\ \A c \in Children(m) \cap Nodes : status'[c] = "none"
  BY <1>0, <1>1, <1>2, <1>3 DEF TreeInv, Open
<1>6. /\ Root \notin heap' /\ status'[Root] # "none"
      /\ status'[Root] # "freed" /\ status'[n] \in InactiveStatus
  BY <1>0, <1>1, <1>2, Constants DEF TreeInv, InactiveStatus
<1> QED
  BY <1>2, <1>4, <1>5, <1>6 DEF TreeInv

\* set_status closes the parent, whose children are freed.
LEMMA TreeSettle ==
  ASSUME Inv, SettleParent
  PROVE  TreeInv'
<1> DEFINE p == Parent(node)
<1>0. TypeOK /\ TreeInv /\ node \in Nodes
  BY Types DEF Inv
<1>1. /\ pc = "settle" /\ node # Root /\ IsInactive(status, p)
      /\ UNCHANGED <<best, heap>> /\ node' = p /\ pc' = "settle"
      /\ status' = [m \in Nodes |->
                      IF m \in Children(p) THEN "freed"
                      ELSE IF m = p THEN "fathomed" ELSE status[m]]
  BY DEF SettleParent, problemVars
<1>2. p \in 1..Inner /\ p \in Nodes /\ node \in Children(p)
  BY <1>0, <1>1, Family
<1>3. status[p] = "active" /\ p # node
  <2>1. status[p] = "active"
    BY <1>0, <1>1 DEF TreeInv
  <2>2. status[node] # "active"
    BY <1>0, <1>1 DEF TreeInv, InactiveStatus
  <2> QED
    BY <2>1, <2>2
<1> HIDE DEF p
<1>4. /\ Children(p) \subseteq Nodes \ {Root} /\ p \notin Children(p)
      /\ \A c \in Children(p) : status[c] \in InactiveStatus
                                /\ status[c] # "active" /\ status[c] # "none"
  BY <1>1, <1>2, <1>3, Family DEF IsInactive, InactiveStatus
<1>5. \A m \in Nodes : status'[m] = IF m \in Children(p) THEN "freed"
                                    ELSE IF m = p THEN "fathomed"
                                    ELSE status[m]
  BY <1>1
<1>6. InHand = {} /\ InHand' = {} /\ Open = heap /\ Open' = heap
  BY <1>1 DEF InHand, Open
<1>7. ASSUME NEW m \in Nodes \ {Root}
      PROVE  /\ status'[m] \in {"active"} \cup InactiveStatus =>
                  status'[Parent(m)] = "active"
             /\ status'[m] # "none" => status'[Parent(m)] # "none"
  <2>1. /\ Parent(m) \in Nodes /\ m \in Children(Parent(m))
        /\ Parent(m) # m
    <3>1. Parent(m) < m /\ Parent(m) \in Nodes /\ m \in Children(Parent(m))
      BY Family
    <3>2. m \in Nat /\ Parent(m) \in Nat
      BY <3>1, Constants
    <3> QED
      BY <3>1, <3>2
  <2>2. status'[m] # "none" => status'[Parent(m)] # "none"
    BY <1>0, <1>3, <1>4, <1>5, <2>1 DEF TreeInv
  <2>3. ASSUME status'[m] \in {"active"} \cup InactiveStatus
        PROVE  status'[Parent(m)] = "active"
    <3>1. m \notin Children(p)
      BY <1>5, <2>3 DEF InactiveStatus
    <3>2. status[m] \in {"active"} \cup InactiveStatus
      BY <1>3, <1>5, <2>3, <3>1
    <3>3. status[Parent(m)] = "active"
      BY <1>0, <3>2 DEF TreeInv
    <3>4. Parent(m) # p /\ Parent(m) \notin Children(p)
      BY <1>4, <2>1, <3>1, <3>3
    <3> QED
      BY <1>5, <2>1, <3>3, <3>4
  <2> QED
    BY <2>2, <2>3
<1>8. ASSUME NEW m \in heap
      PROVE  /\ status'[m] = "active" /\ best'[Root] <= best'[m]
             /\ \A c \in Children(m) \cap Nodes : status'[c] = "none"
  <2>1. /\ m \in Nodes /\ status[m] = "active" /\ best[Root] <= best[m]
        /\ \A c \in Children(m) \cap Nodes : status[c] = "none"
    BY <1>0, <1>6 DEF TreeInv, TypeOK
  <2>2. m # p /\ m \notin Children(p)
    BY <1>0, <1>2, <1>4, <2>1
  <2>3. \A c \in Children(m) \cap Nodes : c # p /\ c \notin Children(p)
    BY <1>3, <1>4, <2>1
  <2> QED
    BY <1>1, <1>5, <2>1, <2>2, <2>3
<1>9. /\ Root \notin heap' /\ status'[Root] # "none"
      /\ status'[Root] # "freed" /\ status'[node'] \in InactiveStatus
  BY <1>0, <1>1, <1>2, <1>4, <1>5, Constants DEF TreeInv, InactiveStatus
<1> QED
  BY <1>1, <1>6, <1>7, <1>8, <1>9 DEF TreeInv

\* What a step that closes the node in hand does.
LEMMA LeafCloses ==
  ASSUME Inv, LeafInfeasible \/ LeafCutoff \/ LeafFathom \/ Offer
  PROVE  /\ node \in Open /\ node \notin heap /\ pc' = "settle"
         /\ UNCHANGED <<best, heap, node>>
         /\ \E s \in InactiveStatus :
              status' = [status EXCEPT ![node] = s]
<1>1. /\ pc \in {"solve", "offer"} /\ pc' = "settle"
      /\ UNCHANGED <<best, heap, node>>
  BY DEF LeafInfeasible, LeafCutoff, LeafFathom, CloseNode, Offer,
     problemVars
<1>2. \E s \in InactiveStatus : status' = [status EXCEPT ![node] = s]
  BY DEF LeafInfeasible, LeafCutoff, LeafFathom, CloseNode, Offer,
     InactiveStatus
<1>3. node \in Open /\ node \notin heap
  BY <1>1 DEF Inv, TreeInv, Open, InHand
<1> QED
  BY <1>1, <1>2, <1>3

\* Every step keeps TreeInv.
LEMMA TreeStep ==
  ASSUME Inv, [Next]_vars, root' # "unsettled"
  PROVE  TreeInv'
<1> USE DEF problemVars, treeVars, localVars, heuristicVars
<1>a. TypeOK /\ TypeOK' /\ Problem /\ TreeInv
  BY NextTyped DEF Inv
<1>1. CASE /\ UNCHANGED <<best, status, heap>> /\ InHand' \subseteq InHand
           /\ pc' \in {"root", "settle"} => UNCHANGED <<pc, node>>
  BY <1>1, <1>a, TreeFrame
<1>2. CASE RootBranch \/ LeafBranch
  <2>1. /\ pc \in {"root", "solve"} /\ UNCHANGED best /\ pc' = "loop"
        /\ lp[node] < Inf /\ ~integral[node] /\ AddChildren(node, lp[node])
    BY <1>2, <1>a DEF RootBranch, LeafBranch, TreeInv
  <2>2. node \in InHand /\ node \in 1..Inner
    BY <1>a, <2>1, Types, BranchesInside DEF InHand
  <2> QED
    BY <1>a, <2>1, <2>2, TreeBranch
<1>3. CASE PopFathomed
  <2>1. PICK n \in Top : heap' = heap \ {n} /\ node' = n
                         /\ status' = [status EXCEPT ![n] = "fathomed"]
    BY <1>3 DEF PopFathomed
  <2>2. n \in Open /\ UNCHANGED best /\ pc' = "settle"
        /\ "fathomed" \in InactiveStatus
    BY <1>3 DEF PopFathomed, Top, Open, InactiveStatus
  <2> QED
    BY <2>1, <2>2, TreeClose
<1>4. CASE PopNode
  <2>1. PICK n \in Top : heap' = heap \ {n} /\ node' = n
    BY <1>4 DEF PopNode
  <2>2. /\ pc = "repairing" /\ UNCHANGED <<best, status>>
        /\ pc' \in {"solve", "finish"} /\ n \in heap
    BY <1>4 DEF PopNode, Top
  <2>3. /\ InHand' \subseteq {n} /\ Open' \subseteq Open
        /\ heap' \cap InHand' = {}
    BY <2>1, <2>2 DEF InHand, Open
  <2>4. \A m \in Open' :
          /\ status'[m] = "active" /\ best'[Root] <= best'[m]
          /\ \A c \in Children(m) \cap Nodes : status'[c] = "none"
    BY <1>a, <2>2, <2>3 DEF TreeInv
  <2> QED
    BY <1>a, <2>1, <2>2, <2>3, <2>4 DEF TreeInv
<1>5. CASE LeafInfeasible \/ LeafCutoff \/ LeafFathom \/ Offer
  <2>1. /\ node \in Open /\ heap' = heap \ {node} /\ node' = node
        /\ pc' = "settle" /\ UNCHANGED best
        /\ \E s \in InactiveStatus :
             status' = [status EXCEPT ![node] = s]
    BY <1>5, LeafCloses
  <2> QED
    BY <2>1, TreeClose
<1>6. CASE SettleParent
  BY <1>6, TreeSettle
<1>7. CASE RootTimeLimit \/ RootInfeasible \/ RootUnbounded \/ RootIntegral
             \/ Loop
             \/ TakeRepairs \/ RepairOne \/ LeafIntegral \/ LeafNumerical
             \/ Settled \/ Finish \/ Verdict \/ EmptyHeap
  <2>1. UNCHANGED <<best, status, heap>> /\ pc' \notin {"root", "settle"}
    BY <1>7 DEF RootTimeLimit, RootInfeasible, RootUnbounded, RootIntegral,
       NothingFractional, Loop, TakeRepairs, RepairOne, LeafIntegral,
       LeafNumerical, Settled, Finish, Verdict, EmptyHeap
  <2>2. InHand' \subseteq InHand
    BY <1>7 DEF InHand, RootTimeLimit, RootInfeasible, RootUnbounded,
       RootIntegral, NothingFractional, Loop, TakeRepairs, RepairOne,
       LeafIntegral, LeafNumerical, Settled, Finish, Verdict, EmptyHeap
  <2> QED
    BY <1>1, <2>1, <2>2
<1>8. CASE Heuristics \/ Done \/ UNCHANGED vars
  <2>1. UNCHANGED <<best, status, heap, pc, node>>
    BY <1>8 DEF Heuristics, InjectFeasible, InjectInfeasible, QueueRepair,
       Done, vars
  <2> QED
    BY <1>1, <2>1 DEF InHand
<1> QED
  BY <1>2, <1>3, <1>4, <1>5, <1>6, <1>7, <1>8
  DEF Next, Solve, SolveRoot, RootUnsettled, SolveLeaf

-----------------------------------------------------------------------------
(* The search.                                                             *)

\* An upper bound that is the optimum stays.
LEMMA UpperStays ==
  ASSUME Inv, [Next]_vars, root' # "unsettled"
  PROVE  /\ UNCHANGED best
         /\ upper = best[Root] => upper' = best'[Root]
<1>1. /\ UNCHANGED best /\ upper' <= upper /\ best[Root] <= upper
      /\ best'[Root] <= upper'
  BY UpperStep DEF Inv, UpperInv, problemVars
<1>2. upper \in Nat /\ upper' \in Nat /\ best[Root] \in Nat
  <2>1. \A v \in Values : v \in Nat
    BY Constants
  <2> QED
    BY <2>1, NextTyped, Numbers DEF Inv, TypeOK
<1> QED
  BY <1>1, <1>2

\* Steps that leave the tree and the open nodes alone.
LEMMA SearchFrame ==
  ASSUME Inv, [Next]_vars, root' # "unsettled", UNCHANGED <<status, Open>>,
         result' = "unset" => result = "unset",
         pc = "settle" => UNCHANGED <<pc, node>>,
         pc' \notin {"finish", "verdict", "empty", "done"} =>
           result' = "unset"
  PROVE  SearchInv'
<1>1. /\ UNCHANGED best /\ (upper = best[Root] => upper' = best'[Root])
  BY UpperStays
<1>2. SearchInv
  BY DEF Inv
<1>3. ASSUME result' = "unset"
      PROVE  upper' = best'[Root] \/ \E n \in Open' : best'[n] = best'[Root]
  BY <1>1, <1>2, <1>3 DEF SearchInv
<1>4. ASSUME result' = "unset", NEW n \in Nodes \ Open', status'[n] = "active"
      PROVE  /\ n <= Inner
             /\ \A c \in Children(n) :
                  status'[c] \in {"active"} \cup InactiveStatus
             /\ \/ \E c \in Children(n) : status'[c] = "active"
                \/ pc' = "settle" /\ node' \in Children(n)
  BY <1>2, <1>4 DEF SearchInv
<1> QED
  BY <1>3, <1>4 DEF SearchInv

\* The node in hand gets children.
LEMMA SearchBranch ==
  ASSUME Inv, [Next]_vars, root' # "unsettled",
         NEW n \in InHand, n \in 1..Inner,
         AddChildren(n, lp[n]), pc' = "loop", UNCHANGED result
  PROVE  SearchInv'
<1>0. TypeOK /\ Problem /\ TreeInv /\ SearchInv
  BY DEF Inv
<1>1. /\ UNCHANGED best /\ (upper = best[Root] => upper' = best'[Root])
  BY UpperStays
<1>2. pc \in {"root", "solve", "offer"} /\ result = "unset"
      /\ InHand = {n}
  BY <1>0 DEF InHand, SearchInv
<1>3. /\ n \in Nodes /\ Children(n) \subseteq Nodes \ {Root}
      /\ Children(n) = {2 * n, 2 * n + 1}
      /\ best[n] = best[2 * n] \/ best[n] = best[2 * n + 1]
  BY Family, <1>0, BestInChild
<1>4. /\ \A m \in Nodes : status'[m] = IF m \in Children(n) THEN "active"
                                       ELSE status[m]
      /\ Open' = heap \cup Children(n)
  BY DEF AddChildren, InHand, Open
<1>5. upper' = best'[Root] \/ \E m \in Open' : best'[m] = best'[Root]
  BY <1>0, <1>1, <1>2, <1>3, <1>4 DEF SearchInv, Open
<1>6. ASSUME NEW m \in Nodes \ Open', status'[m] = "active"
      PROVE  /\ m <= Inner
             /\ \A c \in Children(m) :
                  status'[c] \in {"active"} \cup InactiveStatus
             /\ \E c \in Children(m) : status'[c] = "active"
  <2>1. CASE m = n
    <3>1. \A c \in Children(n) : status'[c] = "active"
      BY <1>3, <1>4
    <3> QED
      BY <1>3, <2>1, <3>1
  <2>2. CASE m # n
    <3>1. m \in Nodes \ Open /\ status[m] = "active"
      BY <1>2, <1>4, <1>6, <2>2 DEF Open
    <3>2. /\ m <= Inner
          /\ \A c \in Children(m) :
               status[c] \in {"active"} \cup InactiveStatus
          /\ \E c \in Children(m) : status[c] = "active"
      BY <1>0, <1>2, <3>1 DEF SearchInv
    <3>3. m \in 1..Inner
      BY <3>1, <3>2, Constants DEF Nodes
    <3>4. \A c \in Children(m) : c \in Nodes /\ c \notin Children(n)
      BY <1>3, <2>2, <3>1, <3>3, Family
    <3> QED
      BY <1>4, <3>2, <3>4
  <2> QED
    BY <2>1, <2>2
<1> QED
  BY <1>2, <1>5, <1>6 DEF SearchInv

\* A leaf is closed that does not hold the optimum, or not any more.
LEMMA SearchClose ==
  ASSUME Inv, [Next]_vars, root' # "unsettled",
         NEW n \in Open, NEW s \in InactiveStatus,
         status' = [status EXCEPT ![n] = s], heap' = heap \ {n},
         InHand \subseteq {n}, node' = n, pc' = "settle", UNCHANGED result,
         pc \in {"repairing", "solve", "offer"},
         best[n] = best[Root] => upper' = best[Root]
  PROVE  SearchInv'
<1>0. TypeOK /\ SearchInv
  BY DEF Inv
<1>1. /\ UNCHANGED best /\ (upper = best[Root] => upper' = best'[Root])
  BY UpperStays
<1>2. result = "unset"
  BY <1>0 DEF SearchInv
<1>3. /\ n \in Nodes /\ InHand' = {} /\ Open' = Open \ {n}
      /\ \A m \in Nodes : status'[m] = IF m = n THEN s ELSE status[m]
  BY <1>0, Types DEF TypeOK, InHand, Open
<1>4. upper' = best'[Root] \/ \E m \in Open' : best'[m] = best'[Root]
  BY <1>0, <1>1, <1>2, <1>3 DEF SearchInv
<1>5. ASSUME NEW m \in Nodes \ Open', status'[m] = "active"
      PROVE  /\ m <= Inner
             /\ \A c \in Children(m) :
                  status'[c] \in {"active"} \cup InactiveStatus
             /\ \/ \E c \in Children(m) : status'[c] = "active"
                \/ n \in Children(m)
  <2>1. m \in Nodes \ Open /\ status[m] = "active"
    BY <1>3, <1>5 DEF InactiveStatus
  <2>2. /\ m <= Inner
        /\ \A c \in Children(m) :
             status[c] \in {"active"} \cup InactiveStatus
        /\ \E c \in Children(m) : status[c] = "active"
    BY <1>0, <1>2, <2>1 DEF SearchInv
  <2>3. m \in 1..Inner
    BY <2>1, <2>2, Constants DEF Nodes
  <2>4. \A c \in Children(m) : c \in Nodes
    BY <2>3, Family
  <2> QED
    BY <1>3, <2>2, <2>4
<1> QED
  BY <1>2, <1>4, <1>5 DEF SearchInv

\* Closing a parent keeps SearchInv: its children are closed before it.
LEMMA SearchSettle ==
  ASSUME Inv, [Next]_vars, root' # "unsettled", SettleParent
  PROVE  SearchInv'
<1> DEFINE p == Parent(node)
<1>0. TypeOK /\ TreeInv /\ SearchInv /\ node \in Nodes
  BY Types DEF Inv
<1>1. /\ pc = "settle" /\ node # Root /\ IsInactive(status, p)
      /\ UNCHANGED <<heap, result>> /\ node' = p /\ pc' = "settle"
      /\ status' = [m \in Nodes |->
                      IF m \in Children(p) THEN "freed"
                      ELSE IF m = p THEN "fathomed" ELSE status[m]]
  BY DEF SettleParent
<1>2. /\ p \in 1..Inner /\ p \in Nodes /\ node \in Children(p)
      /\ result = "unset"
  BY <1>0, <1>1, Family DEF SearchInv
<1>3. \A m \in Nodes : node \in Children(m) => m = p
  BY Family
<1> HIDE DEF p
<1>4. /\ UNCHANGED best /\ (upper = best[Root] => upper' = best'[Root])
  BY UpperStays
<1>5. Open' = Open
  BY <1>1 DEF Open, InHand
<1>6. upper' = best'[Root] \/ \E m \in Open' : best'[m] = best'[Root]
  BY <1>0, <1>2, <1>4, <1>5 DEF SearchInv
<1>7. ASSUME NEW m \in Nodes \ Open', status'[m] = "active"
      PROVE  /\ m <= Inner
             /\ \A c \in Children(m) :
                  status'[c] \in {"active"} \cup InactiveStatus
             /\ \/ \E c \in Children(m) : status'[c] = "active"
                \/ p \in Children(m)
  <2>1. m # p /\ m \in Nodes \ Open /\ status[m] = "active"
    BY <1>1, <1>5, <1>7
  <2>2. /\ m <= Inner
        /\ \A c \in Children(m) :
             status[c] \in {"active"} \cup InactiveStatus
        /\ \E c \in Children(m) : status[c] = "active"
    BY <1>0, <1>2, <1>3, <2>1 DEF SearchInv
  <2>3. m \in 1..Inner
    BY <2>1, <2>2, Constants DEF Nodes
  <2>4. \A c \in Children(m) : c \in Nodes /\ c \notin Children(p)
    BY <1>2, <2>1, <2>3, Family
  <2>5. \A c \in Children(m) :
          status'[c] = IF c = p THEN "fathomed" ELSE status[c]
    BY <1>1, <2>4
  <2> QED
    BY <2>2, <2>5 DEF InactiveStatus
<1> QED
  BY <1>1, <1>2, <1>6, <1>7 DEF SearchInv

\* Every step keeps SearchInv.
LEMMA SearchStep ==
  ASSUME Inv, [Next]_vars, root' # "unsettled"
  PROVE  SearchInv'
<1> USE DEF problemVars, treeVars, localVars, heuristicVars
<1>a. TypeOK /\ Problem /\ TreeInv /\ SearchInv /\ LowerInv /\ UpperInv
  BY DEF Inv
<1>b. /\ upper \in Nat /\ ub \in Nat /\ Inf \in Nat /\ upper <= Inf
      /\ node \in Nodes
      /\ \A n \in Nodes : /\ lb[n] \in Nat /\ best[n] \in Nat
                          /\ lp[n] \in Nat /\ best[n] <= Inf
      /\ best[Root] \in Nat
  BY <1>a, Numbers
<1>c. best[Root] <= upper
  BY <1>a DEF UpperInv
<1>1. CASE RootTimeLimit \/ RootInfeasible \/ RootUnbounded \/ RootIntegral
             \/ LeafNumerical
  BY <1>1 DEF RootTimeLimit, RootInfeasible, RootUnbounded, RootIntegral,
     NothingFractional, LeafNumerical, SearchInv
<1>2. CASE RootBranch \/ LeafBranch
  <2>1. /\ pc \in {"root", "solve"} /\ pc' = "loop" /\ UNCHANGED result
        /\ lp[node] < Inf /\ ~integral[node] /\ AddChildren(node, lp[node])
    BY <1>2, <1>a DEF RootBranch, LeafBranch, TreeInv
  <2>2. node \in InHand /\ node \in 1..Inner
    BY <1>a, <2>1, Types, BranchesInside DEF InHand
  <2> QED
    BY <2>1, <2>2, SearchBranch
<1>3. CASE PopFathomed
  <2>1. PICK n \in Top : upper < lb[n] /\ heap' = heap \ {n} /\ node' = n
                         /\ status' = [status EXCEPT ![n] = "fathomed"]
    BY <1>3 DEF PopFathomed
  <2>2. /\ n \in Open /\ pc = "repairing" /\ pc' = "settle"
        /\ "fathomed" \in InactiveStatus /\ InHand = {}
        /\ UNCHANGED result /\ n \in Nodes
    BY <1>3, <1>a DEF PopFathomed, Top, Open, InactiveStatus, InHand, TypeOK
  <2>3. best[n] # best[Root]
    <3>1. lb[n] <= best[n]
      BY <1>a, <2>2 DEF LowerInv
    <3> QED
      BY <1>b, <1>c, <2>1, <2>2, <3>1
  <2> QED
    BY <2>1, <2>2, <2>3, SearchClose
<1>4. CASE PopNode
  <2>1. PICK n \in Top : heap' = heap \ {n} /\ node' = n
    BY <1>4 DEF PopNode
  <2>2. /\ pc = "repairing" /\ UNCHANGED status
        /\ \/ pc' = "solve" /\ UNCHANGED result
           \/ pc' = "finish" /\ result' = "time limit"
        /\ n \in heap
    BY <1>4 DEF PopNode, Top
  <2>3. CASE pc' = "solve" /\ UNCHANGED result
    <3>1. Open' = Open
      BY <2>1, <2>2, <2>3 DEF Open, InHand
    <3>2. result' = "unset"
      BY <1>a, <2>2, <2>3 DEF SearchInv
    <3> QED
      BY <2>2, <2>3, <3>1, <3>2, SearchFrame
  <2>4. CASE pc' = "finish" /\ result' = "time limit"
    BY <2>4 DEF SearchInv
  <2> QED
    BY <2>2, <2>3, <2>4
<1>5. CASE LeafInfeasible \/ LeafCutoff \/ LeafFathom \/ Offer
  <2>1. /\ node \in Open /\ heap' = heap \ {node} /\ node' = node
        /\ pc' = "settle"
        /\ \E s \in InactiveStatus :
             status' = [status EXCEPT ![node] = s]
    BY <1>5, LeafCloses
  <2>2. /\ UNCHANGED result /\ pc \in {"solve", "offer"}
        /\ InHand \subseteq {node}
    BY <1>5 DEF LeafInfeasible, LeafCutoff, LeafFathom, CloseNode, Offer,
       InHand
  <2>3. ASSUME best[node] = best[Root] PROVE upper' = best[Root]
    <3>1. CASE LeafInfeasible
      <4>1. lp[node] = Inf /\ UNCHANGED upper /\ lp[node] <= best[node]
        BY <1>a, <1>b, <3>1 DEF LeafInfeasible, Problem
      <4> QED
        BY <1>b, <1>c, <2>3, <4>1
    <3>2. CASE LeafCutoff \/ LeafFathom
      <4>1. lp[node] > ub /\ pc = "solve" /\ lp[node] <= best[node]
        BY <1>a, <1>b, <3>2 DEF LeafCutoff, LeafFathom, WorthBranching,
           Problem
      <4>2. upper <= ub
        BY <1>a, <4>1 DEF UpperInv
      <4> QED
        BY <1>b, <1>c, <2>3, <4>1, <4>2
    <3>3. CASE Offer
      <4>1. /\ lb[node] = best[node]
            /\ IF lb[node] < upper THEN upper' = lb[node]
                                   ELSE upper' = upper
        BY <1>a, <3>3 DEF Offer, Improves, LowerInv
      <4> QED
        BY <1>b, <1>c, <2>3, <4>1
    <3> QED
      BY <1>5, <3>1, <3>2, <3>3
  <2> QED
    BY <2>1, <2>2, <2>3, SearchClose
<1>6. CASE SettleParent
  BY <1>6, SearchSettle
<1>7. CASE Settled
  <2>1. /\ pc = "settle" /\ pc' = "loop"
        /\ ~(node # Root /\ IsInactive(status, Parent(node)))
        /\ UNCHANGED <<status, heap, node, result>>
    BY <1>7 DEF Settled
  <2>2. /\ UNCHANGED best /\ (upper = best[Root] => upper' = best'[Root])
        /\ Open' = Open /\ result = "unset"
    BY <1>a, <2>1, UpperStays DEF Open, InHand, SearchInv
  <2>3. ASSUME NEW m \in Nodes \ Open, status[m] = "active"
        PROVE  /\ m <= Inner
               /\ \A c \in Children(m) :
                    status[c] \in {"active"} \cup InactiveStatus
               /\ \E c \in Children(m) : status[c] = "active"
    <3>1. /\ m <= Inner
          /\ \A c \in Children(m) :
               status[c] \in {"active"} \cup InactiveStatus
          /\ \/ \E c \in Children(m) : status[c] = "active"
             \/ node \in Children(m)
      BY <1>a, <2>2, <2>3 DEF SearchInv
    <3>2. ASSUME node \in Children(m)
          PROVE  \E c \in Children(m) : status[c] = "active"
      <4>1. m = Parent(node) /\ node > m
        BY <3>2, Family
      <4>2. node # Root
        <5>1. m \in Nat /\ m >= 1
          BY Constants DEF Nodes
        <5> QED
          BY <4>1, <5>1, <1>b, Constants DEF Root
      <4>3. \E c \in Children(m) : status[c] \notin InactiveStatus
        BY <2>1, <4>1, <4>2 DEF IsInactive
      <4> QED
        BY <3>1, <4>3
    <3> QED
      BY <3>1, <3>2
  <2>4. upper' = best'[Root] \/ \E n \in Open' : best'[n] = best'[Root]
    BY <1>a, <2>2 DEF SearchInv
  <2> QED
    BY <2>1, <2>2, <2>3, <2>4 DEF SearchInv
<1>8. CASE Loop \/ TakeRepairs \/ RepairOne \/ LeafIntegral \/ Finish
             \/ Verdict \/ EmptyHeap
  <2>1. /\ UNCHANGED <<status, heap>> /\ pc # "settle"
        /\ result' = "unset" => result = "unset"
    BY <1>8 DEF Loop, TakeRepairs, RepairOne, LeafIntegral, Finish, Verdict,
       EmptyHeap
  <2>2. Open' = Open
    BY <1>8 DEF Open, InHand, Loop, TakeRepairs, RepairOne, LeafIntegral,
       Finish, Verdict, EmptyHeap
  <2>3. pc' \notin {"finish", "verdict", "empty", "done"} =>
          result' = "unset"
    BY <1>8, <1>a DEF Loop, TakeRepairs, RepairOne, LeafIntegral, Finish,
       Verdict, EmptyHeap, SearchInv
  <2> QED
    BY <2>1, <2>2, <2>3, SearchFrame
<1>9. CASE Heuristics \/ Done \/ UNCHANGED vars
  <2>1. UNCHANGED <<status, heap, pc, node, result>>
    BY <1>9 DEF Heuristics, InjectFeasible, InjectInfeasible, QueueRepair,
       Done, vars
  <2>2. Open' = Open
    BY <2>1 DEF Open, InHand
  <2> QED
    BY <1>a, <2>1, <2>2, SearchFrame DEF SearchInv
<1> QED
  BY <1>1, <1>2, <1>3, <1>4, <1>5, <1>6, <1>7, <1>8, <1>9
  DEF Next, Solve, SolveRoot, RootUnsettled, SolveLeaf

-----------------------------------------------------------------------------
(* The result.                                                             *)

\* When nothing is left to do in the loop, the root is closed: the last of
\* the active nodes would be open or have an active child behind it.
LEMMA RootClosed ==
  ASSUME Inv, pc = "loop", heap = {}
  PROVE  status[Root] \in InactiveStatus
<1> DEFINE A == {n \in Nodes : status[n] = "active"}
<1>1. Open = {} /\ result = "unset"
  BY DEF Open, InHand, Inv, SearchInv
<1>2. ASSUME A # {} PROVE FALSE
  <2>1. PICK n \in A : \A m \in A : m <= n
    BY <1>2, LastNode
  <2>2. n \in Nodes /\ status[n] = "active"
    OBVIOUS
  <2>3. n <= Inner /\ \E c \in Children(n) : status[c] = "active"
    BY <1>1, <2>2 DEF Inv, SearchInv
  <2>4. PICK c \in Children(n) : status[c] = "active"
    BY <2>3
  <2>5. n \in 1..Inner
    BY <2>2, <2>3, Constants DEF Nodes
  <2>6. c \in Nodes /\ c > n
    BY <2>2, <2>5, Family
  <2>7. c <= n /\ c \in Nat /\ n \in Nat
    BY <2>1, <2>2, <2>4, <2>6, Constants
  <2> QED
    BY <2>6, <2>7
<1>3. status[Root] # "active"
  BY <1>2, Constants
<1>4. status[Root] \notin {"none", "freed"}
  BY DEF Inv, TreeInv
<1>5. status[Root] \in {"none", "active", "freed"} \cup InactiveStatus
  BY Constants DEF Inv, TypeOK
<1> QED
  BY <1>3, <1>4, <1>5

\* A closed root proves the upper bound to be the optimum.
LEMMA ClosedIsSolved ==
  ASSUME Inv, status[Root] \in InactiveStatus
  PROVE  upper = best[Root] /\ lb[Root] = upper
<1>1. /\ upper <= lb[Root] /\ lb[Root] <= best[Root] /\ best[Root] <= upper
  BY Constants DEF Inv, UpperInv, LowerInv
<1>2. upper \in Nat /\ lb[Root] \in Nat /\ best[Root] \in Nat
  BY Numbers DEF Inv
<1> QED
  BY <1>1, <1>2

\* A relative gap that is closed stays so when the upper bound gets better.
LEMMA RelClosedBetter ==
  ASSUME NEW u \in Nat, NEW v \in Nat, NEW b \in Int, b <= v, v <= u,
         RelClosed(u, b)
  PROVE  RelClosed(v, b)
<1>1. RelGap \in Nat /\ 100 - RelGap \in Nat
  BY Constants
<1>2. u < Inf /\ 100 * (u - b) <= RelGap * u
  BY DEF RelClosed
<1>3. u - v \in Nat
  OBVIOUS
<1>4. (100 - RelGap) * (u - v) >= 0
  BY <1>1, <1>3
<1>5. (100 - RelGap) * (u - v) = (100 * u - 100 * v) - (RelGap * u - RelGap * v)
  BY <1>1
<1>6. RelGap * u \in Int /\ RelGap * v \in Int
  BY <1>1
<1>7. 100 * (v - b) <= RelGap * v
  BY <1>2, <1>4, <1>5, <1>6
<1>8. v < Inf
  BY <1>2, Constants
<1> QED
  BY <1>7, <1>8 DEF RelClosed

\* ... and is one to the optimum when it is one to a lower bound of it.
LEMMA RelClosedToBest ==
  ASSUME NEW u \in Nat, NEW l \in Int, NEW b \in Nat, l <= b, b <= u,
         RelClosed(u, l)
  PROVE  RelClosed(u, b)
<1>1. u < Inf /\ 100 * (u - l) <= RelGap * u
  BY DEF RelClosed
<1>2. RelGap * u \in Int
  BY Constants
<1>3. 100 * (u - b) <= RelGap * u
  BY <1>1, <1>2
<1> QED
  BY <1>1, <1>3 DEF RelClosed

\* Every step keeps GapInv.
LEMMA GapStep ==
  ASSUME Inv, [Next]_vars, root' # "unsettled"
  PROVE  GapInv'
<1> USE DEF problemVars, treeVars, localVars, heuristicVars
<1>a. TypeOK /\ TypeOK' /\ GapInv /\ LowerInv
  BY NextTyped DEF Inv
<1>b. UNCHANGED best /\ upper' <= upper /\ LowerInv'
  BY UpperStep, LowerStep
<1>c. /\ upper \in Nat /\ upper' \in Nat /\ best[Root] \in Nat
      /\ upper <= Inf /\ Inf \in Nat /\ AbsGap \in Nat /\ AbsGap < Inf
      /\ gap \in Int /\ lower \in Int /\ node \in Nodes /\ lb[Root] \in Nat
      /\ \A n \in Nodes : lb[n] \in Nat
  <2>1. \A v \in Values : v \in Nat
    BY Constants
  <2> QED
    BY <1>a, <2>1, Numbers, Constants DEF TypeOK
<1>1. CASE UNCHANGED gap
  BY <1>a, <1>b, <1>c, <1>1 DEF GapInv
\* The gap to a lower bound.
<1>2. ASSUME NEW l \in Int, l <= best[Root], gap' = GapOf(upper', l)
      PROVE  GapInv'
  <2>1. upper' <= Inf /\ Inf \in Int
    BY <1>b, <1>c
  <2>2. CASE upper' = Inf
    <3>1. gap' = Inf
      BY <1>2, <2>2 DEF GapOf
    <3>2. ~(gap' <= AbsGap)
      BY <1>c, <3>1
    <3> QED
      BY <3>2 DEF GapInv
  <2>3. CASE upper' # Inf
    <3>1. gap' = upper' - l
      BY <1>2, <2>3 DEF GapOf
    <3>2. upper' < Inf /\ upper' - gap' = l
      <4>1. upper' \in Int /\ l \in Int
        BY <1>c, <1>2
      <4>2. upper' < Inf
        BY <2>1, <2>3, <4>1
      <4>3. \A u, i \in Int : \A g : g = u - i => u - g = i
        OBVIOUS
      <4>5. upper' - gap' = l
        BY <3>1, <4>1, <4>3, Zenon
      <4> QED
        BY <4>2, <4>5
    <3>3. best'[Root] = best[Root]
      BY <1>b
    <3> QED
      BY <1>2, <3>2, <3>3 DEF GapInv
  <2> QED
    BY <2>2, <2>3
<1>3. CASE RootBranch
  <2>1. gap' = GapOf(upper', lower') /\ lower' = lp[Root]
    BY <1>3 DEF RootBranch
  <2>2. lower' \in Int /\ lower' <= best[Root]
    BY <1>a, <1>b, <2>1, Numbers DEF LowerInv
  <2> QED
    BY <1>2, <2>1, <2>2
<1>4. CASE PopNode
  <2>1. PICK n \in Top : gap' = GapOf(upper, lb[n]) /\ lower' = lb[n]
                         /\ UNCHANGED upper
    BY <1>4 DEF PopNode
  <2>2. lb[n] \in Int /\ lb[n] <= best[Root]
    BY <1>a, <1>b, <1>c, <2>1 DEF LowerInv, Top, TypeOK
  <2> QED
    BY <1>2, <2>1, <2>2
<1>5. CASE Finish
  <2>1. gap' = gap \/ gap' = GapOf(upper', lb[Root])
    BY <1>5 DEF Finish, FinalLower
  <2>2. lb[Root] \in Int /\ lb[Root] <= best[Root]
    BY <1>a, <1>c, Constants DEF LowerInv
  <2> QED
    BY <1>1, <1>2, <2>1, <2>2
<1>6. CASE Offer
  <2>1. \/ UNCHANGED gap
        \/ upper' = lb[node] /\ gap' = lb[node] - lower
    BY <1>6 DEF Offer
  <2>2. lb[node] < Inf /\ lower <= best[Root] /\ lb[node] \in Nat
    BY <1>6, <1>a, <1>c DEF Offer, LowerInv
  <2>3. GapOf(lb[node], lower) = lb[node] - lower
    BY <1>c, <2>2 DEF GapOf
  <2> QED
    BY <1>1, <1>2, <1>c, <2>1, <2>2, <2>3
<1> QED
  BY <1>1, <1>3, <1>4, <1>5, <1>6
  DEF Next, Solve, SolveRoot, RootUnsettled, RootTimeLimit, RootInfeasible,
      RootUnbounded, RootIntegral, NothingFractional, Loop, TakeRepairs,
      RepairOne, PopFathomed, SolveLeaf, LeafInfeasible, LeafCutoff,
      LeafIntegral, LeafBranch, LeafFathom, LeafNumerical, SettleParent,
      Settled, Verdict, EmptyHeap, Done, Heuristics, InjectFeasible,
      InjectInfeasible, QueueRepair, vars

\* OPTIMAL stays right whatever comes after it.
LEMMA OptimalStep ==
  ASSUME Inv, [Next]_vars, root' # "unsettled", result' = "optimal"
  PROVE  /\ upper' < Inf
         /\ upper' - best'[Root] <= AbsGap \/ RelClosed(upper', best'[Root])
<1> USE DEF problemVars, treeVars, localVars, heuristicVars
<1>a. TypeOK /\ TypeOK' /\ GapInv /\ LowerInv /\ EndInv /\ Problem
  BY NextTyped DEF Inv
<1>b. UNCHANGED best /\ upper' <= upper /\ best[Root] <= upper'
  BY UpperStep DEF UpperInv
<1>c. /\ upper \in Nat /\ upper' \in Nat /\ best[Root] \in Nat
      /\ Inf \in Nat /\ AbsGap \in Nat /\ gap \in Int /\ lower \in Int
  <2>1. \A v \in Values : v \in Nat
    BY Constants
  <2> QED
    BY <1>a, <2>1, Numbers, Constants DEF TypeOK
<1>1. CASE result = "optimal"
  <2>1. /\ upper < Inf
        /\ upper - best[Root] <= AbsGap \/ RelClosed(upper, best[Root])
    BY <1>a, <1>1 DEF EndInv
  <2>2. upper' < Inf
    BY <1>b, <1>c, <2>1
  <2>3. CASE upper - best[Root] <= AbsGap
    BY <1>b, <1>c, <2>2, <2>3
  <2>4. CASE RelClosed(upper, best[Root])
    BY <1>b, <1>c, <2>2, <2>4, RelClosedBetter
  <2> QED
    BY <2>1, <2>3, <2>4
<1>2. CASE RootIntegral
  <2>1. upper' = lp[Root] /\ lp[Root] < Inf /\ integral[Root]
    BY <1>2 DEF RootIntegral, NothingFractional
  <2>2. lp[Root] = best[Root]
    BY <1>a, <2>1, Constants DEF Problem
  <2> QED
    BY <1>b, <1>c, <2>1, <2>2
<1>3. CASE Verdict
  <2>1. UNCHANGED upper
        /\ (result = "optimal" \/ gap <= AbsGap \/ RelClosed(upper, lower))
    BY <1>3 DEF Verdict
  <2>2. CASE gap <= AbsGap
    <3>1. upper < Inf /\ upper - gap <= best[Root]
      BY <1>a, <2>2 DEF GapInv
    <3> QED
      BY <1>b, <1>c, <2>1, <2>2, <3>1
  <2>3. CASE RelClosed(upper, lower)
    <3>1. lower <= best[Root]
      BY <1>a DEF LowerInv
    <3>2. RelClosed(upper, best[Root])
      BY <1>b, <1>c, <2>1, <2>3, <3>1, RelClosedToBest
    <3>3. upper < Inf
      BY <2>3 DEF RelClosed
    <3> QED
      BY <1>b, <2>1, <3>2, <3>3
  <2> QED
    BY <1>1, <2>1, <2>2, <2>3
<1> QED
  BY <1>1, <1>2, <1>3
  DEF Next, Solve, SolveRoot, RootUnsettled, RootTimeLimit, RootInfeasible,
      RootUnbounded, RootBranch, Loop, TakeRepairs, RepairOne, PopFathomed,
      PopNode, SolveLeaf, LeafInfeasible, LeafCutoff, LeafIntegral, LeafBranch,
      LeafFathom, LeafNumerical, Offer, SettleParent, Settled, Finish,
      EmptyHeap, Done, Heuristics, InjectFeasible, InjectInfeasible,
      QueueRepair, vars

\* As long as there is no status, the way to one is open.
LEMMA UnsetStep ==
  ASSUME Inv, [Next]_vars, root' # "unsettled", result' = "unset"
  PROVE  /\ pc' = "finish" =>
              /\ gap' <= AbsGap \/ RelClosed(upper', lower') \/ heap' = {}
              /\ heap' = {} => status'[Root] \in InactiveStatus
         /\ pc' = "verdict" =>
              \/ gap' <= AbsGap \/ RelClosed(upper', lower')
              \/ heap' = {} /\ upper' = Inf /\ best'[Root] = Inf
         /\ pc' = "empty" => heap' = {} /\ upper' = Inf /\ best'[Root] = Inf
         /\ pc' # "done"
<1> USE DEF problemVars, treeVars, localVars, heuristicVars
<1>a. TypeOK /\ TypeOK' /\ LowerInv /\ EndInv
  BY NextTyped DEF Inv
<1>b. UNCHANGED best /\ upper' <= upper /\ best[Root] <= upper'
  BY UpperStep DEF UpperInv
<1>c. /\ upper \in Nat /\ upper' \in Nat /\ best[Root] \in Nat
      /\ Inf \in Nat /\ AbsGap \in Nat /\ upper' <= Inf
      /\ lower \in Int /\ lower <= best[Root]
  <2>1. \A v \in Values : v \in Nat /\ v <= Inf
    BY Constants
  <2> QED
    BY <1>a, <2>1, Numbers, Constants DEF TypeOK, LowerInv
<1>1. CASE Loop
  <2>1. /\ UNCHANGED <<upper, lower, status, heap, gap>> /\ pc = "loop"
        /\ pc' \in {"repair", "finish"}
        /\ pc' = "finish" =>
             ~(gap > AbsGap /\ ~RelClosed(upper, lower) /\ heap # {})
    BY <1>1 DEF Loop
  <2>2. gap \in Int
    BY <1>a, Numbers
  <2>3. heap = {} => status[Root] \in InactiveStatus
    BY <2>1, RootClosed
  <2> QED
    BY <1>c, <2>1, <2>2, <2>3
<1>2. CASE Finish
  <2>1. /\ UNCHANGED <<upper, heap, result>> /\ pc = "finish"
        /\ pc' = "verdict" /\ result = "unset"
    BY <1>2 DEF Finish
  <2>2. CASE heap = {}
    <3>1. upper = best[Root] /\ lb[Root] = upper
      BY <1>a, <2>1, <2>2, ClosedIsSolved DEF EndInv
    <3>2. gap' = GapOf(upper, upper)
      BY <1>2, <2>2, <3>1 DEF Finish, FinalLower
    <3> QED
      BY <1>b, <1>c, <2>1, <2>2, <3>1, <3>2 DEF GapOf
  <2>3. CASE heap # {}
    <3>1. UNCHANGED <<gap, lower>>
      BY <1>2, <2>3 DEF Finish, FinalLower
    <3> QED
      BY <1>a, <2>1, <2>3, <3>1 DEF EndInv
  <2> QED
    BY <2>2, <2>3
<1>3. CASE Verdict
  BY <1>3, <1>a DEF Verdict, EndInv
<1>4. CASE EmptyHeap
  BY <1>4, <1>a DEF EmptyHeap, EndInv
<1>5. CASE Heuristics \/ Done \/ UNCHANGED vars
  <2>1. UNCHANGED <<gap, lower, status, heap, pc, result>>
    BY <1>5 DEF Heuristics, InjectFeasible, InjectInfeasible, QueueRepair,
       Done, vars
  <2>2. RelClosed(upper, lower) => RelClosed(upper', lower')
    <3>1. lower <= upper'
      BY <1>b, <1>c
    <3> QED
      BY <1>b, <1>c, <2>1, <3>1, RelClosedBetter
  <2>3. best[Root] = Inf => upper' = Inf
    BY <1>b, <1>c
  <2> QED
    BY <1>a, <1>b, <2>1, <2>2, <2>3 DEF EndInv
<1>6. CASE pc' \notin {"finish", "verdict", "empty", "done"}
  BY <1>6
<1> QED
  BY <1>1, <1>2, <1>3, <1>4, <1>5, <1>6
  DEF Next, Solve, SolveRoot, RootUnsettled, RootTimeLimit, RootInfeasible,
      RootUnbounded, RootIntegral, NothingFractional, RootBranch, TakeRepairs,
      RepairOne, PopFathomed, PopNode, SolveLeaf, LeafInfeasible, LeafCutoff,
      CloseNode, LeafIntegral, LeafBranch, LeafFathom, LeafNumerical, Offer,
      SettleParent, Settled

-----------------------------------------------------------------------------
(* The theorems.                                                           *)

\* The invariant holds before the root relaxation.
LEMMA InitInv ==
  Init => Inv
<1> SUFFICES ASSUME Init PROVE Inv
  OBVIOUS
<1>1. PICK p \in Problems :
        lp = p.lp /\ best = p.best /\ integral = p.integral /\ IsProblem(p)
  BY ConstantsAssumption DEF Init
<1>2. Problem /\ lp \in [Nodes -> Values] /\ best \in [Nodes -> Values]
      /\ integral \in [Nodes -> BOOLEAN]
  BY <1>1 DEF IsProblem, Problem
<1>3. 0 \in Values /\ MaxInjected \in Nat /\ Inf \in Int
  BY ConstantsAssumption DEF Values, Inf
<1>4. TypeOK
  <2>1. /\ repairq \in Seq(Values) /\ torepair \in Seq(Values)
        /\ heap \subseteq Nodes /\ lb \in [Nodes -> Values]
        /\ status \in [Nodes -> {"none", "active", "freed"}
                                  \cup InactiveStatus]
    BY <1>3 DEF Init
  <2>2. /\ upper = Inf /\ lower = NegInf /\ pc = "root" /\ node = Root
        /\ ub = Inf /\ gap = Inf /\ result = "unset" /\ sent = Inf
        /\ hbest = Inf /\ hpend = NegInf /\ injected = 0
        /\ root = "unsolved"
    BY DEF Init
  <2> QED
    BY <1>2, <1>3, <2>1, <2>2, Constants DEF TypeOK, RootStatus, PCs, Results
<1>5. \A n \in Nodes : best[n] \in Nat /\ best[n] <= Inf
  BY <1>4, Numbers
<1>6. /\ upper = Inf /\ lower = NegInf /\ pc = "root" /\ node = Root
      /\ ub = Inf /\ gap = Inf /\ result = "unset" /\ sent = Inf
      /\ hbest = Inf /\ hpend = NegInf /\ heap = {}
      /\ repairq = <<>> /\ torepair = <<>>
      /\ \A n \in Nodes : lb[n] = 0
      /\ \A n \in Nodes : status[n] = IF n = Root THEN "active" ELSE "none"
  BY DEF Init
<1>7. UpperInv
  BY <1>5, <1>6, Constants DEF UpperInv, Smaller
<1>8. LowerInv
  BY <1>5, <1>6, Constants DEF LowerInv, InactiveStatus
<1>9. Open = {Root} /\ InHand = {Root}
  BY <1>6 DEF Open, InHand
<1>10. TreeInv
  <2>1. \A c \in Children(Root) \cap Nodes : status[c] = "none"
    <3> TAKE c \in Children(Root) \cap Nodes
    <3>1. c \in Nodes /\ c # Root
      BY Family, Constants
    <3> QED
      BY <1>6, <3>1
  <2>2. status[Root] = "active" /\ best[Root] <= best[Root]
    BY <1>5, <1>6, Constants
  <2> QED
    BY <1>6, <1>9, <2>1, <2>2 DEF TreeInv, InactiveStatus
<1>11. SearchInv
  BY <1>6, <1>9 DEF SearchInv
<1>12. GapInv /\ EndInv
  BY <1>6, Constants DEF GapInv, EndInv
<1> QED
  BY <1>2, <1>4, <1>7, <1>8, <1>10, <1>11, <1>12 DEF Inv

\* Every step keeps the invariant: one lemma for each of its parts.
LEMMA NextInv ==
  ASSUME Inv, [Next]_vars, root' # "unsettled"
  PROVE  Inv'
<1>1. TypeOK' /\ UpperInv' /\ LowerInv' /\ TreeInv' /\ SearchInv' /\ GapInv'
  BY NextTyped, UpperStep, LowerStep, TreeStep, SearchStep, GapStep
<1>2. EndInv'
  BY OptimalStep, UnsetStep DEF EndInv
<1>3. Problem'
  <2>1. UNCHANGED <<lp, best, integral>> /\ Problem
    BY UpperStep DEF problemVars, Inv
  <2> QED
    BY <2>1 DEF Problem
<1> QED
  BY <1>1, <1>2, <1>3 DEF Inv

\* Only the root relaxation that is given up makes it so.
LEMMA UnsettledStep ==
  ASSUME Inv, [Next]_vars, root # "unsettled", root' = "unsettled"
  PROVE  RootUnsettled
BY DEF Next, Solve, SolveRoot, RootTimeLimit, RootInfeasible, RootUnbounded,
   RootIntegral, RootBranch, Loop, TakeRepairs, RepairOne, PopFathomed,
   PopNode, SolveLeaf, LeafInfeasible, LeafCutoff, LeafIntegral, LeafBranch,
   LeafFathom, LeafNumerical, Offer, SettleParent, Settled, Finish, Verdict,
   EmptyHeap, Done, Heuristics, InjectFeasible, InjectInfeasible,
   QueueRepair, vars

\* Where it was given up solve() has returned, and no tree was built.
GivenUp ==
  /\ TypeOK /\ HeapIsAlive
  /\ pc = "done" /\ status[Root] = "active" /\ result # "unset"

Inductive == IF root = "unsettled" THEN GivenUp ELSE Inv

\* What is left to happen then changes nothing of this.
LEMMA GivenUpStep ==
  ASSUME GivenUp, [Next]_vars
  PROVE  GivenUp' /\ UNCHANGED root
<1> USE DEF treeVars, localVars, heuristicVars, problemVars
<1>1. UNCHANGED <<root, pc, status, heap, result>>
      /\ (Heuristics \/ UNCHANGED vars)
  BY DEF GivenUp, Next, Solve, SolveRoot, RootTimeLimit, RootInfeasible,
     RootUnbounded, RootIntegral, RootUnsettled, RootBranch, Loop,
     TakeRepairs, RepairOne, PopFathomed, PopNode, SolveLeaf, LeafInfeasible,
     LeafCutoff, LeafIntegral, LeafBranch, LeafFathom, LeafNumerical, Offer,
     SettleParent, Settled, Finish, Verdict, EmptyHeap, Done, Heuristics,
     InjectFeasible, InjectInfeasible, QueueRepair, vars
<1>2. TypeOK'
  <2>1. CASE UNCHANGED vars
    BY <2>1 DEF vars, GivenUp, TypeOK
  <2> QED
    BY <1>1, <2>1, EndTyped DEF GivenUp
<1> QED
  BY <1>1, <1>2 DEF GivenUp, HeapIsAlive

LEMMA InductiveStep ==
  ASSUME Inductive, [Next]_vars
  PROVE  Inductive'
<1>1. CASE root = "unsettled"
  BY <1>1, GivenUpStep DEF Inductive
<1>2. CASE root # "unsettled" /\ root' = "unsettled"
  <2>1. Inv /\ RootUnsettled /\ TypeOK'
    BY <1>2, UnsettledStep, NextTyped DEF Inductive
  <2>2. /\ UNCHANGED <<status, heap>> /\ pc = "root"
        /\ pc' = "done" /\ result' = "optimal"
    BY <2>1 DEF RootUnsettled, NothingFractional, treeVars
  <2>3. status[Root] = "active" /\ HeapIsAlive
    BY <2>1, <2>2 DEF Inv, TypeOK, TreeInv, Open, InHand, HeapIsAlive
  <2> QED
    BY <1>2, <2>1, <2>2, <2>3 DEF Inductive, GivenUp, HeapIsAlive
<1>3. CASE root # "unsettled" /\ root' # "unsettled"
  BY <1>3, NextInv DEF Inductive
<1> QED
  BY <1>1, <1>2, <1>3

\* The invariant holds throughout every solve of branch_and_bound_t, with any
\* tree, relaxations, gaps and limits.
THEOREM Invariance ==
  Spec => []Inductive
<1>1. Init => Inductive
  BY InitInv DEF Init, Inductive
<1>2. Inductive /\ [Next]_vars => Inductive'
  BY InductiveStep
<1> QED
  BY <1>1, <1>2, PTL DEF Spec

(* Every variable keeps its type.                                          *)
THEOREM TypeCorrect ==
  Spec => []TypeOK
<1>1. Inductive => TypeOK
  BY DEF Inductive, GivenUp, Inv
<1> QED
  BY <1>1, Invariance, PTL

(* Unless the root relaxation was given up, the global lower bound is one, *)
(* and the upper bound is that of a solution the heuristics have found or  *)
(* were sent.                                                              *)
THEOREM BoundsValid ==
  Spec => []BoundsAreValid
<1>1. Inductive => BoundsAreValid
  BY DEF Inductive, Inv, UpperInv, LowerInv, BoundsAreValid
<1> QED
  BY <1>1, Invariance, PTL

(* When set_status has closed the root, the problem is solved.             *)
THEOREM ExhaustedSolved ==
  Spec => []ExhaustedIsSolved
<1>1. Inductive => ExhaustedIsSolved
  BY ClosedIsSolved DEF Inductive, GivenUp, InactiveStatus, ExhaustedIsSolved
<1> QED
  BY <1>1, Invariance, PTL

(* Unless the root relaxation was given up, OPTIMAL is right within the    *)
(* tolerances; and solve() never returns without a status.                 *)
THEOREM StatusRight ==
  Spec => []StatusIsRight
<1>1. Inductive => StatusIsRight
  BY DEF Inductive, GivenUp, Inv, UpperInv, EndInv, IsNearOptimum,
     StatusIsRight
<1> QED
  BY <1>1, Invariance, PTL

(* remove_fathomed_nodes never frees a node that the heap points to.       *)
THEOREM HeapAlive ==
  Spec => []HeapIsAlive
<1>1. Inv => HeapIsAlive
  BY DEF Inv, TypeOK, TreeInv, Open, HeapIsAlive
<1>2. Inductive => HeapIsAlive
  BY <1>1 DEF Inductive, GivenUp
<1> QED
  BY <1>2, Invariance, PTL
=============================================================================
