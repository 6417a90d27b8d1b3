------------------------------ MODULE Population ------------------------------
(***************************************************************************)
(* The population of solutions that the primal heuristics of the MIP       *)
(* solver keep (cpp/src/mip/diversity/population.cu, population.cuh), as   *)
(* operators over one population.                                          *)
(*                                                                         *)
(* A population is a record:                                               *)
(*   best      solutions[0] and indices[0]: whether it is used, the best   *)
(*             feasible solution, and its cost                             *)
(*   slots     the rest of solutions, a solution or None where it is free  *)
(*   ranks     the rest of indices: slots and costs, best cost first       *)
(*   radius    var_threshold                                               *)
(*   weight    the weight of the constraints, one for all of them          *)
(*   reported  best_feasible_objective, the objective of the best solution *)
(*             passed to branch and bound and to the user's callbacks      *)
(*                                                                         *)
(* Variables are binary, objectives, violations and costs small integers,  *)
(* to be minimised; a difference of one exceeds OBJECTIVE_EPSILON.         *)
(***************************************************************************)
EXTENDS Integers, SequencesExt, FiniteSetsExt

CONSTANTS
  Sols,         \* the solutions heuristics may come up with
  Defaults,     \* solutions as constructed, whose slacks nobody has computed
  Vars,         \* n_variables; all of them are integer variables
  At,           \* for each solution, the variables it sets to one
  Obj,          \* its objective
  Excess,       \* by how much it violates the constraints
  Feas,         \* the solutions that are feasible within the tolerances
  MaxObj,       \* the largest objective
  MaxCost,      \* the largest cost
  MaxWeight,    \* max_infeasibility_weight
  MaxSolutions  \* max_solutions

None == -1
Inf == MaxObj + 1      \* no objective
NoCost == MaxCost + 1  \* the cost of no solution
All == Sols \cup Defaults

ASSUME PopulationAssumption ==
  /\ Vars \in Nat \ {0} /\ MaxObj \in Nat
  /\ MaxSolutions \in Nat \ {0, 1} /\ MaxWeight \in Nat \ {0}
  /\ Sols \cap Defaults = {} /\ Defaults # {} /\ All \subseteq Nat
  /\ At \in [All -> SUBSET (1..Vars)]
  /\ Obj \in [All -> 0..MaxObj]
  /\ Excess \in [All -> Nat]
  /\ Feas \subseteq Sols
  /\ MaxCost \in Nat
  /\ \A s \in All : MaxWeight * Excess[s] + Obj[s] <= MaxCost

-----------------------------------------------------------------------------
(* Solutions.                                                              *)

\* is_feasible, false in a solution that was only constructed. A constraint
\* may be violated within a tolerance.
Feasible(s) == s \in Feas

\* What is feasible and has this objective violates no constraint at all.
Exact(obj) == \A s \in Feas : Obj[s] = obj => Excess[s] = 0

\* get_quality: a violation within the tolerance has its price too.
Cost(s, w) == w * Excess[s] + Obj[s]

\* calculate_similarity_radius: the number of equal integers.
Radius(s, t) ==
  Vars - Cardinality((At[s] \ At[t]) \cup (At[t] \ At[s]))

Similar(s, t, radius) == Radius(s, t) > radius

Smaller(a, b) == IF a <= b THEN a ELSE b
Larger(a, b) == IF a >= b THEN a ELSE b

-----------------------------------------------------------------------------
(* Reading the population.                                                 *)

MaxRanks == MaxSolutions - 1

CurrentSize(p) == Len(p.ranks)
IsFull(p) == CurrentSize(p) = MaxRanks

SolAt(p, i) == p.slots[p.ranks[i].slot]

\* best(): the solution of least cost, feasible or not.
Best(p) == SolAt(p, 1)

\* Mutant: the best feasible solution is not part of the vector.
RanksOnly(p) == [i \in DOMAIN p.ranks |-> SolAt(p, i)]

PopulationToVector(p) ==
  (IF p.best.used THEN <<p.best.sol>> ELSE <<>>)
    \o [i \in DOMAIN p.ranks |-> SolAt(p, i)]

\* The solutions of the pool similar to s; the first one is what
\* best_similar_index returns.
SimilarTo(p, s) == {i \in DOMAIN p.ranks : Similar(s, SolAt(p, i), p.radius)}

-----------------------------------------------------------------------------
(* Changing the population.                                                *)

\* run_solution_callbacks: an improving feasible solution goes to branch and
\* bound and to the user, whether or not it is in the population.
RunSolutionCallbacks(p, s) ==
  IF Feasible(s) /\ Obj[s] < p.reported THEN [p EXCEPT !.reported = Obj[s]]
  ELSE p

\* The best feasible solution is kept in a place of its own: best by cost,
\* not by the objective that is reported.
BeatsBestFeasible(p, s) ==
  Feasible(s) /\ (~p.best.used \/ Cost(s, p.weight) < p.best.cost)

WithBest(p, s) ==
  IF BeatsBestFeasible(p, s)
    THEN [RunSolutionCallbacks(p, s) EXCEPT
            !.best = [used |-> TRUE, sol |-> s, cost |-> Cost(s, p.weight)]]
    ELSE p

\* The places of a sequence in an order, a reflexive one given by its pairs.
InOrder(places, order) ==
  [i \in 1..Cardinality(places) |->
     CHOOSE k \in places :
       Cardinality({j \in places : <<j, k>> \in order}) = i]

\* seq without the places in gone.
RemoveAtAll(seq, gone) ==
  LET places == DOMAIN seq
      order == {jk \in places \X places : jk[1] <= jk[2]}
      kept == InOrder(places \ gone, order)
  IN  [i \in DOMAIN kept |-> seq[kept[i]]]

\* eradicate_similar, or the ejection of the worst solution.
Removed(p, gone) ==
  [p EXCEPT
     !.ranks = RemoveAtAll(p.ranks, gone),
     !.slots = [i \in DOMAIN p.slots |->
                  IF \E j \in gone : p.ranks[j].slot = i THEN None
                  ELSE p.slots[i]]]

\* find_free_solution_index.
FreeSlots(p) == {i \in DOMAIN p.slots : p.slots[i] = None}

\* insert_index: behind the solutions of the same cost.
InsertedPos(p, cost) ==
  1 + Cardinality({i \in DOMAIN p.ranks : p.ranks[i].cost <= cost})

\* The solution takes the first free place (which one does not matter).
Inserted(p, s) ==
  LET cost == Cost(s, p.weight)
      slot == Min(FreeSlots(p))
      pos  == InsertedPos(p, cost)
  IN  [pop |-> [p EXCEPT !.slots[slot] = s,
                         !.ranks = InsertAt(p.ranks, pos,
                                     [slot |-> slot, cost |-> cost])],
       pos |-> pos]

Rejected(p) == [pop |-> p, pos |-> -1]

\* add_solution: the population, and the position it returns.
AddSolution(p, s) ==
  LET q == WithBest(p, s)
      cost == Cost(s, p.weight)
      similar == SimilarTo(p, s)
  IN  IF IsFull(p) /\ Last(p.ranks).cost <= cost THEN Rejected(q)
      ELSE IF similar = {}
        THEN Inserted(IF IsFull(q) THEN Removed(q, {MaxRanks}) ELSE q, s)
      ELSE IF cost < p.ranks[Min(similar)].cost
        THEN Inserted(Removed(q, similar), s)
      ELSE Rejected(q)

\* add_solutions_from_vec.
AddAll(p, sols) ==
  LET added[n \in 0..Len(sols)] ==
        IF n = 0 THEN p ELSE AddSolution(added[n - 1], sols[n]).pop
  IN  added[Len(sols)]

\* clear.
Clear(p) ==
  [p EXCEPT !.best.used = FALSE, !.best.cost = NoCost, !.ranks = <<>>,
            !.slots = [i \in DOMAIN p.slots |-> None]]

\* clear_except_best_feasible, which marks the first place as used.
ClearExceptBestFeasible(p) ==
  [p EXCEPT !.best.used = TRUE, !.ranks = <<>>,
            !.slots = [i \in DOMAIN p.slots |-> None]]

\* get_max_var_threshold: fewer equal variables make more solutions similar.
MaxVarThreshold ==
  IF Vars < 50 THEN Larger(1, Vars - 1)
  ELSE Vars - (IF Vars < 80 THEN 2 ELSE IF Vars < 200 THEN 4
               ELSE IF Vars < 1000 THEN 8 ELSE 10)

\* find_diversity, with the largest similarity found.
FindDiversity(p, sols) ==
  LET places == DOMAIN sols
      pairs == {ij \in places \X places : ij[1] < ij[2]}
      most == Max({0} \cup {Radius(sols[ij[1]], sols[ij[2]]) : ij \in pairs})
  IN  [p EXCEPT !.radius = Smaller(most, MaxVarThreshold)]

\* The solutions are added again under another radius.
AddedAgain(p, vec, radius) ==
  AddAll([ClearExceptBestFeasible(p) EXCEPT !.radius = radius], vec)

Shrink(p, vec) ==
  IF CurrentSize(p) > MaxSolutions \div 2
    THEN AddedAgain(p, vec, Larger((97 * p.radius) \div 100, Vars \div 2))
    ELSE p

Refill(p, vec) ==
  IF CurrentSize(p) < MaxSolutions \div 4
    THEN AddedAgain(p, vec, Smaller(MaxVarThreshold,
                              Smaller((97 * p.radius) \div 100,
                                      (995 * Vars) \div 1000)))
    ELSE p

\* Each loop ends after six tries (max_adjustments is four).
Shrink3(p, vec) == Shrink(Shrink(Shrink(p, vec), vec), vec)
Refill3(p, vec) == Refill(Refill(Refill(p, vec), vec), vec)

\* halve_the_population: the radius shrinks until enough solutions are
\* similar to better ones; it shrinks again if too many are.
HalveThePopulation(p) ==
  LET vec == PopulationToVector(p)
      halved == Shrink3(Shrink3(p, vec), vec)
  IN  IF CurrentSize(p) <= MaxSolutions \div 2 THEN p
      ELSE Refill3(Refill3(halved, vec), vec)

\* Mutant: the pool is left in the order it had.
KeptOrder(ranks) == ranks

\* std::sort by cost. It may leave solutions of one cost in any order; here
\* they keep theirs.
ByCost(ranks) ==
  LET places == DOMAIN ranks
      order == {jk \in places \X places :
                  \/ ranks[jk[1]].cost < ranks[jk[2]].cost
                  \/ ranks[jk[1]].cost = ranks[jk[2]].cost /\ jk[1] <= jk[2]}
      sorted == InOrder(places, order)
  IN  [i \in DOMAIN sorted |-> ranks[sorted[i]]]

\* update_qualities.
UpdateQualities(p) ==
  IF p.ranks = <<>> THEN p
  ELSE [p EXCEPT
          !.best.cost = IF p.best.used THEN Cost(p.best.sol, p.weight) ELSE @,
          !.ranks = ByCost([i \in DOMAIN p.ranks |->
            [p.ranks[i] EXCEPT !.cost = Cost(SolAt(p, i), p.weight)]])]

\* Mutant: the weight has no upper limit.
WeightDoubled(w) == 2 * w

IncreasedWeight(w) == Smaller(MaxWeight, 2 * w)

\* update_weights: an infeasible best() makes violations cost more.
UpdateWeights(p) ==
  UpdateQualities(
    [p EXCEPT !.weight = IF Feasible(Best(p)) THEN Larger(1, @ - 1)
                         ELSE IncreasedWeight(@)])

\* initialize_population. Its room is allocated later.
InitialRadius == Larger(Vars - 256, (Vars \div 10) * 8)

EmptyPopulation ==
  [best |-> [used |-> FALSE, sol |-> CHOOSE s \in Defaults : TRUE,
             cost |-> NoCost],
   slots |-> <<>>, ranks |-> <<>>, radius |-> InitialRadius,
   weight |-> 1, reported |-> Inf]

\* allocate_solutions, which may be called again: the first place is then
\* left alone.
AllocateSolutions(p, default) ==
  IF p.slots = <<>>
    THEN [p EXCEPT !.best.sol = default,
                   !.slots = [i \in 1..MaxRanks |-> None]]
    ELSE [p EXCEPT !.slots = @ \o [i \in 1..MaxSolutions |-> None]]

-----------------------------------------------------------------------------

\* The places in use are those the ranks name, each one once: a new solution
\* finds a free place whenever the population is not full.
PlacesAreRanked(p) ==
  /\ DOMAIN p.slots \ FreeSlots(p) = {p.ranks[i].slot : i \in DOMAIN p.ranks}
  /\ \A i, j \in DOMAIN p.ranks : p.ranks[i].slot = p.ranks[j].slot => i = j

\* test_invariant, but for the best feasible solution: the costs are those of
\* the solutions under the present weights, the ranks are sorted, and no two
\* solutions of the pool are similar.
PoolInvariant(p) ==
  /\ CurrentSize(p) <= MaxRanks
  /\ \A i \in DOMAIN p.ranks :
       /\ SolAt(p, i) # None
       /\ p.ranks[i].cost = Cost(SolAt(p, i), p.weight)
       /\ \A j \in i + 1..Len(p.ranks) :
            /\ p.ranks[i].cost <= p.ranks[j].cost
            /\ ~Similar(SolAt(p, i), SolAt(p, j), p.radius)

\* test_invariant, its last part: what is marked as the best feasible
\* solution is feasible.
BestIsFeasible(p) == p.best.used => Feasible(p.best.sol)
=============================================================================
