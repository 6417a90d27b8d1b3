---------------------------- MODULE MipHeuristics ----------------------------
(***************************************************************************)
(* The thread of the primal heuristics of the MIP solver beside the one of *)
(* branch and bound (cpp/src/mip/diversity/diversity_manager.cu,           *)
(* cpp/src/mip/solver.cu). The answer of a solve is the best feasible      *)
(* solution of the population: what branch and bound finds is queued for   *)
(* it, what the heuristics find is reported to branch and bound, and when  *)
(* branch and bound is done it preempts the heuristics.                    *)
(*                                                                         *)
(* A step of the heuristics ends where they look at the preemption flag,   *)
(* at the queue or at the time. How a solution is made (feasibility jump,  *)
(* feasibility pump, LP, recombination) is a choice of a solution; branch  *)
(* and bound accepts the feasible ones as they are, and what it finds in   *)
(* its tree is feasible here (BranchAndBound.tla has the rest); no user    *)
(* callback injects solutions.                                             *)
(***************************************************************************)
EXTENDS Population

CONSTANTS
  AbsGap,      \* absolute_mip_gap
  RelGap,      \* relative_mip_gap, in percent
  IslandSize,  \* maximum_island_size
  NewSols,     \* n_sols_to_generate
  MaxWithout   \* max_iterations_without_improvement

ASSUME HeuristicsAssumption ==
  /\ AbsGap \in Nat /\ RelGap \in 0..100
  /\ IslandSize \in Nat \ {0} /\ NewSols \in Nat \ {0}
  /\ MaxWithout \in Nat \ {0}

VARIABLES
  pc,        \* where the heuristics are
  pop,       \* population
  pending,   \* initial_sol_vector, or the local new_solutions
  rounds,    \* solutions generated in the loop at hand, or tries left
  todo,      \* new_sol_vector: external solutions to recombine
  partners,  \* population_vector: solutions to recombine with current
  current,   \* solution, the argument of recombine_and_ls_with_all
  back,      \* where to go on after recombining
  stepped,   \* current_step > 0
  queue,     \* external_solution_queue
  preempt,   \* preempt_heuristic_solver_
  late,      \* timer.check_time_limit()
  bb,        \* is branch and bound running, how has it ended
  bbBest,    \* objective of the best solution branch and bound has sent
  answer     \* what run_solver has returned, and why

localVars == <<rounds, todo, partners, current, back, stepped>>
bbVars == <<bb, bbBest>>
vars == <<pc, pop, pending, localVars, queue, preempt, late, bbVars, answer>>

-----------------------------------------------------------------------------
\* What the lower bound of branch and bound never exceeds.
Optimum == Min({Inf} \cup {Obj[s] : s \in {s \in Feas : Excess[s] = 0}})

\* Branch and bound may take the gap below an upper bound for closed.
Closed(u) ==
  /\ u < Inf
  /\ u - Optimum <= AbsGap \/ 100 * (u - Optimum) <= RelGap * u

\* The upper bound of branch and bound: its own, or the one it was given.
Upper == Smaller(bbBest, pop.reported)

PCs == {"start", "quick", "probed", "lp", "relaxed", "island", "populate",
        "recombine", "partner", "limit", "main", "regenerate", "longer",
        "step", "breed", "halve", "more", "rebuild", "final", "done"}

Reasons == {"none", "preempted", "time", "few"}

TypeOK ==
  /\ pc \in PCs /\ back \in {"limit", "breed", "done"}
  /\ pop.slots \in Seq(All \cup {None}) /\ pop.best.sol \in All
  /\ pop.radius \in 0..Vars /\ pop.weight \in 1..MaxWeight
  /\ pop.reported \in 0..Inf /\ bbBest \in 0..Inf
  /\ pending \in Seq(Sols) /\ todo \in Seq(Sols) /\ queue \in Seq(Sols)
  /\ partners \in Seq(All) /\ current \in All \cup {None}
  /\ rounds \in Nat
  /\ stepped \in BOOLEAN /\ preempt \in BOOLEAN /\ late \in BOOLEAN
  /\ bb \in {"running", "optimal", "none", "misled", "stopped"}
  /\ answer \in [sol : All \cup {None}, why : Reasons]

Init ==
  /\ pc = "start" /\ pop = EmptyPopulation /\ pending = <<>>
  /\ rounds = 0 /\ todo = <<>> /\ partners = <<>> /\ current = None
  /\ back = "done" /\ stepped = FALSE
  /\ queue = <<>> /\ preempt = FALSE /\ late = FALSE
  /\ bb = "running" /\ bbBest = Inf
  /\ answer = [sol |-> None, why |-> "none"]

-----------------------------------------------------------------------------
(* Branch and bound, and time.                                             *)

\* solution_callback -> add_external_solution, for an improving solution.
Send(s) ==
  /\ bb = "running"
  /\ Feasible(s) /\ Obj[s] < Upper
  /\ queue' = Append(queue, s)
  /\ bbBest' = Obj[s]
  /\ UNCHANGED <<pc, pop, pending, localVars, preempt, late, bb, answer>>

\* The gap is within a tolerance: heuristic_preemption_callback.
ProveOptimal ==
  /\ bb = "running"
  /\ Closed(Upper)
  /\ bb' = "optimal"
  /\ preempt' = TRUE
  /\ UNCHANGED <<pc, pop, pending, localVars, queue, late, bbBest, answer>>

\* INFEASIBLE or UNBOUNDED preempts too, whatever the heuristics have found:
\* an infeasible or unbounded root relaxation, or a tree without a solution.
ProveNone ==
  /\ bb = "running"
  /\ bbBest = Inf
  /\ bb' = "none"
  /\ preempt' = TRUE
  /\ UNCHANGED <<pc, pop, pending, localVars, queue, late, bbBest, answer>>

\* A root relaxation that was given up: its zero vector is sent for an optimum.
MisleadingRoot(s) ==
  /\ bb = "running"
  /\ bbBest = Inf
  /\ queue' = Append(queue, s)
  /\ bbBest' = Obj[s]
  /\ bb' = "misled"
  /\ preempt' = TRUE
  /\ UNCHANGED <<pc, pop, pending, localVars, late, answer>>

\* A time limit or numerical trouble: the heuristics go on.
GiveUp ==
  /\ bb = "running"
  /\ bb' = "stopped"
  /\ UNCHANGED <<pc, pop, pending, localVars, queue, preempt, late, bbBest,
                 answer>>

TimeUp ==
  /\ ~late
  /\ late' = TRUE
  /\ UNCHANGED <<pc, pop, pending, localVars, queue, preempt, bbVars, answer>>

-----------------------------------------------------------------------------
(* Making solutions.                                                       *)

\* run_local_search never makes a feasible solution infeasible.
LocalSearch(s) == {t \in Sols : Feasible(s) => Feasible(t)}

\* recombine_and_local_search: the parents when no recombiner succeeds, or
\* an offspring and what an LP over the rest of its variables makes of it.
Offspring(s, t) ==
  {<<s, t>>} \cup {uv \in Sols \X Sols : At[uv[1]] = At[uv[2]]}

FeasibleOnes(sols) ==
  RemoveAtAll(sols, {i \in DOMAIN sols : ~Feasible(sols[i])})

\* run_solution_callbacks on a solution that is not in the population yet.
Reported(p, s) == RunSolutionCallbacks(p, s)

-----------------------------------------------------------------------------
(* check_b_b_preemption.                                                   *)

\* Mutant: what was sent before the flag was set is left in the queue.
KeepQueue(p, q) == p

\* The queue is taken under its mutex, then added.
TakeQueue(p, q) == AddAll(p, q)

\* Preempted: the external solutions join the population, whose room may
\* have to be allocated first.
Drain ==
  \E d \in Defaults :
    /\ pop' = TakeQueue(IF CurrentSize(pop) = 0
                          THEN AllocateSolutions(pop, d) ELSE pop, queue)
    /\ queue' = <<>>

\* Which solution a solve returns is decided here: sol.compute_feasibility()
\* may still tell that it is not one.
Return(p, why) == answer' = [sol |-> p.best.sol, why |-> why]

\* if (check_b_b_preemption()) { return population.best_feasible(); }
PreemptedEarly ==
  /\ pc \in {"start", "probed", "lp", "relaxed"}
  /\ preempt
  /\ Drain
  /\ Return(pop', "preempted")
  /\ pc' = "done"
  /\ UNCHANGED <<pending, localVars, preempt, late, bbVars>>

-----------------------------------------------------------------------------
(* run_solver, up to the first population.                                 *)

Start ==
  /\ pc = "start" /\ ~preempt
  /\ pc' = "quick"
  /\ UNCHANGED <<pop, pending, localVars, queue, preempt, late, bbVars,
                 answer>>

\* generate_quick_feasible_solution.
Quick(s, t) ==
  /\ pc = "quick"
  /\ t \in LocalSearch(s)
  /\ IF Feasible(s)
       THEN /\ pop' = Reported(Reported(pop, s), t)
            /\ pending' = pending \o <<s, t>>
       ELSE UNCHANGED <<pop, pending>>
  /\ pc' = "probed"
  /\ UNCHANGED <<localVars, queue, preempt, late, bbVars, answer>>

\* compute_probing_cache.
Probed ==
  /\ pc = "probed" /\ ~preempt
  /\ pc' = "lp"
  /\ UNCHANGED <<pop, pending, localVars, queue, preempt, late, bbVars,
                 answer>>

\* get_relaxed_lp_solution, then room for the population.
Relaxed ==
  /\ pc = "lp" /\ ~preempt
  /\ \E d \in Defaults : pop' = AllocateSolutions(pop, d)
  /\ pc' = "relaxed"
  /\ UNCHANGED <<pending, localVars, queue, preempt, late, bbVars, answer>>

\* generate_initial_solutions: the solution the user gave, if any.
UserGiven ==
  /\ pc = "relaxed" /\ ~preempt
  /\ \/ UNCHANGED <<pop, pending>>
     \/ \E s \in Sols : /\ pop' = Reported(pop, s)
                        /\ pending' = Append(pending, s)
  /\ pc' = "island" /\ rounds' = 0
  /\ UNCHANGED <<todo, partners, current, back, stepped, queue, preempt,
                 late, bbVars, answer>>

\* generate_initial_solutions returns: run_solver looks at the time next.
IslandPreempted ==
  /\ pc = "island" /\ rounds < IslandSize /\ preempt
  /\ Drain
  /\ pc' = "limit"
  /\ UNCHANGED <<pending, localVars, preempt, late, bbVars, answer>>

\* A solution and what local search makes of it. The loop also ends when
\* its own share of the time is over.
Island(s, t) ==
  /\ pc = "island" /\ rounds < IslandSize /\ ~preempt
  /\ rounds + Len(queue) < 5
  /\ t \in LocalSearch(s)
  /\ pop' = Reported(Reported(pop, s), t)
  /\ pending' = pending \o <<s, t>>
  /\ rounds' = rounds + 1
  /\ pc' \in {"island", "populate"}
  /\ UNCHANGED <<todo, partners, current, back, stepped, queue, preempt,
                 late, bbVars, answer>>

IslandDone ==
  /\ pc = "island"
  /\ \/ rounds = IslandSize
     \/ ~preempt /\ rounds + Len(queue) >= 5
  /\ pc' = "populate"
  /\ UNCHANGED <<pop, pending, localVars, queue, preempt, late, bbVars,
                 answer>>

\* The first population, then the external solutions so far.
Populate ==
  /\ pc = "populate"
  /\ pop' = UpdateQualities(AddAll(FindDiversity(pop, pending), pending))
  /\ pending' = <<>>
  /\ todo' = queue /\ queue' = <<>>
  /\ pc' = "recombine" /\ back' = "limit"
  /\ UNCHANGED <<rounds, partners, current, stepped, preempt, late, bbVars,
                 answer>>

\* run_solver after generate_initial_solutions.
Limit ==
  /\ pc = "limit"
  /\ IF late
       THEN Return(pop, "time") /\ pc' = "done"
       ELSE pc' = "main" /\ UNCHANGED answer
  /\ UNCHANGED <<pop, pending, localVars, queue, preempt, late, bbVars>>

-----------------------------------------------------------------------------
(* recombine_and_ls_with_all.                                              *)

\* The next external solution joins the population, and is recombined, or
\* what local search makes of it if that is feasible.
TakeExternal(t) ==
  /\ pc = "recombine" /\ todo # <<>>
  /\ LET s == Head(todo)
     IN  /\ t \in LocalSearch(s)
         /\ pop' = AddSolution(pop, s).pop
         /\ current' = IF Feasible(t) THEN t ELSE s
  /\ partners' = FeasibleOnes(PopulationToVector(pop'))
  /\ todo' = Tail(todo)
  /\ pc' = "partner"
  /\ UNCHANGED <<pending, rounds, back, stepped, queue, preempt, late,
                 bbVars, answer>>

PartnerPreempted ==
  /\ pc = "partner" /\ partners # <<>> /\ preempt
  /\ Drain
  /\ partners' = <<>> /\ current' = None
  /\ pc' = "recombine"
  /\ UNCHANGED <<pending, rounds, todo, back, stepped, preempt, late, bbVars,
                 answer>>

\* One feasible solution of the population after the other. When the time is
\* over, current itself is not added.
Partner ==
  /\ pc = "partner" /\ partners # <<>> /\ ~preempt
  /\ \E o \in Offspring(Head(partners), current) : pop' = AddAll(pop, o)
  /\ IF late
       THEN partners' = <<>> /\ current' = None /\ pc' = "recombine"
       ELSE partners' = Tail(partners) /\ UNCHANGED <<current, pc>>
  /\ UNCHANGED <<pending, rounds, todo, back, stepped, queue, preempt, late,
                 bbVars, answer>>

PartnersDone ==
  /\ pc = "partner" /\ partners = <<>>
  /\ pop' = AddSolution(pop, current).pop
  /\ current' = None
  /\ pc' = "recombine"
  /\ UNCHANGED <<pending, rounds, todo, partners, back, stepped, queue,
                 preempt, late, bbVars, answer>>

RecombineDone ==
  /\ pc = "recombine" /\ todo = <<>>
  /\ pc' = back
  /\ IF back = "done"
       THEN answer' = [answer EXCEPT !.sol = pop.best.sol]
       ELSE UNCHANGED answer
  /\ UNCHANGED <<pop, pending, localVars, queue, preempt, late, bbVars>>

-----------------------------------------------------------------------------
(* main_loop.                                                              *)

\* The loop is left; the reason is kept until run_solver returns.
Leave(why) ==
  /\ answer' = [answer EXCEPT !.why = why]
  /\ pc' = "final"

MainPreempted ==
  /\ pc = "main" /\ preempt
  /\ Drain
  /\ Leave("preempted")
  /\ UNCHANGED <<pending, localVars, preempt, late, bbVars>>

Main ==
  /\ pc = "main" /\ ~preempt
  /\ pc' = "regenerate" /\ rounds' = 0
  /\ UNCHANGED <<pop, pending, todo, partners, current, back, stepped, queue,
                 preempt, late, bbVars, answer>>

\* Mutant: it does not look at the time either.
KeepRegenerating == "regenerate"

\* Where regenerate_solutions goes on after a solution.
AfterRegenerating == IF late THEN "longer" ELSE "regenerate"

\* regenerate_solutions, which looks at the time but not at the flag. The
\* first time it goes on until there are enough solutions.
Regenerate(s) ==
  /\ pc = "regenerate"
  /\ CurrentSize(pop) <= 2 /\ (stepped => rounds < 5)
  /\ pop' = AddSolution(pop, s).pop
  /\ rounds' = IF stepped THEN rounds + 1 ELSE 0
  /\ pc' = AfterRegenerating
  /\ UNCHANGED <<pending, todo, partners, current, back, stepped, queue,
                 preempt, late, bbVars, answer>>

Regenerated ==
  /\ pc = "regenerate"
  /\ CurrentSize(pop) > 2 \/ (stepped /\ rounds = 5)
  /\ stepped' = TRUE
  /\ IF CurrentSize(pop) < 2 THEN pc' = "longer" /\ UNCHANGED answer
     ELSE IF late THEN Leave("time")
     ELSE pc' = "step" /\ UNCHANGED answer
  /\ rounds' = MaxWithout
  /\ UNCHANGED <<pop, pending, todo, partners, current, back, queue, preempt,
                 late, bbVars>>

\* Not enough solutions: a longer search from the best one gives s.
Longer(s) ==
  /\ pc = "longer"
  /\ pop' = AddSolution(pop, s).pop
  /\ Leave("few")
  /\ UNCHANGED <<pending, localVars, queue, preempt, late, bbVars>>

-----------------------------------------------------------------------------
(* diversity_step. When it returns, the main loop looks at the time.       *)

StepPreempted ==
  /\ pc = "step" /\ preempt
  /\ Drain
  /\ pc' = "halve"
  /\ UNCHANGED <<pending, localVars, preempt, late, bbVars, answer>>

StepExternal ==
  /\ pc = "step" /\ ~preempt
  /\ todo' = queue /\ queue' = <<>>
  /\ pc' = "recombine" /\ back' = "breed"
  /\ UNCHANGED <<pop, pending, rounds, partners, current, stepped, preempt,
                 late, bbVars, answer>>

BreedNot ==
  /\ pc = "breed"
  /\ CurrentSize(pop) < 2 \/ late
  /\ pc' = "halve"
  /\ UNCHANGED <<pop, pending, localVars, queue, preempt, late, bbVars,
                 answer>>

\* get_two_random: positions counted from that of the best feasible solution,
\* which takes part if it is there and best() is not feasible. Both random
\* numbers range over the size of the pool.
Parents ==
  LET first == IF ~pop.best.used \/ Feasible(Best(pop)) THEN 1 ELSE 0
      last  == first + CurrentSize(pop) - 1
      At0(i) == IF i = 0 THEN pop.best.sol ELSE SolAt(pop, i)
  IN  {<<At0(ij[1]), At0(ij[2])>> :
         ij \in {ij \in (first..last) \X (first..last) : ij[1] # ij[2]}}

\* Two parents, two children. A child among the best three starts the count
\* of tries again.
Breed ==
  /\ pc = "breed"
  /\ CurrentSize(pop) >= 2 /\ ~late
  /\ \E st \in Parents : \E o \in Offspring(st[1], st[2]) :
       LET one == AddSolution(pop, o[1])
           two == AddSolution(one.pop, o[2])
           improved == {one.pos, two.pos} \cap 1..3 # {}
       IN  /\ pop' = two.pop
           /\ rounds' = IF improved THEN MaxWithout ELSE rounds - 1
           /\ pc' = IF rounds' = 0 THEN "halve" ELSE "step"
  /\ UNCHANGED <<pending, todo, partners, current, back, stepped, queue,
                 preempt, late, bbVars, answer>>

-----------------------------------------------------------------------------
(* The rest of main_loop.                                                  *)

Halve ==
  /\ pc = "halve"
  /\ IF late
       THEN Leave("time") /\ UNCHANGED <<pop, rounds>>
       ELSE /\ pop' = HalveThePopulation(pop)
            /\ pc' = "more" /\ rounds' = 0
            /\ UNCHANGED answer
  /\ UNCHANGED <<pending, todo, partners, current, back, stepped, queue,
                 preempt, late, bbVars>>

\* generate_more_solutions, which has a share of the time: it may stop after
\* every solution.
More(s, t) ==
  /\ pc = "more"
  /\ t \in LocalSearch(s)
  /\ rounds' = rounds + 1
  /\ \/ /\ pop' = Reported(pop, s)
        /\ pending' = Append(pending, s)
        /\ pc' = "rebuild"
     \/ /\ pop' = Reported(Reported(pop, s), t)
        /\ pending' = pending \o <<s, t>>
        /\ pc' \in IF rounds' = NewSols THEN {"rebuild"}
                   ELSE {"more", "rebuild"}
  /\ UNCHANGED <<todo, partners, current, back, stepped, queue, preempt,
                 late, bbVars, answer>>

\* The population is made anew, with the diversity that its solutions have.
Rebuild ==
  /\ pc = "rebuild"
  /\ LET sols == PopulationToVector(pop) \o pending
     IN  pop' = UpdateWeights(AddAll(FindDiversity(Clear(pop), sols), sols))
  /\ pending' = <<>>
  /\ IF late THEN Leave("time") ELSE pc' = "main" /\ UNCHANGED answer
  /\ UNCHANGED <<localVars, queue, preempt, late, bbVars>>

\* The last external solutions.
Final ==
  /\ pc = "final"
  /\ todo' = queue /\ queue' = <<>>
  /\ pc' = "recombine" /\ back' = "done"
  /\ UNCHANGED <<pop, pending, rounds, partners, current, stepped, preempt,
                 late, bbVars, answer>>

Terminated == pc = "done" /\ bb # "running" /\ UNCHANGED vars

-----------------------------------------------------------------------------
BranchAndBound ==
  \/ ProveOptimal \/ ProveNone \/ GiveUp
  \/ \E s \in Sols : Send(s) \/ MisleadingRoot(s)

Heuristics ==
  \/ PreemptedEarly \/ Start \/ Probed \/ Relaxed \/ UserGiven
  \/ IslandPreempted \/ IslandDone \/ Populate \/ Limit
  \/ PartnerPreempted \/ Partner \/ PartnersDone \/ RecombineDone
  \/ MainPreempted \/ Main \/ Regenerated \/ StepPreempted \/ StepExternal
  \/ BreedNot \/ Breed \/ Halve \/ Rebuild \/ Final
  \/ \E s \in Sols : Regenerate(s) \/ Longer(s) \/ TakeExternal(s)
  \/ \E s, t \in Sols : Quick(s, t) \/ Island(s, t) \/ More(s, t)

Next == BranchAndBound \/ TimeUp \/ Heuristics \/ Terminated

Spec == Init /\ [][Next]_vars

\* No solution can join the first population any more, and the loop that
\* waits for more of them goes on.
Spinning ==
  /\ pc = "regenerate" /\ ~stepped /\ AfterRegenerating = pc
  /\ CurrentSize(pop) <= 2
  /\ \A s \in Sols : AddSolution(pop, s).pop = pop

\* Threads run on. This is WF_vars(Heuristics) with what enables it written
\* out, and what tells its steps from those of the others, which TLC takes too
\* long to find by itself.
HeuristicsRun ==
  \/ []<>(pc = "done" \/ Spinning)
  \/ []<><<UNCHANGED <<late, bbVars>>>>_vars

FairSpec == Spec /\ HeuristicsRun /\ WF_bb(BranchAndBound)

\* There is a time limit.
TimedSpec == FairSpec /\ WF_vars(TimeUp)
-----------------------------------------------------------------------------
(* Safety.                                                                 *)

\* Between two steps the population is what its own test says it should be,
\* under whatever weights and diversity it was given last: population.cu:623,
\* asserted on every path through diversity_step. And no place of it leaks: a
\* solution that leaves frees its place, so that find_free_solution_index
\* never returns SIZE_MAX.
TestInvariant == PoolInvariant(pop) /\ PlacesAreRanked(pop)

\* What branch and bound prunes with is never forgotten: once a solution was
\* reported to it, the population has a feasible one or it waits to be added,
\* whatever is cleared, halved and added again meanwhile. Nothing is kept as
\* the best that was not reported, or was not worth it. And where no feasible
\* solution of the reported objective violates a constraint, one of that
\* objective is kept: others may have to give way to a solution that costs
\* less (BestFoundIsStored).
ReportedIsHeld ==
  pop.reported < Inf =>
    \/ /\ pop.best.used /\ Feasible(pop.best.sol)
       /\ pop.reported <= Obj[pop.best.sol]
       /\ Exact(pop.reported) => Obj[pop.best.sol] = pop.reported
    \/ \E i \in DOMAIN pending :
         Feasible(pending[i]) /\ Obj[pending[i]] = pop.reported

\* Within a step the best feasible solution is only given up for a feasible
\* one that costs no more under the weights the step began with, whatever is
\* ejected, eradicated, cleared or weighed anew.
BestNeverWorse ==
  [][pop.best.cost < NoCost =>
       /\ pop'.best.used /\ Feasible(pop'.best.sol)
       /\ Cost(pop'.best.sol, pop.weight) <= pop.best.cost]_vars

\* Branch and bound closed the gap and preempted the heuristics, which were
\* past their first population: the answer is feasible, whichever of the two
\* threads had found it and however their queue was drained. Where no feasible
\* solution of the objective that closed the gap violates a constraint, the
\* answer's own gap is within the tolerances.
PreemptedIsOptimal ==
  /\ pc = "done" /\ answer.why = "preempted" /\ pending = <<>>
  /\ bb = "optimal"
  => Feasible(answer.sol) /\ (Exact(Upper) => Closed(Obj[answer.sol]))

\* run_solver "returns the best feasible solution"
\* (diversity_manager.cu:302): none it reported is better than its answer.
AnswerIsBest ==
  pc = "done" /\ pop.reported < Inf =>
    Feasible(answer.sol) /\ Obj[answer.sol] <= pop.reported

\* "We store the best feasible found so far at index 0" (population.cu:257):
\* the one that was reported, or a better one.
BestFoundIsStored ==
  pending = <<>> /\ pop.best.used /\ Feasible(pop.best.sol) =>
    Obj[pop.best.sol] <= pop.reported

\* What is marked as the best feasible solution is feasible: the last part of
\* the test of the population ("solutions[0] should be feasible",
\* population.cu:658), also while it is halved.
MarkedIsFeasible == BestIsFeasible(pop)

-----------------------------------------------------------------------------
(* Liveness.                                                               *)

\* A time limit ends the heuristics, wherever it finds them.
Terminates == <>(pc = "done")

\* Branch and bound is done: the heuristics end without waiting
\* for a time limit, of which there is none by default
\* (docs/cuopt/source/lp-milp-settings.rst:26).
PreemptionEnds == preempt ~> pc = "done"
=============================================================================
