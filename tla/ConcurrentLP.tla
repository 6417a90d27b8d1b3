---------------------------- MODULE ConcurrentLP ----------------------------
(***************************************************************************)
(* Solving linear programs: PDLP on the GPU in the calling thread, dual    *)
(* simplex in a second thread, and the flag by which each stops the other  *)
(* (cpp/src/linear_programming: solve.cu, pdlp.cu, cython_solve.cu;        *)
(* cpp/src/dual_simplex: solve.cpp, phase2.cpp, crossover.cpp).            *)
(*                                                                         *)
(* The arithmetic is an oracle that never certifies what is false of the   *)
(* problem, but may fail, be slow or give up. Several solves in one        *)
(* process share global_concurrent_halt: one after the other, as a solver  *)
(* process of the server does them, or at the same time in a batch. Of a   *)
(* solution only its status is kept and whether its point is feasible.     *)
(***************************************************************************)
EXTENDS Naturals

CONSTANTS
  Solves,    \* the solves of one process, numbered
  Problems,  \* the kinds of problem to give them
  Settings   \* the settings they may share

Kinds == {"bounded",     \* has an optimum
          "infeasible",  \* has no feasible point, its dual has
          "unbounded",   \* is feasible, its dual is not
          "neither"}     \* neither the problem nor its dual is feasible
Methods == {"PDLP", "DualSimplex", "Concurrent"}

AllSettings ==
  [batch : BOOLEAN,      \* solved by call_batch_solve
   method : Methods, crossover : BOOLEAN,
   detect : BOOLEAN,     \* detect_infeasibility
   strict : BOOLEAN,     \* strict_infeasibility
   first : BOOLEAN,      \* first_primal_feasible
   save : BOOLEAN]       \* save_best_primal_so_far

ASSUME ConstantsAssumption ==
  /\ Solves \subseteq Nat
  /\ Problems \subseteq [Solves -> Kinds]
  /\ Settings \subseteq AllSettings

PrimalFeasibleKinds == {"bounded", "unbounded"}
DualFeasibleKinds == {"bounded", "infeasible"}

\* pdlp_termination_status_t; NoTermination is what the code writes as
\* NumericalError before it has found anything.
Infeasibilities == {"PrimalInfeasible", "DualInfeasible"}
Limits == {"TimeLimit", "IterationLimit", "ConcurrentLimit"}
Conclusive == {"Optimal"} \union Infeasibilities
Statuses ==
  Conclusive \union Limits \union {"PrimalFeasible", "NumericalError"}

Solution(status, feasible) == [status |-> status, feasible |-> feasible]
NoSolution == Solution("NoTermination", FALSE)
Solutions == [status : Statuses \union {"NoTermination", "Error"},
              feasible : BOOLEAN]

SimplexPhases == {"presolve", "phase1", "phase2", "phase1again",
                  "phase2again"}

VARIABLES
  kind,      \* the problem of each solve
  settings,  \* the settings of all of them
  halt,      \* global_concurrent_halt
  pc,        \* where the thread that called solve_lp is
  iters,     \* total_pdlp_iterations_, up to 2
  best,      \* whether best_primal_solution_so_far is feasible
  met,       \* whether PDLP has passed a feasible point (for a property)
  pdlp,      \* sol of run_pdlp
  spc,       \* where the dual simplex is
  simplex,   \* the status of the dual simplex
  answer,    \* what solve_lp returns
  crashed    \* std::terminate was called

problemVars == <<kind, settings>>
pdlpVars == <<iters, best, met, pdlp>>
simplexVars == <<spc, simplex>>
vars == <<problemVars, halt, pc, pdlpVars, simplexVars, answer, crashed>>

MethodAsked == settings.method
\* A batch has no concurrent solves.
MethodUsed ==
  IF settings.batch /\ settings.method = "Concurrent" THEN "PDLP"
  ELSE settings.method

Concurrent == MethodUsed = "Concurrent"

\* concurrent_halt is null but in a concurrent solve.
Halted == Concurrent /\ halt = 1

Init ==
  /\ kind \in Problems
  /\ settings \in Settings
  /\ halt = 0
  /\ pc = [s \in Solves |-> "waiting"]
  /\ iters = [s \in Solves |-> 0]
  /\ best = [s \in Solves |-> FALSE]
  /\ met = [s \in Solves |-> FALSE]
  /\ pdlp = [s \in Solves |-> NoSolution]
  /\ spc = [s \in Solves |-> "off"]
  /\ simplex = [s \in Solves |-> "UNSET"]
  /\ answer = [s \in Solves |-> NoSolution]
  /\ crashed = FALSE

\* solve_lp returns, and what the two solvers kept is gone.
Return(s, sol) ==
  /\ pc' = [pc EXCEPT ![s] = "done"]
  /\ answer' = [answer EXCEPT ![s] = sol]
  /\ iters' = [iters EXCEPT ![s] = 0]
  /\ best' = [best EXCEPT ![s] = FALSE]
  /\ met' = [met EXCEPT ![s] = FALSE]
  /\ pdlp' = [pdlp EXCEPT ![s] = NoSolution]
  /\ spc' = [spc EXCEPT ![s] = "off"]
  /\ simplex' = [simplex EXCEPT ![s] = "UNSET"]

---------------------------------------------------------------------------
(* PDLP: pdlp_solver_t::run_solver and check_termination.                  *)

\* What evaluate_termination_criteria may find of a point of this problem.
Criteria(k) ==
  {"NoTermination"}
    \union (IF k = "bounded" THEN {"Optimal"} ELSE {})
    \union (IF k \in PrimalFeasibleKinds THEN {"PrimalFeasible"} ELSE {})
    \union (IF settings.detect /\ k \notin PrimalFeasibleKinds
            THEN {"PrimalInfeasible"} ELSE {})
    \union (IF settings.detect /\ k \notin DualFeasibleKinds
            THEN {"DualInfeasible"} ELSE {})

PointIsFeasible(criterion) == criterion \in {"Optimal", "PrimalFeasible"}

\* The infeasibility that the current and the average point show: either
\* one does when strict, else both must agree.
Infeasibility(current, average) ==
  IF settings.strict
  THEN IF current \in Infeasibilities THEN current ELSE average
  ELSE IF current = average THEN current ELSE "NoTermination"

\* The first two iterations are not judged.
Verdict(s, current, average, stuck) ==
  IF iters[s] <= 1 THEN "NoTermination"
  ELSE IF settings.first /\ "PrimalFeasible" \in {current, average}
  THEN "PrimalFeasible"
  ELSE IF "Optimal" \in {current, average} THEN "Optimal"
  ELSE IF Infeasibility(current, average) \in Infeasibilities
  THEN Infeasibility(current, average)
  ELSE IF stuck THEN "NumericalError"
  ELSE "NoTermination"

OneIsFeasible(current, average) ==
  PointIsFeasible(current) \/ PointIsFeasible(average)

RecordLast(s, current, average) == OneIsFeasible(current, average)
\* record_best_primal_so_far: a feasible point is never given up for one
\* that is not.
RecordBest(s, current, average) == best[s] \/ OneIsFeasible(current, average)

LimitNotHalted(late, spent) ==
  IF late THEN "TimeLimit"
  ELSE IF spent THEN "IterationLimit"
  ELSE "NoTermination"

LimitNotTimed(late, spent) ==
  IF spent THEN "IterationLimit"
  ELSE IF Halted THEN "ConcurrentLimit"
  ELSE "NoTermination"

\* check_limits, in its order.
Limit(late, spent) ==
  IF late THEN "TimeLimit"
  ELSE IF spent THEN "IterationLimit"
  ELSE IF Halted THEN "ConcurrentLimit"
  ELSE "NoTermination"

\* The point that goes with a limit.
LimitPoint(status, current, saved) ==
  IF settings.save /\ status # "ConcurrentLimit" THEN saved
  ELSE PointIsFeasible(current)

\* A major iteration: check_termination on the current and the average
\* point, and the steps up to the next one when it finds nothing.
PdlpCheck(s, current, average, late, spent, stuck) ==
  LET verdict == Verdict(s, current, average, stuck)
      judged == iters[s] > 1 /\ verdict = "NoTermination"
      feasible == judged /\ OneIsFeasible(current, average)
      saved == IF judged /\ settings.save
               THEN RecordBest(s, current, average) ELSE best[s]
      limit == Limit(late, spent)
      sol == IF verdict # "NoTermination"
             THEN Solution(verdict, PointIsFeasible(verdict))
             ELSE Solution(limit, LimitPoint(limit, current, saved))
  IN /\ pc[s] = "pdlp"
     /\ best' = [best EXCEPT ![s] = saved]
     /\ met' = [met EXCEPT ![s] = @ \/ feasible]
     /\ IF sol.status = "NoTermination"
        THEN /\ iters' = [iters EXCEPT ![s] = IF @ < 2 THEN @ + 1 ELSE @]
             /\ UNCHANGED <<pc, pdlp>>
        ELSE /\ pdlp' = [pdlp EXCEPT ![s] = sol]
             /\ pc' = [pc EXCEPT ![s] =
                  IF settings.crossover /\ sol.status = "Optimal"
                  THEN "crossover" ELSE "signal"]
             /\ UNCHANGED iters
     /\ UNCHANGED <<problemVars, halt, simplexVars, answer, crashed>>

\* A check that finds neither a solution nor trouble.
PdlpFindsNothing(s, late) ==
  PdlpCheck(s, "NoTermination", "NoTermination", late, FALSE, FALSE)

\* The crossover from PDLP's point to a vertex; its result replaces PDLP's
\* whatever it is.
Replace(s, status) ==
  /\ pc[s] = "crossover"
  /\ pdlp' = [pdlp EXCEPT ![s] = Solution(status, PointIsFeasible(status))]
  /\ pc' = [pc EXCEPT ![s] = "signal"]
  /\ UNCHANGED <<problemVars, halt, iters, best, met, simplexVars, answer,
                 crashed>>

CrossoverEnds(s) ==
  \E status \in {"Optimal", "PrimalFeasible", "NumericalError"} :
    Replace(s, status)

CrossoverHalted(s) == Halted /\ Replace(s, "ConcurrentLimit")
CrossoverTimesOut(s) == Replace(s, "TimeLimit")

\* The end of run_pdlp. When PDLP has the optimum, and the crossover too if
\* it ran, the dual simplex is told to stop.
PdlpSignals(s) == Concurrent /\ pdlp[s].status = "Optimal"

PdlpReturns(s) ==
  /\ pc[s] = "signal"
  /\ halt' = IF PdlpSignals(s) THEN 1 ELSE halt
  /\ IF Concurrent
     THEN /\ pc' = [pc EXCEPT ![s] = "join"]
          /\ UNCHANGED <<answer, pdlpVars, simplexVars>>
     ELSE Return(s, pdlp[s])
  /\ UNCHANGED <<problemVars, crashed>>

---------------------------------------------------------------------------
(* The dual simplex: solve_linear_program_advanced.                        *)

SimplexGoes(s, phase) ==
  /\ spc' = [spc EXCEPT ![s] = phase]
  /\ UNCHANGED <<problemVars, halt, pc, pdlpVars, simplex, answer, crashed>>

SimplexEnds(s, status) ==
  /\ spc' = [spc EXCEPT ![s] = "signal"]
  /\ simplex' = [simplex EXCEPT ![s] = status]
  /\ UNCHANGED <<problemVars, halt, pc, pdlpVars, answer, crashed>>

\* Presolve may already see that the constraints contradict each other.
Presolve(s) ==
  /\ spc[s] = "presolve"
  /\ \/ SimplexGoes(s, "phase1")
     \/ /\ kind[s] \notin PrimalFeasibleKinds
        /\ SimplexEnds(s, "INFEASIBLE")

\* Phase 1 tells whether there is a dual feasible basis.
Phase1(s) ==
  /\ spc[s] = "phase1"
  /\ \/ /\ kind[s] \in DualFeasibleKinds
        /\ SimplexGoes(s, "phase2")
     \/ /\ kind[s] \notin DualFeasibleKinds
        /\ SimplexEnds(s, "UNBOUNDED")
     \/ SimplexEnds(s, "NUMERICAL_ISSUES")
     \/ SimplexEnds(s, "ITERATION_LIMIT")

\* Phase 2 from a dual feasible basis. One that was lost is sought again,
\* once.
Phase2(s) ==
  /\ spc[s] \in {"phase2", "phase2again"}
  /\ \/ /\ kind[s] = "bounded"
        /\ SimplexEnds(s, "OPTIMAL")
     \/ /\ kind[s] = "infeasible"
        /\ SimplexEnds(s, "INFEASIBLE")
     \/ SimplexEnds(s, "ITERATION_LIMIT")
     \/ /\ spc[s] = "phase2"
        /\ SimplexGoes(s, "phase1again")
     \/ /\ spc[s] = "phase2again"
        /\ SimplexEnds(s, "NUMERICAL_ISSUES")

\* How the second phase 1 ends is not looked at.
Phase1Again(s) ==
  /\ spc[s] = "phase1again"
  /\ SimplexGoes(s, "phase2again")

\* A pivot loop finds the time or the flag. The initialisation of the
\* steepest edge norms reports a halt as if it were the time.
SimplexHalted(s) ==
  /\ Halted
  /\ \/ /\ spc[s] \in {"phase1", "phase2", "phase2again"}
        /\ SimplexEnds(s, "CONCURRENT_LIMIT")
     \/ /\ spc[s] = "phase2"
        /\ SimplexEnds(s, "TIME_LIMIT")
     \/ Phase1Again(s)

SimplexTimesOut(s) ==
  \/ /\ spc[s] \in {"phase1", "phase2", "phase2again"}
     /\ SimplexEnds(s, "TIME_LIMIT")
  \/ Phase1Again(s)

\* The end of run_dual_simplex.
SimplexSignals(s) ==
  Concurrent /\ simplex[s] \in {"OPTIMAL", "UNBOUNDED", "INFEASIBLE"}

SimplexReturns(s) ==
  /\ spc[s] = "signal"
  /\ halt' = IF SimplexSignals(s) THEN 1 ELSE halt
  /\ spc' = [spc EXCEPT ![s] = "ended"]
  /\ UNCHANGED <<problemVars, pc, pdlpVars, simplex, answer, crashed>>

RawStatus(status) == status

DualsStatus(status) ==
  CASE status = "OPTIMAL"          -> "Optimal"
    [] status = "INFEASIBLE"       -> "DualInfeasible"
    [] status = "UNBOUNDED"        -> "PrimalInfeasible"
    [] status = "TIME_LIMIT"       -> "TimeLimit"
    [] status = "ITERATION_LIMIT"  -> "IterationLimit"
    [] status = "CONCURRENT_LIMIT" -> "ConcurrentLimit"
    [] OTHER                       -> "NumericalError"

\* to_termination_status; CUTOFF needs a cut off, which an LP has not.
TerminationStatus(status) ==
  CASE status = "OPTIMAL"          -> "Optimal"
    [] status = "INFEASIBLE"       -> "PrimalInfeasible"
    [] status = "UNBOUNDED"        -> "DualInfeasible"
    [] status = "TIME_LIMIT"       -> "TimeLimit"
    [] status = "ITERATION_LIMIT"  -> "IterationLimit"
    [] status = "CONCURRENT_LIMIT" -> "ConcurrentLimit"
    [] OTHER                       -> "NumericalError"

SimplexSolution(s) ==
  Solution(TerminationStatus(simplex[s]), simplex[s] = "OPTIMAL")

---------------------------------------------------------------------------
(* solve_lp, run_concurrent and call_batch_solve.                          *)

KeepHalt == halt
\* The flag as run_concurrent sets it before it starts the thread.
ResetHalt == IF Concurrent THEN 0 ELSE halt

\* Solves start in their order. Those of a batch run side by side, others
\* follow one another.
Start(s) ==
  /\ pc[s] = "waiting"
  /\ \A t \in Solves : t < s => pc[t] # "waiting"
  /\ settings.batch \/ \A t \in Solves : pc[t] \in {"waiting", "done"}
  /\ halt' = ResetHalt
  /\ pc' = [pc EXCEPT ![s] =
       IF MethodUsed = "DualSimplex" THEN "join" ELSE "pdlp"]
  /\ spc' = [spc EXCEPT ![s] =
       IF MethodUsed = "PDLP" THEN "off" ELSE "presolve"]
  /\ UNCHANGED <<problemVars, pdlpVars, simplex, answer, crashed>>

PdlpUnlessHalted(lp, dual) ==
  IF lp.status = "ConcurrentLimit" THEN dual ELSE lp

\* run_concurrent's choice between the two solutions.
Chosen(lp, dual) ==
  IF dual.status \in Conclusive THEN dual
  ELSE IF lp.status = "Optimal" THEN lp
  ELSE IF lp.status = "ConcurrentLimit" THEN dual
  ELSE lp

Join(s) ==
  /\ pc[s] = "join" /\ spc[s] = "ended"
  /\ Return(s, IF Concurrent THEN Chosen(pdlp[s], SimplexSolution(s))
               ELSE SimplexSolution(s))
  /\ UNCHANGED <<problemVars, halt, crashed>>

\* Memory runs out. solve_lp returns that as an error; but an exception
\* that leaves the second thread, or that passes by the thread before it
\* was joined, ends the process.
Throw(s) ==
  /\ \/ pc[s] \in {"pdlp", "crossover"}
     \/ spc[s] \in SimplexPhases
  /\ IF Concurrent
     THEN /\ crashed' = TRUE
          /\ UNCHANGED <<pc, answer, pdlpVars, simplexVars>>
     ELSE Return(s, Solution("Error", FALSE)) /\ UNCHANGED crashed
  /\ UNCHANGED <<problemVars, halt>>

PdlpStep(s) ==
  \/ \E current, average \in Criteria(kind[s]),
        late, spent, stuck \in BOOLEAN :
       PdlpCheck(s, current, average, late, spent, stuck)
  \/ CrossoverEnds(s)
  \/ CrossoverHalted(s)
  \/ CrossoverTimesOut(s)
  \/ PdlpReturns(s)

SimplexStep(s) ==
  \/ Presolve(s)
  \/ Phase1(s)
  \/ Phase2(s)
  \/ Phase1Again(s)
  \/ SimplexHalted(s)
  \/ SimplexTimesOut(s)
  \/ SimplexReturns(s)

Next ==
  /\ ~crashed
  /\ \E s \in Solves :
       Start(s) \/ PdlpStep(s) \/ SimplexStep(s) \/ Join(s) \/ Throw(s)

Spec == Init /\ [][Next]_vars

(***************************************************************************)
(* Both threads run on, so the checks that their loops make are made, even *)
(* when there is nothing else to see than the flag. That an algorithm      *)
(* converges, fails or runs out of time is not assumed.                    *)
(***************************************************************************)
FairSpec ==
  /\ Spec
  /\ \A s \in Solves :
       /\ WF_vars(~crashed /\ Start(s))
       /\ WF_vars(~crashed /\ PdlpFindsNothing(s, FALSE))
       /\ WF_vars(~crashed /\ CrossoverHalted(s))
       /\ WF_vars(~crashed /\ PdlpReturns(s))
       /\ WF_vars(~crashed /\ Presolve(s))
       /\ WF_vars(~crashed /\ SimplexHalted(s))
       /\ WF_vars(~crashed /\ SimplexReturns(s))
       /\ WF_vars(~crashed /\ Join(s))

\* The time limit passes: a check of the clock finds so in the end.
TimePasses ==
  \A s \in Solves :
    /\ WF_vars(~crashed /\ PdlpFindsNothing(s, TRUE))
    /\ WF_vars(~crashed /\ CrossoverTimesOut(s))
    /\ WF_vars(~crashed /\ SimplexTimesOut(s))

---------------------------------------------------------------------------
(* The values of all variables; halt is 0 or 1 (solve.cu:222).             *)
TypeOK ==
  /\ kind \in [Solves -> Kinds]
  /\ settings \in AllSettings
  /\ halt \in {0, 1}
  /\ pc \in [Solves -> {"waiting", "pdlp", "crossover", "signal", "join",
                        "done"}]
  /\ iters \in [Solves -> 0..2]
  /\ best \in [Solves -> BOOLEAN]
  /\ met \in [Solves -> BOOLEAN]
  /\ pdlp \in [Solves -> Solutions]
  /\ spc \in [Solves -> SimplexPhases \union {"off", "signal", "ended"}]
  /\ simplex \in [Solves -> {"UNSET", "OPTIMAL", "INFEASIBLE", "UNBOUNDED",
                             "TIME_LIMIT", "ITERATION_LIMIT",
                             "CONCURRENT_LIMIT", "NUMERICAL_ISSUES"}]
  /\ answer \in [Solves -> Solutions]
  /\ crashed \in BOOLEAN

(* A solver that stops because it was told to was told by its own partner, *)
(* which holds the answer: never by the flag an earlier solve left, or by  *)
(* a solve at its side (solve.cu:323, 430, 466; cython_solve.cu:280).      *)
GivesUpForAnAnswer ==
  \A s \in Solves :
    /\ pdlp[s].status = "ConcurrentLimit" =>
         simplex[s] \in {"OPTIMAL", "UNBOUNDED", "INFEASIBLE"}
    /\ simplex[s] = "CONCURRENT_LIMIT" => pdlp[s].status = "Optimal"

(* What solve_lp says of a problem is true of it, given that no single     *)
(* test of a solver is wrong: the statuses are not confused on their way   *)
(* (solve.cu:234, 495; pdlp.cu:572 to 772).                                *)
AnswerIsTrue ==
  \A s \in Solves :
    LET status == answer[s].status
    IN /\ status = "Optimal" => kind[s] = "bounded"
       /\ status = "PrimalFeasible" => kind[s] \in PrimalFeasibleKinds
       /\ status = "PrimalInfeasible" => kind[s] \notin PrimalFeasibleKinds
       /\ status = "DualInfeasible" => kind[s] \notin DualFeasibleKinds

(* When one of the solvers settled the problem, so does the answer,        *)
(* whichever of them ended first and however the other ended; and it is    *)
(* never ConcurrentLimit (solve.cu:495).                                   *)
Settled(s) ==
  \/ pdlp[s].status \in Conclusive
  \/ SimplexSolution(s).status \in Conclusive

SettledIsAnswered ==
  [][\A s \in Solves :
       pc[s] # "done" /\ pc'[s] = "done" /\ answer'[s].status # "Error" =>
         /\ answer'[s].status # "ConcurrentLimit"
         /\ Settled(s) => answer'[s].status \in Conclusive]_vars

(* With save_best_primal_so_far, PDLP that runs into a limit returns a     *)
(* feasible point if it passed one after its first two iterations, whose   *)
(* points it does not look at (pdlp.cu:269, 580, 790; the setting's text   *)
(* in lp-milp-settings.rst:150). Crossover ends with its own point.        *)
BestIsReturned ==
  \A s \in Solves :
    /\ settings.save /\ ~settings.crossover
    /\ pdlp[s].status \in {"TimeLimit", "IterationLimit"}
    /\ met[s]
    => pdlp[s].feasible

(* A solver with the answer ends the solve, though the other one on its    *)
(* own might never end (pdlp.cu:315; phase2.cpp:449, 1621; crossover.cpp:  *)
(* 531, 813, 1137).                                                        *)
AnswerEndsSolve ==
  \A s \in Solves :
    \/ SimplexSolution(s).status \in Conclusive
    \/ pc[s] \in {"signal", "join"} /\ pdlp[s].status = "Optimal"
    ~> pc[s] = "done" \/ crashed

(* With a time limit every solve returns, though neither solver may ever   *)
(* converge (pdlp.cu:269; solve.cpp:164 to 214).                           *)
ReturnsInTime ==
  TimePasses => <>(crashed \/ \A s \in Solves : pc[s] = "done")
=============================================================================
