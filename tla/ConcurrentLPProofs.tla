-------------------------- MODULE ConcurrentLPProofs --------------------------
(***************************************************************************)
(* Theorems about ConcurrentLP, for any number of solves, of whatever      *)
(* kinds of problems and under whatever settings: a solver only gives up   *)
(* for an answer, no status is confused on its way to the caller, what one *)
(* of the solvers settled is settled in the answer, and a feasible point   *)
(* that was to be kept is kept.                                            *)
(***************************************************************************)
EXTENDS ConcurrentLP, TLAPS

SimplexConclusive == {"OPTIMAL", "UNBOUNDED", "INFEASIBLE"}
SimplexStatuses ==
  SimplexConclusive \union {"UNSET", "TIME_LIMIT", "ITERATION_LIMIT",
                            "CONCURRENT_LIMIT", "NUMERICAL_ISSUES"}

-----------------------------------------------------------------------------
(* The inductive invariant, in parts.                                      *)

Active(s) == pc[s] \notin {"waiting", "done"}

\* What each program counter says of the two solvers' results, under each
\* method.
ControlInv ==
  \A s \in Solves :
    /\ pc[s] \in {"waiting", "pdlp", "done"} => pdlp[s] = NoSolution
    /\ spc[s] \in SimplexPhases \union {"off"} => simplex[s] = "UNSET"
    /\ ~Active(s) => spc[s] = "off"
    /\ MethodUsed = "PDLP" => spc[s] = "off"
    /\ MethodUsed = "DualSimplex" => pc[s] \in {"waiting", "join", "done"}
                                     /\ pdlp[s] = NoSolution
    /\ pc[s] = "crossover" => settings.crossover

\* The flag is shared, but the solves that look at it follow one another.
AloneInv ==
  Concurrent =>
    \A s, t \in Solves : Active(s) /\ Active(t) => s = t

\* The dual simplex has the answer, or PDLP has, and no longer looks at the
\* flag.
SimplexHasIt(s) == spc[s] = "ended" /\ simplex[s] \in SimplexConclusive
PdlpHasIt(s)    == pc[s] = "join" /\ pdlp[s].status = "Optimal"

\* The flag that a solve sees was raised by one of its own two solvers, and
\* whoever gave up saw the flag.
HaltInv ==
  \A s \in Solves :
    /\ Active(s) /\ Halted => SimplexHasIt(s) \/ PdlpHasIt(s)
    /\ pdlp[s].status = "ConcurrentLimit" => Concurrent /\ SimplexHasIt(s)
    /\ simplex[s] = "CONCURRENT_LIMIT" => Concurrent /\ PdlpHasIt(s)

\* A status is true of a kind of problem; so is one of the dual simplex.
IsTrue(status, k) ==
  /\ status = "Optimal" => k = "bounded"
  /\ status = "PrimalFeasible" => k \in PrimalFeasibleKinds
  /\ status = "PrimalInfeasible" => k \notin PrimalFeasibleKinds
  /\ status = "DualInfeasible" => k \notin DualFeasibleKinds

SimplexIsTrue(status, k) ==
  /\ status = "OPTIMAL" => k = "bounded"
  /\ status = "INFEASIBLE" => k \notin PrimalFeasibleKinds
  /\ status = "UNBOUNDED" => k \notin DualFeasibleKinds

TruthInv ==
  \A s \in Solves :
    /\ IsTrue(pdlp[s].status, kind[s])
    /\ SimplexIsTrue(simplex[s], kind[s])
    /\ IsTrue(answer[s].status, kind[s])
    /\ pc[s] = "crossover" => kind[s] = "bounded"

\* Until PDLP ends, the point that is kept is feasible if one ever was.
BestInv ==
  /\ \A s \in Solves :
       settings.save /\ pc[s] \in {"waiting", "pdlp"} /\ met[s] => best[s]
  /\ BestIsReturned

Inv ==
  TypeOK /\ ControlInv /\ AloneInv /\ HaltInv /\ TruthInv /\ BestInv

-----------------------------------------------------------------------------
(* The steps, as few as the invariant needs to tell apart.                 *)

\* The crossover ends, or gives up.
Crosses(s, status) ==
  /\ Replace(s, status)
  /\ status \in {"Optimal", "PrimalFeasible", "NumericalError",
                 "ConcurrentLimit", "TimeLimit"}
  /\ status = "ConcurrentLimit" => Halted

\* The dual simplex goes on to another phase, or stops with a status.
Moves(s, phase) ==
  /\ spc[s] \in SimplexPhases /\ phase \in SimplexPhases
  /\ SimplexGoes(s, phase)

Stops(s, status) ==
  /\ spc[s] \in SimplexPhases /\ status \in SimplexStatuses
  /\ SimplexEnds(s, status)
  /\ status = "CONCURRENT_LIMIT" => Halted
  /\ SimplexIsTrue(status, kind[s])

\* However the crossover ends, it is a Crosses.
LEMMA CrossoverCases ==
  ASSUME NEW s \in Solves,
         CrossoverEnds(s) \/ CrossoverHalted(s) \/ CrossoverTimesOut(s)
  PROVE  \E status \in Statuses : Crosses(s, status)
BY DEF CrossoverEnds, CrossoverHalted, CrossoverTimesOut, Crosses, Statuses,
       Conclusive, Limits, Infeasibilities

\* A step of the dual simplex goes on, stops or returns.
LEMMA SimplexCases ==
  ASSUME TypeOK, NEW s \in Solves,
         SimplexStep(s)
  PROVE  \/ \E phase \in SimplexPhases : Moves(s, phase)
         \/ \E status \in SimplexStatuses : Stops(s, status)
         \/ SimplexReturns(s)
<1> USE DEF Moves, Stops, SimplexPhases, SimplexStatuses, SimplexConclusive,
            SimplexIsTrue
<1>1. CASE Presolve(s)
  BY <1>1 DEF Presolve, PrimalFeasibleKinds
<1>2. CASE Phase1(s)
  BY <1>2 DEF Phase1, DualFeasibleKinds
<1>3. CASE Phase2(s)
  BY <1>3 DEF Phase2, PrimalFeasibleKinds
<1>4. CASE Phase1Again(s)
  BY <1>4 DEF Phase1Again
<1>5. CASE SimplexHalted(s)
  BY <1>5 DEF SimplexHalted, Phase1Again
<1>6. CASE SimplexTimesOut(s)
  BY <1>6 DEF SimplexTimesOut, Phase1Again
<1> QED
  BY <1>1, <1>2, <1>3, <1>4, <1>5, <1>6 DEF SimplexStep

\* A check of PDLP, as far as the invariant is concerned: it keeps a point,
\* passes one, and finds nothing, or a status with which it leaves its loop.
Checks(s, saved, passed, feasible, status) ==
  /\ pc[s] = "pdlp"
  /\ UNCHANGED <<problemVars, halt, simplexVars, answer, crashed>>
  /\ best' = [best EXCEPT ![s] = saved]
  /\ met' = [met EXCEPT ![s] = passed]
  /\ IF status = "NoTermination"
       THEN /\ iters' = [iters EXCEPT ![s] = IF @ < 2 THEN @ + 1 ELSE @]
            /\ UNCHANGED <<pc, pdlp>>
       ELSE /\ UNCHANGED iters
            /\ pdlp' = [pdlp EXCEPT ![s] = Solution(status, feasible)]
            /\ pc' = [pc EXCEPT ![s] =
                 IF settings.crossover /\ status = "Optimal"
                 THEN "crossover" ELSE "signal"]
  /\ (met[s] => best[s]) /\ settings.save /\ passed => saved
  /\ status = "ConcurrentLimit" => Halted
  /\ settings.save /\ status \in {"TimeLimit", "IterationLimit"}
       => (saved => feasible)
  /\ IsTrue(status, kind[s])

\* What a check of PDLP finds, as a Checks: what it saves, which answer it
\* gives and what that takes.
LEMMA CheckOutcome ==
  ASSUME TypeOK, NEW s \in Solves,
         NEW current \in Criteria(kind[s]), NEW average \in Criteria(kind[s]),
         NEW late \in BOOLEAN, NEW spent \in BOOLEAN, NEW stuck \in BOOLEAN,
         PdlpCheck(s, current, average, late, spent, stuck)
  PROVE  \E saved, passed, feasible \in BOOLEAN,
            status \in Statuses \union {"NoTermination"} :
           Checks(s, saved, passed, feasible, status)
<1> DEFINE verdict == Verdict(s, current, average, stuck)
           judged == iters[s] > 1 /\ verdict = "NoTermination"
           found == judged /\ OneIsFeasible(current, average)
           saved == IF judged /\ settings.save
                    THEN RecordBest(s, current, average) ELSE best[s]
           passed == met[s] \/ found
           limit == Limit(late, spent)
           sol == IF verdict # "NoTermination"
                  THEN Solution(verdict, PointIsFeasible(verdict))
                  ELSE Solution(limit, LimitPoint(limit, current, saved))
           status == IF verdict # "NoTermination" THEN verdict ELSE limit
           feasible == IF verdict # "NoTermination"
                       THEN PointIsFeasible(verdict)
                       ELSE LimitPoint(limit, current, saved)
<1>1. verdict \in Statuses \union {"NoTermination"}
      /\ verdict \notin Limits /\ IsTrue(verdict, kind[s])
  BY DEF TypeOK, Verdict, Criteria, Infeasibility, Infeasibilities, IsTrue,
     Statuses, Conclusive, Limits, PrimalFeasibleKinds, DualFeasibleKinds,
     Kinds
<1>2. limit \in {"TimeLimit", "IterationLimit", "ConcurrentLimit",
                 "NoTermination"}
      /\ (limit = "ConcurrentLimit" => Halted)
  BY DEF Limit
<1>3. saved \in BOOLEAN /\ passed \in BOOLEAN
  BY DEF TypeOK, AllSettings, RecordBest, OneIsFeasible, PointIsFeasible
<1>4. (met[s] => best[s]) /\ settings.save /\ passed => saved
  BY DEF RecordBest
<1>5. feasible \in BOOLEAN
  <2>1. (PointIsFeasible(verdict) \in BOOLEAN)
        /\ (PointIsFeasible(current) \in BOOLEAN)
    BY SMT DEF PointIsFeasible
  <2>2. LimitPoint(limit, current, saved) \in BOOLEAN
    <3>1. CASE settings.save /\ limit # "ConcurrentLimit"
      BY <1>3, <3>1, Zenon DEF LimitPoint
    <3>2. CASE ~(settings.save /\ limit # "ConcurrentLimit")
      BY <2>1, <3>2, Zenon DEF LimitPoint
    <3> HIDE DEF saved, limit
    <3> QED
      BY <3>1, <3>2
  <2> HIDE DEF verdict, saved, limit
  <2> QED
    BY <2>1, <2>2, Zenon
<1>6. sol = Solution(status, feasible) /\ sol.status = status
  BY DEF Solution
<1>7. /\ status \in Statuses \union {"NoTermination"}
      /\ status = "ConcurrentLimit" => Halted
      /\ IsTrue(status, kind[s])
  BY <1>1, <1>2 DEF Statuses, Limits, IsTrue
<1>8. settings.save /\ status \in {"TimeLimit", "IterationLimit"}
        => (saved => feasible)
  BY <1>1, <1>2 DEF LimitPoint, Limits
<1>9. /\ pc[s] = "pdlp"
      /\ UNCHANGED <<problemVars, halt, simplexVars, answer, crashed>>
      /\ best' = [best EXCEPT ![s] = saved]
      /\ met' = [met EXCEPT ![s] = passed]
      /\ IF sol.status = "NoTermination"
           THEN /\ iters' = [iters EXCEPT ![s] = IF @ < 2 THEN @ + 1 ELSE @]
                /\ UNCHANGED <<pc, pdlp>>
           ELSE /\ UNCHANGED iters
                /\ pdlp' = [pdlp EXCEPT ![s] = sol]
                /\ pc' = [pc EXCEPT ![s] =
                     IF settings.crossover /\ sol.status = "Optimal"
                     THEN "crossover" ELSE "signal"]
  BY DEF PdlpCheck
<1> HIDE DEF verdict, judged, found, saved, limit, sol, passed, status,
             feasible
<1>10. Checks(s, saved, passed, feasible, status)
  BY <1>4, <1>6, <1>7, <1>8, <1>9 DEF Checks
<1> QED
  BY <1>3, <1>5, <1>7, <1>10

-----------------------------------------------------------------------------
(* The invariant holds at first and is preserved by every step.            *)

\* What a step that leaves the settings alone keeps of them.
LEMMA SameSettings ==
  ASSUME UNCHANGED settings
  PROVE  MethodUsed' = MethodUsed /\ (Concurrent' <=> Concurrent)
BY DEF MethodUsed, Concurrent

\* The two methods that are not concurrent, and those that a batch may use.
LEMMA MethodFacts ==
  ASSUME TypeOK
  PROVE  /\ MethodUsed \in Methods
         /\ Concurrent => ~settings.batch
BY DEF TypeOK, AllSettings, MethodUsed, Concurrent, Methods

\* Before the first step no solve has started.
LEMMA InitInv ==
  Init => Inv
<1> SUFFICES ASSUME Init PROVE Inv
  OBVIOUS
<1>0. NoSolution \in Solutions
  BY DEF Solutions, NoSolution, Solution
<1>1. TypeOK
  <2>1. kind \in [Solves -> Kinds] /\ settings \in AllSettings
    BY ConstantsAssumption DEF Init
  <2>2. /\ best \in [Solves -> BOOLEAN] /\ met \in [Solves -> BOOLEAN]
        /\ crashed \in BOOLEAN
    BY DEF Init
  <2>3. /\ pdlp \in [Solves -> Solutions] /\ answer \in [Solves -> Solutions]
        /\ iters \in [Solves -> 0..2] /\ halt \in {0, 1}
    BY <1>0 DEF Init
  <2>4. /\ pc \in [Solves -> {"waiting", "pdlp", "crossover", "signal",
                              "join", "done"}]
        /\ spc \in [Solves -> SimplexPhases \union {"off", "signal", "ended"}]
        /\ simplex \in
             [Solves -> {"UNSET", "OPTIMAL", "INFEASIBLE", "UNBOUNDED",
                         "TIME_LIMIT", "ITERATION_LIMIT",
                         "CONCURRENT_LIMIT", "NUMERICAL_ISSUES"}]
    BY DEF Init
  <2> QED
    BY <1>0, <2>1, <2>2, <2>3, <2>4 DEF TypeOK
<1>2. ControlInv
  BY DEF Init, ControlInv, Active
<1>3. AloneInv
  BY DEF Init, AloneInv, Active
<1>4. HaltInv
  BY DEF Init, HaltInv, Active, NoSolution, Solution
<1>5. TruthInv
  BY DEF Init, TruthInv, IsTrue, SimplexIsTrue, NoSolution, Solution
<1>6. BestInv
  BY DEF Init, BestInv, BestIsReturned, NoSolution, Solution
<1> QED
  BY <1>1, <1>2, <1>3, <1>4, <1>5, <1>6 DEF Inv

\* A solve starts: the flag is down, unless nobody looks at it.
LEMMA StartInv ==
  ASSUME Inv, NEW s \in Solves, Start(s)
  PROVE  Inv'
<1> USE DEF Inv
<1>0. /\ MethodUsed' = MethodUsed /\ (Concurrent' <=> Concurrent)
      /\ MethodUsed \in Methods
      /\ Concurrent => ~settings.batch
  BY SameSettings, MethodFacts DEF Start, problemVars
<1>1. TypeOK'
  BY DEF TypeOK, Start, ResetHalt, problemVars, pdlpVars, SimplexPhases
<1>2. ControlInv'
  BY <1>0 DEF TypeOK, ControlInv, Start, problemVars, pdlpVars, Active,
     SimplexPhases
<1>3. AloneInv'
  BY <1>0 DEF TypeOK, AloneInv, Start, problemVars, Active
<1>4. HaltInv'
  BY <1>0 DEF TypeOK, ControlInv, HaltInv, Start, ResetHalt, Halted, Active,
     SimplexHasIt, PdlpHasIt, NoSolution, Solution, problemVars, pdlpVars
<1>5. TruthInv'
  BY DEF TypeOK, TruthInv, Start, problemVars, pdlpVars
<1>6. BestInv'
  BY DEF TypeOK, BestInv, BestIsReturned, Start, problemVars, pdlpVars
<1> QED
  BY <1>1, <1>2, <1>3, <1>4, <1>5, <1>6 DEF Inv

\* PDLP checks its points: it goes on, or leaves its loop with a status that
\* is true and, for a limit, with a feasible point if it kept one.
LEMMA CheckInv ==
  ASSUME Inv,
         NEW s \in Solves, NEW saved \in BOOLEAN, NEW passed \in BOOLEAN,
         NEW feasible \in BOOLEAN,
         NEW status \in Statuses \union {"NoTermination"},
         Checks(s, saved, passed, feasible, status)
  PROVE  Inv'
<1> USE DEF Inv, Checks
<1>1. /\ MethodUsed' = MethodUsed /\ (Concurrent' <=> Concurrent)
      /\ MethodUsed # "DualSimplex"
  BY SameSettings DEF problemVars, ControlInv
<1>2. TypeOK'
  <2>1. Solution(status, feasible) \in Solutions
    BY DEF Solution, Solutions
  <2>2. best' \in [Solves -> BOOLEAN] /\ met' \in [Solves -> BOOLEAN]
    BY DEF TypeOK
  <2>3. /\ iters' \in [Solves -> 0..2]
        /\ pdlp' \in [Solves -> Solutions]
    BY <2>1 DEF TypeOK
  <2>4. pc' \in [Solves -> {"waiting", "pdlp", "crossover", "signal", "join",
                            "done"}]
    BY DEF TypeOK
  <2> QED
    BY <2>2, <2>3, <2>4 DEF TypeOK, problemVars, simplexVars
<1>3. ControlInv'
  BY <1>1 DEF TypeOK, ControlInv, Active, problemVars, simplexVars
<1>4. AloneInv'
  BY <1>1 DEF TypeOK, AloneInv, Active
<1>5. HaltInv'
  BY <1>1 DEF TypeOK, ControlInv, HaltInv, Halted, Active,
     SimplexHasIt, PdlpHasIt, Solution, simplexVars
<1>6. TruthInv'
  BY DEF TypeOK, TruthInv, IsTrue, Solution, problemVars, simplexVars
<1>7. BestInv'
  <2>1. settings' = settings
    BY DEF problemVars
  <2>2. settings.save /\ passed => saved
    BY DEF BestInv
  <2>3. \A t \in Solves : settings'.save /\ pc'[t] \in {"waiting", "pdlp"}
                          /\ met'[t] => best'[t]
    BY <2>1, <2>2 DEF TypeOK, BestInv
  <2>4. ASSUME NEW t \in Solves, settings.save, ~settings.crossover,
               pdlp'[t].status \in {"TimeLimit", "IterationLimit"}, met'[t]
        PROVE  pdlp'[t].feasible
    <3>1. CASE t # s
      BY <2>4, <3>1 DEF TypeOK, BestInv, BestIsReturned
    <3>2. CASE t = s
      <4>1. status # "NoTermination"
        BY <2>4, <3>2 DEF ControlInv, NoSolution, Solution
      <4>2. pdlp'[s].status = status /\ pdlp'[s].feasible = feasible
        BY <4>1 DEF TypeOK, Solution
      <4>3. met'[s] = passed
        BY DEF TypeOK
      <4> QED
        BY <2>2, <2>4, <3>2, <4>2, <4>3
    <3> QED
      BY <3>1, <3>2
  <2> QED
    BY <2>1, <2>3, <2>4 DEF BestInv, BestIsReturned
<1> QED
  BY <1>2, <1>3, <1>4, <1>5, <1>6, <1>7

\* The crossover replaces PDLP's point, and its status.
LEMMA CrossesInv ==
  ASSUME Inv, NEW s \in Solves, NEW status \in Statuses, Crosses(s, status)
  PROVE  Inv'
<1> USE DEF Inv, Crosses, Replace
<1>1. /\ MethodUsed' = MethodUsed /\ (Concurrent' <=> Concurrent)
      /\ MethodUsed # "DualSimplex"
  BY SameSettings DEF problemVars, ControlInv
<1>2. Solution(status, PointIsFeasible(status)) \in Solutions
  BY SMT DEF Solution, PointIsFeasible, Solutions
<1>3. TypeOK'
  BY <1>2 DEF TypeOK, problemVars, simplexVars
<1>4. ControlInv'
  BY <1>1 DEF TypeOK, ControlInv, Active, problemVars, simplexVars
<1>5. AloneInv'
  BY <1>1 DEF TypeOK, AloneInv, Active
<1>6. HaltInv'
  BY <1>1 DEF TypeOK, HaltInv, Halted, Active, SimplexHasIt, PdlpHasIt,
     Solution, simplexVars
<1>7. TruthInv'
  BY DEF TypeOK, TruthInv, IsTrue, Solution, PrimalFeasibleKinds,
     problemVars, simplexVars
<1>8. BestInv'
  BY DEF TypeOK, ControlInv, BestInv, BestIsReturned, Solution, problemVars
<1> QED
  BY <1>3, <1>4, <1>5, <1>6, <1>7, <1>8

\* solve_lp returns with a true status: the solve leaves nothing behind but
\* the flag, which nobody looks at until the next one has lowered it.
LEMMA ReturnInv ==
  ASSUME Inv, NEW s \in Solves, Active(s), NEW sol \in Solutions,
         IsTrue(sol.status, kind[s]), Return(s, sol),
         halt' \in {0, 1}, UNCHANGED <<problemVars, crashed>>
  PROVE  Inv'
<1> USE DEF Inv, Return
<1>1. MethodUsed' = MethodUsed /\ (Concurrent' <=> Concurrent)
  BY SameSettings DEF problemVars
<1>2. NoSolution \in Solutions /\ NoSolution.status = "NoTermination"
  BY DEF Solutions, NoSolution, Solution
<1>3. TypeOK'
  BY <1>2 DEF TypeOK, problemVars
<1>4. ControlInv'
  BY <1>1 DEF TypeOK, ControlInv, Active, problemVars, SimplexPhases
<1>5. AloneInv'
  BY <1>1 DEF TypeOK, AloneInv, Active
<1>6. HaltInv'
  BY <1>1, <1>2 DEF TypeOK, ControlInv, AloneInv, HaltInv, Halted, Active,
     SimplexHasIt, PdlpHasIt
<1>7. TruthInv'
  BY <1>2 DEF TypeOK, TruthInv, IsTrue, SimplexIsTrue, problemVars
<1>8. BestInv'
  BY <1>2 DEF TypeOK, BestInv, BestIsReturned, problemVars
<1> QED
  BY <1>3, <1>4, <1>5, <1>6, <1>7, <1>8

\* PDLP's thread waits for the other one, and raises the flag if it has the
\* optimum.
LEMMA WaitInv ==
  ASSUME Inv, NEW s \in Solves, Concurrent, PdlpReturns(s)
  PROVE  Inv'
<1> USE DEF Inv, PdlpReturns
<1>1. MethodUsed' = MethodUsed /\ Concurrent' /\ MethodUsed = "Concurrent"
  BY SameSettings DEF problemVars, Concurrent
<1>2. TypeOK'
  BY DEF TypeOK, problemVars, pdlpVars, simplexVars
<1>3. ControlInv'
  BY <1>1 DEF TypeOK, ControlInv, Active, problemVars, pdlpVars, simplexVars
<1>4. AloneInv'
  BY <1>1 DEF TypeOK, AloneInv, Active
<1>5. HaltInv'
  BY <1>1 DEF TypeOK, AloneInv, HaltInv, Halted, Active, SimplexHasIt,
     PdlpHasIt, PdlpSignals, pdlpVars, simplexVars
<1>6. TruthInv'
  BY DEF TypeOK, TruthInv, problemVars, pdlpVars, simplexVars
<1>7. BestInv'
  BY DEF TypeOK, BestInv, BestIsReturned, problemVars, pdlpVars
<1> QED
  BY <1>2, <1>3, <1>4, <1>5, <1>6, <1>7

\* The dual simplex goes on.
LEMMA MovesInv ==
  ASSUME Inv, NEW s \in Solves, NEW phase \in SimplexPhases, Moves(s, phase)
  PROVE  Inv'
<1> USE DEF Inv, Moves, SimplexGoes
<1>1. MethodUsed' = MethodUsed /\ (Concurrent' <=> Concurrent)
  BY SameSettings DEF problemVars
<1>2. TypeOK'
  BY DEF TypeOK, problemVars, pdlpVars
<1>3. ControlInv'
  BY <1>1 DEF TypeOK, ControlInv, Active, problemVars, pdlpVars,
     SimplexPhases
<1>4. AloneInv'
  BY <1>1 DEF AloneInv, Active
<1>5. HaltInv'
  BY <1>1 DEF TypeOK, HaltInv, Halted, Active, SimplexHasIt, PdlpHasIt,
     SimplexPhases, pdlpVars
<1>6. TruthInv'
  BY DEF TruthInv, problemVars, pdlpVars
<1>7. BestInv'
  BY DEF BestInv, BestIsReturned, problemVars, pdlpVars
<1> QED
  BY <1>2, <1>3, <1>4, <1>5, <1>6, <1>7

\* The dual simplex stops with a status that is true, and gives up only when
\* it sees the flag.
LEMMA StopsInv ==
  ASSUME Inv, NEW s \in Solves, NEW status \in SimplexStatuses,
         Stops(s, status)
  PROVE  Inv'
<1> USE DEF Inv, Stops, SimplexEnds
<1>1. MethodUsed' = MethodUsed /\ (Concurrent' <=> Concurrent)
  BY SameSettings DEF problemVars
<1>2. TypeOK'
  BY DEF TypeOK, problemVars, pdlpVars, SimplexStatuses, SimplexConclusive
<1>3. ControlInv'
  BY <1>1 DEF TypeOK, ControlInv, Active, problemVars, pdlpVars,
     SimplexPhases
<1>4. AloneInv'
  BY <1>1 DEF AloneInv, Active
<1>5. HaltInv'
  BY <1>1 DEF TypeOK, ControlInv, HaltInv, Halted, Active, SimplexHasIt,
     PdlpHasIt, SimplexPhases, pdlpVars
<1>6. TruthInv'
  BY DEF TypeOK, TruthInv, problemVars, pdlpVars
<1>7. BestInv'
  BY DEF BestInv, BestIsReturned, problemVars, pdlpVars
<1> QED
  BY <1>2, <1>3, <1>4, <1>5, <1>6, <1>7

\* The dual simplex is done, and raises the flag if it has the answer.
LEMMA SimplexReturnsInv ==
  ASSUME Inv, NEW s \in Solves, SimplexReturns(s)
  PROVE  Inv'
<1> USE DEF Inv, SimplexReturns
<1>1. MethodUsed' = MethodUsed /\ (Concurrent' <=> Concurrent)
  BY SameSettings DEF problemVars
<1>2. TypeOK'
  BY DEF TypeOK, problemVars, pdlpVars
<1>3. ControlInv'
  BY <1>1 DEF TypeOK, ControlInv, Active, problemVars, pdlpVars,
     SimplexPhases
<1>4. AloneInv'
  BY <1>1 DEF AloneInv, Active
<1>5. HaltInv'
  BY <1>1 DEF TypeOK, ControlInv, AloneInv, HaltInv, Halted, Active,
     SimplexHasIt, PdlpHasIt, SimplexSignals, SimplexConclusive, pdlpVars
<1>6. TruthInv'
  BY DEF TruthInv, problemVars, pdlpVars
<1>7. BestInv'
  BY DEF BestInv, BestIsReturned, problemVars, pdlpVars
<1> QED
  BY <1>2, <1>3, <1>4, <1>5, <1>6, <1>7

\* What the dual simplex says reaches the caller as it was meant.
LEMMA SimplexSolutionFacts ==
  ASSUME Inv, NEW s \in Solves
  PROVE  /\ SimplexSolution(s) \in Solutions
         /\ SimplexSolution(s).status \in Conclusive \union Limits
                                            \union {"NumericalError"}
         /\ SimplexSolution(s).status \in Conclusive
              <=> simplex[s] \in SimplexConclusive
         /\ SimplexSolution(s).status = "ConcurrentLimit"
              <=> simplex[s] = "CONCURRENT_LIMIT"
         /\ IsTrue(SimplexSolution(s).status, kind[s])
<1> DEFINE status == TerminationStatus(simplex[s])
<1>1. /\ status \in Conclusive \union Limits \union {"NumericalError"}
      /\ status \in Conclusive <=> simplex[s] \in SimplexConclusive
      /\ status = "ConcurrentLimit" <=> simplex[s] = "CONCURRENT_LIMIT"
  BY DEF Inv, TypeOK, TerminationStatus, Conclusive, Infeasibilities, Limits,
     SimplexConclusive
<1>2. IsTrue(status, kind[s])
  BY DEF Inv, TypeOK, TruthInv, TerminationStatus, IsTrue, SimplexIsTrue
<1>3. SimplexSolution(s) \in Solutions /\ SimplexSolution(s).status = status
  <2>1. status \in Statuses
    BY <1>1 DEF Statuses
  <2>2. ASSUME NEW b \in BOOLEAN
        PROVE  Solution(status, b) \in Solutions
               /\ Solution(status, b).status = status
    <3> HIDE DEF status
    <3> QED
      BY <2>1 DEF Solution, Solutions
  <2>3. (simplex[s] = "OPTIMAL") \in BOOLEAN
    BY SMT
  <2> QED
    BY <2>2, <2>3 DEF SimplexSolution
<1> HIDE DEF status
<1> QED
  BY <1>1, <1>2, <1>3

\* The answer of a concurrent solve is one of the two, and neither what
\* settled the problem nor the giving up of one of them gets in the way.
LEMMA ChosenFacts ==
  ASSUME Inv, NEW s \in Solves, Concurrent, pc[s] = "join", spc[s] = "ended"
  PROVE  LET sol == Chosen(pdlp[s], SimplexSolution(s))
         IN /\ sol \in Solutions /\ IsTrue(sol.status, kind[s])
            /\ sol.status # "ConcurrentLimit"
            /\ Settled(s) => sol.status \in Conclusive
<1>1. /\ pdlp[s] \in Solutions /\ IsTrue(pdlp[s].status, kind[s])
      /\ pdlp[s].status = "ConcurrentLimit" =>
           simplex[s] \in SimplexConclusive
      /\ simplex[s] = "CONCURRENT_LIMIT" => pdlp[s].status = "Optimal"
  BY DEF Inv, TypeOK, TruthInv, HaltInv, SimplexHasIt, PdlpHasIt
<1>2. /\ "Optimal" \in Conclusive /\ "ConcurrentLimit" \notin Conclusive
  BY DEF Conclusive, Infeasibilities
<1>3. CASE SimplexSolution(s).status \in Conclusive
  BY <1>2, <1>3, SimplexSolutionFacts DEF Chosen
<1>4. CASE /\ SimplexSolution(s).status \notin Conclusive
           /\ pdlp[s].status = "Optimal"
  BY <1>1, <1>2, <1>4 DEF Chosen
<1>5. CASE /\ SimplexSolution(s).status \notin Conclusive
           /\ pdlp[s].status # "Optimal"
  <2>1. pdlp[s].status # "ConcurrentLimit"
    BY <1>1, <1>5, SimplexSolutionFacts
  <2> QED
    BY <1>1, <1>5, <2>1 DEF Chosen, Settled
<1> QED
  BY <1>3, <1>4, <1>5

\* Whatever the next step is, the invariant survives it.
LEMMA NextInv ==
  Inv /\ [Next]_vars => Inv'
<1> SUFFICES ASSUME Inv, [Next]_vars PROVE Inv'
  OBVIOUS
<1>1. CASE UNCHANGED vars
  <2> USE <1>1 DEF vars, problemVars, pdlpVars, simplexVars
  <2>1. MethodUsed' = MethodUsed /\ (Concurrent' <=> Concurrent)
    BY SameSettings
  <2>2. TypeOK' /\ ControlInv' /\ AloneInv'
    BY <2>1 DEF Inv, TypeOK, ControlInv, AloneInv, Active
  <2>3. HaltInv' /\ TruthInv' /\ BestInv'
    BY <2>1 DEF Inv, HaltInv, Halted, Active, SimplexHasIt, PdlpHasIt,
       TruthInv, BestInv, BestIsReturned
  <2> QED
    BY <2>2, <2>3 DEF Inv
<1>2. ASSUME NEW s \in Solves, Start(s) PROVE Inv'
  BY <1>2, StartInv
<1>3. ASSUME NEW s \in Solves, PdlpStep(s) PROVE Inv'
  <2>1. CASE \E current, average \in Criteria(kind[s]),
                late, spent, stuck \in BOOLEAN :
               PdlpCheck(s, current, average, late, spent, stuck)
    BY <2>1, CheckOutcome, CheckInv DEF Inv
  <2>2. CASE CrossoverEnds(s) \/ CrossoverHalted(s) \/ CrossoverTimesOut(s)
    BY <2>2, CrossoverCases, CrossesInv
  <2>3. CASE PdlpReturns(s) /\ Concurrent
    BY <2>3, WaitInv
  <2>4. CASE PdlpReturns(s) /\ ~Concurrent
    <3>1. /\ Return(s, pdlp[s]) /\ Active(s)
          /\ UNCHANGED <<problemVars, crashed>>
      BY <2>4 DEF PdlpReturns, Active
    <3>2. pdlp[s] \in Solutions /\ IsTrue(pdlp[s].status, kind[s])
          /\ halt' \in {0, 1}
      BY <2>4 DEF Inv, TypeOK, TruthInv, PdlpReturns
    <3> QED
      BY <3>1, <3>2, ReturnInv
  <2> QED
    BY <1>3, <2>1, <2>2, <2>3, <2>4 DEF PdlpStep
<1>4. ASSUME NEW s \in Solves, SimplexStep(s) PROVE Inv'
  BY <1>4, SimplexCases, MovesInv, StopsInv, SimplexReturnsInv DEF Inv
<1>5. ASSUME NEW s \in Solves, Join(s) PROVE Inv'
  <2> DEFINE sol == IF Concurrent THEN Chosen(pdlp[s], SimplexSolution(s))
                    ELSE SimplexSolution(s)
  <2>1. /\ Return(s, sol) /\ Active(s)
        /\ UNCHANGED <<problemVars, halt, crashed>>
    BY <1>5 DEF Join, Active
  <2>2. sol \in Solutions /\ IsTrue(sol.status, kind[s])
    BY <1>5, ChosenFacts, SimplexSolutionFacts DEF Join
  <2>3. halt' \in {0, 1}
    BY <2>1 DEF Inv, TypeOK
  <2> HIDE DEF sol
  <2> QED
    BY <2>1, <2>2, <2>3, ReturnInv
<1>6. ASSUME NEW s \in Solves, Throw(s) PROVE Inv'
  <2>1. CASE Concurrent
    <3> USE <1>6, <2>1 DEF Throw, problemVars, pdlpVars, simplexVars
    <3>1. MethodUsed' = MethodUsed /\ (Concurrent' <=> Concurrent)
      BY SameSettings
    <3>2. TypeOK' /\ ControlInv' /\ AloneInv'
      BY <3>1 DEF Inv, TypeOK, ControlInv, AloneInv, Active
    <3>3. HaltInv' /\ TruthInv' /\ BestInv'
      BY <3>1 DEF Inv, HaltInv, Halted, Active, SimplexHasIt, PdlpHasIt,
         TruthInv, BestInv, BestIsReturned
    <3> QED
      BY <3>2, <3>3 DEF Inv
  <2>2. CASE ~Concurrent
    <3>1. /\ Return(s, Solution("Error", FALSE))
          /\ UNCHANGED <<problemVars, halt, crashed>>
      BY <1>6, <2>2 DEF Throw
    <3>2. Active(s)
      BY <1>6 DEF Throw, Inv, ControlInv, Active, SimplexPhases
    <3>3. /\ Solution("Error", FALSE) \in Solutions
          /\ IsTrue(Solution("Error", FALSE).status, kind[s])
      BY DEF Solution, Solutions, IsTrue
    <3>4. halt' \in {0, 1}
      BY <3>1 DEF Inv, TypeOK
    <3> QED
      BY <3>1, <3>2, <3>3, <3>4, ReturnInv
  <2> QED
    BY <2>1, <2>2
<1> QED
  BY <1>1, <1>2, <1>3, <1>4, <1>5, <1>6 DEF Next

\* The invariant holds throughout every behaviour.
LEMMA Invariance ==
  Spec => []Inv
<1>1. Init => Inv
  BY InitInv
<1>2. Inv /\ [Next]_vars => Inv'
  BY NextInv
<1> QED
  BY <1>1, <1>2, PTL DEF Spec

-----------------------------------------------------------------------------
(* The theorems.                                                           *)

\* The variables keep to their types; the flag is 0 or 1.
THEOREM TypeCorrect ==
  Spec => []TypeOK
BY Invariance, PTL DEF Inv

\* A solver that gave up did so because its own partner had the answer.
THEOREM GivesUp ==
  Spec => []GivesUpForAnAnswer
<1>1. Inv => GivesUpForAnAnswer
  BY DEF Inv, HaltInv, GivesUpForAnAnswer, SimplexHasIt, PdlpHasIt,
     SimplexConclusive
<1> QED
  BY <1>1, Invariance, PTL

\* What solve_lp says of a problem is true of it.
THEOREM AnswersAreTrue ==
  Spec => []AnswerIsTrue
<1>1. Inv => AnswerIsTrue
  BY DEF Inv, TruthInv, IsTrue, AnswerIsTrue
<1> QED
  BY <1>1, Invariance, PTL

\* PDLP that runs into a limit returns a feasible point if it passed one in
\* an iteration that looks for them and was to keep it.
THEOREM BestReturned ==
  Spec => []BestIsReturned
<1>1. Inv => BestIsReturned
  BY DEF Inv, BestInv
<1> QED
  BY <1>1, Invariance, PTL

\* A solve that one of its solvers settled ends settled, and no solve ends
\* with ConcurrentLimit.
THEOREM SettledAnswered ==
  Spec => SettledIsAnswered
<1>1. ASSUME Inv, [Next]_vars, NEW s \in Solves,
             pc[s] # "done", pc'[s] = "done", answer'[s].status # "Error"
      PROVE  /\ answer'[s].status # "ConcurrentLimit"
             /\ Settled(s) => answer'[s].status \in Conclusive
  <2> USE <1>1 DEF Inv
  <2>1. (Concurrent /\ pc[s] = "join" /\ spc[s] = "ended"
           /\ answer'[s] = Chosen(pdlp[s], SimplexSolution(s)))
        \/ (~Concurrent /\ pc[s] = "join" /\ spc[s] = "ended"
              /\ answer'[s] = SimplexSolution(s))
        \/ (~Concurrent /\ pc[s] = "signal" /\ answer'[s] = pdlp[s])
    <3>1. Next
      BY DEF vars
    <3>2. PICK t \in Solves : Start(t) \/ PdlpStep(t) \/ SimplexStep(t)
                              \/ Join(t) \/ Throw(t)
      BY <3>1 DEF Next
    <3>3. CASE Start(t)
      BY <3>3 DEF Start, TypeOK
    <3>4. CASE PdlpStep(t)
      <4>1. CASE PdlpReturns(t)
        BY <4>1 DEF PdlpReturns, Return, TypeOK
      <4>2. CASE ~PdlpReturns(t)
        BY <3>4, <4>2 DEF PdlpStep, PdlpCheck, CrossoverEnds,
           CrossoverHalted, CrossoverTimesOut, Replace, TypeOK
      <4> QED
        BY <4>1, <4>2
    <3>5. CASE SimplexStep(t)
      BY <3>5, SimplexCases DEF Moves, Stops, SimplexGoes, SimplexEnds,
         SimplexReturns
    <3>6. CASE Join(t)
      BY <3>6 DEF Join, Return, TypeOK
    <3>7. CASE Throw(t)
      BY <3>7 DEF Throw, Return, Solution, TypeOK
    <3> QED
      BY <3>2, <3>3, <3>4, <3>5, <3>6, <3>7
  <2>2. CASE Concurrent
    BY <2>1, <2>2, ChosenFacts
  <2>3. CASE ~Concurrent /\ pc[s] = "join"
    <3>1. pdlp[s] = NoSolution /\ answer'[s] = SimplexSolution(s)
      BY <2>1, <2>3, MethodFacts DEF ControlInv, Concurrent, Methods
    <3>2. NoSolution.status \notin Conclusive
      BY DEF NoSolution, Solution, Conclusive, Infeasibilities
    <3>3. simplex[s] # "CONCURRENT_LIMIT"
      BY <2>3 DEF HaltInv
    <3> QED
      BY <3>1, <3>2, <3>3, SimplexSolutionFacts DEF Settled
  <2>4. CASE ~Concurrent /\ pc[s] = "signal"
    <3>1. answer'[s] = pdlp[s] /\ pdlp[s].status # "ConcurrentLimit"
      BY <2>1, <2>4 DEF HaltInv
    <3>2. simplex[s] = "UNSET"
      BY <2>4, MethodFacts DEF ControlInv, Concurrent, Methods
    <3>3. SimplexSolution(s).status \notin Conclusive
      BY <3>2, SimplexSolutionFacts DEF SimplexConclusive
    <3> QED
      BY <3>1, <3>3 DEF Settled
  <2> QED
    BY <2>1, <2>2, <2>3, <2>4
<1>2. Inv /\ [Next]_vars =>
        [\A s \in Solves :
           pc[s] # "done" /\ pc'[s] = "done"
             /\ answer'[s].status # "Error" =>
           /\ answer'[s].status # "ConcurrentLimit"
           /\ Settled(s) => answer'[s].status \in Conclusive]_vars
  BY <1>1
<1> QED
  BY <1>2, Invariance, PTL DEF Spec, SettledIsAnswered
=============================================================================
