------------------------- MODULE MipHeuristicsProofs -------------------------
(***************************************************************************)
(* Theorems about MipHeuristics, for any number of solutions, of places    *)
(* and of tries: the population passes its test between two steps, what    *)
(* was reported is not forgotten, the best solution is only given up for   *)
(* one that costs no more, and a solve that was preempted by an optimum    *)
(* returns one.                                                            *)
(***************************************************************************)
EXTENDS MipHeuristics, PopulationProofs

-----------------------------------------------------------------------------
(* The inductive invariant, in parts.                                      *)

Early == {"start", "quick", "probed", "lp"}
Unpopulated == Early \cup {"relaxed", "island", "populate"}

\* A population has no room at first, and nothing in it until the first one
\* is made.
PopIs(p, c) ==
  /\ IF c \in Early
     THEN /\ p.reported \in 0..Inf
          /\ p = [EmptyPopulation EXCEPT !.reported = p.reported]
     ELSE Sound(p)
  /\ c \in Unpopulated => p.ranks = <<>> /\ ~p.best.used

PopInv == PopIs(pop, pc)

\* What the locals hold.
LocalInv ==
  /\ todo # <<>> => pc \in {"recombine", "partner"}
  /\ pc = "partner" => current \in All
  /\ \/ pc \in {"step", "breed"}
     \/ pc \in {"recombine", "partner"} /\ back = "breed"
     => rounds > 0

\* A sequence of solutions has a feasible one of that objective.
Holds(sols, obj) ==
  \E i \in DOMAIN sols : Feasible(sols[i]) /\ Obj[sols[i]] = obj

\* A population that lacks what was reported has it pending.
HeldIn(p, sols) == Lacks(p, p.reported) => Holds(sols, p.reported)

HeldInv == HeldIn(pop, pending)

\* If the population lacks what branch and bound sent, it is on its way,
\* unless something better was reported.
SentInv ==
  bb # "misled" /\ bbBest <= pop.reported /\ Lacks(pop, bbBest)
    => Holds(queue, bbBest) \/ Holds(todo, bbBest)

\* Branch and bound preempts when it is done. The gap it had closed stays
\* closed.
OptimumInv ==
  /\ preempt => bb \in {"optimal", "none", "misled"}
  /\ bb = "optimal" => Closed(Upper)

\* Who was preempted has emptied the queue, and returns the best solution.
AnswerInv ==
  answer.why = "preempted" =>
    /\ preempt /\ queue = <<>>
    /\ pc \in {"final", "recombine", "partner", "done"}
    /\ pc \in {"recombine", "partner"} => back = "done"
    /\ pc = "done" => answer.sol = pop.best.sol

Inv ==
  /\ TypeOK /\ PopInv /\ LocalInv
  /\ HeldInv /\ SentInv /\ OptimumInv /\ AnswerInv

-----------------------------------------------------------------------------
(* Lemmas about populations and objectives.                                *)

\* The optimum is a number.
LEMMA OptimumFacts == Optimum \in Nat
<1> DEFINE F == {s \in Feas : Excess[s] = 0}
<1> DEFINE S == {Inf} \cup {Obj[s] : s \in F}
<1>1. \A s \in F : Obj[s] \in Nat
  BY SolutionFacts DEF Feasible
<1>2. S \in SUBSET Nat /\ S # {}
  BY <1>1, SolutionFacts
<1>3. Optimum = Min(S)
  BY DEF Optimum
<1> HIDE DEF S
<1> QED
  BY <1>2, <1>3, MinIsLeast

\* A better upper bound leaves the gap closed.
LEMMA StaysClosed ==
  ASSUME NEW u \in Nat, NEW v \in Nat, v <= u, Closed(u)
  PROVE  Closed(v)
<1>1. /\ Optimum \in Nat /\ AbsGap \in Nat /\ RelGap \in 0..100
      /\ Inf \in Nat
  BY OptimumFacts, HeuristicsAssumption, SolutionFacts
<1>2. v < Inf
  BY <1>1 DEF Closed
<1>3. CASE u - Optimum <= AbsGap
  BY <1>1, <1>2, <1>3 DEF Closed
<1>4. CASE 100 * (u - Optimum) <= RelGap * u
  <2> DEFINE d == u - v
  <2>1. d \in Nat /\ u = v + d
    OBVIOUS
  <2>2. RelGap * u = RelGap * v + RelGap * d
    BY <1>1, <2>1
  <2>3. RelGap * d <= 100 * d
    <3>1. (100 - RelGap) * d \in Nat
      BY <1>1, <2>1
    <3>2. (100 - RelGap) * d = 100 * d - RelGap * d
      BY <1>1, <2>1
    <3>3. RelGap * d \in Int
      BY <1>1, <2>1
    <3> HIDE DEF d
    <3> QED
      BY <2>1, <3>1, <3>2, <3>3
  <2>4. RelGap * v \in Int /\ RelGap * d \in Int
    BY <1>1, <2>1
  <2> HIDE DEF d
  <2>5. 100 * (v - Optimum) <= RelGap * v
    BY <1>1, <1>4, <2>1, <2>2, <2>3, <2>4
  <2> QED
    BY <1>2, <2>5 DEF Closed
<1> QED
  BY <1>3, <1>4 DEF Closed

\* Whatever room it has, it is a population.
LEMMA PopTypes ==
  ASSUME NEW p, NEW c, PopIs(p, c)
  PROVE  /\ p \in Pools /\ BestInv(p)
         /\ c \in Unpopulated => p.best.cost = NoCost
<1>1. CASE c \in Early
  <2> DEFINE e == EmptyPopulation
  <2>1. /\ e \in Pools /\ e.best.cost = NoCost /\ ~e.best.used
        /\ p.reported \in 0..Inf /\ p = [e EXCEPT !.reported = p.reported]
    BY <1>1, EmptyPopulationFacts DEF PopIs
  <2> HIDE DEF e
  <2>2. p \in Pools /\ p.best = e.best
    BY <2>1 DEF Pools
  <2> QED
    BY <2>1, <2>2, SolutionFacts DEF BestInv
<1>2. CASE c \notin Early
  <2>1. p \in Pools /\ BestInv(p)
    BY <1>2 DEF PopIs, Sound
  <2>2. ASSUME c \in Unpopulated PROVE p.best.cost = NoCost
    <3>1. ~p.best.used /\ p.best.cost \in 0..NoCost /\ NoCost \in Nat
      BY <2>1, <2>2, PoolTypes, SolutionFacts DEF PopIs
    <3> QED
      BY <2>1, <3>1 DEF BestInv
  <2> QED
    BY <2>1, <2>2
<1> QED
  BY <1>1, <1>2

\* What is held stays held when the population improves.
LEMMA GrowHeld ==
  ASSUME NEW p \in Pools, NEW q \in Pools, BestInv(q), Keeps(p, q),
         NEW sols, HeldIn(p, sols)
  PROVE  HeldIn(q, sols) /\ q.reported <= p.reported /\ NoWorse(p, q)
<1>1. NoWorse(p, q)
  BY KeepsNoWorse
<1>2. q.reported \in Nat
  BY PoolTypes
<1>3. Lacks(q, q.reported) => q.reported = p.reported
  BY DEF Keeps
<1>4. Lacks(q, q.reported) => Lacks(p, q.reported)
  BY <1>1, <1>2, LacksLess
<1> QED
  BY <1>1, <1>3, <1>4 DEF HeldIn, Keeps

\* A solution that is reported is made pending.
LEMMA ReportHeld ==
  ASSUME NEW p \in Pools, NEW s \in Sols, NEW sols \in Seq(Sols),
         HeldIn(p, sols)
  PROVE  /\ HeldIn(Reported(p, s), Append(sols, s))
         /\ Reported(p, s) \in Pools
         /\ Reported(p, s) = [p EXCEPT !.reported = Reported(p, s).reported]
         /\ Reported(p, s).reported <= p.reported
         /\ Reported(p, s).best = p.best
         /\ Append(sols, s) \in Seq(Sols)
<1> DEFINE q == Reported(p, s)
<1> DEFINE more == Append(sols, s)
<1>1. /\ q \in Pools
      /\ q = [p EXCEPT !.reported = q.reported]
      /\ q.reported <= p.reported
      /\ \/ q.reported = p.reported
         \/ Feasible(s) /\ q.reported = Obj[s]
  BY SolutionFacts, CallbackFacts DEF Reported
<1> HIDE DEF q
<1>2. q.best = p.best
  BY <1>1 DEF Pools
<1>3. /\ Len(sols) \in Nat /\ DOMAIN sols = 1..Len(sols)
      /\ DOMAIN more = 1..(Len(sols) + 1)
      /\ more[Len(sols) + 1] = s
      /\ \A i \in 1..Len(sols) : more[i] = sols[i]
      /\ more \in Seq(Sols)
  OBVIOUS
<1> HIDE DEF more
<1>4. \A x : Holds(sols, x) => Holds(more, x)
  BY <1>3 DEF Holds
<1>5. Feasible(s) => Holds(more, Obj[s])
  BY <1>3 DEF Holds
<1>6. Lacks(q, p.reported) => Lacks(p, p.reported)
  BY <1>2 DEF Lacks
<1>7. HeldIn(q, more)
  BY <1>1, <1>4, <1>5, <1>6 DEF HeldIn
<1> QED
  BY <1>1, <1>2, <1>3, <1>7 DEF q, more

\* What a population covers it does not lack.
LEMMA CoversLacks ==
  ASSUME NEW p \in Pools, NEW sols \in Seq(All), Covers(p, sols, Len(sols)),
         NEW obj, Holds(sols, obj)
  PROVE  ~Lacks(p, obj)
<1>1. PICK i \in 1..Len(sols) : Feasible(sols[i]) /\ Obj[sols[i]] = obj
  BY DEF Holds
<1>2. /\ sols[i] \in All /\ p.weight \in 1..MaxWeight
      /\ p.best.cost \in Nat /\ NoCost \in Nat
  BY PoolTypes, SolutionFacts
<1>3. p.best.cost <= Cost(sols[i], p.weight)
  BY <1>1 DEF Covers
<1>4. /\ Cost(sols[i], p.weight) \in Nat /\ Cost(sols[i], p.weight) < NoCost
      /\ Exact(obj) => Cost(sols[i], p.weight) = obj
  BY <1>1, <1>2, CostFacts
<1> QED
  BY <1>2, <1>3, <1>4 DEF Lacks

\* A population that has all the pending solutions has what was reported.
LEMMA AbsorbHeld ==
  ASSUME NEW p \in Pools, NEW q \in Pools, BestInv(q), NEW sols \in Seq(All),
         HeldIn(p, sols), NoWorse(p, q), Covers(q, sols, Len(sols)),
         q.reported = p.reported \/ ~Lacks(q, q.reported)
  PROVE  ~Lacks(q, q.reported)
<1>1. q.reported \in Nat
  BY PoolTypes
<1>2. Lacks(q, q.reported) => Lacks(p, q.reported)
  BY <1>1, LacksLess
<1>3. Holds(sols, q.reported) => ~Lacks(q, q.reported)
  BY CoversLacks
<1> QED
  BY <1>2, <1>3 DEF HeldIn

-----------------------------------------------------------------------------
(* The steps of the population.                                            *)

\* What every step does with the population and the pending solutions.
PopMoves ==
  /\ PopIs(pop', pc') /\ HeldIn(pop', pending')
  /\ pop'.reported <= pop.reported
  /\ NoWorse(pop, pop')
  /\ pending' \in Seq(Sols)

\* Solutions that join a sound population, or none.
LEMMA Grows ==
  ASSUME TypeOK, PopInv, HeldInv,
         Sound(pop'), Keeps(pop, pop'), pc' \notin Unpopulated,
         pending' = pending
  PROVE  PopMoves
<1>1. pop \in Pools /\ pop' \in Pools /\ BestInv(pop')
  BY PopTypes DEF PopInv, Sound
<1>2. /\ HeldIn(pop', pending) /\ pop'.reported <= pop.reported
      /\ NoWorse(pop, pop')
  BY <1>1, GrowHeld DEF HeldInv
<1> QED
  BY <1>2 DEF PopMoves, PopIs, TypeOK, Unpopulated

\* A step that leaves the population and the pending solutions alone.
LEMMA Stays ==
  ASSUME TypeOK, PopInv, HeldInv,
         pop' = pop, pending' = pending, PopIs(pop, pc')
  PROVE  PopMoves
<1>1. pop \in Pools /\ BestInv(pop)
  BY PopTypes DEF PopInv
<1>2. pop.reported \in Nat /\ NoWorse(pop, pop')
  BY <1>1, PoolTypes, SameBest
<1> QED
  BY <1>2 DEF PopMoves, TypeOK, HeldInv

\* The queue is drained into the population.
LEMMA Drains ==
  ASSUME TypeOK, PopInv, Drain
  PROVE  /\ Sound(pop') /\ Keeps(pop, pop')
         /\ Covers(pop', queue, Len(queue)) /\ queue' = <<>>
<1>1. PICK d \in Defaults :
        pop' = AddAll(IF CurrentSize(pop) = 0 THEN AllocateSolutions(pop, d)
                      ELSE pop, queue)
  BY DEF Drain, TakeQueue
<1>2. pop \in Pools
  BY PopTypes DEF PopInv
<1>3. queue \in Seq(All)
  BY SolutionFacts DEF TypeOK
<1>4. PICK p : /\ Sound(p) /\ p.best.cost = pop.best.cost
               /\ p.reported = pop.reported /\ p.weight = pop.weight
               /\ pop' = AddAll(p, queue)
  <2>1. CASE CurrentSize(pop) # 0
    <3>1. pc \notin Early
      <4>1. CASE pc \in Early
        <5> DEFINE e == EmptyPopulation
        <5>1. /\ e \in Pools /\ e.ranks = <<>>
              /\ pop = [e EXCEPT !.reported = pop.reported]
          BY <4>1, EmptyPopulationFacts DEF PopInv, PopIs
        <5> HIDE DEF e
        <5>2. pop.ranks = <<>>
          BY <5>1 DEF Pools
        <5> QED
          BY <2>1, <5>2 DEF CurrentSize
      <4> QED
        BY <4>1
    <3>2. Sound(pop)
      BY <3>1 DEF PopInv, PopIs
    <3> QED
      BY <1>1, <2>1, <3>2
  <2>2. CASE CurrentSize(pop) = 0 /\ pc \in Early
    <3> DEFINE e == EmptyPopulation
    <3>1. /\ e \in Pools /\ e.ranks = <<>> /\ e.slots = <<>>
          /\ e.best.cost = NoCost
          /\ pop = [e EXCEPT !.reported = pop.reported]
      BY <2>2, EmptyPopulationFacts DEF PopInv, PopIs
    <3> HIDE DEF e
    <3>2. pop.ranks = <<>> /\ pop.slots = <<>> /\ pop.best.cost = NoCost
      BY <3>1 DEF Pools
    <3> DEFINE p == AllocateSolutions(pop, d)
    <3>3. /\ Sound(p) /\ p.best.cost = pop.best.cost
          /\ p.reported = pop.reported /\ p.weight = pop.weight
      BY <1>2, <3>2, FirstAllocation
    <3> QED
      BY <1>1, <2>2, <3>3
  <2>3. CASE CurrentSize(pop) = 0 /\ pc \notin Early
    <3>1. Sound(pop)
      BY <2>3 DEF PopInv, PopIs
    <3>2. pop.ranks = <<>>
      <4> DEFINE T == [slot : Nat, cost : Nat]
      <4>1. pop.ranks \in Seq(T) /\ Len(pop.ranks) = 0
        BY <1>2, <2>3, PoolTypes DEF CurrentSize
      <4> HIDE DEF T
      <4> QED
        BY <4>1
    <3> DEFINE p == AllocateSolutions(pop, d)
    <3>3. /\ Sound(p) /\ p.best.cost = pop.best.cost
          /\ p.reported = pop.reported /\ p.weight = pop.weight
      BY <3>1, <3>2, MoreAllocation
    <3> QED
      BY <1>1, <2>3, <3>3
  <2> QED
    BY <2>1, <2>2, <2>3
<1>5. /\ Sound(pop') /\ Keeps(p, pop')
      /\ Covers(pop', queue, Len(queue))
  BY <1>3, <1>4, AddAllFacts DEF Improves
<1>6. Keeps(pop, pop')
  BY <1>4, <1>5 DEF Keeps
<1> QED
  BY <1>5, <1>6 DEF Drain

\* A solution joins the population.
LEMMA Joins ==
  ASSUME NEW p, Sound(p), NEW s \in All
  PROVE  Sound(AddSolution(p, s).pop) /\ Keeps(p, AddSolution(p, s).pop)
BY AddSolutionFacts DEF Improves

\* Parents and offspring are solutions.
LEMMA OffspringFacts ==
  ASSUME NEW s \in All, NEW t \in All, NEW o \in Offspring(s, t)
  PROVE  o \in Seq(All) /\ o[1] \in All /\ o[2] \in All
<1>1. Sols \subseteq All
  BY SolutionFacts
<1>2. CASE o = <<s, t>>
  BY <1>2
<1>3. CASE o \in Sols \X Sols
  <2>1. PICK u \in Sols, v \in Sols : o = <<u, v>>
    BY <1>3
  <2> QED
    BY <1>1, <2>1
<1> QED
  BY <1>2, <1>3 DEF Offspring

\* The parents of diversity_step are solutions of the population.
LEMMA ParentsFacts ==
  ASSUME Sound(pop), NEW st \in Parents
  PROVE  st[1] \in All /\ st[2] \in All
<1> DEFINE first == IF ~pop.best.used \/ Feasible(Best(pop)) THEN 1 ELSE 0
<1> DEFINE last == first + CurrentSize(pop) - 1
<1> DEFINE sol(i) == IF i = 0 THEN pop.best.sol ELSE SolAt(pop, i)
<1>1. PICK ij \in (first..last) \X (first..last) :
        st = <<sol(ij[1]), sol(ij[2])>>
  BY DEF Parents
<1>2. pop \in Pools /\ PoolInv(pop) /\ pop.best.sol \in All
  BY PoolTypes DEF Sound
<1>3. \A i \in 1..Len(pop.ranks) : SolAt(pop, i) \in All
  BY <1>2, RankFacts
<1>4. Len(pop.ranks) \in Nat
  BY <1>2, RankFacts
<1>5. \A i \in first..last : sol(i) \in All
  <2>1. \A i \in first..last : i = 0 \/ i \in 1..Len(pop.ranks)
    <3>1. first \in {0, 1}
      OBVIOUS
    <3>2. last = first + Len(pop.ranks) - 1
      BY DEF CurrentSize
    <3> HIDE DEF first, last
    <3> QED
      BY <1>4, <3>1, <3>2
  <2> QED
    BY <1>2, <1>3, <2>1
<1>6. ij[1] \in first..last /\ ij[2] \in first..last
  BY <1>1
<1> HIDE DEF sol, first, last
<1>7. sol(ij[1]) \in All /\ sol(ij[2]) \in All
  BY <1>5, <1>6
<1> QED
  BY <1>1, <1>7

\* The first population is made of what is pending, and so is the next.
LEMMA Populates ==
  ASSUME Inv, Populate
  PROVE  PopMoves
<1> DEFINE d == FindDiversity(pop, pending)
<1> DEFINE a == AddAll(d, pending)
<1>1. /\ Sound(pop) /\ pop.ranks = <<>> /\ ~pop.best.used
      /\ pop.best.cost = NoCost
  BY PopTypes DEF Inv, PopInv, PopIs, Populate, Unpopulated, Early
<1>2. pending \in Seq(All)
  BY SolutionFacts DEF Inv, TypeOK
<1>3. /\ Sound(d) /\ d.best = pop.best /\ d.reported = pop.reported
  BY <1>1, <1>2, DiversityFacts
<1>4. pop' = UpdateQualities(a) /\ pc' = "recombine" /\ pending' = <<>>
  BY DEF Populate
<1> HIDE DEF d
<1>5. Sound(a) /\ Improves(d, a) /\ Covers(a, pending, Len(pending))
  BY <1>2, <1>3, AddAllFacts
<1> HIDE DEF a
<1>6. a.best.used => a.best.cost < NoCost
  BY <1>1, <1>3, <1>5 DEF Improves
<1>7. Sound(pop') /\ NoWorse(a, pop') /\ pop'.reported = a.reported
  BY <1>4, <1>5, <1>6, UpdateFacts
<1>8. /\ pop \in Pools /\ pop' \in Pools /\ BestInv(pop')
      /\ a \in Pools /\ BestInv(a)
  BY <1>1, <1>5, <1>7 DEF Sound
<1>9. NoWorse(pop, a) /\ NoWorse(pop, pop')
  BY <1>1, SolutionFacts DEF NoWorse
<1>10. ~Lacks(a, a.reported)
  BY <1>2, <1>3, <1>5, <1>8, <1>9, AbsorbHeld
     DEF Inv, HeldInv, Improves, Keeps
<1>11. HeldIn(pop', <<>>)
  <2>1. pop'.reported \in Nat
    BY <1>8, PoolTypes
  <2> QED
    BY <1>7, <1>8, <1>10, <2>1, LacksLess DEF HeldIn
<1>12. PopIs(pop', pc')
  BY <1>4, <1>7 DEF PopIs, Early, Unpopulated
<1>13. pop'.reported <= pop.reported
  BY <1>3, <1>5, <1>7 DEF Improves, Keeps
<1> QED
  BY <1>4, <1>9, <1>11, <1>12, <1>13 DEF PopMoves

\* The population is made anew of its own solutions and the pending ones.
LEMMA Rebuilds ==
  ASSUME Inv, Rebuild
  PROVE  PopMoves
<1> DEFINE vec == PopulationToVector(pop)
<1> DEFINE sols == vec \o pending
<1> DEFINE c == Clear(pop)
<1> DEFINE d == FindDiversity(c, sols)
<1> DEFINE a == AddAll(d, sols)
<1>1. Sound(pop)
  BY DEF Inv, PopInv, PopIs, Rebuild, Early
<1>2. pending \in Seq(All)
  BY SolutionFacts DEF Inv, TypeOK
<1>3. /\ vec \in Seq(All)
      /\ pop.best.used => /\ Len(vec) \in Nat \ {0}
                          /\ vec[1] = pop.best.sol
  BY <1>1, VectorFacts
<1>4. /\ Sound(c) /\ ~c.best.used /\ c.best.cost = NoCost
      /\ c.reported = pop.reported /\ c.ranks = <<>>
      /\ c.weight = pop.weight
  BY <1>1, ClearFacts
<1>5. pop' = UpdateWeights(a) /\ pc' \in {"final", "main"} /\ pending' = <<>>
  BY DEF Rebuild, Leave
<1> HIDE DEF vec, c
<1>6. /\ sols \in Seq(All) /\ Len(sols) = Len(vec) + Len(pending)
      /\ \A i \in 1..(Len(vec) + Len(pending)) :
           sols[i] = IF i <= Len(vec) THEN vec[i]
                     ELSE pending[i - Len(vec)]
  <2> DEFINE w == pending
  <2>1. w \in Seq(All)
    BY <1>2
  <2> HIDE DEF w
  <2>2. /\ vec \o w \in Seq(All) /\ Len(vec \o w) = Len(vec) + Len(w)
        /\ \A i \in 1..(Len(vec) + Len(w)) :
             (vec \o w)[i] = IF i <= Len(vec) THEN vec[i]
                             ELSE w[i - Len(vec)]
    BY <1>3, <2>1, ConcatProperties
  <2> QED
    BY <2>2 DEF w
<1> HIDE DEF sols
<1>7. /\ Sound(d) /\ d.best = c.best /\ d.reported = pop.reported
      /\ d.weight = pop.weight
  BY <1>4, <1>6, DiversityFacts
<1> HIDE DEF d
<1>8. /\ Sound(a) /\ Improves(d, a) /\ Covers(a, sols, Len(sols))
      /\ a.ranks # <<>> \/ a = d
  BY <1>6, <1>7, AddAllFacts
<1> HIDE DEF a
<1>9. /\ a.best.used => a.best.cost < NoCost
      /\ a.best.used => a.ranks # <<>>
      /\ a.weight = pop.weight /\ a.reported <= pop.reported
      /\ a.reported = pop.reported \/ ~Lacks(a, a.reported)
  BY <1>4, <1>7, <1>8 DEF Improves, Keeps
<1>10. /\ Sound(pop') /\ NoWorse(a, pop')
       /\ pop'.best.sol = a.best.sol /\ pop'.reported = a.reported
  BY <1>5, <1>8, <1>9, UpdateFacts
<1>11. /\ pop \in Pools /\ BestInv(pop) /\ pop' \in Pools /\ BestInv(pop')
       /\ a \in Pools /\ BestInv(a)
  BY <1>1, <1>8, <1>10 DEF Sound
<1>12. Len(vec) \in Nat /\ Len(pending) \in Nat
  BY <1>2, <1>3
<1>13. ASSUME pop.best.cost < NoCost
       PROVE  a.best.cost < NoCost /\ a.best.cost <= pop.best.cost
  <2>1. /\ pop.best.used /\ Feasible(pop.best.sol)
        /\ pop.best.cost = Cost(pop.best.sol, pop.weight)
    BY <1>11, <1>13 DEF BestInv
  <2>2. 1 \in 1..Len(sols) /\ sols[1] = pop.best.sol
    BY <1>3, <1>6, <1>12, <2>1
  <2>3. a.best.cost <= pop.best.cost
    BY <1>8, <1>9, <2>1, <2>2 DEF Covers
  <2>4. /\ a.best.cost \in Nat /\ pop.best.cost \in Nat /\ NoCost \in Nat
    BY <1>11, PoolTypes, SolutionFacts
  <2> QED
    BY <1>13, <2>3, <2>4
<1>14. NoWorse(pop, a)
  BY <1>9, <1>11, <1>13 DEF NoWorse, BestInv
<1>15. NoWorse(pop, pop')
  BY <1>9, <1>10, <1>13, <1>14 DEF NoWorse
<1>16. Covers(a, pending, Len(pending))
  <2> SUFFICES ASSUME NEW i \in 1..Len(pending), Feasible(pending[i])
               PROVE  a.best.cost <= Cost(pending[i], a.weight)
    BY DEF Covers
  <2>1. /\ Len(vec) + i \in 1..(Len(vec) + Len(pending))
        /\ ~(Len(vec) + i <= Len(vec)) /\ (Len(vec) + i) - Len(vec) = i
    BY <1>12
  <2>2. sols[Len(vec) + i] = pending[i]
    BY <1>6, <2>1
  <2> QED
    BY <1>6, <1>8, <2>1, <2>2 DEF Covers
<1>17. ~Lacks(a, a.reported)
  BY <1>2, <1>9, <1>11, <1>14, <1>16, AbsorbHeld DEF Inv, HeldInv
<1>18. HeldIn(pop', <<>>)
  <2>1. pop'.reported \in Nat
    BY <1>11, PoolTypes
  <2> QED
    BY <1>10, <1>11, <1>17, <2>1, LacksLess DEF HeldIn
<1>19. PopIs(pop', pc')
  BY <1>5, <1>10 DEF PopIs, Early, Unpopulated
<1> QED
  BY <1>5, <1>9, <1>10, <1>15, <1>18, <1>19 DEF PopMoves

\* A report changes what is reported, and nothing else of the population.
LEMMA ReportedIs ==
  ASSUME NEW p, NEW c, PopIs(p, c),
         NEW q \in Pools, q = [p EXCEPT !.reported = q.reported],
         q.reported <= p.reported,
         NEW d, d \in Early <=> c \in Early,
         d \in Unpopulated => c \in Unpopulated
  PROVE  PopIs(q, d)
<1>1. p \in Pools /\ BestInv(p)
  BY PopTypes
<1>2. /\ q.ranks = p.ranks /\ q.best = p.best /\ q.slots = p.slots
      /\ q.radius = p.radius /\ q.weight = p.weight
  BY <1>1 DEF Pools
<1>3. CASE d \in Early
  <2> DEFINE e == EmptyPopulation
  <2>1. e \in Pools /\ p = [e EXCEPT !.reported = p.reported]
    BY <1>3, EmptyPopulationFacts DEF PopIs
  <2> HIDE DEF e
  <2>2. q = [e EXCEPT !.reported = q.reported]
    BY <1>1, <2>1 DEF Pools
  <2>3. q.reported \in 0..Inf
    BY PoolTypes
  <2> QED
    BY <1>2, <1>3, <2>2, <2>3 DEF PopIs, e, Unpopulated
<1>4. CASE d \notin Early
  <2>1. Sound(p)
    BY <1>4 DEF PopIs
  <2>2. SamePool(p, q)
    BY <1>2 DEF SamePool
  <2>3. PoolInv(q)
    BY <2>1, <2>2, SamePoolFacts DEF Sound
  <2>4. Sound(q)
    <3>1. q.reported \in Nat /\ p.reported \in Nat
      BY <1>1, PoolTypes
    <3>2. \A s \in All : Obj[s] \in 0..MaxObj
      BY SolutionFacts
    <3>3. p.best.sol \in All
      BY <1>1, PoolTypes
    <3>4. BestInv(q)
      BY <1>1, <1>2, <3>1, <3>2, <3>3 DEF BestInv
    <3> QED
      BY <2>3, <3>4 DEF Sound
  <2> QED
    BY <1>2, <1>4, <2>4 DEF PopIs
<1> QED
  BY <1>3, <1>4

\* One solution is reported, or two.
LEMMA ReportsOne ==
  ASSUME Inv, NEW s \in Sols,
         pop' = Reported(pop, s), pending' = Append(pending, s),
         pc' \in Early <=> pc \in Early,
         pc' \in Unpopulated => pc \in Unpopulated
  PROVE  PopMoves
<1>1. /\ pop \in Pools /\ BestInv(pop) /\ pending \in Seq(Sols)
      /\ HeldIn(pop, pending) /\ PopIs(pop, pc)
  BY PopTypes DEF Inv, PopInv, TypeOK, HeldInv
<1>2. /\ HeldIn(pop', pending') /\ pop' \in Pools
      /\ pop' = [pop EXCEPT !.reported = pop'.reported]
      /\ pop'.reported <= pop.reported
      /\ pop'.best = pop.best /\ pending' \in Seq(Sols)
  BY <1>1, ReportHeld
<1>3. PopIs(pop', pc')
  BY <1>1, <1>2, ReportedIs
<1>4. NoWorse(pop, pop')
  BY <1>1, <1>2, SameBest
<1> QED
  BY <1>2, <1>3, <1>4 DEF PopMoves

\* Two solutions are reported, one after the other.
LEMMA ReportsTwo ==
  ASSUME Inv, NEW s \in Sols, NEW t \in Sols,
         pop' = Reported(Reported(pop, s), t),
         pending' = pending \o <<s, t>>,
         pc' \in Early <=> pc \in Early,
         pc' \in Unpopulated => pc \in Unpopulated
  PROVE  PopMoves
<1> DEFINE p == Reported(pop, s)
<1> DEFINE sols == Append(pending, s)
<1>1. /\ pop \in Pools /\ BestInv(pop) /\ pending \in Seq(Sols)
      /\ HeldIn(pop, pending) /\ PopIs(pop, pc)
  BY PopTypes DEF Inv, PopInv, TypeOK, HeldInv
<1>2. /\ HeldIn(p, sols) /\ p \in Pools
      /\ p = [pop EXCEPT !.reported = p.reported]
      /\ p.reported <= pop.reported
      /\ p.best = pop.best /\ sols \in Seq(Sols)
  BY <1>1, ReportHeld
<1>3. pending' = Append(sols, t)
  BY <1>1
<1>4. pop' = Reported(p, t)
  OBVIOUS
<1> HIDE DEF p, sols
<1>5. /\ HeldIn(pop', pending') /\ pop' \in Pools
      /\ pop' = [p EXCEPT !.reported = pop'.reported]
      /\ pop'.reported <= p.reported
      /\ pop'.best = p.best /\ pending' \in Seq(Sols)
  <2>1. /\ HeldIn(Reported(p, t), Append(sols, t))
        /\ Reported(p, t) \in Pools
        /\ Reported(p, t) = [p EXCEPT !.reported = Reported(p, t).reported]
        /\ Reported(p, t).reported <= p.reported
        /\ Reported(p, t).best = p.best
        /\ Append(sols, t) \in Seq(Sols)
    BY <1>2, ReportHeld
  <2> QED
    BY <2>1, <1>3, <1>4
<1>6. PopIs(p, pc)
  BY <1>1, <1>2, ReportedIs
<1>7. PopIs(pop', pc')
  BY <1>5, <1>6, ReportedIs
<1>8. /\ pop.reported \in Nat /\ p.reported \in Nat
      /\ pop'.reported \in Nat
  BY <1>1, <1>2, <1>5, PoolTypes
<1>9. NoWorse(pop, pop')
  BY <1>1, <1>2, <1>5, SameBest
<1> QED
  BY <1>2, <1>5, <1>7, <1>8, <1>9 DEF PopMoves

\* Every step does so.
LEMMA PopNext ==
  ASSUME Inv, [Next]_vars
  PROVE  PopMoves
<1> DEFINE Room == pc \notin Unpopulated
<1>1. TypeOK /\ PopInv /\ HeldInv /\ LocalInv
  BY DEF Inv
<1>2. Sols \subseteq All
  BY SolutionFacts
<1>3. Room => Sound(pop)
  BY <1>1 DEF PopInv, PopIs, Unpopulated
<1>4. ASSUME NEW s \in All, pop' = AddSolution(pop, s).pop, Room,
             pc' \notin Unpopulated, pending' = pending
      PROVE  PopMoves
  BY <1>1, <1>3, <1>4, Joins, Grows
<1>5. ASSUME Drain, pc' \notin Unpopulated, pending' = pending
      PROVE  PopMoves
  BY <1>1, <1>5, Drains, Grows
<1>6. ASSUME pop' = pop, pending' = pending,
             \/ pc' = pc \/ (pc' \in Early /\ pc \in Early)
             \/ pc' \in Unpopulated \ Early /\ pc \in Unpopulated \ Early
             \/ Room /\ pc' \notin Unpopulated
      PROVE  PopMoves
  <2>1. PopIs(pop, pc')
    BY <1>1, <1>6 DEF PopInv, PopIs, Unpopulated
  <2> QED
    BY <1>1, <1>6, <2>1, Stays
<1>7. CASE UNCHANGED vars \/ BranchAndBound \/ TimeUp \/ Terminated
  <2>1. pop' = pop /\ pending' = pending /\ pc' = pc
    BY <1>7 DEF BranchAndBound, Send, ProveOptimal, ProveNone, MisleadingRoot,
       GiveUp, TimeUp, Terminated, vars
  <2> QED
    BY <1>6, <2>1
<1>8. CASE Start \/ Probed \/ IslandDone \/ Limit \/ RecombineDone \/ Main
           \/ Regenerated \/ StepExternal \/ BreedNot \/ Final
  <2>1. pop' = pop /\ pending' = pending
    BY <1>8 DEF Start, Probed, IslandDone, Limit, RecombineDone, Main,
       Regenerated, StepExternal, BreedNot, Final
  <2>2. \/ pc' \in Early /\ pc \in Early
        \/ pc' \in Unpopulated \ Early /\ pc \in Unpopulated \ Early
        \/ Room /\ pc' \notin Unpopulated
    BY <1>1, <1>8 DEF Start, Probed, IslandDone, Limit, RecombineDone, Main,
       Regenerated, StepExternal, BreedNot, Final, Leave, Unpopulated, Early,
       TypeOK
  <2> QED
    BY <1>6, <2>1, <2>2
<1>9. CASE PreemptedEarly \/ IslandPreempted \/ PartnerPreempted
           \/ MainPreempted \/ StepPreempted
  <2>1. Drain /\ pc' \notin Unpopulated /\ pending' = pending
    BY <1>9 DEF PreemptedEarly, IslandPreempted, PartnerPreempted,
       MainPreempted, StepPreempted, Leave, Unpopulated, Early
  <2> QED
    BY <1>5, <2>1
<1>10. CASE Relaxed
  <2> DEFINE e == EmptyPopulation
  <2>1. PICK d \in Defaults : pop' = AllocateSolutions(pop, d)
    BY <1>10 DEF Relaxed
  <2>2. pc = "lp" /\ pc' = "relaxed" /\ pending' = pending
    BY <1>10 DEF Relaxed
  <2>3. /\ e \in Pools /\ e.ranks = <<>> /\ e.slots = <<>>
        /\ e.best.cost = NoCost /\ ~e.best.used
        /\ pop = [e EXCEPT !.reported = pop.reported]
    BY <1>1, <2>2, EmptyPopulationFacts DEF PopInv, PopIs, Early
  <2>4. pop \in Pools
    BY <1>1, PopTypes DEF PopInv
  <2> HIDE DEF e
  <2>5. pop.ranks = <<>> /\ pop.slots = <<>> /\ pop.best.cost = NoCost
        /\ ~pop.best.used
    BY <2>3 DEF Pools
  <2>6. /\ Sound(pop') /\ pop'.best.cost = pop.best.cost
        /\ ~pop'.best.used /\ pop'.reported = pop.reported
        /\ pop'.ranks = <<>>
    BY <2>1, <2>4, <2>5, FirstAllocation
  <2>7. PopIs(pop', pc')
    BY <2>2, <2>6 DEF PopIs, Early
  <2>8. pop.reported \in Nat /\ NoCost \in Nat
    BY <2>4, PoolTypes, SolutionFacts
  <2>9. HeldIn(pop', pending') /\ NoWorse(pop, pop')
    BY <1>1, <2>2, <2>5, <2>6, <2>8
    DEF HeldInv, HeldIn, Lacks, NoWorse
  <2> QED
    BY <1>1, <2>2, <2>6, <2>7, <2>8, <2>9 DEF PopMoves, TypeOK
<1>11. CASE UserGiven
  <2>1. /\ pc \in Unpopulated \ Early /\ pc' \in Unpopulated \ Early
    BY <1>11 DEF UserGiven, Unpopulated, Early
  <2>2. CASE UNCHANGED <<pop, pending>>
    BY <1>6, <2>1, <2>2
  <2>3. CASE \E s \in Sols : /\ pop' = Reported(pop, s)
                             /\ pending' = Append(pending, s)
    BY <2>1, <2>3, ReportsOne
  <2> QED
    BY <1>11, <2>2, <2>3 DEF UserGiven
<1>12. ASSUME NEW s \in Sols, NEW t \in Sols, Quick(s, t)
       PROVE  PopMoves
  <2>1. pc \in Early /\ pc' \in Early
    BY <1>12 DEF Quick, Early
  <2>2. CASE Feasible(s)
    BY <1>12, <2>1, <2>2, ReportsTwo DEF Quick, Unpopulated
  <2>3. CASE ~Feasible(s)
    BY <1>6, <1>12, <2>1, <2>3 DEF Quick
  <2> QED
    BY <2>2, <2>3
<1>13. ASSUME NEW s \in Sols, NEW t \in Sols, Island(s, t)
       PROVE  PopMoves
  <2>1. /\ pc \in Unpopulated \ Early /\ pc' \in Unpopulated \ Early
    BY <1>13 DEF Island, Unpopulated, Early
  <2> QED
    BY <1>13, <2>1, ReportsTwo DEF Island
<1>14. ASSUME NEW s \in Sols, NEW t \in Sols, More(s, t)
       PROVE  PopMoves
  <2>1. pc = "more" /\ pc' \in {"more", "rebuild"}
    BY <1>14 DEF More
  <2>2. pc \notin Unpopulated /\ pc' \notin Unpopulated
    BY <2>1 DEF Unpopulated, Early
  <2>3. CASE pop' = Reported(pop, s) /\ pending' = Append(pending, s)
    BY <2>2, <2>3, ReportsOne DEF Unpopulated
  <2>4. CASE /\ pop' = Reported(Reported(pop, s), t)
             /\ pending' = pending \o <<s, t>>
    BY <2>2, <2>4, ReportsTwo DEF Unpopulated
  <2> QED
    BY <1>14, <2>3, <2>4 DEF More
<1>15. ASSUME NEW s \in Sols, Regenerate(s) \/ Longer(s)
       PROVE  PopMoves
  <2>1. /\ pop' = AddSolution(pop, s).pop /\ pending' = pending
        /\ Room /\ pc' \notin Unpopulated /\ s \in All
    BY <1>2, <1>15
    DEF Regenerate, Longer, AfterRegenerating, Leave, Unpopulated, Early
  <2> QED
    BY <1>4, <2>1
<1>16. ASSUME NEW t \in Sols, TakeExternal(t)
       PROVE  PopMoves
  <2>1. Head(todo) \in All
    BY <1>1, <1>2, <1>16 DEF TakeExternal, TypeOK
  <2>2. /\ pop' = AddSolution(pop, Head(todo)).pop /\ pending' = pending
        /\ Room /\ pc' \notin Unpopulated
    BY <1>16 DEF TakeExternal, Unpopulated, Early
  <2> QED
    BY <1>4, <2>1, <2>2
<1>17. CASE PartnersDone
  <2>1. /\ pop' = AddSolution(pop, current).pop /\ pending' = pending
        /\ Room /\ pc' \notin Unpopulated /\ current \in All
    BY <1>1, <1>17 DEF PartnersDone, LocalInv, Unpopulated, Early
  <2> QED
    BY <1>4, <2>1
<1>18. CASE Partner
  <2>1. /\ Head(partners) \in All /\ current \in All
        /\ Room /\ pc' \notin Unpopulated /\ pending' = pending
    BY <1>1, <1>18 DEF Partner, TypeOK, LocalInv, Unpopulated, Early
  <2>2. PICK o \in Offspring(Head(partners), current) :
          pop' = AddAll(pop, o)
    BY <1>18 DEF Partner
  <2>3. o \in Seq(All)
    BY <2>1, OffspringFacts
  <2>4. Sound(pop') /\ Keeps(pop, pop')
    BY <1>3, <2>1, <2>2, <2>3, AddAllFacts DEF Improves
  <2> QED
    BY <1>1, <2>1, <2>4, Grows
<1>19. CASE Breed
  <2>1. /\ Room /\ pc' \notin Unpopulated /\ pending' = pending
    BY <1>19 DEF Breed, Unpopulated, Early
  <2>2. PICK st \in Parents : \E o \in Offspring(st[1], st[2]) :
          pop' = AddSolution(AddSolution(pop, o[1]).pop, o[2]).pop
    BY <1>19 DEF Breed
  <2>3. PICK o \in Offspring(st[1], st[2]) :
          pop' = AddSolution(AddSolution(pop, o[1]).pop, o[2]).pop
    BY <2>2
  <2>4. o[1] \in All /\ o[2] \in All
    BY <1>3, <2>1, OffspringFacts, ParentsFacts
  <2> DEFINE one == AddSolution(pop, o[1]).pop
  <2>5. Sound(one) /\ Keeps(pop, one)
    BY <1>3, <2>1, <2>4, Joins
  <2>6. pop' = AddSolution(one, o[2]).pop
    BY <2>3
  <2> HIDE DEF one
  <2>7. Sound(pop') /\ Keeps(one, pop')
    BY <2>4, <2>5, <2>6, Joins
  <2>8. Keeps(pop, pop')
    BY <1>3, <2>1, <2>5, <2>7, KeepsMore DEF Sound
  <2> QED
    BY <1>1, <2>1, <2>7, <2>8, Grows
<1>20. CASE Halve
  <2>1. Room /\ pc' \notin Unpopulated /\ pending' = pending
    BY <1>20 DEF Halve, Leave, Unpopulated, Early
  <2>2. CASE late
    BY <1>6, <1>20, <2>1, <2>2 DEF Halve
  <2>3. CASE ~late
    <3>1. pop' = HalveThePopulation(pop)
      BY <1>20, <2>3 DEF Halve
    <3>2. Sound(pop') /\ Keeps(pop, pop')
      BY <1>3, <2>1, <3>1, HalveFacts
    <3> QED
      BY <1>1, <2>1, <3>2, Grows
  <2> QED
    BY <2>2, <2>3
<1>21. CASE Populate
  BY <1>21, Populates
<1>22. CASE Rebuild
  BY <1>22, Rebuilds
<1> QED
  BY <1>7, <1>8, <1>9, <1>10, <1>11, <1>12, <1>13, <1>14, <1>15, <1>16,
     <1>17, <1>18, <1>19, <1>20, <1>21, <1>22 DEF Next, Heuristics

-----------------------------------------------------------------------------
(* Types.                                                                  *)

ControlTypes ==
  /\ pc \in PCs /\ back \in {"limit", "breed", "done"} /\ rounds \in Nat
  /\ stepped \in BOOLEAN /\ preempt \in BOOLEAN /\ late \in BOOLEAN
  /\ bb \in {"running", "optimal", "none", "misled", "stopped"}
  /\ bbBest \in 0..Inf

SequenceTypes ==
  /\ todo \in Seq(Sols) /\ queue \in Seq(Sols)
  /\ partners \in Seq(All) /\ current \in All \cup {None}

AnswerType == answer \in [sol : All \cup {None}, why : Reasons]

\* Control, and what the loops still need.
LEMMA ControlNext ==
  ASSUME Inv, [Next]_vars
  PROVE  ControlTypes' /\ LocalInv'
<1>1. ControlTypes /\ LocalInv /\ todo \in Seq(Sols)
  BY DEF Inv, TypeOK, ControlTypes
<1>2. MaxWithout \in Nat \ {0}
  BY HeuristicsAssumption
<1>3. CASE UNCHANGED vars \/ Terminated
  BY <1>1, <1>3 DEF Terminated, vars, localVars, bbVars, ControlTypes, LocalInv
<1>4. ASSUME NEW s \in Sols, Send(s) \/ MisleadingRoot(s)
      PROVE  ControlTypes' /\ LocalInv'
  <2>1. Obj[s] \in 0..Inf
    <3>1. s \in All /\ Inf = MaxObj + 1 /\ MaxObj \in Nat
      BY SolutionFacts
    <3>2. Obj[s] \in 0..MaxObj
      BY <3>1, SolutionFacts
    <3> QED
      BY <3>1, <3>2
  <2> QED
    BY <1>1, <1>4, <2>1
    DEF Send, MisleadingRoot, localVars, ControlTypes, LocalInv
<1>5. CASE ProveOptimal \/ ProveNone \/ GiveUp \/ TimeUp
  BY <1>1, <1>5 DEF ProveOptimal, ProveNone, GiveUp, TimeUp, localVars,
     bbVars, ControlTypes, LocalInv
<1>6. CASE PreemptedEarly \/ IslandPreempted \/ MainPreempted \/ StepPreempted
  BY <1>1, <1>6 DEF PreemptedEarly, IslandPreempted, MainPreempted,
     StepPreempted, Leave, localVars, bbVars, ControlTypes, LocalInv, PCs
<1>7. CASE Start \/ Probed \/ Relaxed \/ UserGiven \/ IslandDone \/ Limit
  BY <1>1, <1>7 DEF Start, Probed, Relaxed, UserGiven, IslandDone, Limit,
     localVars, bbVars, ControlTypes, LocalInv, PCs
<1>8. CASE Populate \/ StepExternal \/ Final
  BY <1>1, <1>8 DEF Populate, StepExternal, Final, bbVars, ControlTypes,
     LocalInv, PCs
<1>9. CASE PartnerPreempted \/ Partner \/ PartnersDone
  BY <1>1, <1>9 DEF PartnerPreempted, Partner, PartnersDone, bbVars,
     ControlTypes, LocalInv, PCs
<1>10. CASE RecombineDone \/ Main
  BY <1>1, <1>10 DEF RecombineDone, Main, localVars, bbVars, ControlTypes,
     LocalInv, PCs
<1>11. CASE Regenerated \/ BreedNot \/ Halve \/ Rebuild
  <2>1. CASE Regenerated
    BY <1>1, <1>2, <2>1 DEF Regenerated, Leave, bbVars, ControlTypes,
       LocalInv, PCs
  <2>2. CASE BreedNot \/ Halve
    BY <1>1, <2>2 DEF BreedNot, Halve, Leave, localVars, bbVars,
       ControlTypes, LocalInv, PCs
  <2>3. CASE Rebuild
    BY <1>1, <2>3 DEF Rebuild, Leave, localVars, bbVars, ControlTypes,
       LocalInv, PCs
  <2> QED
    BY <1>11, <2>1, <2>2, <2>3
<1>12. CASE Breed
  <2>1. /\ rounds' = MaxWithout \/ rounds' = rounds - 1
        /\ pc' = IF rounds' = 0 THEN "halve" ELSE "step"
        /\ pc = "breed"
        /\ UNCHANGED <<pending, todo, partners, current, back, stepped, queue,
                       preempt, late, bbVars, answer>>
    BY <1>12 DEF Breed
  <2>2. rounds' \in Nat
    BY <1>1, <1>2, <2>1 DEF LocalInv, ControlTypes
  <2> QED
    BY <1>1, <2>1, <2>2 DEF bbVars, ControlTypes, LocalInv, PCs
<1>13. ASSUME NEW s \in Sols, Regenerate(s) \/ Longer(s)
       PROVE  ControlTypes' /\ LocalInv'
  BY <1>1, <1>13 DEF Regenerate, Longer, AfterRegenerating, Leave, localVars,
     bbVars, ControlTypes, LocalInv, PCs
<1>14. ASSUME NEW t \in Sols, TakeExternal(t)
       PROVE  ControlTypes' /\ LocalInv'
  <2>1. current' \in All
    <3>1. Head(todo) \in Sols
      BY <1>1, <1>14 DEF TakeExternal
    <3> QED
      BY <1>14, <3>1, SolutionFacts DEF TakeExternal
  <2>2. /\ pc = "recombine" /\ pc' = "partner" /\ todo # <<>>
        /\ UNCHANGED <<pending, rounds, back, stepped, queue, preempt, late,
                       bbVars, answer>>
    BY <1>14 DEF TakeExternal
  <2> QED
    BY <1>1, <2>1, <2>2 DEF bbVars, ControlTypes, LocalInv, PCs
<1>15. ASSUME NEW s \in Sols, NEW t \in Sols,
              Quick(s, t) \/ Island(s, t) \/ More(s, t)
       PROVE  ControlTypes' /\ LocalInv'
  BY <1>1, <1>15 DEF Quick, Island, More, localVars, bbVars, ControlTypes,
     LocalInv, PCs
<1> QED
  BY <1>3, <1>4, <1>5, <1>6, <1>7, <1>8, <1>9, <1>10, <1>11, <1>12, <1>13,
     <1>14, <1>15 DEF Next, BranchAndBound, Heuristics

\* Sequences of solutions.
LEMMA SequencesNext ==
  ASSUME Inv, [Next]_vars, PopMoves
  PROVE  SequenceTypes'
<1>1. SequenceTypes /\ LocalInv /\ Sols \subseteq All
  BY SolutionFacts DEF Inv, TypeOK, SequenceTypes
<1>2. Drain => queue' = <<>>
  BY DEF Drain
<1>3. CASE UNCHANGED <<todo, partners, current, queue>>
  BY <1>1, <1>3 DEF SequenceTypes
<1>4. ASSUME NEW s \in Sols, Send(s) \/ MisleadingRoot(s)
      PROVE  SequenceTypes'
  <2>1. queue' = Append(queue, s) /\ UNCHANGED <<todo, partners, current>>
    BY <1>4 DEF Send, MisleadingRoot, localVars
  <2> QED
    BY <1>1, <2>1 DEF SequenceTypes
<1>5. CASE queue' = <<>> /\ UNCHANGED <<todo, partners, current>>
  BY <1>1, <1>5 DEF SequenceTypes
<1>6. CASE queue' = <<>> /\ todo' = queue /\ UNCHANGED <<partners, current>>
  BY <1>1, <1>6 DEF SequenceTypes
<1>7. CASE PartnerPreempted \/ Partner \/ PartnersDone
  <2>1. UNCHANGED todo
    BY <1>7 DEF PartnerPreempted, Partner, PartnersDone
  <2>2. queue' = <<>> \/ queue' = queue
    BY <1>2, <1>7 DEF PartnerPreempted, Partner, PartnersDone
  <2>3. current' = None \/ current' = current
    BY <1>7 DEF PartnerPreempted, Partner, PartnersDone
  <2>4. \/ partners' = <<>> \/ partners' = partners
        \/ partners # <<>> /\ partners' = Tail(partners)
    BY <1>7 DEF PartnerPreempted, Partner, PartnersDone
  <2>5. partners' \in Seq(All)
    <3>1. CASE partners' = <<>>
      BY <3>1
    <3>2. CASE partners' = partners
      BY <1>1, <3>2 DEF SequenceTypes
    <3>3. CASE partners # <<>> /\ partners' = Tail(partners)
      BY <1>1, <3>3 DEF SequenceTypes
    <3> QED
      BY <2>4, <3>1, <3>2, <3>3
  <2>6. queue' \in Seq(Sols)
    <3>1. CASE queue' = <<>>
      BY <3>1
    <3>2. CASE queue' = queue
      BY <1>1, <3>2 DEF SequenceTypes
    <3> QED
      BY <2>2, <3>1, <3>2
  <2> QED
    BY <1>1, <2>1, <2>3, <2>5, <2>6 DEF SequenceTypes
<1>8. ASSUME NEW t \in Sols, TakeExternal(t)
      PROVE  SequenceTypes'
  <2> DEFINE vec == PopulationToVector(pop')
  <2> DEFINE gone == {i \in DOMAIN vec : ~Feasible(vec[i])}
  <2>1. /\ todo # <<>> /\ todo' = Tail(todo) /\ UNCHANGED queue
        /\ pc' = "partner"
        /\ current' = IF Feasible(t) THEN t ELSE Head(todo)
        /\ partners' = RemoveAtAll(vec, gone)
    BY <1>8 DEF TakeExternal, FeasibleOnes
  <2>2. Sound(pop')
    BY <2>1 DEF PopMoves, PopIs, Early
  <2>3. vec \in Seq(All)
    BY <2>2, VectorFacts
  <2> HIDE DEF vec, gone
  <2>4. partners' \in Seq(All)
    BY <2>1, <2>3, RemovesAtAll
  <2> QED
    BY <1>1, <2>1, <2>4 DEF SequenceTypes
<1>9. CASE UNCHANGED vars \/ ProveOptimal \/ ProveNone \/ GiveUp \/ TimeUp
           \/ Terminated \/ Start \/ Probed \/ Relaxed \/ UserGiven
           \/ IslandDone \/ Limit \/ RecombineDone \/ Main \/ Regenerated
           \/ BreedNot \/ Breed \/ Halve \/ Rebuild
  <2>1. UNCHANGED <<todo, partners, current, queue>>
    BY <1>9 DEF vars, localVars, ProveOptimal, ProveNone, GiveUp, TimeUp,
       Terminated, Start, Probed, Relaxed, UserGiven, IslandDone, Limit, RecombineDone,
       Main, Regenerated, BreedNot, Breed, Halve, Rebuild
  <2> QED
    BY <1>3, <2>1
<1>10. CASE PreemptedEarly \/ IslandPreempted \/ MainPreempted
            \/ StepPreempted
  BY <1>2, <1>5, <1>10 DEF PreemptedEarly, IslandPreempted, MainPreempted,
     StepPreempted, localVars
<1>11. CASE Populate \/ StepExternal \/ Final
  BY <1>6, <1>11 DEF Populate, StepExternal, Final
<1>12. ASSUME NEW s \in Sols, Regenerate(s) \/ Longer(s)
       PROVE  SequenceTypes'
  BY <1>3, <1>12 DEF Regenerate, Longer, localVars
<1>13. ASSUME NEW s \in Sols, NEW t \in Sols,
              Quick(s, t) \/ Island(s, t) \/ More(s, t)
       PROVE  SequenceTypes'
  BY <1>3, <1>13 DEF Quick, Island, More, localVars
<1> QED
  BY <1>4, <1>7, <1>8, <1>9, <1>10, <1>11, <1>12, <1>13
     DEF Next, BranchAndBound, Heuristics

\* An answer is a solution.
LEMMA AnswerTypeNext ==
  ASSUME Inv, [Next]_vars, PopMoves
  PROVE  AnswerType'
<1>1. AnswerType
  BY DEF Inv, TypeOK, AnswerType
<1>2. pop.best.sol \in All /\ pop'.best.sol \in All
  BY PopTypes, PoolTypes DEF Inv, PopInv, PopMoves
<1>3. CASE UNCHANGED answer
  BY <1>1, <1>3 DEF AnswerType
<1>4. ASSUME NEW why \in Reasons,
             Return(pop, why) \/ Return(pop', why) \/ Leave(why)
      PROVE  AnswerType'
  BY <1>1, <1>2, <1>4 DEF Return, Leave, AnswerType
<1>5. CASE answer' = [answer EXCEPT !.sol = pop.best.sol]
  BY <1>1, <1>2, <1>5 DEF AnswerType
<1>6. "preempted" \in Reasons /\ "time" \in Reasons /\ "few" \in Reasons
  BY DEF Reasons
<1>7. CASE UNCHANGED vars \/ BranchAndBound \/ TimeUp \/ Terminated
           \/ Start \/ Probed \/ Relaxed \/ UserGiven \/ IslandPreempted
           \/ IslandDone \/ Populate \/ PartnerPreempted \/ Partner
           \/ PartnersDone \/ Main \/ StepPreempted \/ StepExternal
           \/ BreedNot \/ Breed \/ Final
  <2>1. UNCHANGED answer
    BY <1>7 DEF vars, BranchAndBound, Send, ProveOptimal, ProveNone,
       MisleadingRoot, GiveUp, TimeUp, Terminated, Start, Probed, Relaxed, UserGiven, IslandPreempted,
       IslandDone, Populate, PartnerPreempted, Partner, PartnersDone, Main,
       StepPreempted, StepExternal, BreedNot, Breed, Final
  <2> QED
    BY <1>3, <2>1
<1>8. CASE PreemptedEarly \/ Limit \/ RecombineDone \/ MainPreempted
           \/ Regenerated \/ Halve \/ Rebuild
  <2>1. \/ UNCHANGED answer
        \/ Return(pop, "time") \/ Return(pop', "preempted")
        \/ Leave("preempted") \/ Leave("time")
        \/ answer' = [answer EXCEPT !.sol = pop.best.sol]
    BY <1>8 DEF PreemptedEarly, Limit, RecombineDone, MainPreempted,
       Regenerated, Halve, Rebuild
  <2> QED
    BY <1>3, <1>4, <1>5, <1>6, <2>1
<1>9. ASSUME NEW s \in Sols, Regenerate(s) \/ Longer(s) \/ TakeExternal(s)
      PROVE  AnswerType'
  <2>1. UNCHANGED answer \/ Leave("few")
    BY <1>9 DEF Regenerate, Longer, TakeExternal
  <2> QED
    BY <1>3, <1>4, <1>6, <2>1
<1>10. ASSUME NEW s \in Sols, NEW t \in Sols,
              Quick(s, t) \/ Island(s, t) \/ More(s, t)
       PROVE  AnswerType'
  BY <1>3, <1>10 DEF Quick, Island, More
<1> QED
  BY <1>7, <1>8, <1>9, <1>10 DEF Next, Heuristics

\* Every step keeps the types.
LEMMA TypeNext ==
  ASSUME Inv, [Next]_vars, PopMoves
  PROVE  TypeOK'
<1>1. pop' \in Pools /\ pending' \in Seq(Sols)
  BY PopTypes DEF PopMoves
<1>2. /\ pop'.slots \in Seq(All \cup {None}) /\ pop'.best.sol \in All
      /\ pop'.radius \in 0..Vars /\ pop'.weight \in 1..MaxWeight
      /\ pop'.reported \in 0..Inf
  BY <1>1, PoolTypes
<1>3. ControlTypes' /\ SequenceTypes' /\ AnswerType'
  BY ControlNext, SequencesNext, AnswerTypeNext
<1> QED
  BY <1>1, <1>2, <1>3 DEF TypeOK, ControlTypes, SequenceTypes, AnswerType

-----------------------------------------------------------------------------
(* What branch and bound has sent.                                         *)

\* Solutions at the end of a sequence, and at its head.
LEMMA HoldsMore ==
  ASSUME NEW sols \in Seq(Sols), NEW s \in Sols, NEW obj
  PROVE  /\ Holds(sols, obj) => Holds(Append(sols, s), obj)
         /\ Feasible(s) => Holds(Append(sols, s), Obj[s])
<1> DEFINE more == Append(sols, s)
<1>1. /\ Len(sols) \in Nat /\ DOMAIN sols = 1..Len(sols)
      /\ DOMAIN more = 1..(Len(sols) + 1)
      /\ more[Len(sols) + 1] = s
      /\ \A i \in 1..Len(sols) : more[i] = sols[i]
  OBVIOUS
<1> HIDE DEF more
<1> QED
  BY <1>1 DEF Holds, more

\* What a sequence holds is at its head or in its tail.
LEMMA HoldsTail ==
  ASSUME NEW sols \in Seq(Sols), sols # <<>>, NEW obj, Holds(sols, obj)
  PROVE  \/ Feasible(Head(sols)) /\ Obj[Head(sols)] = obj
         \/ Holds(Tail(sols), obj)
<1> DEFINE less == Tail(sols)
<1>1. /\ Len(sols) \in Nat \ {0} /\ DOMAIN sols = 1..Len(sols)
      /\ DOMAIN less = 1..(Len(sols) - 1)
      /\ \A i \in 1..(Len(sols) - 1) : less[i] = sols[i + 1]
      /\ Head(sols) = sols[1]
  OBVIOUS
<1> HIDE DEF less
<1>2. PICK i \in 1..Len(sols) : Feasible(sols[i]) /\ Obj[sols[i]] = obj
  BY <1>1 DEF Holds
<1>3. CASE i = 1
  BY <1>1, <1>2, <1>3
<1>4. CASE i # 1
  <2>1. i - 1 \in 1..(Len(sols) - 1) /\ (i - 1) + 1 = i
    BY <1>1, <1>4
  <2>2. less[i - 1] = sols[i]
    BY <1>1, <2>1
  <2> QED
    BY <1>1, <1>2, <2>1, <2>2 DEF Holds, less
<1> QED
  BY <1>3, <1>4

\* The empty sequence holds nothing.
LEMMA HoldsNothing == \A obj : ~Holds(<<>>, obj)
<1>1. DOMAIN <<>> = {}
  OBVIOUS
<1> QED
  BY <1>1 DEF Holds

\* What the population lacks after a step it lacked before, if it is at least
\* as good as what was reported.
LEMMA LacksBefore ==
  ASSUME Inv, PopMoves,
         NEW obj \in Nat, obj <= pop'.reported, Lacks(pop', obj)
  PROVE  obj <= pop.reported /\ Lacks(pop, obj)
<1>1. pop \in Pools /\ pop' \in Pools /\ BestInv(pop') /\ NoWorse(pop, pop')
  BY PopTypes DEF Inv, PopInv, PopMoves
<1>2. /\ pop.reported \in Nat /\ pop'.reported \in Nat
      /\ pop'.reported <= pop.reported
  BY <1>1, PoolTypes DEF PopMoves
<1> QED
  BY <1>1, <1>2, LacksLess

\* The queue is in the population, or what is queued stays on its way.
LEMMA SentNext ==
  ASSUME Inv, [Next]_vars, PopMoves
  PROVE  SentInv'
<1>1. /\ SentInv /\ LocalInv /\ PopInv
      /\ queue \in Seq(Sols) /\ todo \in Seq(Sols) /\ bbBest \in Nat
  BY SolutionFacts DEF Inv, TypeOK
<1>2. bbBest <= pop'.reported /\ Lacks(pop', bbBest)
        => bbBest <= pop.reported /\ Lacks(pop, bbBest)
  BY <1>1, LacksBefore
<1>3. CASE UNCHANGED <<queue, todo, bbBest>> /\ (bb' = "misled" \/ bb' = bb)
  BY <1>1, <1>2, <1>3 DEF SentInv
<1>4. ASSUME NEW s \in Sols, Send(s) \/ MisleadingRoot(s)
      PROVE  SentInv'
  BY <1>1, <1>4, HoldsMore DEF Send, MisleadingRoot, SentInv
<1>5. CASE Drain /\ UNCHANGED <<todo, bbVars>>
  <2>1. Covers(pop', queue, Len(queue)) /\ Sound(pop')
    BY <1>5, Drains DEF Inv
  <2>2. pop' \in Pools /\ queue \in Seq(All)
    BY <1>1, <2>1, SolutionFacts DEF Sound
  <2>3. Holds(queue, bbBest) => ~Lacks(pop', bbBest)
    BY <2>1, <2>2, CoversLacks
  <2> QED
    BY <1>1, <1>2, <1>5, <2>3 DEF SentInv, bbVars
<1>6. CASE todo = <<>> /\ todo' = queue /\ UNCHANGED bbVars
  BY <1>1, <1>2, <1>6, HoldsNothing DEF SentInv, bbVars
<1>7. ASSUME NEW t \in Sols, TakeExternal(t) PROVE SentInv'
  <2> DEFINE s == Head(todo)
  <2>1. /\ todo # <<>> /\ todo' = Tail(todo) /\ UNCHANGED <<queue, bbVars>>
        /\ pop' = AddSolution(pop, s).pop /\ pc = "recombine"
    BY <1>7 DEF TakeExternal
  <2>2. s \in All
    BY <1>1, <2>1, SolutionFacts
  <2>3. Sound(pop)
    BY <1>1, <2>1 DEF PopInv, PopIs, Early
  <2>4. Feasible(s) => pop'.best.cost <= Cost(s, pop.weight)
    BY <2>1, <2>2, <2>3, AddSolutionFacts
  <2>5. ASSUME Feasible(s), Obj[s] = bbBest PROVE ~Lacks(pop', bbBest)
    <3>1. pop \in Pools /\ pop' \in Pools /\ NoCost \in Nat
      BY <2>3, PopTypes, SolutionFacts DEF PopMoves, Sound
    <3>2. pop'.best.cost \in Nat /\ pop.weight \in 1..MaxWeight
      BY <3>1, PoolTypes
    <3>3. /\ Cost(s, pop.weight) \in Nat /\ Cost(s, pop.weight) < NoCost
          /\ Exact(bbBest) => Cost(s, pop.weight) = bbBest
      BY <2>2, <2>5, <3>2, CostFacts
    <3> HIDE DEF s
    <3> QED
      BY <2>4, <2>5, <3>1, <3>2, <3>3 DEF Lacks
  <2>6. Holds(todo, bbBest) => \/ Feasible(s) /\ Obj[s] = bbBest
                               \/ Holds(Tail(todo), bbBest)
    BY <1>1, <2>1, HoldsTail
  <2> QED
    BY <1>1, <1>2, <2>1, <2>5, <2>6 DEF SentInv, bbVars
<1>8. CASE UNCHANGED vars \/ ProveOptimal \/ ProveNone \/ GiveUp \/ TimeUp
           \/ Terminated \/ Start \/ Probed \/ Relaxed \/ UserGiven
           \/ IslandDone \/ Limit \/ Partner \/ PartnersDone \/ RecombineDone
           \/ Main \/ Regenerated \/ BreedNot \/ Breed \/ Halve \/ Rebuild
  <2>1. CASE ProveOptimal \/ ProveNone \/ GiveUp
    BY <1>1, <1>2, <2>1
    DEF ProveOptimal, ProveNone, GiveUp, localVars, SentInv
  <2>2. CASE UNCHANGED vars \/ TimeUp \/ Terminated \/ Start \/ Probed
             \/ Relaxed \/ UserGiven \/ IslandDone \/ Limit \/ Partner
             \/ PartnersDone \/ RecombineDone \/ Main \/ Regenerated
             \/ BreedNot \/ Breed \/ Halve \/ Rebuild
    <3>1. UNCHANGED <<queue, todo, bbBest, bb>>
      BY <2>2 DEF vars, localVars, bbVars, TimeUp, Terminated, Start, Probed,
         Relaxed, UserGiven, IslandDone, Limit, Partner, PartnersDone,
         RecombineDone, Main, Regenerated, BreedNot, Breed, Halve, Rebuild
    <3> QED
      BY <1>3, <3>1
  <2> QED
    BY <1>8, <2>1, <2>2
<1>9. CASE PreemptedEarly \/ IslandPreempted \/ PartnerPreempted
           \/ MainPreempted \/ StepPreempted
  BY <1>5, <1>9 DEF PreemptedEarly, IslandPreempted, PartnerPreempted,
     MainPreempted, StepPreempted, localVars
<1>10. CASE Populate \/ StepExternal \/ Final
  <2>1. todo = <<>>
    BY <1>1, <1>10 DEF LocalInv, Populate, StepExternal, Final
  <2> QED
    BY <1>6, <1>10, <2>1 DEF Populate, StepExternal, Final
<1>11. ASSUME NEW s \in Sols, Regenerate(s) \/ Longer(s)
       PROVE  SentInv'
  BY <1>3, <1>11 DEF Regenerate, Longer, localVars, bbVars
<1>12. ASSUME NEW s \in Sols, NEW t \in Sols,
              Quick(s, t) \/ Island(s, t) \/ More(s, t)
       PROVE  SentInv'
  BY <1>3, <1>12 DEF Quick, Island, More, localVars, bbVars
<1> QED
  BY <1>4, <1>7, <1>8, <1>9, <1>10, <1>11, <1>12
     DEF Next, BranchAndBound, Heuristics

\* The gap is closed once, and stays closed.
LEMMA OptimumNext ==
  ASSUME Inv, [Next]_vars, PopMoves
  PROVE  OptimumInv'
<1>1. /\ OptimumInv /\ PopInv /\ bbBest \in Nat
  BY SolutionFacts DEF Inv, TypeOK
<1>2. /\ pop.reported \in Nat /\ pop'.reported \in Nat
      /\ pop'.reported <= pop.reported
  BY PopTypes, PoolTypes, <1>1 DEF PopMoves, PopInv
<1>3. CASE UNCHANGED <<bbBest, preempt, bb>>
  <2>1. Upper \in Nat /\ Upper' \in Nat /\ Upper' <= Upper
    BY <1>1, <1>2, <1>3 DEF Upper, Smaller
  <2>2. Closed(Upper) => Closed(Upper')
    BY <2>1, StaysClosed
  <2>3. Closed(Upper') <=> Closed(Upper)'
    BY DEF Closed, Optimum
  <2> QED
    BY <1>1, <1>3, <2>2, <2>3 DEF OptimumInv
<1>4. CASE \E s \in Sols : Send(s)
  BY <1>1, <1>4 DEF Send, OptimumInv
<1>5. CASE ProveOptimal
  <2>1. UNCHANGED <<pop, bbBest>> /\ Closed(Upper) /\ bb' = "optimal"
    BY <1>5 DEF ProveOptimal
  <2>2. Closed(Upper)'
    BY <2>1 DEF Closed, Upper, Optimum
  <2> QED
    BY <2>1, <2>2 DEF OptimumInv
<1>6. CASE ProveNone \/ GiveUp \/ \E s \in Sols : MisleadingRoot(s)
  BY <1>1, <1>6 DEF ProveNone, GiveUp, MisleadingRoot, OptimumInv
<1>7. CASE UNCHANGED vars \/ TimeUp \/ Terminated \/ Heuristics
  <2>1. UNCHANGED <<bbBest, preempt, bb>>
    <3>1. CASE UNCHANGED vars \/ TimeUp \/ Terminated
      BY <3>1 DEF vars, bbVars, TimeUp, Terminated
    <3>2. CASE \/ PreemptedEarly \/ Start \/ Probed \/ Relaxed \/ UserGiven
               \/ IslandPreempted \/ IslandDone \/ Populate \/ Limit
               \/ PartnerPreempted \/ Partner \/ PartnersDone
      BY <3>2 DEF bbVars, PreemptedEarly, Start, Probed, Relaxed, UserGiven,
         IslandPreempted, IslandDone, Populate, Limit, PartnerPreempted,
         Partner, PartnersDone
    <3>3. CASE \/ RecombineDone \/ MainPreempted \/ Main \/ Regenerated
               \/ StepPreempted \/ StepExternal \/ BreedNot \/ Breed
               \/ Halve \/ Rebuild \/ Final
      BY <3>3 DEF bbVars, RecombineDone, MainPreempted, Main, Regenerated,
         StepPreempted, StepExternal, BreedNot, Breed, Halve, Rebuild, Final
    <3>4. CASE \E s \in Sols : Regenerate(s) \/ Longer(s) \/ TakeExternal(s)
      BY <3>4 DEF bbVars, Regenerate, Longer, TakeExternal
    <3>5. CASE \E s, t \in Sols : Quick(s, t) \/ Island(s, t) \/ More(s, t)
      BY <3>5 DEF bbVars, Quick, Island, More
    <3> QED
      BY <1>7, <3>1, <3>2, <3>3, <3>4, <3>5 DEF Heuristics
  <2> QED
    BY <1>3, <2>1
<1> QED
  BY <1>4, <1>5, <1>6, <1>7 DEF Next, BranchAndBound

\* Who was preempted answers with the best solution there is.
LEMMA AnswerNext ==
  ASSUME Inv, [Next]_vars, PopMoves
  PROVE  AnswerInv'
<1>1. /\ AnswerInv /\ OptimumInv /\ answer \in [sol : All \cup {None}, why : Reasons]
      /\ LocalInv
  BY DEF Inv, TypeOK
<1>2. Drain => queue' = <<>>
  BY DEF Drain
<1>3. CASE UNCHANGED <<answer, preempt, queue, pc, back, pop>>
  BY <1>1, <1>3 DEF AnswerInv
<1>4. CASE \E s \in Sols : Send(s) \/ MisleadingRoot(s)
  BY <1>1, <1>4 DEF Send, MisleadingRoot, AnswerInv, OptimumInv
<1>5. CASE UNCHANGED vars \/ GiveUp \/ TimeUp \/ Terminated
  BY <1>3, <1>5 DEF vars, localVars, GiveUp, TimeUp, Terminated
<1>6. CASE ProveOptimal \/ ProveNone
  BY <1>1, <1>6 DEF ProveOptimal, ProveNone, AnswerInv, localVars
<1>7. CASE /\ pc \notin {"final", "recombine", "partner", "done"}
           /\ UNCHANGED answer
  BY <1>1, <1>7 DEF AnswerInv
<1>8. ASSUME NEW why, why # "preempted", Return(pop, why) \/ Leave(why)
      PROVE  AnswerInv'
  BY <1>1, <1>8 DEF Return, Leave, AnswerInv
<1>9. CASE PreemptedEarly
  BY <1>2, <1>9 DEF PreemptedEarly, Return, AnswerInv
<1>10. CASE MainPreempted
  BY <1>1, <1>2, <1>10 DEF MainPreempted, Leave, AnswerInv, localVars
<1>11. CASE Final
  BY <1>1, <1>11 DEF Final, AnswerInv
<1>12. CASE RecombineDone
  BY <1>1, <1>12 DEF RecombineDone, AnswerInv, localVars
<1>13. CASE PartnerPreempted \/ Partner \/ PartnersDone
  BY <1>1, <1>2, <1>13 DEF PartnerPreempted, Partner, PartnersDone, AnswerInv
<1>14. ASSUME NEW t \in Sols, TakeExternal(t) PROVE AnswerInv'
  BY <1>1, <1>14 DEF TakeExternal, AnswerInv
<1>15. CASE Start \/ Probed \/ Relaxed \/ UserGiven \/ IslandPreempted
            \/ IslandDone \/ Populate \/ Main \/ StepPreempted
            \/ StepExternal \/ BreedNot \/ Breed
  BY <1>7, <1>15 DEF Start, Probed, Relaxed, UserGiven, IslandPreempted,
     IslandDone, Populate, Main, StepPreempted, StepExternal, BreedNot, Breed
<1>16. CASE Limit \/ Regenerated \/ Halve \/ Rebuild
  <2>1. \/ pc \notin {"final", "recombine", "partner", "done"}
             /\ UNCHANGED answer
        \/ Return(pop, "time") \/ Leave("time")
    BY <1>16 DEF Limit, Regenerated, Halve, Rebuild
  <2> QED
    BY <1>7, <1>8, <2>1
<1>17. ASSUME NEW s \in Sols, Regenerate(s) \/ Longer(s)
       PROVE  AnswerInv'
  <2>1. \/ pc = "regenerate" /\ UNCHANGED answer
        \/ Leave("few")
    BY <1>17 DEF Regenerate, Longer
  <2> QED
    BY <1>7, <1>8, <2>1
<1>18. ASSUME NEW s \in Sols, NEW t \in Sols,
              Quick(s, t) \/ Island(s, t) \/ More(s, t)
       PROVE  AnswerInv'
  BY <1>7, <1>18 DEF Quick, Island, More
<1> QED
  BY <1>4, <1>5, <1>6, <1>9, <1>10, <1>11, <1>12, <1>13, <1>14, <1>15,
     <1>16, <1>17, <1>18 DEF Next, BranchAndBound, Heuristics

-----------------------------------------------------------------------------
(* The theorems.                                                           *)

\* The invariant holds before the first step.
LEMMA InvInit == Init => Inv
<1> SUFFICES ASSUME Init PROVE Inv
  OBVIOUS
<1> DEFINE e == EmptyPopulation
<1>1. /\ e \in Pools /\ e.best.cost = NoCost /\ ~e.best.used
      /\ e.slots = <<>> /\ e.ranks = <<>> /\ e.reported = Inf
  BY EmptyPopulationFacts
<1>2. /\ pop = e /\ pc = "start" /\ pending = <<>> /\ rounds = 0
      /\ todo = <<>> /\ partners = <<>> /\ current = None /\ back = "done"
      /\ stepped = FALSE /\ queue = <<>> /\ preempt = FALSE /\ late = FALSE
      /\ bb = "running" /\ bbBest = Inf
      /\ answer = [sol |-> None, why |-> "none"]
  BY DEF Init
<1> HIDE DEF e
<1>3. Inf \in Nat /\ Inf \in 0..Inf
  BY SolutionFacts
<1>4. TypeOK
  <2>1. /\ pop.slots \in Seq(All \cup {None}) /\ pop.best.sol \in All
        /\ pop.radius \in 0..Vars /\ pop.weight \in 1..MaxWeight
        /\ pop.reported \in 0..Inf
    BY <1>1, <1>2, PoolTypes
  <2>2. /\ pending \in Seq(Sols) /\ todo \in Seq(Sols)
        /\ queue \in Seq(Sols) /\ partners \in Seq(All)
    BY <1>2
  <2>3. answer \in [sol : All \cup {None}, why : Reasons]
    BY <1>2 DEF Reasons
  <2>4. pc \in PCs
    BY <1>2 DEF PCs
  <2> QED
    BY <1>2, <1>3, <2>1, <2>2, <2>3, <2>4 DEF TypeOK
<1>5. PopInv
  <2>1. e = [e EXCEPT !.reported = e.reported]
    BY <1>1 DEF Pools
  <2> QED
    BY <1>1, <1>2, <1>3, <2>1 DEF PopInv, PopIs, Early, e
<1>6. LocalInv
  BY <1>2 DEF LocalInv
<1>7. HeldInv /\ SentInv /\ OptimumInv /\ AnswerInv
  BY <1>1, <1>2, <1>3
  DEF HeldInv, HeldIn, SentInv, Lacks, OptimumInv, AnswerInv
<1> QED
  BY <1>4, <1>5, <1>6, <1>7 DEF Inv

\* Every step keeps the invariant: the lemmas above, part by part.
LEMMA InvNext == Inv /\ [Next]_vars => Inv'
<1> SUFFICES ASSUME Inv, [Next]_vars PROVE Inv'
  OBVIOUS
<1>1. PopMoves
  BY PopNext
<1>2. TypeOK' /\ LocalInv' /\ SentInv' /\ OptimumInv' /\ AnswerInv'
  BY <1>1, TypeNext, ControlNext, SentNext, OptimumNext, AnswerNext
<1>3. PopInv' /\ HeldInv'
  BY <1>1 DEF PopMoves, PopInv, HeldInv
<1> QED
  BY <1>2, <1>3 DEF Inv

\* The invariant holds throughout every solve.
LEMMA Invariant == Spec => []Inv
BY InvInit, InvNext, PTL DEF Spec

\* Every variable keeps its type.
THEOREM TypeCorrect == Spec => []TypeOK
<1>1. Inv => TypeOK
  BY DEF Inv
<1> QED
  BY <1>1, Invariant, PTL

\* Between two steps the population passes the part of its own test that
\* TestInvariant states (population.cu:623), whatever has been added to it,
\* ejected from it, cleared and halved, and under whatever weights.
THEOREM TestHolds == Spec => []TestInvariant
<1>1. Inv => TestInvariant
  <2> SUFFICES ASSUME Inv PROVE PoolInvariant(pop) /\ PlacesAreRanked(pop)
    BY DEF TestInvariant
  <2>1. CASE pc \notin Early
    BY <2>1 DEF Inv, PopInv, PopIs, Sound, PoolInv
  <2>2. CASE pc \in Early
    <3> DEFINE e == EmptyPopulation
    <3>1. /\ e \in Pools /\ e.slots = <<>> /\ e.ranks = <<>>
          /\ pop = [e EXCEPT !.reported = pop.reported]
      BY <2>2, EmptyPopulationFacts DEF Inv, PopInv, PopIs
    <3> HIDE DEF e
    <3>2. pop.slots = <<>> /\ pop.ranks = <<>>
      BY <3>1 DEF Pools
    <3>3. DOMAIN pop.slots = {} /\ DOMAIN pop.ranks = {}
          /\ Len(pop.ranks) = 0
      BY <3>2
    <3> QED
      BY <3>3, SolutionFacts
      DEF PoolInvariant, PlacesAreRanked, FreeSlots, CurrentSize
  <2> QED
    BY <2>1, <2>2
<1> QED
  BY <1>1, Invariant, PTL

\* Once a solution was reported to branch and bound, the population has a
\* feasible one, or the one reported is pending for it, through every rebuild;
\* and where no feasible solution of that objective violates a constraint, it
\* has one that is as good.
THEOREM Held == Spec => []ReportedIsHeld
<1>1. Inv => ReportedIsHeld
  <2> SUFFICES ASSUME Inv, pop.reported < Inf
               PROVE  \/ /\ pop.best.used /\ Feasible(pop.best.sol)
                         /\ pop.reported <= Obj[pop.best.sol]
                         /\ Exact(pop.reported)
                              => Obj[pop.best.sol] = pop.reported
                      \/ Holds(pending, pop.reported)
    BY DEF ReportedIsHeld, Holds
  <2>1. pop \in Pools /\ BestInv(pop)
    BY PopTypes DEF Inv, PopInv
  <2>2. /\ pop.reported \in Nat /\ pop.best.cost \in 0..NoCost
        /\ NoCost \in Nat /\ pop.weight \in 1..MaxWeight
        /\ pop.best.sol \in All
    BY <2>1, PoolTypes, SolutionFacts
  <2>3. CASE Lacks(pop, pop.reported)
    BY <2>3 DEF Inv, HeldInv, HeldIn
  <2>4. CASE ~Lacks(pop, pop.reported)
    <3>1. /\ pop.best.cost < NoCost
          /\ Exact(pop.reported) => pop.best.cost <= pop.reported
      BY <2>2, <2>4 DEF Lacks
    <3>2. /\ pop.best.used /\ Feasible(pop.best.sol)
          /\ pop.best.cost = Cost(pop.best.sol, pop.weight)
          /\ pop.reported <= Obj[pop.best.sol]
      BY <2>1, <3>1 DEF BestInv
    <3>3. /\ Obj[pop.best.sol] <= pop.best.cost
          /\ Obj[pop.best.sol] \in 0..MaxObj
      BY <2>2, <3>2, CostFacts
    <3> QED
      BY <2>2, <3>1, <3>2, <3>3
  <2> QED
    BY <2>3, <2>4
<1> QED
  BY <1>1, Invariant, PTL

\* Whoever was preempted by a closed gap once the first population was made
\* returns a feasible solution: the one branch and bound had sent joins the
\* population, however its queue was drained, or that of the heuristics is its
\* best. Where no feasible solution of the objective that closed the gap
\* violates a constraint, the gap of the answer is closed too.
THEOREM Preempted == Spec => []PreemptedIsOptimal
<1>1. Inv => PreemptedIsOptimal
  <2> SUFFICES ASSUME Inv, pc = "done", answer.why = "preempted",
                      pending = <<>>, bb = "optimal"
               PROVE  /\ Feasible(answer.sol)
                      /\ Exact(Upper) => Closed(Obj[answer.sol])
    BY DEF PreemptedIsOptimal
  <2>1. pop \in Pools /\ BestInv(pop)
    BY PopTypes DEF Inv, PopInv
  <2>2. /\ pop.reported \in Nat /\ pop.best.cost \in 0..NoCost
        /\ NoCost \in Nat /\ pop.weight \in 1..MaxWeight
        /\ pop.best.sol \in All /\ bbBest \in Nat /\ Inf \in Nat
    BY <2>1, PoolTypes, SolutionFacts DEF Inv, TypeOK
  <2>3. queue = <<>> /\ todo = <<>> /\ answer.sol = pop.best.sol
    BY DEF Inv, AnswerInv, LocalInv
  <2>4. Closed(Upper) /\ Upper \in Nat /\ Upper < Inf
    BY <2>2 DEF Inv, OptimumInv, Closed, Upper, Smaller
  <2>5. /\ ~Lacks(pop, pop.reported)
        /\ bbBest <= pop.reported => ~Lacks(pop, bbBest)
    BY <2>3, HoldsNothing DEF Inv, SentInv, HeldInv, HeldIn
  <2>6. ~Lacks(pop, Upper)
    BY <2>5 DEF Upper, Smaller
  <2>7. /\ pop.best.cost < NoCost
        /\ Exact(Upper) => pop.best.cost <= Upper
    BY <2>2, <2>4, <2>6 DEF Lacks
  <2>8. /\ Feasible(pop.best.sol)
        /\ pop.best.cost = Cost(pop.best.sol, pop.weight)
    BY <2>1, <2>7 DEF BestInv
  <2>9. /\ Obj[pop.best.sol] <= pop.best.cost
        /\ Obj[pop.best.sol] \in Nat
    BY <2>2, <2>8, CostFacts
  <2>10. Exact(Upper) => Closed(Obj[pop.best.sol])
    BY <2>2, <2>4, <2>7, <2>9, StaysClosed
  <2> QED
    BY <2>3, <2>8, <2>10
<1> QED
  BY <1>1, Invariant, PTL

\* No step of either thread gives up the best feasible solution but for a
\* feasible one that costs no more under the weights of that moment: neither
\* a rebuild of the population nor a change of its weights.
THEOREM NeverWorse == Spec => BestNeverWorse
<1> DEFINE Kept == pop.best.cost < NoCost =>
                     /\ pop'.best.used /\ Feasible(pop'.best.sol)
                     /\ Cost(pop'.best.sol, pop.weight) <= pop.best.cost
<1>1. Inv /\ [Next]_vars => Kept
  <2> SUFFICES ASSUME Inv, [Next]_vars, pop.best.cost < NoCost
               PROVE  /\ pop'.best.used /\ Feasible(pop'.best.sol)
                      /\ Cost(pop'.best.sol, pop.weight) <= pop.best.cost
    OBVIOUS
  <2>1. PopMoves
    BY PopNext
  <2>2. NoWorse(pop, pop') /\ BestInv(pop')
    BY <2>1, PopTypes DEF PopMoves
  <2> QED
    BY <2>2 DEF NoWorse, BestInv
<1>2. Inv /\ [Next]_vars => [Kept]_vars
  BY <1>1
<1>3. BestNeverWorse <=> [][Kept]_vars
  BY DEF BestNeverWorse
<1> HIDE DEF Kept
<1> QED
  BY <1>2, <1>3, Invariant, PTL DEF Spec
=============================================================================
