------------------------ MODULE EjectionSearchProofs ------------------------
(***************************************************************************)
(* Theorems about EjectionSearch, for any number of requests and vehicles, *)
(* any demands, capacities and limits: no request is lost or doubled on    *)
(* its way between pool and routes, the minimizer starts and ends every    *)
(* round with all of them served, and the solution stays feasible.         *)
(***************************************************************************)
EXTENDS EjectionSearch, FiniteSetTheorems, SequenceTheorems,
        WellFoundedInduction, TLAPS

-----------------------------------------------------------------------------
(* The inductive invariant, in parts.                                      *)

\* No request is on two routes; all of them are on one.
Apart(R) == \A u, v \in DOMAIN R : u # v => R[u] \cap R[v] = {}
Whole(R) == Apart(R) /\ Served(R) = Requests

\* The first n places of the pool p hold the requests rs, each once.
Content(p, n)     == {p.stack[i] : i \in 1..n}
Distinct(p, n)    == \A i, j \in 1..n : p.stack[i] = p.stack[j] => i = j
HoldsOnce(p, n, rs) ==
  /\ n \in 0..Cardinality(Requests)
  /\ Distinct(p, n) /\ Content(p, n) = rs

Pools == [stack : [Places -> Requests \cup {Nobody}],
          size : 0..Cardinality(Requests)]

\* The parts are stated of the values of the variables, which are named
\* R = routes, p = EP, S = saved, b = best, c = pc, cl = caller, l = loop,
\* t = tries.
Loops == [mode : {"none", "fixed", "minimize"}, left : 0..IterationLimit,
          multiple : 0..MaxMultiple, failures : 0..(IterationLimit + 1)]

TypesOf(R, p, S, b, c, cl, l, t) ==
  /\ R \in Solutions /\ p \in Pools /\ S \in Solutions
  /\ b \in [excess : Nat, size : Nat]
  /\ c \in PCs /\ cl \in {"construct", "fill", "fixed", "prize", "end"}
  /\ l \in Loops /\ t \in Nat

\* Where the loop is at work, who called, and what is left to do.
InLoop == {"loop", "popped", "eject"}
OneOut(c) == IF c \in {"popped", "eject"} THEN 1 ELSE 0

ControlOf(c, cl, l) ==
  /\ c \in InLoop <=> l.mode # "none"
  /\ c = "greedy" /\ cl = "prize" => problem.prize
  /\ c = "repair" => cl \in {"construct", "end"}
  /\ l.failures + l.left + OneOut(c) <= IterationLimit + 1

\* The pool holds what is not served.
AtWork == InLoop \cup {"construct", "greedy", "squeezeall"}

PlacesOf(R, p, c) ==
  c \in AtWork =>
    Apart(R) /\ HoldsOnce(p, p.size + OneOut(c), Requests \ Served(R))

\* Where the routes have to serve all requests, and where the save has to.
AllServed(c, cl) ==
  \/ c = "minimize"
  \/ c = "repair" /\ (cl = "construct" \/ ~problem.prize)
  \/ c = "done" /\ ~problem.prize

WholeOf(R, S, b, c, cl, l) ==
  /\ AllServed(c, cl) => Whole(R)
  /\ l.mode = "minimize" \/ b.excess # Unset => Whole(S)

\* Where routes or save are feasible.  A generated solution has no empty route
\* for the last repair to fill.
ExceededBy(R) ==
  /\ problem.min > 1
  /\ \E r \in Requests, v \in Vehicles : ~Fits(v, {r})
  /\ Cardinality({v \in DOMAIN R : R[v] # {}}) <= problem.min

Generated(c, cl) ==
  /\ entry = "generate"
  /\ (c = "repair" /\ cl = "end") \/ c = "done"

FeasibleOf(R, S, c, cl, l) ==
  /\ c \notin {"minimize", "repair", "done"} => Feasible(R)
  /\ l.mode = "minimize" => Feasible(S)
  /\ c = "minimize" \/ (c = "repair" /\ cl = "construct") =>
       Feasible(R) \/ ExceededBy(R)
  /\ Generated(c, cl) =>
       /\ \A v \in DOMAIN R : R[v] # {}
       /\ problem.prize => Feasible(R) \/ ExceededBy(R)

Good(R, p, S, b, c, cl, l, t) ==
  /\ TypesOf(R, p, S, b, c, cl, l, t)
  /\ ControlOf(c, cl, l)
  /\ PlacesOf(R, p, c)
  /\ WholeOf(R, S, b, c, cl, l)
  /\ FeasibleOf(R, S, c, cl, l)

Inv ==
  /\ problem \in Problems /\ entry \in {"generate", "desired", "feasible"}
  /\ timeup \in BOOLEAN
  /\ Good(routes, EP, saved, best, pc, caller, loop, tries)

-----------------------------------------------------------------------------
(* Sums, loads and excess.                                                 *)

\* The pairs that Total counts.
Units(f, S) == UNION {{x} \X (1..f[x]) : x \in S}

\* There are finitely many of them.
LEMMA UnitsFinite ==
  ASSUME NEW S, IsFiniteSet(S), NEW f, \A x \in S : f[x] \in Nat
  PROVE  IsFiniteSet(Units(f, S))
<1> DEFINE g == [x \in S |-> {x} \X (1..f[x])]
           T == {{x} \X (1..f[x]) : x \in S}
<1>1. g \in Surjection(S, T)
  BY DEF Surjection
<1>2. IsFiniteSet(T)
  <2> HIDE DEF T, g
  <2> QED BY <1>1, FS_Surjection
<1>3. ASSUME NEW U \in T PROVE IsFiniteSet(U)
  <2>1. PICK x \in S : U = {x} \X (1..f[x])
    OBVIOUS
  <2>2. IsFiniteSet({x}) /\ IsFiniteSet(1..f[x])
    <3>1. 1 \in Int /\ f[x] \in Int
      OBVIOUS
    <3> QED BY <3>1, FS_Singleton, FS_Interval
  <2> QED BY <2>1, <2>2, FS_Product
<1> HIDE DEF T
<1>4. IsFiniteSet(UNION T)
  BY <1>2, <1>3, FS_UNION
<1> QED BY <1>4 DEF T, Units

\* A sum is a natural number; nothing for nothing.
LEMMA TotalIsNat ==
  ASSUME NEW S, IsFiniteSet(S), NEW f, \A x \in S : f[x] \in Nat
  PROVE  Total(f, S) \in Nat
<1>1. IsFiniteSet(Units(f, S))
  BY UnitsFinite
<1>2. Cardinality(Units(f, S)) \in Nat
  BY <1>1, FS_CardinalityType
<1> QED BY <1>2 DEF Total, Units

\* Over nothing it is zero.
LEMMA TotalOfNone ==
  ASSUME NEW f
  PROVE  Total(f, {}) = 0
<1>1. Units(f, {}) = {}
  BY DEF Units
<1>2. Cardinality(Units(f, {})) = 0
  BY <1>1, FS_EmptySet
<1> QED BY <1>2 DEF Total, Units

\* A part sums up to no more than the whole.
LEMMA TotalMonotonic ==
  ASSUME NEW S, IsFiniteSet(S), NEW f, \A x \in S : f[x] \in Nat,
         NEW T \in SUBSET S
  PROVE  Total(f, T) <= Total(f, S)
<1>1. IsFiniteSet(Units(f, S))
  BY UnitsFinite
<1>2. Units(f, T) \in SUBSET Units(f, S)
  BY DEF Units
<1>3. Cardinality(Units(f, T)) <= Cardinality(Units(f, S))
  BY <1>1, <1>2, FS_Subset
<1> QED BY <1>3 DEF Total, Units

\* Of S in V, and up to m for each, it is no more than m times the size of V.
LEMMA TotalBound ==
  ASSUME NEW V, IsFiniteSet(V), NEW S \in SUBSET V, NEW f, NEW m \in Nat,
         \A x \in S : f[x] \in 0..m
  PROVE  Total(f, S) <= Cardinality(V) * m
<1>1. IsFiniteSet(1..m) /\ Cardinality(1..m) = m
  BY FS_Interval
<1>2. IsFiniteSet(V \X (1..m)) /\ Cardinality(V \X (1..m)) = Cardinality(V) * m
  BY <1>1, FS_Product
<1>3. Units(f, S) \in SUBSET (V \X (1..m))
  <2>1. ASSUME NEW x \in S PROVE {x} \X (1..f[x]) \subseteq V \X (1..m)
    <3>1. f[x] \in 0..m
      OBVIOUS
    <3>2. 1..f[x] \subseteq 1..m
      BY <3>1
    <3> QED BY <3>2
  <2> QED BY <2>1 DEF Units
<1>4. Cardinality(Units(f, S)) <= Cardinality(V \X (1..m))
  BY <1>2, <1>3, FS_Subset
<1> QED BY <1>2, <1>4 DEF Total, Units

-----------------------------------------------------------------------------
(* Constants and solutions.                                                *)

\* What is to be solved is finite, and how much it can be in excess.
LEMMA ProblemFacts ==
  ASSUME problem \in Problems
  PROVE  /\ IsFiniteSet(Requests) /\ Requests # {} /\ Nobody \notin Requests
         /\ Cardinality(Requests) \in Nat
         /\ IsFiniteSet(Vehicles) /\ Cardinality(Vehicles) \in Nat
         /\ \A r \in Requests : problem.demand[r] \in Nat
         /\ \A v \in Vehicles : problem.capacity[v] \in Nat
         /\ problem.min \in Nat /\ problem.prize \in BOOLEAN
         /\ Cardinality(Vehicles) * Load(Requests) < Unset
<1>1. /\ Requests \in SUBSET AllRequests /\ Requests # {}
      /\ Vehicles \in SUBSET AllVehicles
      /\ problem.demand \in [Requests -> Nat]
      /\ problem.capacity \in [Vehicles -> Nat]
      /\ problem.min \in 0..Cardinality(Vehicles) /\ problem.prize \in BOOLEAN
      /\ Cardinality(Vehicles) * Load(Requests) < Unset
  BY ProblemsAssumption DEF Requests, Vehicles, Load
<1>2. IsFiniteSet(Requests) /\ IsFiniteSet(Vehicles) /\ Nobody \notin Requests
  BY <1>1, ConstantsAssumption, FS_Subset
<1>3. Cardinality(Requests) \in Nat /\ Cardinality(Vehicles) \in Nat
  BY <1>2, FS_CardinalityType
<1> QED BY <1>1, <1>2, <1>3

\* A solution has some of the vehicles, and each a set of requests.
LEMMA SolutionIs ==
  ASSUME NEW R
  PROVE  R \in Solutions <=>
           DOMAIN R \in SUBSET Vehicles /\ R \in [DOMAIN R -> SUBSET Requests]
BY DEF Solutions

\* Who is served, and what a route may hold.
LEMMA ServedIs ==
  ASSUME NEW R, NEW r
  PROVE  r \in Served(R) <=> \E v \in DOMAIN R : r \in R[v]
BY DEF Served, Range

\* All it serves are requests.
LEMMA ServedInRequests ==
  ASSUME NEW R \in Solutions
  PROVE  Served(R) \in SUBSET Requests
BY SolutionIs, ServedIs

\* The load of a route is a number, a smaller route has no more of it.
LEMMA LoadFacts ==
  ASSUME problem \in Problems, NEW S \in SUBSET Requests
  PROVE  /\ Load(S) \in Nat
         /\ \A T \in SUBSET S : Load(T) <= Load(S)
         /\ Load({}) = 0
<1>1. IsFiniteSet(S) /\ \A r \in S : problem.demand[r] \in Nat
  BY ProblemFacts, FS_Subset
<1>2. Load(S) \in Nat
  BY <1>1, TotalIsNat DEF Load
<1>3. ASSUME NEW T \in SUBSET S PROVE Load(T) <= Load(S)
  BY <1>1, TotalMonotonic DEF Load
<1> QED BY <1>2, <1>3, TotalOfNone DEF Load

\* What fits in a route still does when there is less, and nothing always
\* does; a feasible solution has only such routes.
LEMMA FitsFacts ==
  ASSUME problem \in Problems, NEW v \in Vehicles, NEW S \in SUBSET Requests
  PROVE  /\ Over(v, S) \in 0..Load(Requests)
         /\ \A T \in SUBSET S : Fits(v, S) => Fits(v, T)
         /\ Fits(v, {})
<1>1. problem.capacity[v] \in Nat
  BY ProblemFacts
<1>2. Load(S) \in Nat /\ Load(Requests) \in Nat /\ Load(S) <= Load(Requests)
  BY LoadFacts
<1>3. Over(v, S) \in 0..Load(Requests)
  BY <1>1, <1>2 DEF Over
<1>4. ASSUME NEW T \in SUBSET S, Fits(v, S) PROVE Fits(v, T)
  <2>1. Load(T) \in Nat /\ Load(T) <= Load(S)
    BY LoadFacts
  <2> QED BY <1>1, <1>2, <1>4, <2>1 DEF Over, Fits
<1>5. Fits(v, {})
  <2>1. Load({}) = 0
    BY LoadFacts
  <2> QED BY <1>1, <2>1 DEF Over, Fits
<1> QED BY <1>3, <1>4, <1>5

\* No solution exceeds by as much as the largest number.
LEMMA ExcessFacts ==
  ASSUME problem \in Problems, NEW R \in Solutions
  PROVE  Excess(R) \in Nat /\ Excess(R) < Unset
<1> DEFINE over == [v \in DOMAIN R |-> Over(v, R[v])]
           m == Load(Requests)
<1>1. DOMAIN R \in SUBSET Vehicles /\ \A v \in DOMAIN R : R[v] \in SUBSET Requests
  BY SolutionIs
<1>2. IsFiniteSet(Vehicles) /\ IsFiniteSet(DOMAIN R)
  BY <1>1, ProblemFacts, FS_Subset
<1>3. m \in Nat
  BY LoadFacts
<1>4. \A v \in DOMAIN R : over[v] \in 0..m
  BY <1>1, FitsFacts
<1>5. Excess(R) = Total(over, DOMAIN R)
  BY DEF Excess
<1>6. Cardinality(Vehicles) \in Nat /\ Cardinality(Vehicles) * m < Unset
  BY ProblemFacts
<1> HIDE DEF over, m
<1>7. Total(over, DOMAIN R) \in Nat
  BY <1>2, <1>3, <1>4, TotalIsNat
<1>8. Total(over, DOMAIN R) <= Cardinality(Vehicles) * m
  BY <1>1, <1>2, <1>3, <1>4, TotalBound
<1>9. Cardinality(Vehicles) * m \in Nat /\ Unset \in Nat
  BY <1>3, <1>6, ConstantsAssumption
<1> QED BY <1>5, <1>6, <1>7, <1>8, <1>9

-----------------------------------------------------------------------------
(* What the operators on solutions do.                                     *)

\* More requests on the routes: those, besides the ones that are there.
LEMMA ExtendedFacts ==
  ASSUME NEW R \in Solutions, Apart(R), NEW rs \in SUBSET Requests,
         rs \cap Served(R) = {}, NEW S \in Extended(R, rs)
  PROVE  /\ S \in Solutions /\ DOMAIN S = DOMAIN R
         /\ Apart(S) /\ Served(S) = Served(R) \cup rs
<1>1. PICK at \in [rs -> DOMAIN R] :
        S = [v \in DOMAIN R |-> R[v] \cup {r \in rs : at[r] = v}]
  BY DEF Extended
<1>2. DOMAIN R \in SUBSET Vehicles /\ \A v \in DOMAIN R : R[v] \in SUBSET Requests
  BY SolutionIs
<1>3. DOMAIN S = DOMAIN R
  BY <1>1
<1>4. \A v \in DOMAIN R : S[v] = R[v] \cup {r \in rs : at[r] = v}
  BY <1>1
<1>5. S \in Solutions
  <2>1. S \in [DOMAIN S -> SUBSET Requests]
    BY <1>1, <1>2
  <2> QED BY <1>2, <1>3, <2>1, SolutionIs
<1>6. Served(S) = Served(R) \cup rs
  <2>1. ASSUME NEW r PROVE r \in Served(S) <=> r \in Served(R) \cup rs
    <3>1. r \in Served(S) <=> \E v \in DOMAIN R : r \in S[v]
      BY <1>3, ServedIs
    <3>2. r \in Served(R) <=> \E v \in DOMAIN R : r \in R[v]
      BY ServedIs
    <3> QED BY <1>1, <1>4, <3>1, <3>2
  <2> QED BY <2>1
<1>7. Apart(S)
  <2> SUFFICES ASSUME NEW u \in DOMAIN R, NEW v \in DOMAIN R, u # v,
                      NEW r, r \in S[u], r \in S[v]
               PROVE  FALSE
    BY <1>3 DEF Apart
  <2>1. r \in R[u] \/ (r \in rs /\ at[r] = u)
    BY <1>4
  <2>2. r \in R[v] \/ (r \in rs /\ at[r] = v)
    BY <1>4
  <2>3. \A w \in DOMAIN R : r \in R[w] => r \notin rs
    BY ServedIs
  <2> QED BY <2>1, <2>2, <2>3 DEF Apart
<1> QED BY <1>3, <1>5, <1>6, <1>7

\* Requests on the routes of R in any way: each once, and no others.
LEMMA ArrangedFacts ==
  ASSUME NEW R \in Solutions, NEW rs \in SUBSET Requests,
         NEW S \in Arranged(R, rs)
  PROVE  /\ S \in Solutions /\ DOMAIN S = DOMAIN R
         /\ Apart(S) /\ Served(S) = rs
<1> DEFINE E == [v \in DOMAIN R |-> {}]
<1>1. DOMAIN R \in SUBSET Vehicles
  BY SolutionIs
<1>2. DOMAIN E = DOMAIN R /\ \A v \in DOMAIN E : E[v] = {}
  OBVIOUS
<1>3. E \in [DOMAIN E -> SUBSET Requests]
  OBVIOUS
<1>4. S \in Extended(E, rs)
  BY DEF Arranged
<1> HIDE DEF E
<1>5. E \in Solutions
  BY <1>1, <1>2, <1>3, SolutionIs
<1>6. Apart(E) /\ Served(E) = {}
  BY <1>2, ServedIs DEF Apart
<1> QED BY <1>2, <1>4, <1>5, <1>6, ExtendedFacts

\* Local search: the same requests over the same routes.
LEMMA PerturbedFacts ==
  ASSUME NEW R \in Solutions, NEW S \in Perturbed(R)
  PROVE  /\ S \in Solutions /\ DOMAIN S = DOMAIN R
         /\ Apart(S) /\ Served(S) = Served(R) /\ Feasible(S)
<1>1. S \in Arranged(R, Served(R)) /\ Feasible(S)
  BY DEF Perturbed, Rearranged
<1> QED BY <1>1, ServedInRequests, ArrangedFacts

\* Without its empty routes a solution is what it was.
LEMMA WithoutEmptyFacts ==
  ASSUME NEW R \in Solutions
  PROVE  /\ WithoutEmpty(R) \in Solutions
         /\ Served(WithoutEmpty(R)) = Served(R)
         /\ Apart(R) => Apart(WithoutEmpty(R))
         /\ Feasible(R) => Feasible(WithoutEmpty(R))
         /\ DOMAIN WithoutEmpty(R) = {v \in DOMAIN R : R[v] # {}}
         /\ \A v \in DOMAIN WithoutEmpty(R) : WithoutEmpty(R)[v] = R[v]
<1> DEFINE W == WithoutEmpty(R)
<1>1. DOMAIN W = {v \in DOMAIN R : R[v] # {}} /\ \A v \in DOMAIN W : W[v] = R[v]
  BY DEF WithoutEmpty, Restrict
<1>2. DOMAIN R \in SUBSET Vehicles /\ \A v \in DOMAIN R : R[v] \in SUBSET Requests
  BY SolutionIs
<1>3. W \in [DOMAIN W -> SUBSET Requests]
  BY <1>2 DEF WithoutEmpty, Restrict
<1> HIDE DEF W
<1>4. W \in Solutions
  BY <1>1, <1>2, <1>3, SolutionIs
<1>5. ASSUME NEW r PROVE r \in Served(W) <=> r \in Served(R)
  <2>1. r \in Served(W) <=> \E v \in DOMAIN W : r \in W[v]
    BY ServedIs
  <2>2. r \in Served(R) <=> \E v \in DOMAIN R : r \in R[v]
    BY ServedIs
  <2> QED BY <1>1, <2>1, <2>2
<1>6. Served(W) = Served(R)
  BY <1>5
<1>7. Apart(R) => Apart(W)
  BY <1>1 DEF Apart
<1>8. Feasible(R) => Feasible(W)
  BY <1>1 DEF Feasible
<1> QED BY <1>1, <1>4, <1>6, <1>7, <1>8 DEF W

\* Without one of the routes it serves the others' requests.
LEMMA WithoutFacts ==
  ASSUME NEW R \in Solutions, Apart(R), NEW w \in DOMAIN R
  PROVE  /\ Without(R, w) \in Solutions
         /\ Apart(Without(R, w)) /\ Served(Without(R, w)) = Served(R) \ R[w]
         /\ Feasible(R) => Feasible(Without(R, w))
         /\ DOMAIN Without(R, w) = DOMAIN R \ {w}
<1> DEFINE W == Without(R, w)
<1>1. DOMAIN W = DOMAIN R \ {w} /\ \A v \in DOMAIN W : W[v] = R[v]
  BY DEF Without, Restrict
<1>2. DOMAIN R \in SUBSET Vehicles /\ \A v \in DOMAIN R : R[v] \in SUBSET Requests
  BY SolutionIs
<1>3. W \in [DOMAIN W -> SUBSET Requests]
  BY <1>2 DEF Without, Restrict
<1> HIDE DEF W
<1>4. W \in Solutions
  BY <1>1, <1>2, <1>3, SolutionIs
<1>5. ASSUME NEW r PROVE r \in Served(W) <=> r \in Served(R) \ R[w]
  <2>1. r \in Served(W) <=> \E v \in DOMAIN W : r \in W[v]
    BY ServedIs
  <2>2. r \in Served(R) <=> \E v \in DOMAIN R : r \in R[v]
    BY ServedIs
  <2>3. \A v \in DOMAIN R : r \in R[v] /\ r \in R[w] => v = w
    BY DEF Apart
  <2> QED BY <1>1, <2>1, <2>2, <2>3
<1>6. Served(W) = Served(R) \ R[w]
  BY <1>5
<1>7. Apart(W)
  BY <1>1 DEF Apart
<1>8. Feasible(R) => Feasible(W)
  BY <1>1 DEF Feasible
<1> QED BY <1>1, <1>4, <1>6, <1>7, <1>8 DEF W

\* More routes, which are empty.
LEMMA WithRoutesFacts ==
  ASSUME problem \in Problems, NEW R \in Solutions, NEW new \in SUBSET Vehicles
  PROVE  /\ WithRoutes(R, new) \in Solutions
         /\ Served(WithRoutes(R, new)) = Served(R)
         /\ Apart(R) => Apart(WithRoutes(R, new))
         /\ Feasible(R) => Feasible(WithRoutes(R, new))
<1> DEFINE W == WithRoutes(R, new)
<1>1. /\ DOMAIN W = DOMAIN R \cup new
      /\ \A v \in DOMAIN W : W[v] = IF v \in DOMAIN R THEN R[v] ELSE {}
  BY DEF WithRoutes
<1>2. DOMAIN R \in SUBSET Vehicles /\ \A v \in DOMAIN R : R[v] \in SUBSET Requests
  BY SolutionIs
<1>3. W \in [DOMAIN W -> SUBSET Requests]
  BY <1>2 DEF WithRoutes
<1> HIDE DEF W
<1>4. W \in Solutions
  BY <1>1, <1>2, <1>3, SolutionIs
<1>5. ASSUME NEW r PROVE r \in Served(W) <=> r \in Served(R)
  <2>1. r \in Served(W) <=> \E v \in DOMAIN W : r \in W[v]
    BY ServedIs
  <2>2. r \in Served(R) <=> \E v \in DOMAIN R : r \in R[v]
    BY ServedIs
  <2> QED BY <1>1, <2>1, <2>2
<1>6. Served(W) = Served(R)
  BY <1>5
<1>7. Apart(R) => Apart(W)
  BY <1>1 DEF Apart
<1>8. Feasible(R) => Feasible(W)
  <2>1. \A v \in Vehicles : Fits(v, {})
    BY FitsFacts
  <2> QED BY <1>1, <1>2, <2>1 DEF Feasible
<1> QED BY <1>1, <1>4, <1>6, <1>7, <1>8 DEF W

-----------------------------------------------------------------------------
(* What the operators on the pool do.                                      *)

\* The requests that the first n places hold once are n.
LEMMA HoldsCount ==
  ASSUME problem \in Problems, NEW p \in Pools, NEW n,
         NEW rs \in SUBSET Requests, HoldsOnce(p, n, rs)
  PROVE  n \in Nat /\ Cardinality(rs) = n
<1> DEFINE f == [i \in 1..n |-> p.stack[i]]
<1>1. n \in Nat
  BY ProblemFacts DEF HoldsOnce
<1>2. f \in Bijection(1..n, rs)
  <2>1. f \in [1..n -> rs] /\ \A x \in rs : \E i \in 1..n : f[i] = x
    BY DEF HoldsOnce, Content
  <2>2. \A i, j \in 1..n : f[i] = f[j] => i = j
    BY DEF HoldsOnce, Distinct
  <2> HIDE DEF f
  <2> QED BY <2>1, <2>2 DEF Bijection, Injection, Surjection, IsInjective
<1>3. ExistsBijection(1..n, rs)
  BY <1>2 DEF ExistsBijection
<1> QED BY <1>1, <1>3, FS_CountingElements

\* With other requests there is room for all.
LEMMA RoomForAll ==
  ASSUME problem \in Problems, NEW p \in Pools, NEW n,
         NEW A \in SUBSET Requests, HoldsOnce(p, n, A),
         NEW B \in SUBSET Requests, A \cap B = {}
  PROVE  /\ Cardinality(B) \in Nat
         /\ n + Cardinality(B) \in 0..Cardinality(Requests)
<1>1. n \in Nat /\ Cardinality(A) = n
  BY HoldsCount
<1>2. IsFiniteSet(Requests) /\ Cardinality(Requests) \in Nat
  BY ProblemFacts
<1>3. IsFiniteSet(A) /\ IsFiniteSet(B)
  BY <1>2, FS_Subset
<1>4. Cardinality(B) \in Nat
  BY <1>3, FS_CardinalityType
<1>5. Cardinality(A \cup B) = Cardinality(A) + Cardinality(B)
  <2>1. Cardinality(A \cup B) = Cardinality(A) + Cardinality(B) - Cardinality(A \cap B)
    BY <1>3, FS_Union
  <2>2. Cardinality(A \cap B) = 0
    BY FS_EmptySet
  <2> QED BY <1>1, <1>4, <2>1, <2>2
<1>6. Cardinality(A \cup B) <= Cardinality(Requests)
  BY <1>2, FS_Subset
<1> QED BY <1>1, <1>2, <1>4, <1>5, <1>6

\* An order of a finite set has each of its elements once.
LEMMA OrderFacts ==
  ASSUME NEW S, IsFiniteSet(S), NEW s \in SetToSeqs(S)
  PROVE  /\ Cardinality(S) \in Nat /\ Len(s) = Cardinality(S)
         /\ s \in [1..Cardinality(S) -> S]
         /\ \A i, j \in 1..Cardinality(S) : s[i] = s[j] => i = j
         /\ \A x \in S : \E i \in 1..Cardinality(S) : s[i] = x
<1> DEFINE n == Cardinality(S)
<1>1. n \in Nat
  BY FS_CardinalityType
<1>2. s \in [1..n -> S] /\ \A i, j \in 1..n : i # j => s[i] # s[j]
  BY DEF SetToSeqs
<1>3. Len(s) = n
  <2> HIDE DEF n
  <2>1. s \in Seq(S) /\ DOMAIN s = 1..n
    BY <1>1, <1>2, SeqDef
  <2> QED BY <1>1, <2>1, LenProperties
<1>4. s \in Injection(1..n, S)
  BY <1>2 DEF Injection, IsInjective
<1>5. s \in Surjection(1..n, S)
  <2>1. IsFiniteSet(1..n) /\ Cardinality(1..n) = n
    BY <1>1, FS_Interval
  <2> QED BY <1>4, <2>1, FS_Injection
<1> QED BY <1>1, <1>2, <1>3, <1>5 DEF Surjection

\* What is pushed over the first k places is in the pool once, with them.
LEMMA PushedFacts ==
  ASSUME problem \in Problems, NEW p \in Pools, NEW k,
         NEW A \in SUBSET Requests, HoldsOnce(p, k, A),
         NEW B \in SUBSET Requests, A \cap B = {}, NEW q \in Pushed(p, k, B)
  PROVE  /\ q \in Pools /\ q.size = k + Cardinality(B)
         /\ HoldsOnce(q, q.size, A \cup B)
<1> DEFINE n == Cardinality(B)
<1>1. IsFiniteSet(B)
  BY ProblemFacts, FS_Subset
<1>2. PICK s \in SetToSeqs(B) :
        q = [stack |-> [i \in Places |->
                          IF i \in (k + 1)..(k + Len(s)) THEN s[i - k]
                                                         ELSE p.stack[i]],
             size  |-> k + Len(s)]
  BY DEF Pushed
<1>3. /\ n \in Nat /\ Len(s) = n /\ s \in [1..n -> B]
      /\ \A i, j \in 1..n : s[i] = s[j] => i = j
      /\ \A x \in B : \E i \in 1..n : s[i] = x
  BY <1>1, OrderFacts
<1>4. k \in Nat /\ k + n \in 0..Cardinality(Requests) /\ Cardinality(Requests) \in Nat
  BY HoldsCount, RoomForAll, ProblemFacts
<1> HIDE DEF n
<1>5. Places = 1..Cardinality(Requests)
  BY DEF Places
<1>6. p.stack \in [Places -> Requests \cup {Nobody}]
  BY DEF Pools
<1>7. /\ q.size = k + n
      /\ q.stack = [i \in Places |->
                      IF i \in (k + 1)..(k + n) THEN s[i - k] ELSE p.stack[i]]
      /\ q = [stack |-> q.stack, size |-> q.size]
  BY <1>2, <1>3
<1>8. q.stack \in [Places -> Requests \cup {Nobody}]
  <2>1. ASSUME NEW i \in (k + 1)..(k + n) PROVE s[i - k] \in B
    BY <1>3, <1>4
  <2> QED BY <1>6, <1>7, <2>1
<1>9. q \in Pools
  BY <1>4, <1>7, <1>8 DEF Pools
<1>10. \A i \in 1..k : i \in Places /\ q.stack[i] = p.stack[i] /\ q.stack[i] \in A
  BY <1>3, <1>4, <1>5, <1>7 DEF HoldsOnce, Content
<1>11. \A i \in 1..n : q.stack[k + i] = s[i] /\ q.stack[k + i] \in B
  BY <1>3, <1>4, <1>5, <1>7
<1>12. ASSUME NEW i \in 1..(k + n), i \notin 1..k
       PROVE  i - k \in 1..n /\ k + (i - k) = i
  <2>1. i \in Int /\ i >= 1 /\ i <= k + n /\ ~(i <= k)
    BY <1>3, <1>4, <1>12
  <2> QED BY <1>3, <1>4, <2>1
<1>13. Distinct(q, k + n)
  <2> SUFFICES ASSUME NEW i \in 1..(k + n), NEW j \in 1..(k + n),
                      q.stack[i] = q.stack[j]
               PROVE  i = j
    BY DEF Distinct
  <2>1. CASE i \in 1..k /\ j \in 1..k
    BY <1>10, <2>1 DEF HoldsOnce, Distinct
  <2>2. CASE i \in 1..k /\ j \notin 1..k
    <3>1. q.stack[j] \in B
      BY <1>11, <1>12, <2>2
    <3> QED BY <1>10, <2>2, <3>1
  <2>3. CASE i \notin 1..k /\ j \in 1..k
    <3>1. q.stack[i] \in B
      BY <1>11, <1>12, <2>3
    <3> QED BY <1>10, <2>3, <3>1
  <2>4. CASE i \notin 1..k /\ j \notin 1..k
    <3>1. q.stack[i] = s[i - k] /\ q.stack[j] = s[j - k]
      BY <1>11, <1>12, <2>4
    <3>2. i - k = j - k
      <4>1. i - k \in 1..n /\ j - k \in 1..n /\ s[i - k] = s[j - k]
        BY <1>12, <2>4, <3>1
      <4> QED BY <1>3, <4>1, Zenon
    <3> QED BY <1>4, <3>2
  <2> QED BY <2>1, <2>2, <2>3, <2>4
<1>14. Content(q, k + n) = A \cup B
  <2>1. ASSUME NEW i \in 1..(k + n) PROVE q.stack[i] \in A \cup B
    <3>1. CASE i \in 1..k
      BY <1>10, <3>1
    <3>2. CASE i \notin 1..k
      BY <1>11, <1>12, <3>2
    <3> QED BY <3>1, <3>2
  <2>2. ASSUME NEW r \in A PROVE \E i \in 1..(k + n) : q.stack[i] = r
    <3>1. PICK i \in 1..k : p.stack[i] = r
      BY DEF HoldsOnce, Content
    <3>2. i \in 1..(k + n)
      BY <1>3, <1>4
    <3> QED BY <1>10, <3>1, <3>2
  <2>3. ASSUME NEW r \in B PROVE \E i \in 1..(k + n) : q.stack[i] = r
    <3>1. PICK i \in 1..n : s[i] = r
      BY <1>3
    <3>2. k + i \in 1..(k + n)
      BY <1>3, <1>4
    <3> QED BY <1>11, <3>1, <3>2
  <2> QED BY <2>1, <2>2, <2>3 DEF Content
<1> QED BY <1>4, <1>7, <1>9, <1>13, <1>14 DEF HoldsOnce, n

\* In another order it holds the same.
LEMMA PermutedFacts ==
  ASSUME problem \in Problems, NEW p \in Pools, NEW n,
         NEW A \in SUBSET Requests, HoldsOnce(p, n, A),
         NEW perms \in SUBSET SetToSeqs(1..n), NEW q \in Permuted(p, n, perms)
  PROVE  q \in Pools /\ q.size = p.size /\ HoldsOnce(q, n, A)
<1>1. PICK at \in perms :
        q = [p EXCEPT !.stack = [i \in Places |->
                                   IF i \in 1..n THEN p.stack[at[i]]
                                                 ELSE p.stack[i]]]
  BY DEF Permuted
<1>2. n \in Nat /\ n \in 0..Cardinality(Requests) /\ Cardinality(Requests) \in Nat
  BY HoldsCount, ProblemFacts DEF HoldsOnce
<1>3. IsFiniteSet(1..n) /\ Cardinality(1..n) = n
  BY <1>2, FS_Interval
<1>4. /\ at \in [1..n -> 1..n]
      /\ \A i, j \in 1..n : at[i] = at[j] => i = j
      /\ \A x \in 1..n : \E i \in 1..n : at[i] = x
  <2>1. at \in SetToSeqs(1..n)
    OBVIOUS
  <2> QED BY <1>3, <2>1, OrderFacts
<1>5. p.stack \in [Places -> Requests \cup {Nobody}] /\ 1..n \subseteq Places
  BY <1>2 DEF Pools, Places
<1>6. /\ q.size = p.size
      /\ q.stack = [i \in Places |-> IF i \in 1..n THEN p.stack[at[i]] ELSE p.stack[i]]
  BY <1>1 DEF Pools
<1>7. q.stack \in [Places -> Requests \cup {Nobody}]
  BY <1>4, <1>5, <1>6
<1>8. q \in Pools
  BY <1>1, <1>6, <1>7 DEF Pools
<1>9. \A i \in 1..n : q.stack[i] = p.stack[at[i]]
  BY <1>5, <1>6
<1>10. Distinct(q, n)
  <2> SUFFICES ASSUME NEW i \in 1..n, NEW j \in 1..n, q.stack[i] = q.stack[j]
               PROVE  i = j
    BY DEF Distinct
  <2>1. at[i] \in 1..n /\ at[j] \in 1..n /\ p.stack[at[i]] = p.stack[at[j]]
    BY <1>4, <1>9
  <2>2. at[i] = at[j]
    BY <2>1, Zenon DEF HoldsOnce, Distinct
  <2> QED BY <1>4, <2>2, Zenon
<1>11. Content(q, n) = Content(p, n)
  <2>1. ASSUME NEW r PROVE r \in Content(q, n) <=> r \in Content(p, n)
    <3>1. ASSUME NEW i \in 1..n, q.stack[i] = r PROVE \E j \in 1..n : p.stack[j] = r
      <4>1. at[i] \in 1..n /\ p.stack[at[i]] = r
        BY <1>4, <1>9, <3>1
      <4> QED BY <4>1
    <3>2. ASSUME NEW j \in 1..n, p.stack[j] = r PROVE \E i \in 1..n : q.stack[i] = r
      <4>1. PICK i \in 1..n : at[i] = j
        BY <1>4
      <4> QED BY <1>9, <3>2, <4>1
    <3> QED BY <3>1, <3>2 DEF Content
  <2> QED BY <2>1
<1> QED BY <1>2, <1>6, <1>8, <1>10, <1>11 DEF HoldsOnce

\* The last one is popped, or pushed back.
LEMMA PoppedFacts ==
  ASSUME problem \in Problems, NEW p, NEW n \in Nat, NEW A,
         HoldsOnce(p, n + 1, A)
  PROVE  /\ p.stack[n + 1] \in A
         /\ HoldsOnce(p, n, A \ {p.stack[n + 1]})
<1>1. n + 1 \in 1..(n + 1) /\ \A i \in 1..n : i \in 1..(n + 1) /\ i # n + 1
  OBVIOUS
<1>2. p.stack[n + 1] \in A
  BY <1>1 DEF HoldsOnce, Content
<1>3. Distinct(p, n)
  BY <1>1 DEF HoldsOnce, Distinct
<1>4. ASSUME NEW r PROVE r \in Content(p, n) <=> r \in A \ {p.stack[n + 1]}
  <2>1. ASSUME NEW i \in 1..n
        PROVE  p.stack[i] \in A /\ p.stack[i] # p.stack[n + 1]
    BY <1>1 DEF HoldsOnce, Content, Distinct
  <2>2. ASSUME r \in A, r # p.stack[n + 1] PROVE \E i \in 1..n : p.stack[i] = r
    <3>1. PICK i \in 1..(n + 1) : p.stack[i] = r
      BY <2>2 DEF HoldsOnce, Content
    <3>2. i \in 1..n
      BY <2>2, <3>1
    <3> QED BY <3>1, <3>2
  <2> QED BY <2>1, <2>2 DEF Content
<1>5. n \in 0..Cardinality(Requests)
  <2>1. Cardinality(Requests) \in Nat
    BY ProblemFacts
  <2> QED BY <2>1 DEF HoldsOnce
<1> QED BY <1>2, <1>3, <1>4, <1>5 DEF HoldsOnce

\* Only stack and size of a pool matter.
LEMMA SamePlaces ==
  ASSUME NEW p, NEW q, q.stack = p.stack, NEW n, NEW A
  PROVE  HoldsOnce(q, n, A) <=> HoldsOnce(p, n, A)
BY DEF HoldsOnce, Distinct, Content

\* The same pool with another size.
LEMMA ResizedFacts ==
  ASSUME NEW p \in Pools, NEW n \in 0..Cardinality(Requests)
  PROVE  /\ [p EXCEPT !.size = n] \in Pools
         /\ [p EXCEPT !.size = n].stack = p.stack
         /\ [p EXCEPT !.size = n].size = n
BY DEF Pools

\* A request that is dropped is no longer in the pool, all others are.
LEMMA DroppedFacts ==
  ASSUME problem \in Problems, NEW p \in Pools, NEW A \in SUBSET Requests,
         HoldsOnce(p, p.size, A), NEW i \in 1..p.size
  PROVE  /\ Dropped(p, i) \in Pools
         /\ Dropped(p, i).size = p.size - 1
         /\ HoldsOnce(Dropped(p, i), p.size - 1, A \ {p.stack[i]})
         /\ \A j \in 1..(i - 1) : Dropped(p, i).stack[j] = p.stack[j]
<1> DEFINE n == p.size
           q == Dropped(p, i)
<1>1. /\ n \in 0..Cardinality(Requests) /\ Cardinality(Requests) \in Nat
      /\ p.stack \in [Places -> Requests \cup {Nobody}]
  BY ProblemFacts DEF Pools
<1>2. n \in Nat /\ n >= 1 /\ i \in Places /\ n \in Places
      /\ n - 1 \in 0..Cardinality(Requests)
  BY <1>1 DEF Places
<1>3. q.stack = Swapped(p.stack, i, n) /\ q.size = n - 1
      /\ q = [stack |-> q.stack, size |-> q.size]
  BY DEF Dropped
<1>4. /\ q.stack \in [Places -> Requests \cup {Nobody}]
      /\ q.stack[n] = p.stack[i] /\ q.stack[i] = p.stack[n]
      /\ \A j \in Places : j # i /\ j # n => q.stack[j] = p.stack[j]
  BY <1>1, <1>2, <1>3 DEF Swapped
<1> HIDE DEF q, n
<1>5. q \in Pools
  BY <1>2, <1>3, <1>4 DEF Pools
<1>6. \A j \in 1..n : j \in Places /\ (j # n => j \in 1..(n - 1))
  BY <1>1, <1>2 DEF Places
<1>7. HoldsOnce(q, n, A)
  <2>1. ASSUME NEW j \in 1..n
        PROVE  \E k \in 1..n : /\ q.stack[j] = p.stack[k]
                               /\ q.stack[k] = p.stack[j]
                               /\ k = IF j = i THEN n ELSE IF j = n THEN i ELSE j
    BY <1>2, <1>4, <1>6 DEF n
  <2>2. Content(p, n) = A /\ \A j, k \in 1..n : p.stack[j] = p.stack[k] => j = k
    BY DEF HoldsOnce, Distinct, n
  <2>3. Content(q, n) = A
    BY <2>1, <2>2 DEF Content
  <2>4. Distinct(q, n)
    <3> SUFFICES ASSUME NEW j \in 1..n, NEW k \in 1..n, q.stack[j] = q.stack[k]
                 PROVE  j = k
      BY DEF Distinct
    <3> DEFINE to(l) == IF l = i THEN n ELSE IF l = n THEN i ELSE l
    <3>1. to(j) \in 1..n /\ to(k) \in 1..n
      BY <1>2 DEF n
    <3>2. q.stack[j] = p.stack[to(j)] /\ q.stack[k] = p.stack[to(k)]
      BY <2>1
    <3>3. to(j) = to(k)
      <4> HIDE DEF to
      <4> QED BY <2>2, <3>1, <3>2
    <3> QED BY <3>3
  <2>5. n \in 0..Cardinality(Requests)
    BY DEF HoldsOnce, n
  <2> QED BY <2>3, <2>4, <2>5 DEF HoldsOnce
<1>8. HoldsOnce(q, n - 1, A \ {p.stack[i]})
  <2> DEFINE m == n - 1
  <2>1. m \in Nat /\ n = m + 1
    BY <1>2
  <2> HIDE DEF m
  <2>2. HoldsOnce(q, m, A \ {q.stack[n]})
    BY <1>7, <2>1, PoppedFacts
  <2> QED BY <1>4, <2>2 DEF m
<1>9. ASSUME NEW j \in 1..(i - 1) PROVE q.stack[j] = p.stack[j]
  <2>1. j \in Places /\ j # i /\ j # n
    BY <1>1, <1>2 DEF Places, n
  <2> QED BY <1>4, <2>1
<1> QED BY <1>3, <1>5, <1>8, <1>9 DEF q, n

\* A set of natural numbers has a least one.
LEMMA LeastNumber ==
  ASSUME NEW S \in SUBSET Nat, S # {}
  PROVE  \E m \in S : \A k \in S : m <= k
<1> DEFINE R == {p \in Nat \X Nat : p[1] < p[2]}
<1>1. IsWellFoundedOn(R, Nat)
  BY NatLessThanWellFounded, Zenon DEF OpToRel
<1>2. PICK x \in S : \A y \in S : ~(<<y, x>> \in R)
  <2> HIDE DEF R
  <2> QED BY <1>1, WFMin
<1>3. ASSUME NEW y \in S PROVE x <= y
  <2>1. x \in Nat /\ y \in Nat /\ ~(<<y, x>> \in R)
    BY <1>2
  <2>2. ~(y < x)
    BY <2>1, Zenon
  <2> HIDE DEF R
  <2> QED BY <2>1, <2>2
<1> QED BY <1>3

\* f is the pool after each number of places, up to n, that eject_inserted
\* looks at.
AfterPlaces(f, p, inserted, n) ==
  f = [k \in 0..n |->
         IF k = 0 THEN p
           ELSE IF p.stack[p.size + 1 - k] \in inserted
                  THEN Dropped(f[k - 1], p.size + 1 - k)
                  ELSE f[k - 1]]

\* There is such a function, so that EjectInserted is what it is defined to be.
LEMMA AfterPlacesExists ==
  ASSUME NEW p, NEW inserted, NEW n \in Nat
  PROVE  \E f : AfterPlaces(f, p, inserted, n)
<1> DEFINE Bad == {m \in Nat : ~ \E f : AfterPlaces(f, p, inserted, m)}
<1> SUFFICES ASSUME Bad # {} PROVE FALSE
  OBVIOUS
<1> DEFINE next(h, k) ==
      IF k = 0 THEN p
        ELSE IF p.stack[p.size + 1 - k] \in inserted
               THEN Dropped(h[k - 1], p.size + 1 - k)
               ELSE h[k - 1]
<1>1. PICK m \in Bad : \A k \in Bad : m <= k
  BY LeastNumber
<1>2. m # 0
  <2> DEFINE f == [k \in 0..0 |-> p]
             g == [k \in 0..0 |-> next(f, k)]
  <2>1. \A k \in 0..0 : f[k] = g[k]
    OBVIOUS
  <2>2. f = g
    BY <2>1
  <2>3. AfterPlaces(f, p, inserted, 0)
    BY <2>2 DEF AfterPlaces
  <2>4. 0 \notin Bad
    BY <2>3
  <2> QED BY <2>4
<1>3. m - 1 \in Nat /\ m - 1 \notin Bad
  BY <1>1, <1>2
<1>4. PICK f : AfterPlaces(f, p, inserted, m - 1)
  BY <1>3
<1> DEFINE g == [k \in 0..m |-> IF k = m THEN next(f, m) ELSE f[k]]
<1>5. \A k \in 0..(m - 1) : f[k] = next(f, k)
  BY <1>4, Zenon DEF AfterPlaces
<1>6. \A k \in 0..m : g[k] = next(g, k)
  <2> SUFFICES ASSUME NEW k \in 0..m PROVE g[k] = next(g, k)
    OBVIOUS
  <2>1. k # 0 => k - 1 \in 0..m /\ k - 1 # m
    BY <1>3
  <2>2. k # 0 => g[k - 1] = f[k - 1]
    BY <2>1
  <2>3. next(g, k) = next(f, k)
    BY <2>2
  <2>4. k # m => g[k] = f[k] /\ k \in 0..(m - 1)
    BY <1>3
  <2>5. k = m => g[k] = next(f, m)
    BY DEF g
  <2> HIDE DEF g, next
  <2> QED BY <1>5, <2>3, <2>4, <2>5
<1>7. AfterPlaces(g, p, inserted, m)
  <2>1. g = [k \in 0..m |-> g[k]]
    OBVIOUS
  <2> HIDE DEF g
  <2>2. g = [k \in 0..m |-> next(g, k)]
    <3> HIDE DEF next
    <3> QED BY <1>6, <2>1
  <2> QED BY <2>2 DEF AfterPlaces
<1> QED BY <1>1, <1>7

\* EjectInserted is the last value of that function.
LEMMA EjectInsertedIs ==
  ASSUME NEW p, NEW inserted, NEW n
  PROVE  EjectInserted(p, inserted, n) =
           (CHOOSE f : AfterPlaces(f, p, inserted, n))[n]
BY Zenon DEF EjectInserted, AfterPlaces

\* After k places: the inserted ones among them are dropped, and the places
\* below are as they were.
Looked(p, inserted, k) ==
  {p.stack[i] : i \in (p.size + 1 - k)..p.size} \cap inserted

LooksRight(q, p, A, inserted, k) ==
  /\ q \in Pools /\ q.size \in (p.size - k)..p.size
  /\ HoldsOnce(q, q.size, A \ Looked(p, inserted, k))
  /\ \A j \in 1..(p.size - k) : q.stack[j] = p.stack[j]

\* One more place.
LEMMA LooksAtOne ==
  ASSUME problem \in Problems, NEW p \in Pools, NEW A \in SUBSET Requests,
         HoldsOnce(p, p.size, A), NEW inserted, NEW k \in 1..p.size, NEW q,
         LooksRight(q, p, A, inserted, k - 1)
  PROVE  LooksRight(IF p.stack[p.size + 1 - k] \in inserted
                      THEN Dropped(q, p.size + 1 - k) ELSE q,
                    p, A, inserted, k)
<1> DEFINE i == p.size + 1 - k
           B == A \ Looked(p, inserted, k - 1)
           x == p.stack[i]
<1>1. p.size \in Nat
  BY ProblemFacts DEF Pools
<1>2. /\ i \in 1..p.size /\ i = p.size - (k - 1) /\ i - 1 = p.size - k
      /\ \A j \in i..p.size : j = i \/ j \in (p.size + 1 - (k - 1))..p.size
      /\ (p.size + 1 - (k - 1))..p.size \subseteq i..p.size /\ i \in i..p.size
      /\ (p.size - (k - 1))..p.size \subseteq (p.size - k)..p.size
  BY <1>1
<1>3. /\ q \in Pools /\ q.size \in i..p.size
      /\ HoldsOnce(q, q.size, B) /\ \A j \in 1..i : q.stack[j] = p.stack[j]
  BY <1>2 DEF LooksRight
<1>4. Looked(p, inserted, k) =
        IF x \in inserted THEN Looked(p, inserted, k - 1) \cup {x}
                          ELSE Looked(p, inserted, k - 1)
  BY <1>2 DEF Looked
<1>5. i \in 1..q.size /\ q.stack[i] = x /\ q.size \in Nat
  BY <1>1, <1>2, <1>3
<1>6. CASE x \notin inserted
  <2>1. A \ Looked(p, inserted, k) = B
    BY <1>4, <1>6
  <2>2. q.size \in (p.size - k)..p.size
    BY <1>1, <1>2, <1>3
  <2>3. \A j \in 1..(p.size - k) : q.stack[j] = p.stack[j]
    BY <1>1, <1>2, <1>3
  <2> QED BY <1>3, <1>6, <2>1, <2>2, <2>3 DEF LooksRight
<1>7. CASE x \in inserted
  <2> DEFINE d == Dropped(q, i)
  <2>1. A \ Looked(p, inserted, k) = B \ {x}
    BY <1>4, <1>7
  <2>2. B \in SUBSET Requests
    OBVIOUS
  <2> HIDE DEF B, i
  <2>3. /\ d \in Pools /\ d.size = q.size - 1
        /\ HoldsOnce(d, q.size - 1, B \ {q.stack[i]})
        /\ \A j \in 1..(i - 1) : d.stack[j] = q.stack[j]
    BY <1>3, <1>5, <2>2, DroppedFacts
  <2>4. d.size \in (p.size - k)..p.size
    BY <1>1, <1>2, <1>3, <2>3
  <2>5. HoldsOnce(d, d.size, A \ Looked(p, inserted, k))
    BY <1>5, <2>1, <2>3
  <2>6. \A j \in 1..(p.size - k) : d.stack[j] = p.stack[j]
    <3> SUFFICES ASSUME NEW j \in 1..(i - 1) PROVE d.stack[j] = p.stack[j]
      BY <1>2
    <3>1. j \in 1..i
      BY <1>1, <1>2
    <3> QED BY <1>3, <2>3, <3>1
  <2>7. LooksRight(d, p, A, inserted, k)
    BY <2>3, <2>4, <2>5, <2>6 DEF LooksRight
  <2> QED BY <1>7, <2>7 DEF i
<1> QED BY <1>6, <1>7

\* The inserted requests among the last n leave the pool, all others stay.
LEMMA EjectInsertedFacts ==
  ASSUME problem \in Problems, NEW p \in Pools, NEW A \in SUBSET Requests,
         HoldsOnce(p, p.size, A), NEW n \in 0..p.size,
         NEW inserted \in SUBSET {p.stack[i] : i \in (p.size - n + 1)..p.size}
  PROVE  LET q == EjectInserted(p, inserted, n)
         IN  q \in Pools /\ HoldsOnce(q, q.size, A \ inserted)
<1> DEFINE f == CHOOSE g : AfterPlaces(g, p, inserted, n)
           Bad == {k \in 0..n : ~LooksRight(f[k], p, A, inserted, k)}
<1>1. p.size \in Nat /\ n \in Nat
  BY ProblemFacts DEF Pools
<1>2. AfterPlaces(f, p, inserted, n)
  BY <1>1, AfterPlacesExists, Zenon
<1>3. EjectInserted(p, inserted, n) = f[n]
  BY EjectInsertedIs
<1> HIDE DEF f
<1>4. \A k \in 0..n : f[k] =
        IF k = 0 THEN p
          ELSE IF p.stack[p.size + 1 - k] \in inserted
                 THEN Dropped(f[k - 1], p.size + 1 - k)
                 ELSE f[k - 1]
  BY <1>2, Zenon DEF AfterPlaces
<1>5. LooksRight(f[0], p, A, inserted, 0)
  <2>1. f[0] = p /\ p.size \in (p.size - 0)..p.size
    BY <1>1, <1>4
  <2>2. Looked(p, inserted, 0) = {}
    BY <1>1 DEF Looked
  <2> QED BY <2>1, <2>2 DEF LooksRight
<1>6. Bad = {}
  <2> SUFFICES ASSUME Bad # {} PROVE FALSE
    OBVIOUS
  <2>1. PICK k \in Bad : \A l \in Bad : k <= l
    <3>1. Bad \in SUBSET Nat
      OBVIOUS
    <3> HIDE DEF Bad
    <3> QED BY <3>1, LeastNumber
  <2>2. k # 0
    BY <1>5
  <2>3. k - 1 \in 0..n /\ k \in 1..p.size /\ ~(k <= k - 1)
    BY <1>1, <2>2
  <2>4. LooksRight(f[k - 1], p, A, inserted, k - 1)
    BY <2>1, <2>3
  <2>5. LooksRight(IF p.stack[p.size + 1 - k] \in inserted
                     THEN Dropped(f[k - 1], p.size + 1 - k) ELSE f[k - 1],
                   p, A, inserted, k)
    BY <2>3, <2>4, LooksAtOne
  <2>6. LooksRight(f[k], p, A, inserted, k)
    BY <1>4, <2>2, <2>5
  <2> QED BY <2>6
<1>7. LooksRight(f[n], p, A, inserted, n)
  BY <1>1, <1>6
<1>8. Looked(p, inserted, n) = inserted
  <2>1. p.size + 1 - n = p.size - n + 1
    BY <1>1
  <2> QED BY <2>1 DEF Looked
<1> QED BY <1>3, <1>7, <1>8 DEF LooksRight

-----------------------------------------------------------------------------
(* Steps: what they have in common.                                        *)

\* The least of two numbers.
LEMMA MinFacts ==
  ASSUME NEW m \in Nat, NEW n \in Nat
  PROVE  Min({m, n}) \in Nat /\ Min({m, n}) <= m /\ Min({m, n}) <= n
<1>1. CASE m <= n
  <2>1. m \in {m, n} /\ \A y \in {m, n} : m =< y
    BY <1>1
  <2> QED BY <2>1 DEF Min
<1>2. CASE ~(m <= n)
  <2>1. n \in {m, n} /\ \A y \in {m, n} : n =< y
    BY <1>2
  <2> QED BY <2>1 DEF Min
<1> QED BY <1>1, <1>2

\* The invariant of the next state, stated with the problem of this one.
LEMMA GoodNext ==
  ASSUME Inv, problem' = problem, entry' = entry, timeup' \in BOOLEAN,
         Good(routes', EP', saved', best', pc', caller', loop', tries')
  PROVE  Inv'
<1> DEFINE same == /\ Requests' = Requests /\ Vehicles' = Vehicles
                   /\ Places' = Places /\ Solutions' = Solutions
                   /\ Pools' = Pools
<1>1. same
  BY DEF Requests, Vehicles, Places, Solutions, Pools
<1>2. TypesOf(routes, EP, saved, best, pc, caller, loop, tries)'
  BY <1>1 DEF Good, TypesOf, Loops, PCs
<1>3. ControlOf(pc, caller, loop)'
  BY DEF Good, ControlOf, OneOut, InLoop
<1>4. PlacesOf(routes, EP, pc)'
  BY <1>1 DEF Good, PlacesOf, AtWork, InLoop, OneOut, Apart, HoldsOnce, Distinct,
    Content, Served, Range
<1>5. WholeOf(routes, saved, best, pc, caller, loop)'
  BY <1>1 DEF Good, WholeOf, AllServed, Whole, Apart, Served, Range
<1>6. FeasibleOf(routes, saved, pc, caller, loop)'
  BY <1>1 DEF Good, FeasibleOf, Feasible, ExceededBy, Generated, Fits, Over, Load
<1> QED BY <1>2, <1>3, <1>4, <1>5, <1>6 DEF Inv, Good

\* What holds of this state.
LEMMA NowFacts ==
  ASSUME Inv
  PROVE  /\ problem \in Problems
         /\ TypesOf(routes, EP, saved, best, pc, caller, loop, tries)
         /\ ControlOf(pc, caller, loop)
         /\ PlacesOf(routes, EP, pc)
         /\ WholeOf(routes, saved, best, pc, caller, loop)
         /\ FeasibleOf(routes, saved, pc, caller, loop)
         /\ entry \in {"generate", "desired", "feasible"} /\ timeup \in BOOLEAN
BY DEF Inv, Good

\* Some vehicles of a solution can be counted.
LEMMA VehicleCount ==
  ASSUME problem \in Problems, NEW R \in Solutions, NEW vs \in SUBSET DOMAIN R
  PROVE  IsFiniteSet(vs) /\ Cardinality(vs) \in Nat
<1>1. vs \in SUBSET Vehicles
  BY SolutionIs
<1>2. IsFiniteSet(vs)
  BY <1>1, ProblemFacts, FS_Subset
<1> QED BY <1>2, FS_CardinalityType

\* What a number of tries is.
LEMMA RepairFacts ==
  ASSUME problem \in Problems, NEW R \in Solutions, NEW from, Repair(R, from)
  PROVE  pc' = "repair" /\ caller' = from /\ tries' \in Nat
<1>1. Cardinality({v \in DOMAIN R : R[v] = {}}) \in Nat
  BY VehicleCount
<1> QED BY <1>1 DEF Repair

\* No loop, and when one starts.
LEMMA NoLoopFacts ==
  /\ NoLoop \in Loops /\ NoLoop.mode = "none"
  /\ NoLoop.failures + NoLoop.left = 0
BY ConstantsAssumption DEF NoLoop, Loops

\* What is said of the save does not depend on where the search is.
SaveIsGood(S, b) ==
  /\ S \in Solutions /\ b \in [excess : Nat, size : Nat]
  /\ b.excess # Unset => Whole(S)

Callers == {"construct", "fill", "fixed", "prize", "end"}

\* This is all there is to show between two runs of the loop.
LEMMA AtRestGood ==
  ASSUME problem \in Problems, NEW R \in Solutions, NEW p \in Pools, NEW S, NEW b,
         SaveIsGood(S, b), NEW c \in {"minimize", "repair", "done"},
         NEW cl \in Callers, c = "repair" => cl \in {"construct", "end"},
         NEW l \in Loops, l.mode = "none", l.failures + l.left <= IterationLimit + 1,
         NEW t \in Nat, AllServed(c, cl) => Whole(R), FeasibleOf(R, S, c, cl, l)
  PROVE  Good(R, p, S, b, c, cl, l, t)
<1>1. TypesOf(R, p, S, b, c, cl, l, t)
  BY DEF TypesOf, SaveIsGood, PCs, Callers
<1>2. ControlOf(c, cl, l)
  <2>1. OneOut(c) = 0 /\ l.failures \in Nat /\ l.left \in Nat
    BY DEF OneOut, Loops
  <2> QED BY <2>1 DEF ControlOf, InLoop
<1>3. PlacesOf(R, p, c)
  BY DEF PlacesOf, AtWork, InLoop
<1>4. WholeOf(R, S, b, c, cl, l)
  BY DEF WholeOf, SaveIsGood
<1> QED BY <1>1, <1>2, <1>3, <1>4 DEF Good

\* And this while it or the greedy insertion works.
LEMMA AtWorkGood ==
  ASSUME problem \in Problems, NEW R \in Solutions, NEW p \in Pools, NEW S, NEW b,
         SaveIsGood(S, b), NEW c \in AtWork, NEW cl \in Callers,
         NEW l \in Loops, ControlOf(c, cl, l), NEW t \in Nat,
         Apart(R), HoldsOnce(p, p.size + OneOut(c), Requests \ Served(R)),
         Feasible(R), l.mode = "minimize" => Whole(S) /\ Feasible(S)
  PROVE  Good(R, p, S, b, c, cl, l, t)
<1>1. TypesOf(R, p, S, b, c, cl, l, t)
  BY DEF TypesOf, SaveIsGood, PCs, Callers, AtWork, InLoop
<1>2. PlacesOf(R, p, c)
  BY DEF PlacesOf
<1>3. WholeOf(R, S, b, c, cl, l)
  BY DEF WholeOf, SaveIsGood, AllServed, AtWork, InLoop
<1>4. FeasibleOf(R, S, c, cl, l)
  BY DEF FeasibleOf, Generated, AtWork, InLoop
<1> QED BY <1>1, <1>2, <1>3, <1>4 DEF Good

\* The state in which fixed_route_loop leaves things: with a solution, or, when
\* all has failed, one that serves all or is feasible.
LEMMA FixedReturnsGood ==
  ASSUME Inv, NEW R \in Solutions, NEW success \in BOOLEAN,
         FixedReturns(success, R),
         success => Whole(R) /\ Feasible(R),
         ~success => IF problem.prize THEN Feasible(R) ELSE Whole(R),
         EP' \in Pools, SaveIsGood(saved', best')
  PROVE  Good(routes', EP', saved', best', pc', caller', loop', tries')
<1>1. /\ problem \in Problems /\ tries \in Nat
      /\ entry \in {"generate", "desired", "feasible"}
      /\ loop' = NoLoop /\ caller \in Callers
  BY NowFacts DEF TypesOf, FixedReturns, Callers
<1>2. problem.prize \in BOOLEAN /\ IterationLimit \in Nat
  BY <1>1, ProblemFacts, ConstantsAssumption
<1>3. NoLoop \in Loops /\ NoLoop.mode = "none" /\ NoLoop.failures + NoLoop.left = 0
  BY NoLoopFacts
<1>4. ASSUME NEW c \in {"minimize", "repair", "done"}, NEW cl \in Callers,
             NEW t \in Nat, NEW Q \in Solutions, c = "repair" => cl = "end",
             AllServed(c, cl) => Whole(Q),
             FeasibleOf(Q, saved', c, cl, NoLoop)
      PROVE  Good(Q, EP', saved', best', c, cl, NoLoop, t)
  BY <1>1, <1>2, <1>3, <1>4, AtRestGood
<1>5. CASE entry = "generate" /\ success
  <2>1. routes' = R /\ pc' = "minimize" /\ caller' = caller /\ tries' = tries
    BY <1>1, <1>5 DEF FixedReturns
  <2>2. FeasibleOf(R, saved', "minimize", caller, NoLoop)
    BY <1>3, <1>5 DEF FeasibleOf, Generated
  <2> QED BY <1>1, <1>4, <1>5, <2>1, <2>2
<1>6. CASE entry = "generate" /\ ~success
  <2> DEFINE W == WithoutEmpty(R)
  <2>1. routes' = W /\ Repair(W, "end")
    BY <1>1, <1>6 DEF FixedReturns
  <2>2. /\ W \in Solutions /\ Served(W) = Served(R)
        /\ Apart(R) => Apart(W)
        /\ Feasible(R) => Feasible(W)
        /\ \A v \in DOMAIN W : W[v] # {}
    BY WithoutEmptyFacts
  <2> HIDE DEF W
  <2>3. pc' = "repair" /\ caller' = "end" /\ tries' \in Nat
    BY <1>1, <2>1, <2>2, RepairFacts
  <2>4. FeasibleOf(W, saved', "repair", "end", NoLoop)
    BY <1>2, <1>3, <1>6, <2>2 DEF FeasibleOf, Generated
  <2>5. AllServed("repair", "end") => Whole(W)
    BY <1>2, <1>6, <2>2 DEF AllServed, Whole
  <2> QED BY <1>1, <1>4, <2>1, <2>2, <2>3, <2>4, <2>5 DEF Callers
<1>7. CASE entry = "desired"
  <2>1. routes' = R /\ Repair(R, "end")
    BY <1>1, <1>7 DEF FixedReturns
  <2>2. pc' = "repair" /\ caller' = "end" /\ tries' \in Nat
    BY <1>1, <2>1, RepairFacts
  <2>3. FeasibleOf(R, saved', "repair", "end", NoLoop)
    BY <1>3, <1>7 DEF FeasibleOf, Generated
  <2>4. AllServed("repair", "end") => Whole(R)
    BY <1>2 DEF AllServed
  <2> QED BY <1>1, <1>4, <2>1, <2>2, <2>3, <2>4 DEF Callers
<1>8. CASE entry = "feasible"
  <2>1. routes' = R /\ pc' = "done" /\ caller' = caller /\ tries' = tries
    BY <1>1, <1>8 DEF FixedReturns
  <2>2. FeasibleOf(R, saved', "done", caller, NoLoop)
    BY <1>3, <1>8 DEF FeasibleOf, Generated
  <2>3. AllServed("done", caller) => Whole(R)
    BY <1>2 DEF AllServed
  <2> QED BY <1>1, <1>4, <2>1, <2>2, <2>3
<1> QED BY <1>1, <1>5, <1>6, <1>7, <1>8

\* guided_ejection_search_loop starts.
LEMMA LoopStartsFacts ==
  ASSUME Inv, NEW mode \in {"fixed", "minimize"}, NEW R \in Solutions,
         mode = "minimize" => DOMAIN R # {}, NEW p \in Pools,
         LoopStarts(mode, R, p)
  PROVE  /\ pc' = "loop" /\ loop' \in Loops /\ loop'.mode = mode
         /\ loop'.failures + loop'.left <= IterationLimit + 1
         /\ best' \in [excess : Nat, size : Nat] /\ best'.excess = best.excess
<1> DEFINE n == Cardinality(Requests)
           k == Cardinality(DOMAIN R)
           left == IF mode = "fixed" THEN IterationLimit
                                     ELSE Min({IterationLimit, (n * n) \div k})
<1>1. /\ problem \in Problems /\ IterationLimit \in Nat /\ MaxMultiple \in Nat
      /\ best \in [excess : Nat, size : Nat]
  BY NowFacts, ConstantsAssumption DEF TypesOf
<1>2. n \in Nat /\ k \in Nat /\ IsFiniteSet(DOMAIN R)
  BY <1>1, ProblemFacts, VehicleCount
<1>3. mode = "minimize" => k # 0
  BY <1>2, FS_EmptySet
<1>4. /\ pc' = "loop"
      /\ loop' = [mode |-> mode, left |-> left,
                  multiple |-> Min({k, MaxMultiple}), failures |-> 1]
      /\ best' = [best EXCEPT !.size = Min({best.size, p.size})]
  BY DEF LoopStarts
<1> HIDE DEF n, k
<1>5. left \in 0..IterationLimit
  <2>1. CASE mode = "fixed"
    BY <1>1, <2>1
  <2>2. CASE mode = "minimize"
    <3>1. n * n \in Nat
      BY <1>2
    <3>2. (n * n) \div k \in Nat
      BY <1>2, <1>3, <2>2, <3>1
    <3>3. Min({IterationLimit, (n * n) \div k}) \in 0..IterationLimit
      BY <1>1, <3>2, MinFacts
    <3> QED BY <2>2, <3>3
  <2> QED BY <2>1, <2>2
<1>6. Min({k, MaxMultiple}) \in 0..MaxMultiple
  BY <1>1, <1>2, MinFacts
<1> HIDE DEF left
<1>7. loop' \in Loops
  BY <1>1, <1>4, <1>5, <1>6 DEF Loops
<1>8. loop'.mode = mode /\ loop'.failures + loop'.left <= IterationLimit + 1
  BY <1>1, <1>4, <1>5
<1>9. best' \in [excess : Nat, size : Nat] /\ best'.excess = best.excess
  <2>1. best.size \in Nat /\ p.size \in Nat
    BY <1>1, <1>2 DEF Pools, n
  <2>2. Min({best.size, p.size}) \in Nat
    BY <2>1, MinFacts
  <2> QED BY <1>1, <1>4, <2>2
<1> QED BY <1>4, <1>7, <1>8, <1>9

\* It succeeds with a feasible solution that serves all requests.
LEMMA LoopSucceedsGood ==
  ASSUME Inv, NEW R \in Solutions, Whole(R), Feasible(R), LoopSucceeds(R),
         EP' \in Pools, SaveIsGood(saved', best')
  PROVE  Good(routes', EP', saved', best', pc', caller', loop', tries')
<1>1. CASE loop.mode = "fixed"
  BY <1>1, FixedReturnsGood DEF LoopSucceeds
<1>2. CASE loop.mode # "fixed"
  <2>1. /\ routes' = R /\ pc' = "minimize" /\ loop' = NoLoop
        /\ caller' = caller /\ tries' = tries
    BY <1>2 DEF LoopSucceeds
  <2>2. problem \in Problems /\ caller \in Callers /\ tries \in Nat
    BY NowFacts DEF TypesOf, Callers
  <2>3. /\ NoLoop \in Loops /\ NoLoop.mode = "none"
        /\ NoLoop.failures + NoLoop.left <= IterationLimit + 1
    BY NoLoopFacts, ConstantsAssumption
  <2>4. FeasibleOf(R, saved', "minimize", caller, NoLoop)
    BY <2>3 DEF FeasibleOf, Generated
  <2> QED BY <2>1, <2>2, <2>3, <2>4, AtRestGood
<1> QED BY <1>1, <1>2

\* It fails: with the pool as it is, or with the solution that was saved.
LEMMA LoopFailsGood ==
  ASSUME Inv, pc \in InLoop, LoopFails, saved' = saved, best' = best,
         EP' \in Pools, HoldsOnce(EP', EP'.size, Requests \ Served(routes))
  PROVE  Good(routes', EP', saved', best', pc', caller', loop', tries')
<1>1. /\ problem \in Problems /\ caller \in Callers /\ tries \in Nat
      /\ routes \in Solutions /\ loop \in Loops /\ loop.mode # "none"
  BY NowFacts DEF TypesOf, Callers, ControlOf
<1>2. SaveIsGood(saved, best)
  BY NowFacts DEF SaveIsGood, TypesOf, WholeOf
<1>3. Apart(routes) /\ Feasible(routes)
  BY NowFacts DEF PlacesOf, FeasibleOf, AtWork, InLoop
<1>4. /\ NoLoop \in Loops /\ NoLoop.mode = "none"
      /\ NoLoop.failures + NoLoop.left <= IterationLimit + 1
      /\ NoLoop.failures \in Nat /\ NoLoop.left \in Nat
  BY NoLoopFacts, ConstantsAssumption DEF NoLoop
<1>5. caller' = caller /\ tries' = tries /\ loop' = NoLoop
  BY DEF LoopFails
<1>6. CASE loop.mode = "fixed"
  <2>1. pc' = "squeezeall" /\ routes' = routes
    BY <1>6 DEF LoopFails
  <2>2. ControlOf("squeezeall", caller, NoLoop)
    BY <1>4 DEF ControlOf, InLoop, OneOut
  <2>3. "squeezeall" \in AtWork
    BY DEF AtWork
  <2>4. HoldsOnce(EP', EP'.size + OneOut("squeezeall"), Requests \ Served(routes))
    <3>1. EP'.size \in Nat
      BY <1>1, ProblemFacts DEF Pools
    <3> QED BY <3>1 DEF OneOut
  <2>5. Good(routes, EP', saved, best, "squeezeall", caller, NoLoop, tries)
    BY <1>1, <1>2, <1>3, <1>4, <2>2, <2>3, <2>4, AtWorkGood
  <2> QED BY <1>5, <2>1, <2>5
<1>7. CASE loop.mode = "minimize"
  <2>1. pc' = "minimize" /\ routes' = saved
    BY <1>7 DEF LoopFails
  <2>2. Whole(saved) /\ Feasible(saved) /\ saved \in Solutions
    BY <1>7, NowFacts DEF WholeOf, FeasibleOf, TypesOf
  <2>3. FeasibleOf(saved, saved, "minimize", caller, NoLoop)
    BY <1>4, <2>2 DEF FeasibleOf, Generated
  <2>4. Good(saved, EP', saved, best, "minimize", caller, NoLoop, tries)
    BY <1>1, <1>2, <1>4, <2>2, <2>3, AtRestGood
  <2> QED BY <1>5, <2>1, <2>4
<1> QED BY <1>1, <1>6, <1>7 DEF Loops

-----------------------------------------------------------------------------
(* The actions: each leads from a state of the invariant to one of it.     *)

\* What holds while the loop or the greedy insertion works.
LEMMA WorkFacts ==
  ASSUME Inv, pc \in AtWork
  PROVE  /\ problem \in Problems
         /\ routes \in Solutions /\ Apart(routes) /\ Feasible(routes)
         /\ Served(routes) \in SUBSET Requests
         /\ EP \in Pools /\ EP.size \in 0..Cardinality(Requests)
         /\ EP.size \in Nat
         /\ HoldsOnce(EP, EP.size + OneOut(pc), Requests \ Served(routes))
         /\ SaveIsGood(saved, best)
         /\ loop.mode = "minimize" => Whole(saved) /\ Feasible(saved)
         /\ loop \in Loops /\ ControlOf(pc, caller, loop)
         /\ caller \in Callers /\ tries \in Nat
<1>1. /\ problem \in Problems
      /\ routes \in Solutions /\ EP \in Pools /\ loop \in Loops
      /\ caller \in Callers /\ tries \in Nat
  BY NowFacts DEF TypesOf, Callers
<1>2. Apart(routes)
      /\ HoldsOnce(EP, EP.size + OneOut(pc), Requests \ Served(routes))
  BY NowFacts DEF PlacesOf
<1>3. Feasible(routes) /\ (loop.mode = "minimize" => Feasible(saved))
  BY NowFacts DEF FeasibleOf, AtWork, InLoop
<1>4. SaveIsGood(saved, best) /\ (loop.mode = "minimize" => Whole(saved))
  BY NowFacts DEF SaveIsGood, TypesOf, WholeOf
<1>5. EP.size \in 0..Cardinality(Requests) /\ EP.size \in Nat
  BY <1>1, ProblemFacts DEF Pools
<1> QED BY <1>1, <1>2, <1>3, <1>4, <1>5, ServedInRequests, NowFacts

\* When no request is out.
LEMMA NoneOut ==
  ASSUME Inv, pc \in AtWork, OneOut(pc) = 0
  PROVE  HoldsOnce(EP, EP.size, Requests \ Served(routes))
<1>1. EP.size + OneOut(pc) = EP.size
  BY WorkFacts
<1> QED BY <1>1, WorkFacts

\* Requests inserted together are among the last ones of the pool, and leave it.
LEMMA MultipleFacts ==
  ASSUME problem \in Problems, EP \in Pools, NEW R \in Solutions, Apart(R),
         HoldsOnce(EP, EP.size, Requests \ Served(R)),
         NEW n \in 0..EP.size, NEW m \in MultipleInserted(R, n)
  PROVE  /\ m.routes \in Solutions /\ Apart(m.routes) /\ Feasible(m.routes)
         /\ Cardinality(m.inserted) \in 0..n
         /\ EjectInserted(EP, m.inserted, n) \in Pools
         /\ HoldsOnce(EjectInserted(EP, m.inserted, n),
                      EjectInserted(EP, m.inserted, n).size,
                      Requests \ Served(m.routes))
<1> DEFINE A == Requests \ Served(R)
           I == (EP.size - n + 1)..EP.size
<1>1. EP.size \in Nat /\ n \in Nat
  BY ProblemFacts DEF Pools
<1>2. I \subseteq 1..EP.size /\ IsFiniteSet(I) /\ Cardinality(I) = n
  <2>1. EP.size - n + 1 \in Int /\ EP.size \in Int /\ I \subseteq 1..EP.size
    BY <1>1
  <2>2. /\ IsFiniteSet(I)
        /\ Cardinality(I) = IF EP.size - n + 1 > EP.size THEN 0
                              ELSE EP.size - (EP.size - n + 1) + 1
    BY <2>1, FS_Interval
  <2> QED BY <1>1, <2>1, <2>2
<1>3. Top(n) \in SUBSET A
  BY <1>2 DEF Top, HoldsOnce, Content
<1>4. IsFiniteSet(Top(n)) /\ Cardinality(Top(n)) <= n
  <2> DEFINE f == [i \in I |-> EP.stack[i]]
  <2>1. f \in Surjection(I, Top(n))
    BY DEF Surjection, Top
  <2> HIDE DEF f, I
  <2> QED BY <1>2, <2>1, FS_Surjection
<1>5. PICK rs \in SUBSET Top(n) : \E S \in Extended(R, rs) :
        m = [routes |-> S, inserted |-> rs] /\ Feasible(S)
  BY DEF MultipleInserted
<1> DEFINE S == m.routes
<1>6. m.inserted = rs /\ S \in Extended(R, rs) /\ Feasible(S)
  BY <1>5
<1>7. Cardinality(rs) \in 0..n
  <2>1. IsFiniteSet(rs) /\ Cardinality(rs) <= Cardinality(Top(n))
    BY <1>4, FS_Subset
  <2>2. Cardinality(rs) \in Nat /\ Cardinality(Top(n)) \in Nat
    BY <1>4, <2>1, FS_CardinalityType
  <2> QED BY <1>1, <1>4, <2>1, <2>2
<1>8. /\ S \in Solutions /\ Apart(S) /\ Served(S) = Served(R) \cup rs
  <2>1. rs \in SUBSET Requests /\ rs \cap Served(R) = {}
    BY <1>3
  <2> HIDE DEF S
  <2> QED BY <1>6, <2>1, ExtendedFacts
<1>9. LET q == EjectInserted(EP, rs, n)
      IN  q \in Pools /\ HoldsOnce(q, q.size, A \ rs)
  <2>1. A \in SUBSET Requests
    OBVIOUS
  <2>2. rs \in SUBSET {EP.stack[i] : i \in (EP.size - n + 1)..EP.size}
    BY DEF Top
  <2> HIDE DEF A
  <2>3. HoldsOnce(EP, EP.size, A)
    BY DEF A
  <2> QED BY <2>1, <2>2, <2>3, EjectInsertedFacts
<1>10. A \ rs = Requests \ Served(S)
  BY <1>8
<1> QED BY <1>6, <1>7, <1>8, <1>9, <1>10

\* More vehicles, and the pool in another order.
LEMMA AddVehiclesGood ==
  ASSUME Inv, AddVehicles
  PROVE  Good(routes', EP', saved', best', pc', caller', loop', tries')
<1>1. /\ pc = "construct" /\ pc' = "greedy" /\ caller' = "construct"
      /\ EP' \in Shuffled(EP, EP.size)
      /\ saved' = saved /\ best' = best /\ loop' = loop /\ tries' = tries
  BY DEF AddVehicles
<1>2. PICK new \in SUBSET Vehicles : routes' = WithRoutes(routes, new)
  BY DEF AddVehicles, Unused
<1>3. pc \in AtWork /\ pc' \in AtWork /\ OneOut(pc) = 0 /\ OneOut(pc') = 0
  BY <1>1 DEF AtWork, OneOut
<1>4. /\ routes' \in Solutions /\ Apart(routes') /\ Feasible(routes')
      /\ Served(routes') = Served(routes)
  BY <1>2, <1>3, WorkFacts, WithRoutesFacts
<1>5. /\ EP' \in Pools /\ EP'.size = EP.size
      /\ HoldsOnce(EP', EP.size, Requests \ Served(routes))
  <2>1. {at \in SetToSeqs(1..EP.size) : IsEven(at, EP.size)}
          \in SUBSET SetToSeqs(1..EP.size)
    OBVIOUS
  <2>2. HoldsOnce(EP, EP.size, Requests \ Served(routes)) /\ EP \in Pools
        /\ problem \in Problems
    BY <1>3, NoneOut, WorkFacts
  <2> QED BY <1>1, <2>1, <2>2, PermutedFacts DEF Shuffled
<1>6. HoldsOnce(EP', EP'.size + OneOut(pc'), Requests \ Served(routes'))
  <2>1. EP'.size + OneOut(pc') = EP.size
    BY <1>3, <1>5, WorkFacts
  <2> QED BY <1>4, <1>5, <2>1
<1>7. ControlOf(pc', caller', loop)
  BY <1>1, <1>3, WorkFacts DEF ControlOf, InLoop
<1> QED BY <1>1, <1>3, <1>4, <1>5, <1>6, <1>7, WorkFacts, AtWorkGood DEF Callers

\* No vehicle is left, all the pool is tried.
LEMMA NoMoreVehiclesGood ==
  ASSUME Inv, NoMoreVehicles
  PROVE  Good(routes', EP', saved', best', pc', caller', loop', tries')
<1>1. /\ pc = "construct" /\ pc' = "greedy" /\ caller' = "fill"
      /\ routes' = routes /\ EP' = EP
      /\ saved' = saved /\ best' = best /\ loop' = loop /\ tries' = tries
  BY DEF NoMoreVehicles
<1>2. pc \in AtWork /\ pc' \in AtWork /\ OneOut(pc') = OneOut(pc)
  BY <1>1 DEF AtWork, OneOut
<1>3. ControlOf(pc', caller', loop)
  BY <1>1, <1>2, WorkFacts DEF ControlOf, InLoop
<1> QED BY <1>1, <1>2, <1>3, WorkFacts, AtWorkGood DEF Callers

\* An empty pool means that all requests are served.
LEMMA EmptyIsWhole ==
  ASSUME Inv, pc \in AtWork, OneOut(pc) = 0, EP.size = 0
  PROVE  Whole(routes)
<1>1. HoldsOnce(EP, 0, Requests \ Served(routes))
  BY NoneOut
<1>2. Requests \ Served(routes) = {}
  BY <1>1 DEF HoldsOnce, Content
<1> QED BY <1>2, WorkFacts DEF Whole

\* A pool is a pool when it is emptied, and when its size moves by one.
LEMMA SizeFacts ==
  ASSUME problem \in Problems, NEW p \in Pools
  PROVE  /\ EmptyPool(p) \in Pools
         /\ p.size > 0 => /\ PoppedOne(p) \in Pools
                          /\ PoppedOne(p).size = p.size - 1
                          /\ PoppedOne(p).stack = p.stack
         /\ p.size + 1 \in 0..Cardinality(Requests) =>
              /\ PushBackLast(p) \in Pools
              /\ PushBackLast(p).size = p.size + 1
              /\ PushBackLast(p).stack = p.stack
<1>1. p.size \in 0..Cardinality(Requests) /\ Cardinality(Requests) \in Nat
  BY ProblemFacts DEF Pools
<1>2. EmptyPool(p) \in Pools
  <2>1. 0 \in 0..Cardinality(Requests)
    BY <1>1
  <2> QED BY <2>1, ResizedFacts DEF EmptyPool
<1>3. ASSUME p.size > 0
      PROVE  /\ PoppedOne(p) \in Pools
             /\ PoppedOne(p).size = p.size - 1
             /\ PoppedOne(p).stack = p.stack
  <2>1. p.size - 1 \in 0..Cardinality(Requests)
    BY <1>1, <1>3
  <2>2. PoppedOne(p) = [p EXCEPT !.size = p.size - 1]
    BY DEF PoppedOne
  <2> QED BY <2>1, <2>2, ResizedFacts
<1>4. ASSUME p.size + 1 \in 0..Cardinality(Requests)
      PROVE  /\ PushBackLast(p) \in Pools
             /\ PushBackLast(p).size = p.size + 1
             /\ PushBackLast(p).stack = p.stack
  <2>1. PushBackLast(p) = [p EXCEPT !.size = p.size + 1]
    BY DEF PushBackLast
  <2> QED BY <1>4, <2>1, ResizedFacts
<1> QED BY <1>2, <1>3, <1>4

\* A greedy insertion.
LEMMA GreedyInsertGood ==
  ASSUME Inv, GreedyInsert
  PROVE  Good(routes', EP', saved', best', pc', caller', loop', tries')
<1>1. /\ pc = "greedy" /\ pc' = pc /\ caller' = caller
      /\ saved' = saved /\ best' = best /\ loop' = loop /\ tries' = tries
  BY DEF GreedyInsert
<1>2. PICK m \in MultipleInserted(routes, GreedyNumber) :
        /\ routes' = m.routes
        /\ EP' = EjectInserted(EP, m.inserted, GreedyNumber)
  BY DEF GreedyInsert
<1>3. pc \in AtWork /\ OneOut(pc) = 0
  BY <1>1 DEF AtWork, OneOut
<1>4. GreedyNumber \in 0..EP.size
  <2>1. Cardinality(DOMAIN routes) \in Nat
    BY <1>3, WorkFacts, VehicleCount
  <2>2. Min({Cardinality(DOMAIN routes), EP.size}) \in 0..EP.size
    BY <1>3, <2>1, WorkFacts, MinFacts
  <2> QED BY <1>3, <2>2, WorkFacts DEF GreedyNumber
<1>5. /\ routes' \in Solutions /\ Apart(routes') /\ Feasible(routes')
      /\ EP' \in Pools /\ HoldsOnce(EP', EP'.size, Requests \ Served(routes'))
  BY <1>2, <1>3, <1>4, WorkFacts, NoneOut, MultipleFacts
<1>6. HoldsOnce(EP', EP'.size + OneOut(pc'), Requests \ Served(routes'))
  <2>1. EP'.size \in Nat
    BY <1>3, <1>5, WorkFacts, ProblemFacts DEF Pools
  <2>2. EP'.size + OneOut(pc') = EP'.size
    BY <1>1, <1>3, <2>1
  <2> QED BY <1>5, <2>2
<1> QED BY <1>1, <1>3, <1>5, <1>6, WorkFacts, AtWorkGood

\* It has inserted all.
LEMMA GreedyFoundGood ==
  ASSUME Inv, GreedyFound
  PROVE  Good(routes', EP', saved', best', pc', caller', loop', tries')
<1>1. /\ pc = "greedy" /\ EP.size = 0
      /\ EP' = EP /\ saved' = saved /\ best' = best
  BY DEF GreedyFound
<1>2. pc \in AtWork /\ OneOut(pc) = 0
  BY <1>1 DEF AtWork, OneOut
<1>3. Whole(routes)
  BY <1>1, <1>2, EmptyIsWhole
<1>4. /\ loop.mode = "none" /\ (caller = "prize" => problem.prize)
      /\ loop.failures + loop.left <= IterationLimit + 1
  <2>1. ControlOf("greedy", caller, loop) /\ loop \in Loops /\ OneOut("greedy") = 0
    BY <1>1, <1>2, WorkFacts
  <2>2. loop.failures \in Nat /\ loop.left \in Nat
    BY <2>1, ConstantsAssumption DEF Loops
  <2> QED BY <2>1, <2>2 DEF ControlOf, InLoop
<1>5. CASE caller = "construct"
  <2>1. routes' = routes /\ loop' = loop /\ Repair(routes, "construct")
    BY <1>5 DEF GreedyFound
  <2>2. pc' = "repair" /\ caller' = "construct" /\ tries' \in Nat
    BY <1>2, <2>1, WorkFacts, RepairFacts
  <2>3. FeasibleOf(routes, saved, "repair", "construct", loop)
    BY <1>2, <1>4, WorkFacts DEF FeasibleOf, Generated
  <2> QED BY <1>1, <1>2, <1>3, <1>4, <2>1, <2>2, <2>3, WorkFacts, AtRestGood
        DEF Callers
<1>6. CASE caller = "fill"
  <2>1. /\ pc' = "minimize" /\ routes' = routes /\ caller' = caller
        /\ loop' = loop /\ tries' = tries
    BY <1>6 DEF GreedyFound
  <2>2. FeasibleOf(routes, saved, "minimize", caller, loop)
    BY <1>2, <1>4, WorkFacts DEF FeasibleOf, Generated
  <2> QED BY <1>1, <1>2, <1>3, <1>4, <2>1, <2>2, WorkFacts, AtRestGood
<1>7. CASE caller \in {"fixed", "prize"}
  <2> DEFINE success == caller = "fixed"
  <2>1. FixedReturns(success, routes)
    BY <1>7 DEF GreedyFound
  <2>2. ~success => problem.prize
    BY <1>4, <1>7
  <2>3. success \in BOOLEAN
    OBVIOUS
  <2> HIDE DEF success
  <2> QED BY <1>1, <1>2, <1>3, <2>1, <2>2, <2>3, WorkFacts, FixedReturnsGood
<1> QED BY <1>5, <1>6, <1>7 DEF GreedyFound

\* It can insert no more.
LEMMA GreedyFailsGood ==
  ASSUME Inv, GreedyFails
  PROVE  Good(routes', EP', saved', best', pc', caller', loop', tries')
<1>1. pc = "greedy" /\ EP.size > 0 /\ saved' = saved
  BY DEF GreedyFails
<1>2. pc \in AtWork /\ OneOut(pc) = 0
  BY <1>1 DEF AtWork, OneOut
<1>3. loop.mode = "none" /\ (caller = "prize" => problem.prize)
  BY <1>1, <1>2, WorkFacts DEF ControlOf, InLoop
<1>4. CASE caller = "construct"
  <2>1. /\ routes' \in Perturbed(routes) /\ pc' = "construct" /\ EP' = EP
        /\ caller' = caller /\ loop' = loop /\ best' = best /\ tries' = tries
    BY <1>4 DEF GreedyFails
  <2>2. /\ routes' \in Solutions /\ Apart(routes') /\ Feasible(routes')
        /\ Served(routes') = Served(routes)
    BY <1>2, <2>1, WorkFacts, PerturbedFacts
  <2>3. pc' \in AtWork /\ OneOut(pc') = OneOut(pc)
    BY <1>2, <2>1 DEF AtWork, OneOut
  <2>4. ControlOf(pc', caller, loop)
    BY <1>1, <1>2, <2>1, <2>3, WorkFacts DEF ControlOf, InLoop
  <2> QED BY <1>1, <1>2, <2>1, <2>2, <2>3, <2>4, WorkFacts, AtWorkGood
<1>5. CASE caller = "fill"
  <2>1. /\ caller' = "fixed" /\ routes' = routes /\ EP' = EP
        /\ pc' = pc /\ loop' = loop /\ best' = best /\ tries' = tries
    BY <1>5 DEF GreedyFails
  <2>2. ControlOf(pc, "fixed", loop)
    BY <1>1, <1>2, WorkFacts DEF ControlOf, InLoop
  <2> QED BY <1>1, <1>2, <2>1, <2>2, WorkFacts, AtWorkGood DEF Callers
<1>6. CASE caller = "fixed"
  <2>1. /\ LoopStarts("fixed", routes, EP) /\ routes' = routes /\ EP' = EP
        /\ caller' = caller /\ tries' = tries
    BY <1>6 DEF GreedyFails
  <2>2. /\ pc' = "loop" /\ loop' \in Loops /\ loop'.mode = "fixed"
        /\ loop'.failures + loop'.left <= IterationLimit + 1
        /\ best' \in [excess : Nat, size : Nat] /\ best'.excess = best.excess
    BY <1>2, <2>1, WorkFacts, LoopStartsFacts
  <2>3. pc' \in AtWork /\ OneOut(pc') = OneOut(pc)
    BY <1>2, <2>2 DEF AtWork, OneOut, InLoop
  <2>4. ControlOf(pc', caller, loop')
    <3>1. loop'.failures \in Nat /\ loop'.left \in Nat
      BY <2>2, ConstantsAssumption DEF Loops
    <3> QED BY <1>2, <2>2, <2>3, <3>1 DEF ControlOf, InLoop
  <2>5. SaveIsGood(saved, best')
    BY <1>2, <2>2, WorkFacts DEF SaveIsGood
  <2>6. loop'.mode # "minimize"
    BY <2>2
  <2> QED BY <1>1, <1>2, <2>1, <2>2, <2>3, <2>4, <2>5, <2>6, WorkFacts, AtWorkGood
<1>7. CASE caller = "prize"
  <2>1. FixedReturns(FALSE, routes) /\ EP' = EmptyPool(EP) /\ best' = best
    BY <1>7 DEF GreedyFails
  <2>2. EP' \in Pools
    BY <1>2, <2>1, WorkFacts, SizeFacts
  <2> QED BY <1>1, <1>2, <1>3, <1>7, <2>1, <2>2, WorkFacts, FixedReturnsGood
<1> QED BY <1>4, <1>5, <1>6, <1>7 DEF GreedyFails

\* The loop has inserted all, or has to stop.
LEMMA LoopEndsGood ==
  ASSUME Inv, LoopEnds \/ LoopStops
  PROVE  Good(routes', EP', saved', best', pc', caller', loop', tries')
<1>1. /\ pc = "loop" /\ EP' = EP /\ saved' = saved /\ best' = best
  BY DEF LoopEnds, LoopStops
<1>2. pc \in AtWork /\ pc \in InLoop /\ OneOut(pc) = 0
  BY <1>1 DEF AtWork, InLoop, OneOut
<1>3. CASE LoopEnds
  <2>1. EP.size = 0 /\ LoopSucceeds(routes)
    BY <1>3 DEF LoopEnds
  <2>2. Whole(routes)
    BY <1>2, <2>1, EmptyIsWhole
  <2> QED BY <1>1, <1>2, <2>1, <2>2, WorkFacts, LoopSucceedsGood
<1>4. CASE LoopStops
  <2>1. LoopFails
    BY <1>4 DEF LoopStops
  <2> QED BY <1>1, <1>2, <2>1, WorkFacts, NoneOut, LoopFailsGood
<1> QED BY <1>3, <1>4

\* R with the request r on the route of v, and without others of that route.
Put(R, v, out, r) == [R EXCEPT ![v] = (R[v] \ out) \cup {r}]

\* A request goes on the route of v, from which some others go.
LEMMA PutFacts ==
  ASSUME problem \in Problems, NEW R \in Solutions, Apart(R), Feasible(R),
         NEW v \in DOMAIN R, NEW out \in SUBSET R[v],
         NEW r \in Requests \ Served(R), Fits(v, (R[v] \ out) \cup {r})
  PROVE  /\ Put(R, v, out, r) \in Solutions
         /\ Apart(Put(R, v, out, r)) /\ Feasible(Put(R, v, out, r))
         /\ Served(Put(R, v, out, r)) = (Served(R) \ out) \cup {r}
<1> DEFINE S == Put(R, v, out, r)
<1>1. DOMAIN R \in SUBSET Vehicles /\ R \in [DOMAIN R -> SUBSET Requests]
  BY SolutionIs
<1>2. DOMAIN S = DOMAIN R /\ S \in [DOMAIN R -> SUBSET Requests]
  BY <1>1 DEF Put
<1>3. /\ S[v] = (R[v] \ out) \cup {r}
      /\ \A u \in DOMAIN R : u # v => S[u] = R[u]
  BY <1>1 DEF Put
<1> HIDE DEF S
<1>4. S \in Solutions
  BY <1>1, <1>2, SolutionIs
<1>5. \A u \in DOMAIN R : r \notin R[u]
  BY ServedIs
<1>6. Apart(S)
  BY <1>2, <1>3, <1>5 DEF Apart
<1>7. Feasible(S)
  BY <1>2, <1>3 DEF Feasible
<1>8. ASSUME NEW x PROVE x \in Served(S) <=> x \in (Served(R) \ out) \cup {r}
  <2>1. x \in Served(S) <=> \E u \in DOMAIN R : x \in S[u]
    BY <1>2, ServedIs
  <2>2. x \in Served(R) <=> \E u \in DOMAIN R : x \in R[u]
    BY ServedIs
  <2>3. x \in out => \A u \in DOMAIN R : x \in R[u] => u = v
    BY DEF Apart
  <2> QED BY <1>3, <2>1, <2>2, <2>3
<1>9. Served(S) = (Served(R) \ out) \cup {r}
  BY <1>8
<1> QED BY <1>4, <1>6, <1>7, <1>9 DEF S

\* One iteration less.
LEMMA NextIterationFacts ==
  ASSUME Inv, Searching, NEW n \in 0..MaxMultiple, NEW l,
         l \in {NextIteration, [NextIteration EXCEPT !.multiple = n]}
  PROVE  /\ l \in Loops /\ l.mode = loop.mode
         /\ ControlOf("loop", caller, l) /\ ControlOf("popped", caller, l)
<1>1. pc = "loop" /\ loop.left > 0
  BY DEF Searching
<1>2. pc \in AtWork /\ OneOut(pc) = 0
  BY <1>1 DEF AtWork, InLoop, OneOut
<1>3. loop \in Loops /\ ControlOf(pc, caller, loop) /\ IterationLimit \in Nat
      /\ MaxMultiple \in Nat
  BY <1>2, WorkFacts, ConstantsAssumption
<1>4. /\ loop.left \in 0..IterationLimit /\ loop.failures \in Nat
      /\ loop.mode # "none"
      /\ loop.failures + loop.left <= IterationLimit + 1
  BY <1>1, <1>2, <1>3 DEF Loops, ControlOf, InLoop
<1>5. loop.left - 1 \in 0..IterationLimit
  BY <1>1, <1>3, <1>4
<1>6. l \in Loops /\ l.mode = loop.mode /\ l.left = loop.left - 1
      /\ l.failures = loop.failures
  BY <1>3, <1>5 DEF Loops, NextIteration
<1>7. l.failures + l.left + 1 <= IterationLimit + 1
      /\ l.failures + l.left + 0 <= IterationLimit + 1
  BY <1>3, <1>4, <1>6
<1> QED BY <1>4, <1>6, <1>7 DEF ControlOf, InLoop, OneOut

\* Some of the last requests are inserted at once.
LEMMA InsertMultipleGood ==
  ASSUME Inv, InsertMultiple
  PROVE  Good(routes', EP', saved', best', pc', caller', loop', tries')
<1> DEFINE n == Min({loop.multiple, EP.size})
<1>1. /\ Searching /\ pc' = pc /\ caller' = caller
      /\ saved' = saved /\ best' = best /\ tries' = tries
  BY DEF InsertMultiple
<1>2. PICK S \in Perturbed(routes) : \E m \in MultipleInserted(S, n) :
        /\ routes' = m.routes
        /\ EP' = EjectInserted(EP, m.inserted, n)
        /\ loop' = [NextIteration EXCEPT !.multiple = Cardinality(m.inserted)]
  BY DEF InsertMultiple
<1>3. PICK m \in MultipleInserted(S, n) :
        /\ routes' = m.routes
        /\ EP' = EjectInserted(EP, m.inserted, n)
        /\ loop' = [NextIteration EXCEPT !.multiple = Cardinality(m.inserted)]
  BY <1>2
<1>4. pc = "loop" /\ pc \in AtWork /\ OneOut(pc) = 0
  BY <1>1 DEF Searching, AtWork, InLoop, OneOut
<1>5. /\ S \in Solutions /\ Apart(S) /\ Served(S) = Served(routes)
      /\ HoldsOnce(EP, EP.size, Requests \ Served(S))
  BY <1>4, WorkFacts, NoneOut, PerturbedFacts
<1>6. n \in 0..EP.size /\ n \in 0..MaxMultiple /\ n \in Nat /\ MaxMultiple \in Nat
  <2>1. loop.multiple \in 0..MaxMultiple /\ EP.size \in Nat /\ MaxMultiple \in Nat
    BY <1>4, WorkFacts, ConstantsAssumption DEF Loops
  <2>2. n \in Nat /\ n <= loop.multiple /\ n <= EP.size
    BY <2>1, MinFacts
  <2> QED BY <2>1, <2>2
<1> HIDE DEF n
<1>7. /\ routes' \in Solutions /\ Apart(routes') /\ Feasible(routes')
      /\ EP' \in Pools /\ HoldsOnce(EP', EP'.size, Requests \ Served(routes'))
      /\ Cardinality(m.inserted) \in 0..n
  BY <1>3, <1>4, <1>5, <1>6, WorkFacts, MultipleFacts
<1>8. Cardinality(m.inserted) \in 0..MaxMultiple
  BY <1>6, <1>7
<1>9. loop' \in Loops /\ loop'.mode = loop.mode /\ ControlOf(pc', caller', loop')
  <2>1. loop' \in {NextIteration,
                   [NextIteration EXCEPT !.multiple = Cardinality(m.inserted)]}
    BY <1>3
  <2> QED BY <1>1, <1>4, <1>8, <2>1, NextIterationFacts
<1>10. HoldsOnce(EP', EP'.size + OneOut(pc'), Requests \ Served(routes'))
  <2>1. EP'.size \in Nat
    BY <1>4, <1>7, WorkFacts, ProblemFacts DEF Pools
  <2>2. EP'.size + OneOut(pc') = EP'.size
    BY <1>1, <1>4, <2>1
  <2> QED BY <1>7, <2>2
<1> QED BY <1>1, <1>4, <1>7, <1>9, <1>10, WorkFacts, AtWorkGood

\* A request is popped, and goes wherever it fits.
LEMMA InsertSingleGood ==
  ASSUME Inv, InsertSingle
  PROVE  Good(routes', EP', saved', best', pc', caller', loop', tries')
<1> DEFINE n == EP.size - 1
           r == EP.stack[EP.size]
           A == Requests \ Served(routes)
<1>1. /\ Searching /\ EP' = PoppedOne(EP) /\ loop' = NextIteration
      /\ caller' = caller /\ saved' = saved /\ best' = best /\ tries' = tries
  BY DEF InsertSingle
<1>2. PICK S \in Perturbed(routes) :
        \/ routes' = S /\ pc' = "popped"
        \/ /\ \E v \in {v \in DOMAIN S : Fits(v, S[v] \cup {r})} :
                routes' = [S EXCEPT ![v] = @ \cup {r}]
           /\ pc' = pc
  BY DEF InsertSingle
<1>3. pc = "loop" /\ pc \in AtWork /\ OneOut(pc) = 0 /\ EP.size > 0
  BY <1>1 DEF Searching, AtWork, InLoop, OneOut
<1>4. /\ S \in Solutions /\ Apart(S) /\ Feasible(S) /\ Served(S) = Served(routes)
  BY <1>3, WorkFacts, PerturbedFacts
<1>5. n \in Nat /\ EP.size = n + 1
  BY <1>3, WorkFacts
<1>6. EP' \in Pools /\ EP'.size = n /\ EP'.stack = EP.stack
  BY <1>1, <1>3, WorkFacts, SizeFacts
<1>7. /\ HoldsOnce(EP, n + 1, A)
      /\ r \in A /\ HoldsOnce(EP, n, A \ {r})
  <2>1. HoldsOnce(EP, n + 1, A)
    BY <1>3, <1>5, NoneOut
  <2>2. r = EP.stack[n + 1]
    BY <1>5
  <2> HIDE DEF n, A, r
  <2> QED BY <1>3, <1>5, <2>1, <2>2, WorkFacts, PoppedFacts
<1> HIDE DEF n
<1>8. /\ loop' \in Loops /\ loop'.mode = loop.mode
      /\ ControlOf("loop", caller, loop') /\ ControlOf("popped", caller, loop')
  <2>1. 0 \in 0..MaxMultiple /\ loop' \in {NextIteration, [NextIteration EXCEPT !.multiple = 0]}
    BY <1>1, ConstantsAssumption
  <2> QED BY <1>1, <2>1, NextIterationFacts
<1>9. CASE routes' = S /\ pc' = "popped"
  <2>1. pc' \in AtWork /\ OneOut(pc') = 1
    BY <1>9 DEF AtWork, InLoop, OneOut
  <2>2. HoldsOnce(EP', EP'.size + OneOut(pc'), Requests \ Served(routes'))
    <3>1. HoldsOnce(EP', n + 1, A)
      BY <1>6, <1>7, SamePlaces
    <3> QED BY <1>4, <1>6, <1>9, <2>1, <3>1
  <2> QED BY <1>1, <1>3, <1>4, <1>6, <1>8, <1>9, <2>1, <2>2, WorkFacts, AtWorkGood
<1>10. ASSUME NEW v \in DOMAIN S, Fits(v, S[v] \cup {r}),
              routes' = [S EXCEPT ![v] = @ \cup {r}], pc' = pc
       PROVE  Good(routes', EP', saved', best', pc', caller', loop', tries')
  <2>1. S[v] \cup {r} = (S[v] \ {}) \cup {r} /\ {} \in SUBSET S[v]
    OBVIOUS
  <2>2. /\ r \in Requests \ Served(S)
        /\ routes' = [S EXCEPT ![v] = (S[v] \ {}) \cup {r}]
        /\ Fits(v, (S[v] \ {}) \cup {r})
    BY <1>4, <1>7, <1>10, <2>1
  <2> DEFINE none == {}
  <2> HIDE DEF r, none
  <2>3. /\ routes' \in Solutions /\ Apart(routes') /\ Feasible(routes')
        /\ Served(routes') = (Served(S) \ none) \cup {r}
    <3>1. /\ none \in SUBSET S[v] /\ Fits(v, (S[v] \ none) \cup {r})
          /\ routes' = Put(S, v, none, r)
      BY <1>10, <2>1, <2>2 DEF none, Put
    <3>2. problem \in Problems /\ v \in DOMAIN S
      BY <1>3, <1>10, WorkFacts
    <3>3. r \in Requests \ Served(S)
      BY <2>2
    <3> QED BY <1>4, <3>1, <3>2, <3>3, PutFacts
  <2>4. Requests \ Served(routes') = A \ {r}
    BY <1>4, <2>3 DEF none
  <2>5. HoldsOnce(EP', EP'.size + OneOut(pc'), Requests \ Served(routes'))
    <3>1. HoldsOnce(EP', n, A \ {r})
      BY <1>6, <1>7, SamePlaces
    <3>2. EP'.size + OneOut(pc') = n
      BY <1>3, <1>5, <1>6, <1>10
    <3> QED BY <2>4, <3>1, <3>2
  <2> QED BY <1>1, <1>3, <1>6, <1>8, <1>10, <2>3, <2>5, WorkFacts, AtWorkGood
<1> QED BY <1>2, <1>9, <1>10

\* What the popped request is while it is out.
LEMMA OutFacts ==
  ASSUME Inv, pc \in {"popped", "eject"}
  PROVE  /\ pc \in AtWork /\ pc \in InLoop /\ OneOut(pc) = 1
         /\ Popped \in Requests \ Served(routes)
         /\ HoldsOnce(EP, EP.size + 1, Requests \ Served(routes))
         /\ HoldsOnce(EP, EP.size, (Requests \ Served(routes)) \ {Popped})
         /\ loop.mode \in {"fixed", "minimize"}
         /\ loop.failures \in Nat /\ loop.left \in 0..IterationLimit
         /\ loop.failures + loop.left <= IterationLimit
<1>1. pc \in AtWork /\ pc \in InLoop /\ OneOut(pc) = 1
  BY DEF AtWork, InLoop, OneOut
<1>2. HoldsOnce(EP, EP.size + 1, Requests \ Served(routes))
  BY <1>1, WorkFacts
<1>3. /\ Popped \in Requests \ Served(routes)
      /\ HoldsOnce(EP, EP.size, (Requests \ Served(routes)) \ {Popped})
  BY <1>1, <1>2, WorkFacts, PoppedFacts DEF Popped
<1>4. loop \in Loops /\ ControlOf(pc, caller, loop) /\ IterationLimit \in Nat
  BY <1>1, WorkFacts, ConstantsAssumption
<1>5. /\ loop.mode \in {"fixed", "minimize"}
      /\ loop.failures \in Nat /\ loop.left \in 0..IterationLimit
      /\ loop.failures + loop.left + 1 <= IterationLimit + 1
  BY <1>1, <1>4 DEF Loops, ControlOf
<1>6. loop.failures + loop.left <= IterationLimit
  BY <1>4, <1>5
<1> QED BY <1>1, <1>2, <1>3, <1>5, <1>6

\* A squeeze that serves the popped request too.
LEMMA SqueezedInFacts ==
  ASSUME Inv, pc \in {"popped", "eject"}, NEW S \in SqueezedIn
  PROVE  /\ S \in Solutions /\ Apart(S) /\ Feasible(S)
         /\ Served(S) = Served(routes) \cup {Popped}
<1>1. S \in Arranged(routes, Served(routes) \cup {Popped}) /\ Feasible(S)
  BY DEF SqueezedIn
<1>2. Served(routes) \cup {Popped} \in SUBSET Requests /\ routes \in Solutions
  BY OutFacts, WorkFacts
<1> QED BY <1>1, <1>2, ArrangedFacts

\* The last request of the pool is squeezed in, or others have to go.
LEMMA SqueezeLastGood ==
  ASSUME Inv, SqueezeLast
  PROVE  Good(routes', EP', saved', best', pc', caller', loop', tries')
<1>1. /\ pc = "popped" /\ EP.size = 0
      /\ EP' = EP /\ saved' = saved /\ best' = best
  BY DEF SqueezeLast
<1>2. pc \in AtWork /\ OneOut(pc) = 1
  BY <1>1, OutFacts
<1>3. ASSUME NEW S \in SqueezedIn, LoopSucceeds(S)
      PROVE  Good(routes', EP', saved', best', pc', caller', loop', tries')
  <2>1. /\ S \in Solutions /\ Apart(S) /\ Feasible(S)
        /\ Served(S) = Served(routes) \cup {Popped}
    BY <1>1, <1>3, SqueezedInFacts
  <2>2. (Requests \ Served(routes)) \ {Popped} = {}
    <3>1. HoldsOnce(EP, 0, (Requests \ Served(routes)) \ {Popped})
      BY <1>1, OutFacts
    <3> QED BY <3>1 DEF HoldsOnce, Content
  <2>3. Whole(S)
    <3>1. Served(S) \in SUBSET Requests
      BY <2>1, ServedInRequests
    <3> QED BY <2>1, <2>2, <3>1 DEF Whole
  <2> QED BY <1>1, <1>2, <1>3, <2>1, <2>3, WorkFacts, LoopSucceedsGood
<1>4. CASE /\ pc' = "eject" /\ routes' = routes /\ caller' = caller
           /\ loop' = loop /\ tries' = tries
  <2>1. pc' \in AtWork /\ OneOut(pc') = OneOut(pc)
    BY <1>2, <1>4 DEF AtWork, InLoop, OneOut
  <2>2. ControlOf(pc', caller, loop)
    BY <1>1, <1>2, <1>4, <2>1, WorkFacts DEF ControlOf, InLoop
  <2> QED BY <1>1, <1>2, <1>4, <2>1, <2>2, WorkFacts, AtWorkGood
<1> QED BY <1>3, <1>4 DEF SqueezeLast

\* It is not time to squeeze.
LEMMA SkipSqueezeGood ==
  ASSUME Inv, SkipSqueeze
  PROVE  Good(routes', EP', saved', best', pc', caller', loop', tries')
<1>1. /\ pc = "popped" /\ pc' = "eject"
      /\ routes' = routes /\ EP' = EP /\ caller' = caller /\ saved' = saved
      /\ best' = best /\ loop' = loop /\ tries' = tries
  BY DEF SkipSqueeze
<1>2. pc \in AtWork /\ pc' \in AtWork /\ OneOut(pc') = OneOut(pc)
  BY <1>1 DEF AtWork, InLoop, OneOut
<1>3. ControlOf(pc', caller, loop)
  BY <1>1, <1>2, WorkFacts DEF ControlOf, InLoop
<1> QED BY <1>1, <1>2, <1>3, WorkFacts, AtWorkGood

\* Back in the loop with fewer failures.
LEMMA BackInLoop ==
  ASSUME Inv, pc = "eject", NEW m \in Nat, m <= loop.failures + 1, NEW l,
         l = [loop EXCEPT !.failures = m]
  PROVE  l \in Loops /\ l.mode = loop.mode /\ ControlOf("loop", caller, l)
<1>1. /\ pc \in AtWork /\ pc \in InLoop /\ loop.mode \in {"fixed", "minimize"}
      /\ loop.failures \in Nat /\ loop.left \in 0..IterationLimit
      /\ loop.failures + loop.left <= IterationLimit
      /\ IterationLimit \in Nat
  BY OutFacts, ConstantsAssumption
<1>2. loop \in Loops
  BY <1>1, WorkFacts
<1>3. m \in 0..(IterationLimit + 1)
  BY <1>1
<1>4. l \in Loops /\ l.mode = loop.mode /\ l.failures = m /\ l.left = loop.left
  BY <1>2, <1>3 DEF Loops
<1>5. l.failures + l.left + 0 <= IterationLimit + 1
  BY <1>1, <1>4
<1> QED BY <1>1, <1>4, <1>5 DEF ControlOf, InLoop, OneOut

\* The popped request goes on a route, some others of which go over its place.
LEMMA EjectGood ==
  ASSUME Inv, Eject
  PROVE  Good(routes', EP', saved', best', pc', caller', loop', tries')
<1>1. /\ pc = "eject" /\ pc' = "loop" /\ loop' = [loop EXCEPT !.failures = 1]
      /\ caller' = caller /\ saved' = saved /\ best' = best /\ tries' = tries
  BY DEF Eject
<1>2. PICK v \in DOMAIN routes : \E out \in (SUBSET routes[v]) \ {{}} :
        /\ Fits(v, (routes[v] \ out) \cup {Popped})
        /\ routes' = [routes EXCEPT ![v] = (routes[v] \ out) \cup {Popped}]
        /\ EP' \in Ejected(EP, out)
  BY DEF Eject
<1>3. PICK out \in SUBSET routes[v] :
        /\ Fits(v, (routes[v] \ out) \cup {Popped})
        /\ routes' = [routes EXCEPT ![v] = (routes[v] \ out) \cup {Popped}]
        /\ EP' \in Ejected(EP, out)
  BY <1>2
<1> DEFINE A == (Requests \ Served(routes)) \ {Popped}
<1>4. /\ problem \in Problems
      /\ routes \in Solutions /\ Apart(routes) /\ Feasible(routes)
      /\ Popped \in Requests \ Served(routes)
      /\ HoldsOnce(EP, EP.size, A) /\ EP \in Pools /\ pc \in AtWork
  BY <1>1, OutFacts, WorkFacts
<1>5. /\ routes' = Put(routes, v, out, Popped)
      /\ Fits(v, (routes[v] \ out) \cup {Popped})
  BY <1>3 DEF Put
<1>6. /\ routes' \in Solutions /\ Apart(routes') /\ Feasible(routes')
      /\ Served(routes') = (Served(routes) \ out) \cup {Popped}
  <2> HIDE DEF A
  <2> QED BY <1>4, <1>5, PutFacts
<1>7. out \in SUBSET Served(routes) /\ out \in SUBSET Requests
  <2>1. out \in SUBSET Served(routes)
    BY ServedIs
  <2> QED BY <1>4, <2>1, WorkFacts
<1>8. EP' \in Pools /\ HoldsOnce(EP', EP'.size, A \cup out)
  <2>1. A \in SUBSET Requests /\ A \cap out = {}
    BY <1>7
  <2>2. EP' \in Pushed(EP, EP.size, out)
    BY <1>3 DEF Ejected
  <2> HIDE DEF A
  <2> QED BY <1>4, <1>7, <2>1, <2>2, PushedFacts
<1>9. A \cup out = Requests \ Served(routes')
  BY <1>4, <1>6, <1>7
<1>10. pc' \in AtWork /\ HoldsOnce(EP', EP'.size + OneOut(pc'), Requests \ Served(routes'))
  <2>1. EP'.size \in Nat /\ OneOut(pc') = 0 /\ pc' \in AtWork
    BY <1>1, <1>4, <1>8, ProblemFacts DEF Pools, OneOut, AtWork, InLoop
  <2>2. EP'.size + OneOut(pc') = EP'.size
    BY <2>1
  <2> QED BY <1>8, <1>9, <2>1, <2>2
<1>11. loop' \in Loops /\ loop'.mode = loop.mode /\ ControlOf(pc', caller, loop')
  <2>1. 1 \in Nat /\ 1 <= loop.failures + 1
    BY <1>1, OutFacts
  <2> QED BY <1>1, <2>1, BackInLoop
<1> QED BY <1>1, <1>4, <1>6, <1>8, <1>10, <1>11, WorkFacts, AtWorkGood

\* The popped request is squeezed in before the pool is shuffled.
LEMMA EjectSqueezedGood ==
  ASSUME Inv, EjectSqueezed
  PROVE  Good(routes', EP', saved', best', pc', caller', loop', tries')
<1>1. /\ pc = "eject" /\ pc' = "loop" /\ loop' = [loop EXCEPT !.failures = 1]
      /\ routes' \in SqueezedIn /\ EP' = EP
      /\ caller' = caller /\ saved' = saved /\ best' = best /\ tries' = tries
  BY DEF EjectSqueezed
<1>2. /\ routes' \in Solutions /\ Apart(routes') /\ Feasible(routes')
      /\ Served(routes') = Served(routes) \cup {Popped}
  BY <1>1, SqueezedInFacts
<1>3. pc \in AtWork /\ HoldsOnce(EP, EP.size, (Requests \ Served(routes)) \ {Popped})
  BY <1>1, OutFacts
<1>4. pc' \in AtWork /\ HoldsOnce(EP', EP'.size + OneOut(pc'), Requests \ Served(routes'))
  <2>1. OneOut(pc') = 0 /\ pc' \in AtWork
    BY <1>1 DEF OneOut, AtWork, InLoop
  <2>2. EP'.size + OneOut(pc') = EP.size
    BY <1>1, <1>3, <2>1, WorkFacts
  <2>3. (Requests \ Served(routes)) \ {Popped} = Requests \ Served(routes')
    BY <1>2
  <2> QED BY <1>1, <1>3, <2>1, <2>2, <2>3
<1>5. loop' \in Loops /\ loop'.mode = loop.mode /\ ControlOf(pc', caller, loop')
  <2>1. 1 \in Nat /\ 1 <= loop.failures + 1
    BY <1>1, OutFacts
  <2> QED BY <1>1, <2>1, BackInLoop
<1> QED BY <1>1, <1>2, <1>3, <1>4, <1>5, WorkFacts, AtWorkGood

\* No ejection: the request goes back, perhaps into another order.
LEMMA EjectFailsGood ==
  ASSUME Inv, EjectFails
  PROVE  Good(routes', EP', saved', best', pc', caller', loop', tries')
<1> DEFINE A == Requests \ Served(routes)
           n == EP.size + 1
<1>1. pc = "eject" /\ saved' = saved /\ best' = best
  BY DEF EjectFails
<1>2. PICK p \in IF Interval THEN Shuffled(EP, EP.size + 1) ELSE {EP} :
        EP' = PushBackLast(p)
  BY DEF EjectFails
<1>3. /\ problem \in Problems /\ EP \in Pools /\ EP.size \in Nat /\ pc \in AtWork
      /\ pc \in InLoop /\ HoldsOnce(EP, n, A) /\ n \in 0..Cardinality(Requests)
  BY <1>1, OutFacts, WorkFacts DEF HoldsOnce
<1>4. p \in Pools /\ p.size = EP.size /\ HoldsOnce(p, n, A)
  <2>1. CASE Interval
    <3>1. /\ p \in Permuted(EP, n, {at \in SetToSeqs(1..n) : IsEven(at, n)})
          /\ {at \in SetToSeqs(1..n) : IsEven(at, n)} \in SUBSET SetToSeqs(1..n)
          /\ A \in SUBSET Requests
      BY <1>2, <2>1 DEF Shuffled
    <3> HIDE DEF A, n
    <3> QED BY <1>3, <3>1, PermutedFacts
  <2>2. CASE ~Interval
    BY <1>2, <1>3, <2>2
  <2> QED BY <2>1, <2>2
<1>5. EP' \in Pools /\ EP'.size = n /\ HoldsOnce(EP', EP'.size, A)
  <2>1. EP' \in Pools /\ EP'.size = n /\ EP'.stack = p.stack
    BY <1>2, <1>3, <1>4, SizeFacts
  <2> QED BY <1>4, <2>1, SamePlaces
<1> HIDE DEF n
<1>6. CASE LoopFails
  BY <1>1, <1>3, <1>5, <1>6, LoopFailsGood
<1>7. CASE /\ loop' = [loop EXCEPT !.failures = @ + 1] /\ pc' = "loop"
           /\ routes' = routes /\ caller' = caller /\ tries' = tries
  <2>1. pc' \in AtWork /\ OneOut(pc') = 0 /\ EP'.size \in Nat
    BY <1>3, <1>5, <1>7 DEF AtWork, InLoop, OneOut, n
  <2>2. HoldsOnce(EP', EP'.size + OneOut(pc'), A)
    <3>1. EP'.size + OneOut(pc') = EP'.size
      BY <2>1
    <3> QED BY <1>5, <3>1
  <2>3. loop' \in Loops /\ loop'.mode = loop.mode /\ ControlOf(pc', caller', loop')
    <3>1. /\ loop.failures + 1 \in Nat /\ loop.failures + 1 <= loop.failures + 1
          /\ loop' = [loop EXCEPT !.failures = loop.failures + 1]
      BY <1>1, <1>7, OutFacts
    <3> QED BY <1>1, <1>7, <3>1, BackInLoop
  <2> QED BY <1>1, <1>3, <1>5, <1>7, <2>1, <2>2, <2>3, WorkFacts, AtWorkGood
<1> QED BY <1>6, <1>7 DEF EjectFails

\* A squeeze of all that is in the pool serves all requests.
LEMMA SqueezedAllFacts ==
  ASSUME Inv, pc \in AtWork, NEW p \in Pools,
         HoldsOnce(p, p.size, Requests \ Served(routes)), NEW S \in SqueezedAll(p)
  PROVE  S \in Solutions /\ Whole(S) /\ Excess(S) \in Nat /\ Excess(S) < Unset
<1>1. Served(routes) \cup {p.stack[i] : i \in 1..p.size} = Requests
  BY WorkFacts DEF HoldsOnce, Content
<1>2. S \in Arranged(routes, Requests) /\ Requests \in SUBSET Requests
  BY <1>1 DEF SqueezedAll
<1>3. S \in Solutions /\ Apart(S) /\ Served(S) = Requests
  BY <1>2, WorkFacts, ArrangedFacts
<1> QED BY <1>3, WorkFacts, ExcessFacts DEF Whole

\* After it the save serves all requests.
LEMMA SaveSqueezedFacts ==
  ASSUME Inv, pc \in AtWork, NEW S \in Solutions, Whole(S), Excess(S) \in Nat,
         Excess(S) < Unset, NEW size \in Nat, SaveSqueezed(S, size)
  PROVE  SaveIsGood(saved', best') /\ Whole(saved') /\ saved' \in Solutions
<1>1. /\ saved \in Solutions /\ best \in [excess : Nat, size : Nat]
      /\ best.excess # Unset => Whole(saved)
  BY WorkFacts DEF SaveIsGood
<1>2. Unset \in Nat
  BY ConstantsAssumption
<1>3. CASE Excess(S) < best.excess
  <2>1. saved' = S /\ best' = [excess |-> Excess(S), size |-> size]
    BY <1>3 DEF SaveSqueezed
  <2> QED BY <2>1 DEF SaveIsGood
<1>4. CASE ~(Excess(S) < best.excess)
  <2>1. saved' = saved /\ best' = [best EXCEPT !.size = size]
    BY <1>4 DEF SaveSqueezed
  <2>2. best.excess # Unset
    BY <1>1, <1>2, <1>4
  <2>3. best' \in [excess : Nat, size : Nat]
    BY <1>1, <2>1
  <2> QED BY <1>1, <2>1, <2>2, <2>3 DEF SaveIsGood
<1> QED BY <1>3, <1>4

\* All of the pool is squeezed in, or it gets another order.
LEMMA SqueezePoolGood ==
  ASSUME Inv, SqueezePool
  PROVE  Good(routes', EP', saved', best', pc', caller', loop', tries')
<1> DEFINE A == Requests \ Served(routes)
           p == PushBackLast(EP)
<1>1. pc = "popped" /\ TimeToSqueeze(p.size)
  BY DEF SqueezePool
<1>2. PICK S \in SqueezedAll(p) :
        \/ /\ Feasible(S)
           /\ EP' = EmptyPool(EP)
           /\ LoopSucceeds(S)
           /\ best' = [best EXCEPT !.size = p.size]
           /\ saved' = saved
        \/ /\ ~Feasible(S)
           /\ SaveSqueezed(S, p.size)
           /\ \E q \in Reordered(p, p.size) : EP' = PoppedOne(q)
           /\ pc' = "eject"
           /\ routes' = routes /\ caller' = caller
           /\ loop' = loop /\ tries' = tries
  BY DEF SqueezePool
<1>3. /\ problem \in Problems /\ EP \in Pools /\ EP.size \in Nat /\ pc \in AtWork
      /\ pc \in InLoop /\ HoldsOnce(EP, EP.size + 1, A)
      /\ EP.size + 1 \in 0..Cardinality(Requests) /\ OneOut(pc) = 1
  BY <1>1, OutFacts, WorkFacts DEF HoldsOnce
<1>4. p \in Pools /\ p.size = EP.size + 1 /\ p.stack = EP.stack /\ p.size \in Nat
  BY <1>3, SizeFacts
<1> HIDE DEF p
<1>5. HoldsOnce(p, p.size, A)
  BY <1>3, <1>4, SamePlaces
<1>6. S \in Solutions /\ Whole(S) /\ Excess(S) \in Nat /\ Excess(S) < Unset
  BY <1>3, <1>4, <1>5, SqueezedAllFacts
<1>7. CASE /\ Feasible(S) /\ EP' = EmptyPool(EP) /\ LoopSucceeds(S)
           /\ best' = [best EXCEPT !.size = p.size] /\ saved' = saved
  <2>1. EP' \in Pools
    BY <1>3, <1>7, SizeFacts
  <2>2. SaveIsGood(saved', best')
    BY <1>3, <1>4, <1>7, WorkFacts DEF SaveIsGood
  <2> QED BY <1>6, <1>7, <2>1, <2>2, LoopSucceedsGood
<1>8. CASE /\ SaveSqueezed(S, p.size)
           /\ \E q \in Reordered(p, p.size) : EP' = PoppedOne(q)
           /\ pc' = "eject" /\ routes' = routes /\ caller' = caller
           /\ loop' = loop /\ tries' = tries
  <2>1. SaveIsGood(saved', best')
    BY <1>3, <1>4, <1>6, <1>8, SaveSqueezedFacts
  <2>2. PICK q \in Reordered(p, p.size) : EP' = PoppedOne(q)
    BY <1>8
  <2>3. q \in Pools /\ q.size = p.size /\ HoldsOnce(q, p.size, A)
    <3>1. /\ q \in Permuted(p, p.size, SetToSeqs(1..p.size))
          /\ SetToSeqs(1..p.size) \in SUBSET SetToSeqs(1..p.size)
          /\ A \in SUBSET Requests
      BY <2>2 DEF Reordered
    <3> HIDE DEF A
    <3> QED BY <1>3, <1>4, <1>5, <3>1, PermutedFacts
  <2>4. EP' \in Pools /\ EP'.size = EP.size /\ EP'.stack = q.stack
    BY <1>3, <1>4, <2>2, <2>3, SizeFacts
  <2>5. pc' \in AtWork /\ OneOut(pc') = 1
    BY <1>8 DEF AtWork, InLoop, OneOut
  <2>6. HoldsOnce(EP', EP'.size + OneOut(pc'), A)
    BY <1>4, <2>3, <2>4, <2>5, SamePlaces
  <2>7. ControlOf(pc', caller, loop)
    BY <1>1, <1>3, <1>8, <2>5, WorkFacts DEF ControlOf, InLoop
  <2>8. loop.mode # "minimize"
    BY <1>1 DEF TimeToSqueeze
  <2> QED BY <1>3, <1>8, <2>1, <2>4, <2>5, <2>6, <2>7, <2>8, WorkFacts, AtWorkGood
<1> QED BY <1>2, <1>7, <1>8

\* The squeeze when the loop has failed.
LEMMA SqueezeAtEndGood ==
  ASSUME Inv, SqueezeAtEnd
  PROVE  Good(routes', EP', saved', best', pc', caller', loop', tries')
<1> DEFINE A == Requests \ Served(routes)
<1>1. pc = "squeezeall"
  BY DEF SqueezeAtEnd
<1>2. PICK S \in SqueezedAll(EP) :
        \/ /\ Feasible(S)
           /\ FixedReturns(TRUE, S)
           /\ EP' = EmptyPool(EP)
           /\ saved' = saved /\ best' = best
        \/ /\ ~Feasible(S) /\ ~problem.prize
           /\ SaveSqueezed(S, best.size)
           /\ FixedReturns(FALSE, saved')
           /\ EP' = EmptyPool(EP)
        \/ /\ ~Feasible(S) /\ problem.prize
           /\ SaveSqueezed(S, best.size)
           /\ EP' \in Reordered(EP, EP.size)
           /\ pc' = "greedy" /\ caller' = "prize"
           /\ routes' = routes /\ loop' = loop /\ tries' = tries
  BY DEF SqueezeAtEnd
<1>3. /\ pc \in AtWork /\ OneOut(pc) = 0
  BY <1>1 DEF AtWork, OneOut
<1>4. /\ problem \in Problems /\ EP \in Pools /\ EP.size \in Nat
      /\ HoldsOnce(EP, EP.size, A) /\ best.size \in Nat
      /\ EmptyPool(EP) \in Pools
  BY <1>3, WorkFacts, NoneOut, SizeFacts DEF SaveIsGood
<1>5. S \in Solutions /\ Whole(S) /\ Excess(S) \in Nat /\ Excess(S) < Unset
  BY <1>3, <1>4, SqueezedAllFacts
<1>6. CASE /\ Feasible(S) /\ FixedReturns(TRUE, S) /\ EP' = EmptyPool(EP)
           /\ saved' = saved /\ best' = best
  BY <1>3, <1>4, <1>5, <1>6, WorkFacts, FixedReturnsGood
<1>7. CASE /\ ~problem.prize /\ SaveSqueezed(S, best.size)
           /\ FixedReturns(FALSE, saved') /\ EP' = EmptyPool(EP)
  <2>1. SaveIsGood(saved', best') /\ Whole(saved') /\ saved' \in Solutions
    BY <1>3, <1>4, <1>5, <1>7, SaveSqueezedFacts
  <2> QED BY <1>4, <1>7, <2>1, FixedReturnsGood
<1>8. CASE /\ problem.prize /\ SaveSqueezed(S, best.size)
           /\ EP' \in Reordered(EP, EP.size)
           /\ pc' = "greedy" /\ caller' = "prize"
           /\ routes' = routes /\ loop' = loop /\ tries' = tries
  <2>1. SaveIsGood(saved', best')
    BY <1>3, <1>4, <1>5, <1>8, SaveSqueezedFacts
  <2>2. EP' \in Pools /\ EP'.size = EP.size /\ HoldsOnce(EP', EP.size, A)
    <3>1. /\ EP' \in Permuted(EP, EP.size, SetToSeqs(1..EP.size))
          /\ SetToSeqs(1..EP.size) \in SUBSET SetToSeqs(1..EP.size)
          /\ A \in SUBSET Requests
      BY <1>8 DEF Reordered
    <3> HIDE DEF A
    <3> QED BY <1>4, <3>1, PermutedFacts
  <2>3. pc' \in AtWork /\ OneOut(pc') = 0
    BY <1>8 DEF AtWork, OneOut
  <2>4. HoldsOnce(EP', EP'.size + OneOut(pc'), A)
    <3>1. EP'.size + OneOut(pc') = EP.size
      BY <1>4, <2>2, <2>3
    <3> QED BY <2>2, <3>1
  <2>5. ControlOf(pc', caller', loop) /\ loop.mode # "minimize"
    BY <1>1, <1>3, <1>8, <2>3, WorkFacts DEF ControlOf, InLoop
  <2> QED BY <1>3, <1>4, <1>8, <2>1, <2>2, <2>3, <2>4, <2>5, WorkFacts, AtWorkGood
        DEF Callers
<1> QED BY <1>2, <1>6, <1>7, <1>8

\* The largest of two numbers.
LEMMA MaxFacts ==
  ASSUME NEW m \in Nat, NEW n \in Nat
  PROVE  Max({m, n}) \in Nat /\ Max({m, n}) >= m /\ Max({m, n}) >= n
<1>1. CASE m >= n
  <2>1. m \in {m, n} /\ \A y \in {m, n} : m >= y
    BY <1>1
  <2> QED BY <2>1 DEF Max
<1>2. CASE ~(m >= n)
  <2>1. n \in {m, n} /\ \A y \in {m, n} : n >= y
    BY <1>2
  <2> QED BY <2>1 DEF Max
<1> QED BY <1>1, <1>2

\* What holds between two rounds of the minimizer.
LEMMA MinimizeFacts ==
  ASSUME Inv, pc = "minimize"
  PROVE  /\ problem \in Problems /\ routes \in Solutions /\ Whole(routes)
         /\ Feasible(routes) \/ ExceededBy(routes)
         /\ EP \in Pools /\ SaveIsGood(saved, best) /\ loop \in Loops
         /\ loop.mode = "none" /\ loop.failures + loop.left <= IterationLimit + 1
         /\ caller \in Callers /\ tries \in Nat
<1>1. /\ problem \in Problems /\ routes \in Solutions /\ EP \in Pools
      /\ loop \in Loops /\ caller \in Callers /\ tries \in Nat
      /\ SaveIsGood(saved, best)
  BY NowFacts DEF TypesOf, Callers, SaveIsGood, WholeOf
<1>2. Whole(routes) /\ (Feasible(routes) \/ ExceededBy(routes))
  BY NowFacts DEF WholeOf, AllServed, FeasibleOf
<1>3. loop.mode = "none" /\ loop.failures + loop.left + 0 <= IterationLimit + 1
  BY NowFacts DEF ControlOf, InLoop, OneOut
<1>4. loop.failures \in Nat /\ loop.left \in Nat
  BY <1>1, ConstantsAssumption DEF Loops
<1> QED BY <1>1, <1>2, <1>3, <1>4

\* A route is removed from a solution that does not need all of its vehicles.
LEMMA RemoveRouteGood ==
  ASSUME Inv, RemoveRoute
  PROVE  Good(routes', EP', saved', best', pc', caller', loop', tries')
<1>1. /\ pc = "minimize" /\ MoreRoutes /\ saved' = routes
      /\ caller' = caller /\ tries' = tries
  BY DEF RemoveRoute
<1>2. PICK v \in DOMAIN routes :
        /\ routes' = Without(routes, v)
        /\ \E p \in Pushed(EP, 0, routes[v]) :
             /\ EP' = p
             /\ IF p.size = 0 THEN UNCHANGED <<pc, loop, best>>
                  ELSE LoopStarts("minimize", routes', p)
  BY DEF RemoveRoute
<1>3. /\ EP' \in Pushed(EP, 0, routes[v])
      /\ IF EP'.size = 0 THEN pc' = pc /\ loop' = loop /\ best' = best
           ELSE LoopStarts("minimize", routes', EP')
  BY <1>2
<1>4. /\ problem \in Problems /\ routes \in Solutions /\ Whole(routes)
      /\ Feasible(routes) \/ ExceededBy(routes)
      /\ EP \in Pools /\ SaveIsGood(saved, best) /\ loop \in Loops
      /\ loop.mode = "none" /\ loop.failures + loop.left <= IterationLimit + 1
      /\ caller \in Callers /\ tries \in Nat
  BY <1>1, MinimizeFacts
<1>5. /\ IsFiniteSet(NonEmpty) /\ Cardinality(NonEmpty) \in Nat
      /\ Cardinality(NonEmpty) > 1 /\ Cardinality(NonEmpty) > problem.min
      /\ problem.min \in Nat
  <2>1. IsFiniteSet(NonEmpty) /\ Cardinality(NonEmpty) \in Nat
    <3>1. NonEmpty \in SUBSET DOMAIN routes
      BY DEF NonEmpty
    <3> QED BY <1>4, <3>1, VehicleCount
  <2>2. problem.min \in Nat
    BY <1>4, ProblemFacts
  <2>3. /\ Max({1, problem.min}) \in Nat /\ Max({1, problem.min}) >= 1
        /\ Max({1, problem.min}) >= problem.min
    BY <2>2, MaxFacts
  <2>4. Cardinality(NonEmpty) > Max({1, problem.min})
    BY <1>1 DEF MoreRoutes
  <2> QED BY <2>1, <2>2, <2>3, <2>4
<1>6. Feasible(routes)
  BY <1>4, <1>5 DEF ExceededBy, NonEmpty
<1>7. /\ routes' \in Solutions /\ Apart(routes') /\ Feasible(routes')
      /\ Served(routes') = Requests \ routes[v]
      /\ DOMAIN routes' = DOMAIN routes \ {v}
  BY <1>2, <1>4, <1>6, WithoutFacts DEF Whole
<1>8. routes[v] \in SUBSET Requests /\ Requests \ Served(routes') = routes[v]
  BY <1>4, <1>7, SolutionIs
<1>9. EP' \in Pools /\ EP'.size \in Nat /\ HoldsOnce(EP', EP'.size, routes[v])
  <2>1. HoldsOnce(EP, 0, {})
    <3>1. 0 \in 0..Cardinality(Requests)
      BY <1>4, ProblemFacts
    <3> QED BY <3>1 DEF HoldsOnce, Distinct, Content
  <2>2. {} \in SUBSET Requests /\ {} \cap routes[v] = {}
        /\ {} \cup routes[v] = routes[v]
    OBVIOUS
  <2> DEFINE none == {}
  <2> HIDE DEF none
  <2>3. HoldsOnce(EP, 0, none) /\ none \in SUBSET Requests /\ none \cap routes[v] = {}
        /\ none \cup routes[v] = routes[v]
    BY <2>1, <2>2 DEF none
  <2>4. EP' \in Pools /\ HoldsOnce(EP', EP'.size, none \cup routes[v])
    BY <1>3, <1>4, <1>8, <2>3, PushedFacts
  <2>5. EP'.size \in Nat
    BY <1>4, <2>4, ProblemFacts DEF Pools
  <2> QED BY <2>3, <2>4, <2>5
<1>10. CASE EP'.size = 0
  <2>1. pc' = "minimize" /\ loop' = loop /\ best' = best
    BY <1>1, <1>3, <1>10
  <2>2. routes[v] = {}
    BY <1>9, <1>10 DEF HoldsOnce, Content
  <2>3. Whole(routes')
    BY <1>7, <2>2 DEF Whole
  <2>4. SaveIsGood(routes, best)
    BY <1>4 DEF SaveIsGood
  <2>5. FeasibleOf(routes', routes, "minimize", caller, loop)
    BY <1>4, <1>7 DEF FeasibleOf, Generated
  <2> QED BY <1>1, <1>4, <1>7, <1>9, <2>1, <2>3, <2>4, <2>5, AtRestGood
<1>11. CASE EP'.size # 0
  <2>1. LoopStarts("minimize", routes', EP')
    BY <1>3, <1>11
  <2>2. DOMAIN routes' # {}
    <3> SUFFICES ASSUME DOMAIN routes' = {} PROVE FALSE
      OBVIOUS
    <3>1. NonEmpty \in SUBSET {v}
      BY <1>7 DEF NonEmpty
    <3>2. IsFiniteSet({v}) /\ Cardinality({v}) = 1
      BY FS_Singleton
    <3>3. Cardinality(NonEmpty) <= 1
      BY <3>1, <3>2, FS_Subset
    <3> QED BY <1>5, <3>3
  <2>3. /\ pc' = "loop" /\ loop' \in Loops /\ loop'.mode = "minimize"
        /\ loop'.failures + loop'.left <= IterationLimit + 1
        /\ best' \in [excess : Nat, size : Nat] /\ best'.excess = best.excess
    BY <1>7, <1>9, <2>1, <2>2, LoopStartsFacts
  <2>4. pc' \in AtWork /\ OneOut(pc') = 0
    BY <2>3 DEF AtWork, OneOut, InLoop
  <2>5. ControlOf(pc', caller, loop')
    <3>1. loop'.failures \in Nat /\ loop'.left \in Nat
      BY <2>3, ConstantsAssumption DEF Loops
    <3> QED BY <2>3, <2>4, <3>1 DEF ControlOf, InLoop
  <2>6. SaveIsGood(routes, best')
    BY <1>4, <2>3 DEF SaveIsGood
  <2>7. HoldsOnce(EP', EP'.size + OneOut(pc'), Requests \ Served(routes'))
    <3>1. EP'.size + OneOut(pc') = EP'.size
      BY <1>9, <2>4
    <3> QED BY <1>8, <1>9, <3>1
  <2> QED BY <1>1, <1>4, <1>6, <1>7, <1>9, <2>3, <2>4, <2>5, <2>6, <2>7, AtWorkGood
<1> QED BY <1>10, <1>11

\* The minimizer ends.
LEMMA MinimizerEndsGood ==
  ASSUME Inv, MinimizerEnds
  PROVE  Good(routes', EP', saved', best', pc', caller', loop', tries')
<1> DEFINE W == WithoutEmpty(routes)
<1>1. /\ pc = "minimize" /\ routes' = W /\ Repair(W, "end") /\ EP' = EP
      /\ saved' = saved /\ best' = best /\ loop' = loop
  BY DEF MinimizerEnds
<1>2. /\ problem \in Problems /\ routes \in Solutions /\ Whole(routes)
      /\ Feasible(routes) \/ ExceededBy(routes)
      /\ EP \in Pools /\ SaveIsGood(saved, best) /\ loop \in Loops
      /\ loop.mode = "none" /\ loop.failures + loop.left <= IterationLimit + 1
  BY <1>1, MinimizeFacts
<1>3. /\ W \in Solutions /\ Served(W) = Served(routes)
      /\ Apart(routes) => Apart(W)
      /\ Feasible(routes) => Feasible(W)
      /\ DOMAIN W = {v \in DOMAIN routes : routes[v] # {}}
      /\ \A v \in DOMAIN W : W[v] = routes[v]
  BY <1>2, WithoutEmptyFacts
<1> HIDE DEF W
<1>4. pc' = "repair" /\ caller' = "end" /\ tries' \in Nat
  BY <1>1, <1>2, <1>3, RepairFacts
<1>5. Feasible(W) \/ ExceededBy(W)
  <2>1. {v \in DOMAIN W : W[v] # {}} = {v \in DOMAIN routes : routes[v] # {}}
    BY <1>3
  <2> QED BY <1>2, <1>3, <2>1 DEF ExceededBy
<1>6. FeasibleOf(W, saved, "repair", "end", loop)
  BY <1>2, <1>3, <1>5 DEF FeasibleOf, Generated
<1>7. Whole(W)
  BY <1>2, <1>3 DEF Whole
<1> QED BY <1>1, <1>2, <1>3, <1>4, <1>6, <1>7, AtRestGood DEF Callers

\* What holds while routes are repaired.
LEMMA RepairingFacts ==
  ASSUME Inv, pc = "repair"
  PROVE  /\ problem \in Problems /\ routes \in Solutions
         /\ EP \in Pools /\ SaveIsGood(saved, best) /\ loop \in Loops
         /\ loop.mode = "none" /\ loop.failures + loop.left <= IterationLimit + 1
         /\ caller \in {"construct", "end"} /\ caller \in Callers /\ tries \in Nat
         /\ AllServed(pc, caller) => Whole(routes)
         /\ FeasibleOf(routes, saved, pc, caller, loop)
<1>1. /\ problem \in Problems /\ routes \in Solutions /\ EP \in Pools
      /\ loop \in Loops /\ caller \in Callers /\ tries \in Nat
      /\ SaveIsGood(saved, best)
  BY NowFacts DEF TypesOf, Callers, SaveIsGood, WholeOf
<1>2. AllServed(pc, caller) => Whole(routes)
  BY NowFacts DEF WholeOf
<1>3. /\ loop.mode = "none" /\ loop.failures + loop.left + 0 <= IterationLimit + 1
      /\ caller \in {"construct", "end"}
  BY NowFacts DEF ControlOf, InLoop, OneOut
<1>4. loop.failures \in Nat /\ loop.left \in Nat
  BY <1>1, ConstantsAssumption DEF Loops
<1> QED BY <1>1, <1>2, <1>3, <1>4, NowFacts

\* A request moves to an empty route: all that were served are, and if it is
\* too much there the vehicles in use are not more than they have to be.
LEMMA RepairMoveGood ==
  ASSUME Inv, RepairMove
  PROVE  Good(routes', EP', saved', best', pc', caller', loop', tries')
<1>1. /\ Repairing /\ tries' = tries - 1
      /\ EP' = EP /\ saved' = saved /\ best' = best /\ pc' = pc
      /\ caller' = caller /\ loop' = loop
  BY DEF RepairMove
<1>2. PICK move \in Movable :
        routes' = [v \in DOMAIN routes |->
                     IF v = move[2] THEN {move[1]} ELSE routes[v] \ {move[1]}]
  BY DEF RepairMove
<1> DEFINE r == move[1]
           w == move[2]
<1>3. r \in Requests /\ w \in DOMAIN routes /\ w \notin NonEmpty
  BY DEF Movable
<1>4. /\ pc = "repair" /\ tries > 0 /\ Cardinality(NonEmpty) < problem.min
  BY <1>1 DEF Repairing
<1>5. /\ problem \in Problems /\ routes \in Solutions
      /\ EP \in Pools /\ SaveIsGood(saved, best) /\ loop \in Loops
      /\ loop.mode = "none" /\ loop.failures + loop.left <= IterationLimit + 1
      /\ caller \in {"construct", "end"} /\ caller \in Callers /\ tries \in Nat
      /\ AllServed(pc, caller) => Whole(routes)
      /\ FeasibleOf(routes, saved, pc, caller, loop)
  BY <1>4, RepairingFacts
<1>6. /\ DOMAIN routes' = DOMAIN routes /\ routes[w] = {}
      /\ routes'[w] = {r}
      /\ \A v \in DOMAIN routes : v # w => routes'[v] = routes[v] \ {r}
  BY <1>2, <1>3 DEF NonEmpty
<1> HIDE DEF r, w
<1>7. /\ DOMAIN routes \in SUBSET Vehicles
      /\ \A v \in DOMAIN routes : routes[v] \in SUBSET Requests
  BY <1>5, SolutionIs
<1>8. routes' \in Solutions
  <2>1. routes' = [v \in DOMAIN routes' |-> routes'[v]]
    BY <1>2
  <2>2. \A v \in DOMAIN routes' : routes'[v] \in SUBSET Requests
    BY <1>3, <1>6, <1>7
  <2>3. routes' \in [DOMAIN routes' -> SUBSET Requests]
    BY <2>1, <2>2
  <2> QED BY <1>6, <1>7, <2>3, SolutionIs
<1>9. AllServed(pc', caller') => Whole(routes')
  <2> SUFFICES ASSUME Whole(routes) PROVE Whole(routes')
    BY <1>1, <1>5
  <2>1. ASSUME NEW x \in Requests PROVE x \in Served(routes')
    <3>1. PICK v \in DOMAIN routes : x \in routes[v]
      BY <2>1, ServedIs DEF Whole
    <3>2. x # r => v # w /\ x \in routes'[v]
      BY <1>6, <3>1
    <3>3. x = r => x \in routes'[w]
      BY <1>6
    <3> QED BY <1>3, <1>6, <3>2, <3>3, ServedIs
  <2>2. Apart(routes')
    BY <1>6 DEF Whole, Apart
  <2> QED BY <1>8, <2>1, <2>2, ServedInRequests DEF Whole
<1>10. ~Generated(pc, caller)
  <2>1. Generated(pc, caller) => \A v \in DOMAIN routes : routes[v] # {}
    BY <1>5 DEF FeasibleOf
  <2> QED BY <1>3, <1>6, <2>1
<1>11. caller = "construct" => Feasible(routes') \/ ExceededBy(routes')
  <2> SUFFICES ASSUME caller = "construct"
               PROVE  Feasible(routes') \/ ExceededBy(routes')
    OBVIOUS
  <2>1. Whole(routes) /\ (Feasible(routes) \/ ExceededBy(routes))
    BY <1>4, <1>5 DEF AllServed, FeasibleOf
  <2>2. CASE \A x \in Requests, v \in Vehicles : Fits(v, {x})
    <3>1. Feasible(routes)
      BY <2>1, <2>2 DEF ExceededBy
    <3>2. ASSUME NEW v \in DOMAIN routes, v # w PROVE Fits(v, routes[v] \ {r})
      <4>1. /\ v \in Vehicles /\ routes[v] \in SUBSET Requests
            /\ routes[v] \ {r} \in SUBSET routes[v] /\ Fits(v, routes[v])
        BY <1>7, <3>1 DEF Feasible
      <4> QED BY <1>5, <4>1, FitsFacts
    <3>3. Fits(w, {r})
      BY <1>3, <1>7, <2>2
    <3> QED BY <1>6, <3>2, <3>3 DEF Feasible
  <2>3. CASE \E x \in Requests, v \in Vehicles : ~Fits(v, {x})
    <3> DEFINE used == {v \in DOMAIN routes' : routes'[v] # {}}
    <3>1. /\ IsFiniteSet(NonEmpty) /\ Cardinality(NonEmpty) \in Nat
          /\ problem.min \in Nat
      <4>1. NonEmpty \in SUBSET DOMAIN routes
        BY DEF NonEmpty
      <4> QED BY <1>5, <4>1, VehicleCount, ProblemFacts
    <3>2. Cardinality(NonEmpty) # 0
      <4>1. PICK x \in Requests : TRUE
        BY <1>5, ProblemFacts
      <4>2. PICK v \in DOMAIN routes : x \in routes[v]
        BY <2>1, <4>1, ServedIs DEF Whole
      <4>3. NonEmpty # {}
        BY <4>2 DEF NonEmpty
      <4> QED BY <3>1, <4>3, FS_EmptySet
    <3>3. Cardinality(used) <= Cardinality(NonEmpty) + 1
      <4>1. used \in SUBSET (NonEmpty \cup {w})
        BY <1>6 DEF NonEmpty
      <4>2. /\ IsFiniteSet(NonEmpty \cup {w})
            /\ Cardinality(NonEmpty \cup {w}) = Cardinality(NonEmpty) + 1
        BY <1>3, <3>1, FS_AddElement
      <4>3. Cardinality(used) <= Cardinality(NonEmpty \cup {w})
        BY <4>1, <4>2, FS_Subset
      <4> QED BY <4>2, <4>3
    <3>4. Cardinality(used) \in Nat
      <4>1. used \in SUBSET DOMAIN routes'
        OBVIOUS
      <4> QED BY <1>5, <1>8, <4>1, VehicleCount
    <3>5. problem.min > 1 /\ Cardinality(used) <= problem.min
      BY <1>4, <3>1, <3>2, <3>3, <3>4
    <3> QED BY <2>3, <3>5 DEF ExceededBy
  <2> QED BY <2>2, <2>3
<1>12. FeasibleOf(routes', saved, pc, caller, loop)
  BY <1>4, <1>5, <1>10, <1>11 DEF FeasibleOf
<1>13. tries' \in Nat
  BY <1>1, <1>4, <1>5
<1> QED BY <1>1, <1>4, <1>5, <1>8, <1>9, <1>12, <1>13, AtRestGood

\* Enough vehicles are in use, or it gives up.
LEMMA RepairEndsGood ==
  ASSUME Inv, RepairEnds
  PROVE  Good(routes', EP', saved', best', pc', caller', loop', tries')
<1>1. /\ pc = "repair" /\ tries' = 0
      /\ pc' = IF caller = "construct" THEN "minimize" ELSE "done"
      /\ routes' = routes /\ EP' = EP /\ saved' = saved /\ best' = best
      /\ caller' = caller /\ loop' = loop
  BY DEF RepairEnds
<1>2. /\ problem \in Problems /\ routes \in Solutions
      /\ EP \in Pools /\ SaveIsGood(saved, best) /\ loop \in Loops
      /\ loop.mode = "none" /\ loop.failures + loop.left <= IterationLimit + 1
      /\ caller \in {"construct", "end"} /\ caller \in Callers /\ tries \in Nat
      /\ AllServed(pc, caller) => Whole(routes)
      /\ FeasibleOf(routes, saved, pc, caller, loop)
  BY <1>1, RepairingFacts
<1>3. AllServed(pc', caller) => Whole(routes)
  BY <1>1, <1>2 DEF AllServed
<1>4. FeasibleOf(routes, saved, pc', caller, loop)
  BY <1>1, <1>2 DEF FeasibleOf, Generated
<1>5. pc' \in {"minimize", "repair", "done"} /\ pc' # "repair" /\ tries' \in Nat
  BY <1>1
<1> QED BY <1>1, <1>2, <1>3, <1>4, <1>5, AtRestGood

-----------------------------------------------------------------------------
(* The invariant.                                                          *)

\* It holds at the start: from nothing, or from a solution that is feasible.
LEMMA InvInit ==
  ASSUME Init
  PROVE  Inv
<1>1. /\ problem \in Problems /\ entry \in {"generate", "desired", "feasible"}
      /\ Feasible(routes) /\ saved = <<>>
      /\ best = [excess |-> Unset, size |-> Unset]
      /\ pc = IF entry = "generate" THEN "construct" ELSE "greedy"
      /\ caller = IF entry = "generate" THEN "construct" ELSE "fixed"
      /\ loop = NoLoop /\ tries = 0 /\ timeup = FALSE
  BY DEF Init
<1>2. PICK vs \in SUBSET Vehicles : \E rs \in SUBSET Requests :
        /\ routes \in Extended([v \in vs |-> {}], rs)
        /\ EP \in Pushed(NoPool, 0, Requests \ rs)
  BY DEF Init
<1>3. PICK rs \in SUBSET Requests :
        /\ routes \in Extended([v \in vs |-> {}], rs)
        /\ EP \in Pushed(NoPool, 0, Requests \ rs)
  BY <1>2
<1>4. routes \in Solutions /\ Apart(routes) /\ Served(routes) = rs
  <2> DEFINE E == [v \in vs |-> {}]
  <2>1. E \in [vs -> SUBSET Requests] /\ DOMAIN E = vs
    OBVIOUS
  <2>2. routes \in Arranged(E, rs)
    BY <1>3 DEF Arranged
  <2> HIDE DEF E
  <2>3. E \in Solutions
    BY <2>1, SolutionIs
  <2> QED BY <2>2, <2>3, ArrangedFacts
<1>5. Unset \in Nat /\ IterationLimit \in Nat /\ MaxMultiple \in Nat
  BY ConstantsAssumption
<1>6. EP \in Pools /\ HoldsOnce(EP, EP.size, Requests \ rs)
  <2>1. 0 \in 0..Cardinality(Requests)
    BY <1>1, ProblemFacts
  <2>2. NoPool \in Pools
    BY <2>1 DEF NoPool, Pools
  <2> DEFINE none == {}
             B == Requests \ rs
  <2>3. HoldsOnce(NoPool, 0, none)
    BY <2>1 DEF HoldsOnce, Distinct, Content
  <2>4. none \in SUBSET Requests /\ none \cap B = {} /\ none \cup B = B
        /\ B \in SUBSET Requests
    OBVIOUS
  <2> HIDE DEF none, B
  <2>5. EP \in Pushed(NoPool, 0, B)
    BY <1>3 DEF B
  <2>6. EP \in Pools /\ HoldsOnce(EP, EP.size, none \cup B)
    BY <1>1, <2>2, <2>3, <2>4, <2>5, PushedFacts
  <2> QED BY <2>4, <2>6 DEF B
<1>7. SaveIsGood(saved, best)
  <2>1. saved \in Solutions
    <3>1. saved \in [{} -> SUBSET Requests] /\ DOMAIN saved = {}
      BY <1>1
    <3> QED BY <3>1, SolutionIs
  <2> QED BY <1>1, <1>5, <2>1 DEF SaveIsGood
<1>8. pc \in AtWork /\ OneOut(pc) = 0
  BY <1>1 DEF AtWork, OneOut
<1>9. HoldsOnce(EP, EP.size + OneOut(pc), Requests \ Served(routes))
  <2>1. EP.size \in Nat
    BY <1>1, <1>6, ProblemFacts DEF Pools
  <2>2. EP.size + OneOut(pc) = EP.size
    BY <1>8, <2>1
  <2> QED BY <1>4, <1>6, <2>2
<1>10. loop \in Loops /\ loop.mode = "none" /\ ControlOf(pc, caller, loop)
  <2>1. loop \in Loops /\ loop.mode = "none"
        /\ loop.failures + loop.left + 0 <= IterationLimit + 1
    BY <1>1, <1>5, NoLoopFacts DEF NoLoop
  <2> QED BY <1>1, <1>8, <2>1 DEF ControlOf, InLoop
<1>11. caller \in Callers /\ tries \in Nat
  BY <1>1 DEF Callers
<1> QED BY <1>1, <1>4, <1>6, <1>7, <1>8, <1>9, <1>10, <1>11, AtWorkGood DEF Inv

\* Every step keeps it.
LEMMA InvNext ==
  ASSUME Inv, [Next]_vars
  PROVE  Inv'
<1>1. ASSUME Search PROVE Inv'
  <2>1. problem' = problem /\ entry' = entry /\ timeup' = timeup
    BY <1>1 DEF Search, Frame, AddVehicles, NoMoreVehicles, GreedyInsert,
      GreedyFound, GreedyFails, LoopEnds, LoopStops, InsertMultiple, InsertSingle,
      SqueezeLast, SqueezePool, SkipSqueeze, Eject, EjectFails, EjectSqueezed,
      SqueezeAtEnd, RemoveRoute, MinimizerEnds, RepairMove, RepairEnds
  <2>2. Good(routes', EP', saved', best', pc', caller', loop', tries')
    BY <1>1, AddVehiclesGood, NoMoreVehiclesGood, GreedyInsertGood,
      GreedyFoundGood, GreedyFailsGood, LoopEndsGood, InsertMultipleGood,
      InsertSingleGood, SqueezeLastGood, SqueezePoolGood, SkipSqueezeGood,
      EjectGood, EjectFailsGood, EjectSqueezedGood, SqueezeAtEndGood,
      RemoveRouteGood, MinimizerEndsGood, RepairMoveGood, RepairEndsGood DEF Search
  <2> QED BY <2>1, <2>2, NowFacts, GoodNext
<1>2. ASSUME TimeUp \/ UNCHANGED vars PROVE Inv'
  <2>1. /\ problem' = problem /\ entry' = entry /\ timeup' \in BOOLEAN
        /\ routes' = routes /\ EP' = EP /\ saved' = saved /\ best' = best
        /\ pc' = pc /\ caller' = caller /\ loop' = loop /\ tries' = tries
    BY <1>2, NowFacts DEF TimeUp, vars
  <2> QED BY <2>1, GoodNext DEF Inv
<1>3. RepairSpins \/ Done => UNCHANGED vars
  BY DEF RepairSpins, Done
<1> QED BY <1>1, <1>2, <1>3 DEF Next

\* Inv is an invariant of guided ejection search, for all problems.
THEOREM Invariant == Spec => []Inv
<1>1. Init => Inv
  BY InvInit
<1>2. Inv /\ [Next]_vars => Inv'
  BY InvNext
<1> QED BY <1>1, <1>2, PTL DEF Spec

\* Every variable keeps its type; in particular the pool never holds more than
\* there are requests, and the failures that are counted stay below a bound.
THEOREM TypeCorrect == Spec => []TypeOK
<1>1. Inv => TypeOK
  BY DEF Inv, Good, TypesOf, TypeOK, Pools, Loops
<1> QED BY <1>1, Invariant, PTL

\* Every request is on one route, in the pool once, or the one that is out.
THEOREM EachRequestOnce == Spec => []EachOnce
<1>1. ASSUME Inv PROVE EachOnce
  <2> SUFFICES ASSUME pc \in AtWork, NEW r \in Requests
               PROVE  Cardinality({v \in DOMAIN routes : r \in routes[v]})
                        + Cardinality({i \in 1..InUse : EP.stack[i] = r}) = 1
    BY DEF EachOnce, AtWork, InLoop
  <2> DEFINE on == {v \in DOMAIN routes : r \in routes[v]}
             at == {i \in 1..InUse : EP.stack[i] = r}
  <2>1. InUse = EP.size + OneOut(pc)
    BY DEF InUse, OneOut
  <2>2. Apart(routes) /\ HoldsOnce(EP, InUse, Requests \ Served(routes))
    BY <1>1, <2>1, WorkFacts
  <2>3. r \in Served(routes) <=> \E v \in DOMAIN routes : r \in routes[v]
    BY ServedIs
  <2>4. r \notin Served(routes) <=> \E i \in 1..InUse : EP.stack[i] = r
    BY <2>2 DEF HoldsOnce, Content
  <2>5. CASE r \in Served(routes)
    <3>1. PICK v \in DOMAIN routes : r \in routes[v]
      BY <2>3, <2>5
    <3>2. on = {v} /\ at = {}
      BY <2>2, <2>4, <2>5, <3>1 DEF Apart
    <3>3. Cardinality(on) = 1 /\ Cardinality(at) = 0
      BY <3>2, FS_Singleton, FS_EmptySet
    <3> QED BY <3>3
  <2>6. CASE r \notin Served(routes)
    <3>1. PICK i \in 1..InUse : EP.stack[i] = r
      BY <2>4, <2>6
    <3>2. on = {} /\ at = {i}
      BY <2>2, <2>3, <2>6, <3>1 DEF HoldsOnce, Distinct
    <3>3. Cardinality(on) = 0 /\ Cardinality(at) = 1
      BY <3>2, FS_Singleton, FS_EmptySet
    <3> QED BY <3>3
  <2> QED BY <2>5, <2>6
<1> QED BY <1>1, Invariant, PTL

\* Rounds of the minimizer and the end find all requests served, and the
\* solution is feasible at all times but for what the repair exceeds.
THEOREM SolutionAlwaysStands == Spec => []SolutionStands
<1>1. ASSUME Inv PROVE SolutionStands
  <2>1. /\ WholeOf(routes, saved, best, pc, caller, loop)
        /\ FeasibleOf(routes, saved, pc, caller, loop)
    BY <1>1, NowFacts
  <2>2. ServesAll
    BY <2>1 DEF ServesAll, WholeOf, AllServed, Whole
  <2>3. ExceededBy(routes) <=> Exceeded
    BY DEF ExceededBy, Exceeded, NonEmpty
  <2>4. StaysFeasible
    BY <2>1, <2>3 DEF StaysFeasible, FeasibleOf, Generated
  <2> QED BY <2>2, <2>4 DEF SolutionStands
<1> QED BY <1>1, Invariant, PTL

=============================================================================
