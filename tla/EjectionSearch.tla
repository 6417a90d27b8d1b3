--------------------------- MODULE EjectionSearch ---------------------------
(***************************************************************************)
(* Guided ejection search, by which the routing solver builds and repairs  *)
(* solutions (routing/ges, adapters/adapted_generator.cu).  Requests wait  *)
(* in the ejection pool, a stack on the device of which the host keeps the *)
(* size: a pop gives a pointer to a place that stays as it is, a push back *)
(* only moves the size, and kernels write over places above it.  One       *)
(* thread runs the search; what is hard is to keep track of every request  *)
(* over pops, failed insertions, ejections, squeezes and restored saves.   *)
(*                                                                         *)
(* A route is the set of its requests, feasible as long as their load is   *)
(* within the capacity of its vehicle; excess is what is above.  The order *)
(* within a route, the penalty scores (which choose among ejections) and   *)
(* breaks are left out.  Local search is any rearrangement of the same     *)
(* requests over the same routes; that it may also put a route on a        *)
(* vehicle nobody uses (run_vehicle_assignment) is left out, and so is the *)
(* assertion of debug builds that a repair succeeds (squeeze.cu:69-71).    *)
(***************************************************************************)
EXTENDS Naturals, Sequences, FiniteSets, FiniteSetsExt, Functions, SequencesExt

CONSTANTS
  AllRequests,     \* a delivery, or a pickup with its delivery
  AllVehicles,
  Nobody,          \* in a place of the pool that was not used yet
  Problems,        \* demands, capacities, min_vehicles, prize collection
  IterationLimit,  \* iterations of one run of the loop (500000)
  MaxMultiple,     \* requests tried at once (insertion_rate)
  ShuffleInterval, \* failed ejections between two squeezes (20)
  RouteThreshold,  \* failed ejections that give up a route (100)
  FewLeft,         \* pools small enough for a squeeze of all that is (15)
  VeryFewLeft,     \* in it, or again (5)
  Unset            \* numeric_limits::max()

ASSUME ConstantsAssumption ==
  /\ IsFiniteSet(AllRequests) /\ IsFiniteSet(AllVehicles)
  /\ Nobody \notin AllRequests
  /\ IterationLimit \in Nat /\ MaxMultiple \in Nat
  /\ ShuffleInterval \in Nat \ {0} /\ RouteThreshold \in Nat
  /\ FewLeft \in Nat /\ VeryFewLeft \in Nat /\ Unset \in Nat

\* The sum of f over S: as many pairs of x as f[x] says.
Total(f, S) == Cardinality(UNION {{x} \X (1..f[x]) : x \in S})

\* No excess is as large as the largest number.
ASSUME ProblemsAssumption ==
  \A p \in Problems :
    /\ DOMAIN p.demand \in (SUBSET AllRequests) \ {{}}
    /\ DOMAIN p.capacity \in (SUBSET AllVehicles) \ {{}}
    /\ p.demand \in [DOMAIN p.demand -> Nat]
    /\ p.capacity \in [DOMAIN p.capacity -> Nat]
    /\ p.min \in 0..Cardinality(DOMAIN p.capacity) /\ p.prize \in BOOLEAN
    /\ Cardinality(DOMAIN p.capacity) * Total(p.demand, DOMAIN p.demand) < Unset

VARIABLES
  problem,  \* what is to be solved
  entry,    \* the caller of the search
  routes,   \* *solution_ptr: vehicle -> the requests of its route
  EP,       \* the ejection pool
  saved,    \* ges_loop_save_state
  best,     \* min_excess_overall and min_ep_size
  pc,       \* where the search is
  caller,   \* what called greedy_insert or repair_empty_routes
  loop,     \* locals of guided_ejection_search_loop
  tries,    \* what repair_empty_routes may still do
  timeup    \* the time limit is over

vars == <<problem, entry, routes, EP, saved, best, pc, caller, loop, tries,
          timeup>>

-----------------------------------------------------------------------------
(* Solutions.                                                              *)

Requests == DOMAIN problem.demand
Vehicles == DOMAIN problem.capacity

Load(S)     == Total(problem.demand, S)
Over(v, S)  == IF Load(S) > problem.capacity[v]
                 THEN Load(S) - problem.capacity[v] ELSE 0
Fits(v, S)  == Over(v, S) = 0
Feasible(R) == \A v \in DOMAIN R : Fits(v, R[v])
Excess(R)   == Total([v \in DOMAIN R |-> Over(v, R[v])], DOMAIN R)
Served(R)   == UNION Range(R)
NonEmpty    == {v \in DOMAIN routes : routes[v] # {}}

\* R with the requests rs added to its routes, in any way.
Extended(R, rs) ==
  {[v \in DOMAIN R |-> R[v] \cup {r \in rs : at[r] = v}] :
     at \in [rs -> DOMAIN R]}

\* The requests rs on the routes of R in any way; what local search may make
\* of the requests of R.
Arranged(R, rs) == Extended([v \in DOMAIN R |-> {}], rs)
Rearranged(R)   == Arranged(R, Served(R))

\* What random local search may make of it: it exchanges requests between
\* routes and keeps a feasible solution feasible.
Perturbed(R) ==
  {S \in Rearranged(R) :
     /\ Feasible(S)
     /\ \A v \in DOMAIN R : Cardinality(S[v]) = Cardinality(R[v])}

\* The solution without the route of a vehicle, and with no empty route.
Without(R, v)      == Restrict(R, DOMAIN R \ {v})
WithoutEmpty(R)    == Restrict(R, {v \in DOMAIN R : R[v] # {}})
WithRoutes(R, new) ==
  [v \in DOMAIN R \cup new |-> IF v \in DOMAIN R THEN R[v] ELSE {}]

-----------------------------------------------------------------------------
(* The ejection pool.                                                      *)

Places       == 1..Cardinality(Requests)
Top(n)       == {EP.stack[i] : i \in (EP.size - n + 1)..EP.size}
Popped       == EP.stack[EP.size + 1]
EmptyPool(p) == [p EXCEPT !.size = 0]
PoppedOne(p) == [p EXCEPT !.size = @ - 1]
PushBackLast(p) == [p EXCEPT !.size = @ + 1]

Swapped(s, i, j) == [s EXCEPT ![i] = s[j], ![j] = s[i]]

\* eject_inserted_requests: from the top down, swap each inserted one of the
\* n last requests with what is then on top, and drop it.
Dropped(p, i) == [stack |-> Swapped(p.stack, i, p.size), size |-> p.size - 1]

EjectInserted(p, inserted, n) ==
  LET after[k \in 0..n] ==   \* the pool when k places have been looked at
        IF k = 0 THEN p
          ELSE IF p.stack[p.size + 1 - k] \in inserted
                 THEN Dropped(after[k - 1], p.size + 1 - k)
                 ELSE after[k - 1]
  IN after[n]

\* The pools in which the requests rs, in any order, are written over the
\* places above the first k.
Pushed(p, k, rs) ==
  {[stack |-> [i \in Places |->
                 IF i \in (k + 1)..(k + Len(s)) THEN s[i - k]
                                                ELSE p.stack[i]],
    size  |-> k + Len(s)] : s \in SetToSeqs(rs)}

\* Mutant: the popped request stays in the pool.
PushedAbove(p, rs) == Pushed(p, p.size + 1, rs)

\* Requests that make way for the one popped last go over its place.
Ejected(p, rs) == Pushed(p, p.size, rs)

\* The first n places in another order.
Permuted(p, n, perms) ==
  {[p EXCEPT !.stack = [i \in Places |->
                          IF i \in 1..n THEN p.stack[at[i]]
                                        ELSE p.stack[i]]] : at \in perms}

Reordered(p, n) == Permuted(p, n, SetToSeqs(1..n))

\* random_shuffle swaps the last of n places 2 * n times with another one:
\* the permutation is even, two places stay as they are.
IsEven(at, n) ==
  Cardinality({e \in (1..n) \X (1..n) :
                 e[1] < e[2] /\ at[e[1]] > at[e[2]]}) % 2 = 0

Shuffled(p, n) == Permuted(p, n, {at \in SetToSeqs(1..n) : IsEven(at, n)})

-----------------------------------------------------------------------------
(* What several operations return to.                                      *)

NoLoop == [mode |-> "none", left |-> 0, multiple |-> 0, failures |-> 0]

\* repair_empty_routes, on the solution R.
Repair(R, from) ==
  /\ pc' = "repair"
  /\ caller' = from
  /\ tries' = 2 * Cardinality({v \in DOMAIN R : R[v] = {}})

\* fixed_route_loop returns to its caller with the solution R.
FixedReturns(success, R) ==
  /\ loop' = NoLoop
  /\ \/ /\ entry = "generate" /\ success
        /\ routes' = R
        /\ pc' = "minimize"
        /\ UNCHANGED <<caller, tries>>
     \/ /\ entry = "generate" /\ ~success
        /\ routes' = WithoutEmpty(R)
        /\ Repair(WithoutEmpty(R), "end")
     \/ /\ entry = "desired"
        /\ routes' = R
        /\ Repair(R, "end")
     \/ /\ entry = "feasible"
        /\ routes' = R
        /\ pc' = "done"
        /\ UNCHANGED <<caller, tries>>

\* guided_ejection_search_loop starts on the solution R and the pool p.
LoopStarts(mode, R, p) ==
  LET n == Cardinality(Requests)
      k == Cardinality(DOMAIN R)
  IN /\ pc' = "loop"
     /\ loop' = [mode     |-> mode,
                 left     |-> IF mode = "fixed" THEN IterationLimit
                                ELSE Min({IterationLimit, (n * n) \div k}),
                 multiple |-> Min({k, MaxMultiple}),
                 failures |-> 1]
     /\ best' = [best EXCEPT !.size = Min({@, p.size})]

\* It returns: to fixed_route_loop, or to route_minimizer_loop.
LoopSucceeds(R) ==
  IF loop.mode = "fixed"
    THEN FixedReturns(TRUE, R)
    ELSE /\ routes' = R
         /\ pc' = "minimize"
         /\ loop' = NoLoop
         /\ UNCHANGED <<caller, tries>>

LoopFails ==
  /\ UNCHANGED <<caller, tries>>
  /\ loop' = NoLoop
  /\ IF loop.mode = "fixed"
       THEN pc' = "squeezeall" /\ UNCHANGED routes
       ELSE pc' = "minimize" /\ routes' = saved

Frame == UNCHANGED <<problem, entry, timeup>>

-----------------------------------------------------------------------------
(* construct_feasible_solution and greedy_insert.                          *)

Unused == Vehicles \ DOMAIN routes

\* Some more of the unused vehicles, at first min_vehicles at least.
AddVehicles ==
  /\ pc = "construct" /\ EP.size > 0
  /\ \E new \in SUBSET Unused :
       /\ new # {}
       /\ DOMAIN routes = {} => Cardinality(new) >= problem.min
       /\ routes' = WithRoutes(routes, new)
  /\ EP' \in Shuffled(EP, EP.size)
  /\ pc' = "greedy" /\ caller' = "construct"
  /\ Frame /\ UNCHANGED <<saved, best, loop, tries>>

NoMoreVehicles ==
  /\ pc = "construct" /\ EP.size > 0 /\ Unused = {}
  /\ pc' = "greedy" /\ caller' = "fill"
  /\ Frame /\ UNCHANGED <<routes, EP, saved, best, loop, tries>>

\* try_multiple_feasible_insertions of the n last requests: what the routes R
\* become, and which requests they take.  It goes on until none of the others
\* has a feasible place.
MultipleInserted(R, n) ==
  UNION {{[routes |-> S, inserted |-> rs] :
            S \in {S \in Extended(R, rs) :
                     /\ Feasible(S)
                     /\ \A r \in Top(n) \ rs, v \in DOMAIN S :
                          ~Fits(v, S[v] \cup {r})}} : rs \in SUBSET Top(n)}

GreedyNumber ==
  IF caller \in {"fill", "prize"} THEN EP.size
    ELSE Min({Cardinality(DOMAIN routes), EP.size})

GreedyInsert ==
  /\ pc = "greedy" /\ EP.size > 0
  /\ \E m \in MultipleInserted(routes, GreedyNumber) :
       /\ m.inserted # {}
       /\ routes' = m.routes
       /\ EP' = EjectInserted(EP, m.inserted, GreedyNumber)
  /\ Frame /\ UNCHANGED <<pc, caller, saved, best, loop, tries>>

GreedyFound ==
  /\ pc = "greedy" /\ EP.size = 0
  /\ \/ caller = "construct" /\ Repair(routes, "construct")
        /\ UNCHANGED <<routes, loop>>
     \/ /\ caller = "fill"
        /\ pc' = "minimize"
        /\ UNCHANGED <<routes, caller, loop, tries>>
     \/ caller \in {"fixed", "prize"}
        /\ FixedReturns(caller = "fixed", routes)
  /\ Frame /\ UNCHANGED <<EP, saved, best>>

GreedyFails ==
  /\ pc = "greedy" /\ EP.size > 0
  /\ \A r \in Top(GreedyNumber), v \in DOMAIN routes :
       ~Fits(v, routes[v] \cup {r})
  /\ \/ /\ caller = "construct"
        /\ routes' \in Perturbed(routes)
        /\ pc' = "construct"
        /\ UNCHANGED <<EP, caller, loop, best, tries>>
     \/ /\ caller = "fill"
        /\ caller' = "fixed"
        /\ UNCHANGED <<routes, EP, pc, loop, best, tries>>
     \/ /\ caller = "fixed"
        /\ LoopStarts("fixed", routes, EP)
        /\ UNCHANGED <<routes, EP, caller, tries>>
     \/ /\ caller = "prize"
        /\ FixedReturns(FALSE, routes)
        /\ EP' = EmptyPool(EP)
        /\ UNCHANGED best
  /\ Frame /\ UNCHANGED saved

-----------------------------------------------------------------------------
(* guided_ejection_search_loop.                                            *)

Searching == pc = "loop" /\ EP.size > 0 /\ ~timeup /\ loop.left > 0

\* Mutant: the iterations are not counted.
Uncounted == loop

NextIteration == [loop EXCEPT !.left = @ - 1]

LoopEnds ==
  /\ pc = "loop" /\ EP.size = 0
  /\ LoopSucceeds(routes)
  /\ Frame /\ UNCHANGED <<EP, saved, best>>

LoopStops ==
  /\ pc = "loop" /\ EP.size > 0
  /\ timeup \/ loop.left = 0
  /\ LoopFails
  /\ Frame /\ UNCHANGED <<EP, saved, best>>

InsertMultiple ==
  /\ Searching /\ loop.multiple > 1
  /\ LET n == Min({loop.multiple, EP.size})
     IN \E S \in Perturbed(routes) : \E m \in MultipleInserted(S, n) :
          /\ routes' = m.routes
          /\ EP' = EjectInserted(EP, m.inserted, n)
          /\ loop' = [NextIteration EXCEPT
                        !.multiple = Cardinality(m.inserted)]
  /\ Frame /\ UNCHANGED <<pc, caller, saved, best, tries>>

\* Pop a request, shake the solution, and insert it wherever it fits.
InsertSingle ==
  /\ Searching /\ loop.multiple <= 1
  /\ EP' = PoppedOne(EP)
  /\ loop' = NextIteration
  /\ \E S \in Perturbed(routes) :
       LET request == EP.stack[EP.size]
           places  == {v \in DOMAIN S : Fits(v, S[v] \cup {request})}
       IN \/ /\ places = {}
             /\ routes' = S
             /\ pc' = "popped"
          \/ /\ \E v \in places :
                  routes' = [S EXCEPT ![v] = @ \cup {request}]
             /\ UNCHANGED pc
  /\ Frame /\ UNCHANGED <<caller, saved, best, tries>>

\* try_squeeze_feasible: the popped request goes into any route, and local
\* search makes the solution feasible; or all is as it was.
SqueezedIn ==
  {S \in Arranged(routes, Served(routes) \cup {Popped}) : Feasible(S)}

\* It was the last one of the pool.
SqueezeLast ==
  /\ pc = "popped" /\ EP.size = 0
  /\ \/ \E S \in SqueezedIn : LoopSucceeds(S)
     \/ pc' = "eject" /\ UNCHANGED <<routes, caller, loop, tries>>
  /\ Frame /\ UNCHANGED <<EP, saved, best>>

\* Mutant: also while routes are minimized.
TimeToSqueezeAnyway(size) ==
  \/ size <= FewLeft /\ size < best.size
  \/ size <= VeryFewLeft /\ size <= best.size

\* Or there are few left, and it is time to try all of them.  (A third test,
\* of pools of up to 80 requests, does not apply to small ones.)
TimeToSqueeze(size) ==
  /\ loop.mode = "fixed"
  /\ \/ size <= FewLeft /\ size < best.size
     \/ size <= VeryFewLeft /\ size <= best.size

\* squeeze_all_and_save: all requests of the pool p go somewhere.
SqueezedAll(p) ==
  Arranged(routes, Served(routes) \cup {p.stack[i] : i \in 1..p.size})

\* Unless it finds a feasible solution, it saves the best it ever found and
\* leaves solution and pool as they were; but the pool in another order.
SaveSqueezed(S, size) ==
  IF Excess(S) < best.excess
    THEN saved' = S /\ best' = [excess |-> Excess(S), size |-> size]
    ELSE saved' = saved /\ best' = [best EXCEPT !.size = size]

SqueezePool ==
  /\ pc = "popped" /\ EP.size > 0
  /\ LET p == PushBackLast(EP)
     IN /\ TimeToSqueeze(p.size)
        /\ \E S \in SqueezedAll(p) :
             \/ /\ Feasible(S)
                /\ EP' = EmptyPool(EP)
                /\ LoopSucceeds(S)
                /\ best' = [best EXCEPT !.size = p.size]
                /\ UNCHANGED saved
             \/ /\ ~Feasible(S)
                /\ SaveSqueezed(S, p.size)
                /\ \E q \in Reordered(p, p.size) : EP' = PoppedOne(q)
                /\ pc' = "eject"
                /\ UNCHANGED <<routes, caller, loop, tries>>
  /\ Frame

SkipSqueeze ==
  /\ pc = "popped" /\ EP.size > 0 /\ ~TimeToSqueeze(EP.size + 1)
  /\ pc' = "eject"
  /\ Frame /\ UNCHANGED <<routes, EP, caller, saved, best, loop, tries>>

\* Insert the request that is in the popped place now, and eject some of the
\* requests of its route, which are written over that place.
Eject ==
  /\ pc = "eject"
  /\ \E v \in DOMAIN routes : \E ejected \in (SUBSET routes[v]) \ {{}} :
       LET route == (routes[v] \ ejected) \cup {Popped}
       IN /\ Fits(v, route)
          /\ routes' = [routes EXCEPT ![v] = route]
          /\ EP' \in Ejected(EP, ejected)
  /\ loop' = [loop EXCEPT !.failures = 1]
  /\ pc' = "loop"
  /\ Frame /\ UNCHANGED <<caller, saved, best, tries>>

\* No ejection is good enough: the request goes back into the pool, at times
\* after another squeeze and a shuffle, and the minimizer may give up.
Interval == loop.failures % ShuffleInterval = 0

EjectFails ==
  /\ pc = "eject"
  /\ \E p \in IF Interval THEN Shuffled(EP, EP.size + 1) ELSE {EP} :
       EP' = PushBackLast(p)
  /\ IF loop.mode = "minimize" /\ loop.failures > RouteThreshold
       THEN LoopFails
       ELSE /\ loop' = [loop EXCEPT !.failures = @ + 1]
            /\ pc' = "loop"
            /\ UNCHANGED <<routes, caller, tries>>
  /\ Frame /\ UNCHANGED <<saved, best>>

EjectSqueezed ==
  /\ pc = "eject" /\ Interval
  /\ routes' \in SqueezedIn
  /\ loop' = [loop EXCEPT !.failures = 1]
  /\ pc' = "loop"
  /\ Frame /\ UNCHANGED <<EP, caller, saved, best, tries>>

-----------------------------------------------------------------------------
(* fixed_route_loop, when the loop has failed.                             *)

\* Without prize collection the solution with least excess that serves all
\* requests is returned; with it a partial one, after a last greedy insertion.
SqueezeAtEnd ==
  /\ pc = "squeezeall"
  /\ \E S \in SqueezedAll(EP) :
       \/ /\ Feasible(S)
          /\ FixedReturns(TRUE, S)
          /\ EP' = EmptyPool(EP)
          /\ UNCHANGED <<saved, best>>
       \/ /\ ~Feasible(S) /\ ~problem.prize
          /\ SaveSqueezed(S, best.size)
          /\ FixedReturns(FALSE, saved')
          /\ EP' = EmptyPool(EP)
       \/ /\ ~Feasible(S) /\ problem.prize
          /\ SaveSqueezed(S, best.size)
          /\ EP' \in Reordered(EP, EP.size)
          /\ pc' = "greedy" /\ caller' = "prize"
          /\ UNCHANGED <<routes, loop, tries>>
  /\ Frame

-----------------------------------------------------------------------------
(* route_minimizer_loop and repair_empty_routes.                           *)

\* Mutant: whatever the time.
AnyTime == Cardinality(NonEmpty) > Max({1, problem.min})

MoreRoutes == ~timeup /\ Cardinality(NonEmpty) > Max({1, problem.min})

\* Take a route away, and have the loop insert its requests elsewhere.  What
\* is left in the pool from the last time is overwritten.
RemoveRoute ==
  /\ pc = "minimize" /\ MoreRoutes
  /\ \E v \in DOMAIN routes :
       /\ routes' = Without(routes, v)
       /\ \E p \in Pushed(EP, 0, routes[v]) :
            /\ EP' = p
            /\ IF p.size = 0 THEN UNCHANGED <<pc, loop, best>>
                 ELSE LoopStarts("minimize", routes', p)
  /\ saved' = routes
  /\ Frame /\ UNCHANGED <<caller, tries>>

MinimizerEnds ==
  /\ pc = "minimize" /\ ~MoreRoutes
  /\ routes' = WithoutEmpty(routes)
  /\ Repair(WithoutEmpty(routes), "end")
  /\ Frame /\ UNCHANGED <<EP, saved, best, loop>>

\* Fewer vehicles in use than min_vehicles: a request that is not served, or
\* not alone on its route, goes to an empty one, where it exceeds least.
Repairing == /\ pc = "repair" /\ tries > 0
             /\ Cardinality(NonEmpty) < problem.min

Movable ==
  {r \in Requests : \A v \in NonEmpty : routes[v] # {r}}
    \X (DOMAIN routes \ NonEmpty)

RepairMove ==
  /\ Repairing
  /\ \E move \in Movable :
       /\ \A m \in Movable : Over(move[2], {move[1]}) <= Over(m[2], {m[1]})
       /\ routes' = [v \in DOMAIN routes |->
                       IF v = move[2] THEN {move[1]}
                                      ELSE routes[v] \ {move[1]}]
  /\ tries' = tries - 1
  /\ Frame /\ UNCHANGED <<EP, saved, best, pc, caller, loop>>

\* No move is possible: the loop goes on without counting.
RepairSpins == Repairing /\ Movable = {} /\ UNCHANGED vars

RepairEnds ==
  /\ pc = "repair" /\ ~Repairing
  /\ pc' = IF caller = "construct" THEN "minimize" ELSE "done"
  /\ tries' = 0
  /\ Frame /\ UNCHANGED <<routes, EP, saved, best, caller, loop>>

-----------------------------------------------------------------------------
TimeUp ==
  /\ ~timeup /\ timeup' = TRUE
  /\ UNCHANGED <<problem, entry, routes, EP, saved, best, pc, caller, loop,
                 tries>>

Done == pc = "done" /\ UNCHANGED vars

\* generate_solution starts from nothing; with given vehicles it starts from
\* a request per route, and make_feasible from a solution; both after
\* eject_until_feasible.  The pool gets what is not served, in any order.
NoPool == [stack |-> [i \in Places |-> Nobody], size |-> 0]

Init ==
  /\ problem \in Problems
  /\ entry \in {"generate", "desired", "feasible"}
  /\ \E vs \in SUBSET Vehicles, rs \in SUBSET Requests :
       /\ routes \in Extended([v \in vs |-> {}], rs)
       /\ EP \in Pushed(NoPool, 0, Requests \ rs)
       /\ entry = "generate" <=> vs = {}
  /\ Feasible(routes)
  /\ entry = "desired" => \A v \in DOMAIN routes : Cardinality(routes[v]) <= 1
  /\ saved = <<>>
  /\ best = [excess |-> Unset, size |-> Unset]
  /\ pc = IF entry = "generate" THEN "construct" ELSE "greedy"
  /\ caller = IF entry = "generate" THEN "construct" ELSE "fixed"
  /\ loop = NoLoop /\ tries = 0 /\ timeup = FALSE

Search ==
  \/ AddVehicles \/ NoMoreVehicles \/ GreedyInsert \/ GreedyFound \/ GreedyFails
  \/ LoopEnds \/ LoopStops \/ InsertMultiple \/ InsertSingle
  \/ SqueezeLast \/ SqueezePool \/ SkipSqueeze
  \/ Eject \/ EjectFails \/ EjectSqueezed \/ SqueezeAtEnd
  \/ RemoveRoute \/ MinimizerEnds \/ RepairMove \/ RepairEnds

Next == Search \/ RepairSpins \/ TimeUp \/ Done

\* One thread, with a time limit.
Spec == Init /\ [][Next]_vars /\ WF_vars(Search) /\ WF_vars(TimeUp)

-----------------------------------------------------------------------------
PCs == {"construct", "greedy", "loop", "popped", "eject", "squeezeall",
        "minimize", "repair", "done"}

Solutions == UNION {[vs -> SUBSET Requests] : vs \in SUBSET Vehicles}

TypeOK ==
  /\ problem \in Problems
  /\ entry \in {"generate", "desired", "feasible"}
  /\ routes \in Solutions /\ saved \in Solutions
  /\ EP \in [stack : [Places -> Requests \cup {Nobody}],
             size : 0..Cardinality(Requests)]
  /\ best \in [excess : Nat, size : Nat]
  /\ pc \in PCs
  /\ caller \in {"construct", "fill", "fixed", "prize", "end"}
  /\ loop \in [mode : {"none", "fixed", "minimize"}, left : 0..IterationLimit,
               multiple : 0..MaxMultiple, failures : 0..(IterationLimit + 1)]
  /\ tries \in Nat /\ timeup \in BOOLEAN

\* As long as the search is at work, every request is in one place: on one
\* route, in the pool once, or in the place that was popped last.  None is
\* lost or doubled by pushes over that place, by the pool's other order after
\* a squeeze that failed, or by what an earlier route left in the pool.
InUse == EP.size + (IF pc \in {"popped", "eject"} THEN 1 ELSE 0)

EachOnce ==
  pc \in {"construct", "greedy", "loop", "popped", "eject", "squeezeall"} =>
    \A r \in Requests :
      Cardinality({v \in DOMAIN routes : r \in routes[v]})
        + Cardinality({i \in 1..InUse : EP.stack[i] = r}) = 1

\* Every round of the minimizer starts and ends with all requests served, also
\* when it gave up in the middle.  At the end all are served, if need be with
\* excess ("we require full solution even if it is infeasible",
\* guided_ejection_search.cu:386), unless prize collection allows for less.
ServesAll ==
  /\ pc = "minimize" => Served(routes) = Requests
  /\ pc = "done" /\ ~problem.prize => Served(routes) = Requests

\* When repair_empty_routes has to use another vehicle it takes the request
\* that exceeds least there.  This never is too much if one vehicle is enough
\* or any vehicle can take any request; and if it is, no more vehicles are in
\* use than have to be, and the minimizer has nothing to do.
Exceeded ==
  /\ problem.min > 1
  /\ \E r \in Requests, v \in Vehicles : ~Fits(v, {r})
  /\ Cardinality(NonEmpty) <= problem.min

\* The solution the search works on is feasible all the time, over ejections,
\* squeezes and restored saves (global_runtime_checks in every loop of
\* guided_ejection_search.cu); and, as far as the repair allows, the one the
\* minimizer starts from (asserted at 478) and the one that is generated with
\* prize collection (asserted at 508, before it is repaired).
StaysFeasible ==
  /\ pc \notin {"minimize", "repair", "done"} => Feasible(routes)
  /\ pc = "minimize" => Feasible(routes) \/ Exceeded
  /\ pc = "done" /\ entry = "generate" /\ problem.prize =>
       Feasible(routes) \/ Exceeded

SolutionStands == ServesAll /\ StaysFeasible

\* Once its time is over the search ends: no request goes in and out of the
\* pool for ever.  But repair_empty_routes does not stop when it finds no move.
\* Either more vehicles are asked for than there are requests (set_min_vehicles
\* asks for no more vehicles than orders, data_model_view.cu:464, of which the
\* depot is one and a pickup and its delivery are two), or than there are
\* routes: the given vehicles are those of the first solution, from which empty
\* routes are removed also when there are too few others.
RepairSpinning ==
  /\ Repairing /\ Movable = {}
  /\ \/ problem.min > Cardinality(Requests)
     \/ problem.min > Cardinality(DOMAIN routes)

Ends == <>(pc = "done" \/ RepairSpinning)
=============================================================================
