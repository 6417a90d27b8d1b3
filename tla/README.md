# cuOpt: a verification development

cuOpt is a GPU solver for routing, linear and mixed integer problems, with a
C++/CUDA library, Python bindings, and a REST server that runs solves in worker
processes. This directory holds TLA+ modules that model its concurrent parts and
the control of its searches, the TLC configurations that check them on small
instances, and TLAPS proofs about them. `PROJECT.json` maps each definition to
the lines it models.

## 1. The system

| part | state | operations | how it meets the others |
|---|---|---|---|
| **web server process** (`webserver.py`, `utils/job_queue.py`) | `saved_results` (id -> result: done, aborted, answer, warm start data, incumbents), `cache_list`, `results_lock`, `all_jobs_marked_done` | POST /cuopt/request and /cuopt/cuopt, GET/DELETE of solutions, requests, incumbents; `def` handlers run in a thread pool, the `async def` POST on the event loop | puts jobs on `job_queue`, reads `abort_list`, puts pids on `abort_queue` |
| **results thread** (`receive_results`) | the response in hand | `process` of each kind of response | takes from `results_queue`, completes results, deletes from `abort_list` |
| **heartbeat thread** | - | watches the results thread | sets `app_exit`, runs `Shutdown.process` |
| **solver processes** (`process_async_solve`) | the job in hand | take a job, claim or skip it, solve it, mark it, respond; CUDA health check | `job_queue`, `abort_list`, `results_queue`; set `complete` when they end |
| **main process** (`cuopt_service.py`, `process_handler.py`) | `s_procs` (pid -> process, GPU, complete) | `watch_solvers`: kill on request, find stopped processes, complete their job, restart; `handle_exit`, `terminate` | `abort_queue`, `results_queue`, `abort_list`, signals |
| **abort list** (`AbortList`, a managed dict with a lock) | id -> pid, `True` or `False` | `add_id_or_return`, `get`, `update`, `delete`, `find_job_by_pid` | shared by all processes |
| **request cache and shared memory** | `cache_list`, segments named by id | add, update, get, delete | POST with `cache`, `reqId`; solvers read the segments |
| **self-hosted client** (`cuopt_self_host_client.py`) | polling loop, `doneEvent`, how far the log was read | poll, fetch incumbents and log in two threads, delete | HTTP |
| **branch and bound** (`branch_and_bound.cpp`, `mip_node.hpp`) | tree, heap, global bounds, incumbent, repair queue | explore, fathom, branch, repair | a thread beside the heuristics; `set_new_solution`, `solution_callback`, preemption |
| **MIP heuristics** (`mip/diversity`) | population, queue of external solutions, flags | add, halve, rebuild, recombine, preempt | callbacks to and from branch and bound |
| **concurrent LP** (`linear_programming/solve.cu`) | a global halt flag, two solutions | PDLP on the main thread, dual simplex on another, crossover | halt flag, join |
| **routing solver** (`cpp/src/routing`) | solution (routes), ejection pool, the best save | guided ejection search, local search, evolutionary search over a pool of solutions | the first is called by the last |
| numerical kernels, parsers, bindings, validation | per call | sequential | called by the above |

A job's life: the POST creates a result object, enters it in `saved_results`
and puts the job on `job_queue`. A solver process takes it off and lists it in
the abort list under its pid; if the id is listed already (as `False`), the job
was aborted and is skipped with an empty response. After the solve the entry
becomes `True`, and the response goes to `results_queue`. The results thread
stores it if the result is registered and not done, and takes the id off the
abort list. `DELETE /cuopt/request` completes the result itself with "was
aborted"; if the entry was a pid, it also asks the watcher to kill the process.
The watcher completes the jobs of processes that stopped on their own.

### What is hard here

*The server.* Four kinds of actors on five threads and processes share the
results, the abort list and three queues. There is a lock for the results and
one for the abort list, but every operation spans several critical sections of
both. Processes are killed at any instant, also with a queue's lock in hand. A
pid names a process, not the job it had when the pid was read. A shutdown may
begin at three places at once, while requests come in and processes start.

*The solvers.* Two threads each tell the other what they found and when to
stop, through queues and flags that are read now and then; bounds are stale
when used; a limit may fall anywhere. The routing search moves requests between
routes, a pool and saves of both.

`PROJECT.json` lists these hazards at their lines with the properties that
cover them, and those that no property covers.

What makes each component correct:
- *job path*: one outcome per job that never changes; an aborted job is not run
  if it was queued and is stopped if it ran; every accepted job gets a result;
  one live process per GPU slot.
- *shutdown*: every waiter is answered, and none is left waiting; an
  answer that was given stands; the service ends.
- *cache*: a job finds the data it was posted for.
- *incumbents, client*: nothing follows the sentinel, nothing is lost,
  delivered twice or out of order; the call returns.
- *branch and bound*: bounds are bounds, `OPTIMAL` only with the gap closed,
  `INFEASIBLE` only when the tree is exhausted.
- *heuristics*: the best solution is never forgotten, and is the answer; the
  population stays sorted and leaks no place; preemption and time limit end it.
- *concurrent LP*: a solver stops only for an answer, the answer is true and
  the loser stops.
- *routing*: every request is on one route or in the pool; a search that fails
  leaves a complete or a feasible solution; the search ends.

## 2. The modules

| module | contents |
|---|---|
| `JobServer` | the job path: state, actions, fairness, properties |
| `JobLifecycle` | the abstract specification: what a client may rely on, job by job |
| `JobServerInvariants` | the parts of its inductive invariants |
| `Shutdown` | how the service stops: signals, watcher, threads, waiters, pipes |
| `ClientCallbacks` | incumbents and log of one job, from the solver to the client's callbacks |
| `BranchAndBound` | branch and bound beside the heuristics' thread |
| `Population` | the population as operators over a record |
| `MipHeuristics` | the heuristics' thread beside branch and bound, over `Population` |
| `ConcurrentLP` | PDLP against dual simplex, several solves in a process |
| `EjectionSearch` | guided ejection search of the routing solver |
| `MC...` | instances for TLC: flags, crash points, symmetry, problems |
| `JobServerProofs`, `ShutdownProofs`, `ClientCallbacksProofs`, `BranchAndBoundProofs`, `PopulationProofs`, `MipHeuristicsProofs`, `ConcurrentLPProofs`, `EjectionSearchProofs` | the theorems about these components and their proofs |

Some operators have a mutated form beside them ("Mutant: ..."): one plausible
bug, by which the property that should notice it was tested.

The modules are views of one program at different places, and what one has in
detail is a step of the other. A solve of `JobServer` (`FinishSolve`) is a
whole `ConcurrentLP`, `EjectionSearch`, or `BranchAndBound` with
`MipHeuristics`. Between these two the interface is
`Send`/`InjectFeasible`/`InjectInfeasible`: each module has the other thread as
one that sends improving solutions at any moment. `Shutdown` has one DELETE at a
time, and a report of the watcher and the storing of an answer as one step each;
`JobServer` has these in detail and no shutdown.
`ClientCallbacks` follows one job, whose solve and abort are single steps.

### `JobServer`

A step is a stretch of code that nobody else can observe half done: a section
under `results_lock` that touches nothing else, one operation of the abort
list, one put or get.

| actions | code |
|---|---|
| `Register`, `RejectUnknownCache`, `RejectAfterRegister`, `Enqueue` | `postrequest`: `register_result`; the 422 for an unknown `reqId` (result removed again); any later error (result left in place); `wait_for_job` |
| `Unregister` | the end of the synchronous `cuopt` handler, `DELETE /cuopt/solution` |
| `AbortById`, `AbortAll`, `AbortNext`, `AbortWalked`, `AbortValue`, `AbortMark`, `AbortStop`, `AbortDelete`, `AbortReturn` | `abort_by_id` and `abort_all`: take `results_lock`, test `is_done`, read or extend the abort list, `set_aborted`, then per process to stop one put on `abort_queue` and one `delete`. `abort_by_id` holds the lock to the end, `abort_all` gives it up before it stops processes |
| `ResultPick`, `ResultSet`, `ResultWarm`, `ResultDelete` | `receive_results` and `SolverBinaryResponse.process`: the lookup is under `results_lock`, the rest is not |
| `StartRead`, `GetJob`, `GetTimeout` | `job_queue.get`: its readers share a lock, and one that is killed does not release it |
| `Claim`, `Skip`, `FinishSolve`, `Respond` | the loop of `process_async_solve` |
| `Crash` | a solver dies; at `marked` also an exception while the response is built, which ends the loop with `complete` set |
| `WatchAbort`, `WatchKeyError`, `WatchScan`, `WatchFind`, `WatchReport`, `WatchRestart` | `watch_solvers`, `create_process`, `abort_by_pid` |

`entry[j]` is `AbortList.jobs`: a pid, `Finished` (`True`), `Aborted`
(`False`) or `Absent`. `hpc, hreq, htodo, hid, hvalue, hstop` are the locals of
a DELETE handler, `rpc, rmsg` those of the results thread, `wpc, wtodo, wgone,
wpid, wid` those of the watcher, `pc, job` those of the solvers.

Abstractions:
- An answer is `"answer"` whatever the solver or an error handler put in it,
  `"aborted"` from an abort or from the watcher, `"none"` for the empty response
  of a skipped job.
- `Respond` is the moment the response is on `results_queue`, the feeder
  thread of the queue included. A process that dies between the two dies at
  `marked`.
- The kill and the restart in `WatchAbort` are one step: the process is dead from
  the kill on, and nobody else reads `s_procs`.
- Process ids are not reused. The comparison `value in [True, False]`, which
  would also match a pid of 0 or 1, is taken as meant.
- `GET` of a status, a log or a solution without deletion changes nothing and is
  no action; a client's view is the state function `view` in `ImplementsLifecycle`.
- Locks: `results_lock` is modelled by the handler that keeps it over several
  steps (`lock`). The other users hold it for one step, which needs `lock = None`.

### `Shutdown`

| actions | code |
|---|---|
| `Post`, `Register`, `WaitForJob`, `Wake` | `health_check`, `register_result`, `wait_for_job` and `BaseResult.wait`, where the flag `all_jobs_marked_done` is looked at by who found no result |
| `Abort`, `AbortValue`, `AbortMark`, `AbortStop` | `abort_by_id` and `abort_all`: take `results_lock` and test `is_done`, read or extend the abort list, `set_aborted`, then put the pid on `abort_queue` and delete the entry |
| `Take`, `FinishSolve`, `CudaFails`, `ExitProcess`, `Crash` | `process_async_solve`: everything makes it leave its loop once `solver_exit` is set |
| `Feed` | the feeder thread of a `multiprocessing.Queue` of one process, which writes to a pipe of limited room. A process that ends waits for its feeder, one that is killed loses what was not written |
| `WatchAbort`, `Forget`, `StartProcess`, `ListProcess`, `DropReplaced`, `CheckExit`, `Scan`, `Restart` | `watch_solvers`, `create_process`, `abort_by_pid`, in steps between which the signal handler may run |
| `Join` | the end of `__main__`: `jobs_marked_done.wait(1)`, join of the solvers, join of the web server |
| `Signal`, `Terminate` | `handle_exit` and `terminate`: an `ExitJob` per process in `s_procs`, a `Shutdown` to the results thread, 0.2 s, then SIGKILL for all |
| `GetMessage`, `GetTimesOut`, `SetAnswer`, `MarkAll`, `CompleteOne`, `EndResults`, `ResultsThreadFails` | `receive_results`, `Shutdown.process`, `CudaUnhealthy.process` |
| `HeartbeatWakes`, `HeartbeatMarks`, `HeartbeatCompletes`, `EndHeartbeat` | `heartbeat`, which does the same once more |
| `Serve`, `Close` | uvicorn: SIGTERM is without effect before it has set its handler; it ends when no request is in progress |

`entry` is the abort list, as in `JobServer`. `LockFree` says that no DELETE is
inside `results_lock`, which the results thread does not take to set an answer:
an answer may come between any two steps of a DELETE. A start that fails (port
in use, no GPU) is left out. `short` remembers that a signal told fewer solvers
than are alive.

### `ClientCallbacks`

| actions | code |
|---|---|
| `SendSolution`, `WriteLog`, `Respond`, `Kill` | the solver process: the callback's `SolverIntermediateResponse`, its log file, its answer |
| `AddIncumbent`, `LookUp`, `SetResult` | the results thread, which completes a result outside `results_lock` |
| `AbortJob`, `DeletedByOther`, `LogDeletedByOther` | other clients |
| `Poll`, `PollTimesOut`, `StopThreads`, `JoinThread`, `DeleteSolution`, `DeleteLog` | `_poll_request` and `stop_threads`; `Poll` may find the job, its answer, or nothing |
| `Fetch`, `LoseResponse`, `Receive`, `Test` | `poll_for_incumbents`: the request takes effect at the server (`get_current_incumbents`), the thread goes on later; a lost response ends the thread |
| `LogTest`, `LogFetch`, `LogReceive`, `LoseLog` | `poll_for_logs`, `getsolverlogs`: the file from `loggedbytes` on |

An incumbent is the number of its turn, and so is a piece of the log.

### `BranchAndBound`

A problem is an oracle: for each node of the tree that branching would unfold,
the optimum of its LP relaxation (`lp`), that of its integer points (`best`), and
whether the LP solution is integral. `IsProblem` says what the code relies on:
children are more constrained, branching loses no integer point, an integral
LP solution is the best of its node. Objectives are small integers; a difference
of one stands for one above every tolerance (`dual_tol`, `fathom_tol`).

The tree, the heap and the locals belong to the thread of branch and bound; a
step of it ends where it reads or writes what it shares with the heuristics:
`upper_bound` (under `mutex_upper`) and `repair_queue` (under `mutex_repair`).

| actions | code |
|---|---|
| `RootTimeLimit`, `RootInfeasible`, `RootUnbounded`, `RootIntegral`, `RootUnsettled`, `RootBranch` | `solve()` up to the loop, for each way the root relaxation may end. `root` is `root_status`; it is `"unsettled"` for the four statuses on which `solve()` does not return though there is no solution (`NUMERICAL_ISSUES`, `ITERATION_LIMIT`, `CUTOFF`, `CONCURRENT_LIMIT`): it goes on with the zero vector, of which the objective may be any |
| `Loop`, `TakeRepairs`, `RepairOne` | the condition of the loop, the copy of the repair queue, one iteration of the repairs with its section under the lock |
| `PopFathomed`, `PopNode` | take a node off the heap, read the upper bound, fathom the node or make its bound the lower bound; the time limit |
| `LeafInfeasible`, `LeafCutoff`, `LeafIntegral`, `LeafBranch`, `LeafFathom`, `LeafNumerical` | the outcomes of `dual_phase2` and of the tests that follow. The dual simplex may stop at the cutoff or go on to the optimum or to infeasibility, so `LeafCutoff` and another may both be possible |
| `Offer` | the comparison with the upper bound under the lock |
| `SettleParent`, `Settled` | one round of the loop of `set_status`, with `update_bound` and what `remove_fathomed_nodes` frees |
| `Finish`, `Verdict`, `EmptyHeap` | the three decisions after the loop, which read the upper bound anew each time |
| `InjectFeasible`, `InjectInfeasible`, `QueueRepair` | `set_new_solution`, called by the population for each solution better than its last; a solution to be repaired is queued under another lock, later |

`ub`, `gap`, `torepair` are locals of `solve()`; `sent` is the objective of the
incumbent, which the callback gets each time it changes. A solution for repair
is modelled by what the repair will give, `Inf` if it fails. Left out: the
initial guess (only `solve_mip_with_guess` sets one), the preemption of the
heuristics (it is in `MipHeuristics`), logging. Node numbers are those of a complete
binary tree; below a leaf of it every LP solution is integral.

### `Population` and `MipHeuristics`

`Population` has every operation of `population_t` as an operator from a
population to a population (`AddSolution`, `Clear`, `ClearExceptBestFeasible`,
`FindDiversity`, `HalveThePopulation`, `UpdateQualities`, `UpdateWeights`, ...),
in the order of the code: similarity by Hamming distance and radius, free
places, insertion by cost, the place of the best feasible solution. Variables
are binary, a solution is a number with its point, objective and excess given.

Which solutions are feasible (`Feas`) is given as well: the code tests every
constraint with a tolerance (`mip/utils.cuh:62`), but `get_quality` prices all of
the excess, with weights that change. So a feasible solution may have an excess,
and its cost (`Cost`) is then above its objective. `Exact(obj)` says that none of
the objective `obj` has.

| actions | code |
|---|---|
| `Send`, `ProveOptimal`, `ProveNone`, `MisleadingRoot`, `GiveUp`, `TimeUp` | the thread of branch and bound (`solver.cu`), the clock. It preempts when the gap is within its tolerances (`Closed`; `Optimum` bounds what its lower bound can be), when it reports `INFEASIBLE` or `UNBOUNDED`, and when it took the zero vector of a root relaxation for the optimum |
| `Start`, `Quick`, `Probed`, `Relaxed`, `UserGiven`, `Island`, `IslandDone`, `Populate` | `run_solver` up to the first population; `PreemptedEarly` and `IslandPreempted` are its returns |
| `Limit`, `TakeExternal`, `Partner`, `PartnersDone`, `RecombineDone`, `PartnerPreempted` | `run_solver` and `recombine_and_ls_with_all`: external solutions taken over from the queue |
| `Main`, `MainPreempted`, `Regenerate`, `Regenerated`, `Longer`, `StepExternal`, `StepPreempted`, `Breed`, `BreedNot`, `Halve`, `More`, `Rebuild` | `main_loop`, `diversity_step`, `generate_more_solutions` |
| `Final` | the last external solutions |

What a heuristic finds is any solution. What branch and bound finds in its tree is
taken to pass the population's test of feasibility; the zero vector of
`MisleadingRoot` need not. `ProveNone` may come whatever the heuristics have found.
User callbacks that set solutions, presolve and the heuristics themselves are
left out.

### `ConcurrentLP`

The arithmetic is an oracle: a test of a solver is never wrong about the
problem, but need not ever succeed.

| actions | code |
|---|---|
| `Start`, `Join`, `Throw` | `solve_lp` with its three methods, `run_concurrent`, `call_batch_solve`; the reset of the flag, the join, the choice between two statuses; an exception |
| `PdlpCheck`, `PdlpReturns` | `run_solver`, `check_termination` (current and average iterate, numerical error), `check_limits`, `record_best_primal_so_far`; `run_pdlp` |
| `CrossoverEnds`, `CrossoverHalted`, `CrossoverTimesOut` | `crossover` after an optimum of PDLP |
| `Presolve`, `Phase1`, `Phase2`, `Phase1Again`, `SimplexHalted`, `SimplexTimesOut`, `SimplexReturns` | `solve_linear_program_advanced`, and where it looks at the flag and the clock; `run_dual_simplex` |

### `EjectionSearch`

A route is the set of its requests, feasible while their load is within the
capacity of its vehicle; `EP` is the pool, a stack on the device of which the
host keeps the size. A pop gives a pointer to a place that keeps what it has
until a kernel writes over it, and a push back only moves the size; `Popped` is
what that pointer gives *now*.

| actions | code |
|---|---|
| `AddVehicles`, `NoMoreVehicles`, `GreedyInsert`, `GreedyFound`, `GreedyFails` | `construct_feasible_solution`, `greedy_insert`, `try_multiple_feasible_insertions` |
| `LoopEnds`, `LoopStops`, `InsertMultiple`, `InsertSingle`, `SqueezeLast`, `SqueezePool`, `SkipSqueeze`, `Eject`, `EjectFails`, `EjectSqueezed` | `guided_ejection_search_loop`, `execute_best_insertion_ejection_solution`, `squeeze_all_and_save` |
| `SqueezeAtEnd` | `fixed_route_loop` after the loop has failed |
| `RemoveRoute`, `MinimizerEnds` | `route_minimizer_loop` |
| `RepairMove`, `RepairSpins`, `RepairEnds` | `repair_empty_routes` |

The three entries are `generate_solution`, the same with a desired number of
vehicles, and `make_feasible`. Left out: the order within a route, breaks,
penalty scores (they choose among ejections, any of which is possible here),
the exchange of a route's vehicle for one nobody uses, and the third test of
`SqueezePool`, which concerns pools of up to 80 requests. `random_shuffle` is
modelled as the permutations it can make: its 2n swaps are an even permutation,
so it leaves a pool of two as it is.

## 3. The runs

| run | instance | what it shows |
|---|---|---|
| `aborts` | two jobs (symmetric), one slot, up to four pids, two DELETEs of both flags, one crash anywhere | `TypeOK`; `AbortedResult`: an abort is final; `NoEmptyResult`: a skip is never stored; `AbortedIsSkipped`; `OneProcessPerSlot` |
| `running` | two jobs, one DELETE with `running=true`, one crash anywhere, solves that need not end | `ImplementsLifecycle`: every step changes at most one job's view, along `JobLifecycle`; `AbortStopsWork` |
| `queued` | two jobs, one synchronous, two slots, one DELETE with `queued=true`, one crash in a solve | `EntryHasOwner`: an entry names a process that will be found, or a response on its way; `JobCompletes` |
| `wrongkill` | two jobs, one DELETE | *violated*: `JobCompletes` |
| `abort_done` | one job, one DELETE | *violated*: `NoEntryMeansQueued` |
| `shutdown` | one job, one slot, three pids, room for one message in the pipe, a signal at any moment, and one abort in its three steps, crash, failed health check or failure of the results thread | `TypeOK`; `NoOrphanWaiter`; `AnswerStands`; `WaitersReleased`; `EndsOrHangs` |
| `callbacks` | three incumbents, two pieces of log, two faults of any kind in any order | `TypeOK`; `NoneVanishes`; `EndMarksAreTrue`; `LogIsWhole`; `ClientReturns` |
| `search` | all problems over 7 nodes with objectives 0 to 2 (302, up to the order of siblings), two injected solutions, relative gap 50 % | `TypeOK`; `BoundsAreValid`; `ExhaustedIsSolved`; `StatusIsRight`; `HeapIsAlive` |
| `infeasible` | problems over 7 nodes, objectives 0 and 1, no injection | *violated*: `InfeasibleIsInfeasible` |
| `heuristics` | five solutions of four points, four of them feasible and one of these with an excess, a population of four places, absolute gap 2 | `TypeOK`; `TestInvariant`; `ReportedIsHeld`; `PreemptedIsOptimal`; `Terminates` |
| `concurrent` | two solves of every kind of problem, under eight settings, one after the other and in a batch | `TypeOK`; `GivesUpForAnAnswer`; `AnswerIsTrue`; `BestIsReturned`; `SettledIsAnswered`; `AnswerEndsSolve`; `ReturnsInTime` |
| `ejection` | four families of problems: two to four requests, two or three vehicles, too little to plenty of room, with and without prize collection | `TypeOK`; `EachOnce`: no request is lost or doubled; `SolutionStands`: all are served in every round of the minimizer and at the end, feasibly; `Ends` |

### Bounds

*Job path.* Every interaction here is of at most two jobs with one process, or
of one job with an abort and a restart: two jobs let a process go on to another
job between the reading of its pid and its death, two aborts make the second
find what the first left behind, and one crash beside them makes the watcher
restart from both of its places. `MaxPid` exceeds the slots by the number of
kills and crashes the instance allows, so that it never stops a restart (except
in `wrongkill` and `abort_done`, where a shorter history suffices). `MaxAborts`
and `MaxCrashes` bound the client and the failures; the queues need no bound.
Deadlock is checked only where the instance cannot simply finish
(`queued`, whose idle solvers always poll; the instances with kills end in
states where the bound on pids, a lost lock or a dead watcher stops everything).

*Why three passing instances of `JobServer`.* With `queued` and `running` both
set, or with `running` in the presence of another job, the code has the faults
listed below, and properties such as `EntryHasOwner` fail because of them.
`queued` aborts kill nobody, so the properties about owners and completion hold
there. `running` aborts never meet a missing entry, so the lifecycle holds
there. The run `aborts` has both flags, and its properties hold regardless of
the faults.

*Shutdown.* One job is enough: its POST may register before, between or after
the two threads that collect results, and its DELETE meets its answer at each of
its steps. One DELETE is enough, as each is looked at job by job and a second
waits for `results_lock`; what several do to the abort list is `JobServer`'s.
`MaxEvents` makes a solver die, be killed
or report itself unhealthy beside the signal; `MaxPid` lets each be replaced. A
pipe of one message is full when a second comes. Deadlock is the normal end.

*Callbacks.* Three incumbents let one be on the client's list, one on the
server's and one in the queue; two pieces of log let the last come after the
client was told to stop. Two faults may be of different kinds, in either order.
`MaxIncumbents`, `MaxLog` and `MaxFaults` bound the solver and the others; the
end of all threads is a deadlock, so that is not checked.

*Branch and bound.* Three inner nodes let `set_status` close a subtree and go on
to the root while the sibling's subtree is on the heap. Three objective values
and infinity tell apart a node below, at and above a stale and a fresh upper
bound, and the root is scaled to 0 or infeasible. Two injections let one lower
the bound while the other waits for repair or while a node is solved. A
relative gap of 50 % is closed by 1 against 2, and not by 0 against anything.
Deadlock is checked: `Done` is the only step of a solver that has returned.

*Heuristics.* Four places, of which one is the best feasible solution's, are
fewer than the four points and five solutions, so that the population is full,
similar solutions meet, and a place is refused. The infeasible solution has the
least objective and is the same point as the optimum: under low weights it takes
the optimum's place among the ranks, under high ones it does not. The weights
(1 to 4) rise while it is the best of a population without the optimum. The
feasible solution with an excess has the objective 3 and a cost of 4 to 7. The
others have none and the objectives 2, 4 and 6: the third is better than the
4, is reported before it, and gives way to it when the weight is above one.
`Exact(obj)` is false of 3 and true of the rest. An absolute gap of 2 closes 4
against 2, so that preemption does not need the optimum, and not 6. `MaxCost` is
the cost of 3 under the largest weight. `IslandSize`, `NewSols` and `MaxWithout` of
one make each loop run once and end; `MaxWeight` is the code's cap on the
weights. Deadlock is checked (`Terminated`).

*Concurrent LP.* Two solves are the least that share the flag. `iters` (0..2)
tells the first iterations, in which limits are not looked at, from the rest.
The eight settings are those that reach different code; all others combine
them. The end of all solves, or a crash, is a deadlock: not checked.

*Routing.* `Room` has three requests for two vehicles, from plenty of room to
too little; `Tight` four requests with one distribution, so that the search
must undo what it did; `Fleet` fewer requests than vehicles, for
`repair_empty_routes`; `Forced` a vehicle that has to be used and can take no
request. `Unset` (`numeric_limits::max()`) is a number above any excess. `IterationLimit` 4 (500000 in the code), `MaxMultiple`
2, `ShuffleInterval` 2 (20), `RouteThreshold` 1 (100), `FewLeft` 3 (15) and
`VeryFewLeft` 2 (5) are scaled to these sizes: each threshold is passed on
either side. Deadlock is checked (`Done`, `RepairSpins`).

### Fairness

*Server* (`JobServer`, `Shutdown`): every thread or process with a step to take
takes one eventually (`WF`): they are scheduled by the operating system, none
is ever suspended, and they block only in a get or on a lock. Nothing is
assumed of who gets a lock. A solve returns because cuOpt runs it with a time
limit; `LongSolveSpec` drops that, so that `AbortStopsWork` says that an abort
and not the time limit ends the work. Clients owe nothing: a POST may stop after
`Register`, nobody need remove a result or stop the service. Crashes are never
fair.

*Client*: the results thread and the client's threads run on, and
`polling_timeout`, 600 s if not set, passes. A solve need not end.

*Heuristics*: `HeuristicsRun` is weak fairness of that thread, with what
enables it and what tells its steps from the others' written out. `Terminates` is
under `TimedSpec`, in which the time limit passes; without one the property does not hold (below).

*Concurrent LP*: both threads run on, so their loops look at the flag even when
there is nothing else to see (`PdlpFindsNothing`). That an algorithm
converges, fails or runs out of time is not assumed; `ReturnsInTime` assumes
`TimePasses`.

*Routing*: one thread with a time limit: `WF` of the search and of `TimeUp`.
`RepairSpins` is a step of its own that changes nothing.

### Findings

1. `wrongkill`. The pid that an abort read is stale when the watcher kills it
   (`process_handler.py:117`). If the process has taken another job since, that
   job keeps the dead pid in the abort list and is never completed: the
   restart after an abort does not call `abort_by_pid`. If it is inside
   `job_queue.get`, the queue's read lock is lost with it.
2. `abort_done`. "No entry" does not mean "queued" (`job_queue.py:405`): an abort can replace
   an answer that clients have read, and leaves an entry for ever. `AnswerStands`
   of `Shutdown` says that nothing else replaces an answer.
3. `infeasible`. The time limit, or a numerical status, that comes with the last
   node off the heap and unexplored, and no upper bound, is reported as
   `INFEASIBLE` (`branch_and_bound.cpp:823`), and `mip/solver.cu:187` passes it on.

### Met while modelling

Behaviours of the code that the models show. No run is spent on them; the
properties named here are stated in the modules and do not hold.

*Server.*
- A pid queued twice, or whose process was replaced meanwhile, raises
  `KeyError` at `process_handler.py:118`, and the watcher ends (`WatchKeyError`).
- Warm start data is stored after `set_result` (`job_queue.py:1757-1760`): a
  client may read the answer and not find them.
- An exception while the response is built leaves `True` in the abort list, so
  that the job is reported completed and is never answered (`solver.py:477`).
- A POST refused after `register_result` leaves a result that is reported as
  queued (`webserver.py:1096`). A process that dies between `get` and
  `add_id_or_return` loses its job (`solver.py:424`). Both are actions.
- `DELETE` with `cached` (`webserver.py:710`) deletes a cache entry and its
  segment (`job_queue.py:231`) while a queued job may refer to them. A process
  killed inside the abort list takes its lock along (`job_queue.py:303`). These
  are not modelled.
- The service may hang in four ways, which `EndsOrHangs` names: `Untold`, a
  solver waits for a job and got no `ExitJob` (started during `terminate`, or
  there was no signal); `Clogged`, its feeder has an answer to write that
  nobody reads; `Deaf`, the web server ignored SIGTERM since it was still
  starting; `Silent`, it ended before its heartbeat told the others.

*Client.*
- Told to stop after the answer, the thread for incumbents does not ask again,
  so that the callback need not get the last ones (the client's line 458; lines
  741-743 say it is invoked for each).
- After an abort the sentinel is sent while the solver still produces.
- `loggedbytes` (line 323) is never reset, so a second job's log is read from
  where the first one's ended. A lost response that is no `HTTPError` ends
  the thread. The log callback may get an empty piece. When the solution is gone
  already, the log is not deleted. `DELETE` of a solution of an unfinished job
  returns 200 and deletes nothing.

*MIP.*
- A root relaxation that ends with a numerical status, an iteration limit, a
  cutoff or a halt leaves its solution all zero, and `solve()` goes on with it
  (`branch_and_bound.cpp:449`): no variable is fractional, so both bounds become its
  objective, it is sent to the heuristics, which are preempted, and `OPTIMAL` is
  returned, though line 470 prints "Optimal solution found at root node". (With
  assertions on, a first phase that fails stops at line 430.) `OptimalIsOptimal` does
  not hold; `BoundsAreValid` and `StatusIsRight` except this case.
- Solutions are reported, to branch and bound and to the user's callbacks, by
  objective (`population.cu:163`) and kept by cost (`population.cu:258`). One that is feasible
  within the tolerances and has an excess may be reported and then not kept, so
  that the answer is worse than what branch and bound prunes with.
  `BestFoundIsStored` does not hold.
- Without a time limit, which is the default, the first regeneration spins when
  no further solution can join, whatever the preemption flag
  (`diversity_manager.cu:72`): `PreemptionEnds` does not hold.
- Preempted before the first population, `run_solver` drops the solutions it
  has reported (`diversity_manager.cu:333`): `AnswerIsBest` does not hold.
- `MarkedIsFeasible` does not hold after a halving without a feasible solution,
  which marks the place of the best one as used all the same. The
  comment at `population.cu:569` says that the diversity is decreased after too
  many were removed, but the radius moves the way it did before.
- `repair_queue` is global and never cleared between solves
  (`branch_and_bound.cpp:76`).
- Strong branching counts infeasible children as infinite gains in the pseudo
  costs; where the time limit ends it, its global vectors keep the values of an
  earlier solve (`pseudo_costs.cpp:231`).

*LP.*
- PDLP that finds infeasibility, or a first feasible point, first does not stop
  dual simplex, though `lp-features.rst:65` says that a solution is returned
  from the algorithm that finishes first. With `first_primal_feasible`, `PrimalFeasible` is returned
  though the other solver is optimal.
- An exception in either solver ends the process (`solve.cu:478-487`): a thread is not
  joined, or an exception leaves one.
- A crossover that fails or runs out of time replaces PDLP's `Optimal`. The norms
  of steepest edge pricing report the halt as `TIME_LIMIT` (`phase2.cpp:1220`).
- The copy constructor of the settings (`solver_settings.cu:31-47`) leaves out
  fields, so `run_concurrent` drops a user's initial solution; `call_batch_solve`
  changes the caller's method to PDLP (`cython_solve.cu:284`).

*Routing.*
- `set_min_vehicles` accepts up to the number of orders (`data_model_view.cu:464`),
  of which the depot is one and a pickup and its delivery are two. With more vehicles than requests
  `repair_empty_routes` finds no move and goes on without counting or looking at
  the time (`squeeze.cu:55-59`). The same happens with fewer routes than that:
  given vehicles are those of the first solution, from which empty routes were
  removed. `Ends` excepts these cases (`RepairSpinning`).
- The proof found that the minimizer may start with an infeasible solution.
  When no move to an empty route is feasible, `repair_empty_routes` takes the one
  with least excess (`squeeze.cu:55-59`), but its caller asserts a feasible solution
  (`guided_ejection_search.cu:477-478`). `Exceeded` says when: more than one vehicle has to be used, some
  vehicle cannot take some request, and no more vehicles are in use than
  have to be. Hence the minimizer then does nothing.
- `random_shuffle` makes even permutations only (`ejection_pool.cuh:40-47`).

## 4. The proofs

Each theorem is about all values of the constants; what it assumes of them is
the module's `...Assumption`, and what the third column adds. None of the
properties is inductive. In each `...Proofs` module `Inv` (in `JobServerProofs`
`InductiveInvariant`) is a conjunction of named parts; a lemma per part, or per step, shows it
kept with the help of the others. The parts were checked by TLC on the runs'
instances before they were proved.

| theorem | property | under |
|---|---|---|
| `JobServerProofs!TypeCorrect` | `TypeOK` | |
| `JobServerProofs!OneProcess` | `OneProcessPerSlot` | |
| `JobServerProofs!ResultsNotEmpty` | `NoEmptyResult` | |
| `JobServerProofs!AbortedSkipped` | `AbortedIsSkipped` | |
| `JobServerProofs!AbortedStays` | `AbortedResult` | |
| `JobServerProofs!EntriesOwned` | `EntryHasOwner` | running jobs are not aborted, every response can be built |
| `JobServerProofs!Refinement` | `ImplementsLifecycle` | queued jobs are not aborted |
| `ShutdownProofs!TypeCorrect` | `TypeOK` | |
| `ShutdownProofs!NoOrphans` | `NoOrphanWaiter` | |
| `ShutdownProofs!AnswersStand` | `AnswerStands` | |
| `ClientCallbacksProofs!TypeCorrect` | `TypeOK` | |
| `ClientCallbacksProofs!NothingVanishes` | `NoneVanishes` | |
| `ClientCallbacksProofs!EndMarksTrue` | `EndMarksAreTrue` | |
| `ClientCallbacksProofs!LogWhole` | `LogIsWhole` | |
| `BranchAndBoundProofs!TypeCorrect` | `TypeOK` | |
| `BranchAndBoundProofs!BoundsValid` | `BoundsAreValid` | |
| `BranchAndBoundProofs!ExhaustedSolved` | `ExhaustedIsSolved` | |
| `BranchAndBoundProofs!StatusRight` | `StatusIsRight` | |
| `BranchAndBoundProofs!HeapAlive` | `HeapIsAlive` | |
| `MipHeuristicsProofs!TypeCorrect` | `TypeOK` | |
| `MipHeuristicsProofs!TestHolds` | `TestInvariant` | |
| `MipHeuristicsProofs!Held` | `ReportedIsHeld` | |
| `MipHeuristicsProofs!NeverWorse` | `BestNeverWorse` (in no run) | |
| `MipHeuristicsProofs!Preempted` | `PreemptedIsOptimal` | |
| `ConcurrentLPProofs!TypeCorrect` | `TypeOK` | |
| `ConcurrentLPProofs!GivesUp` | `GivesUpForAnAnswer` | |
| `ConcurrentLPProofs!AnswersAreTrue` | `AnswerIsTrue` | |
| `ConcurrentLPProofs!BestReturned` | `BestIsReturned` | |
| `ConcurrentLPProofs!SettledAnswered` | `SettledIsAnswered` | |
| `EjectionSearchProofs!TypeCorrect` | `TypeOK` | |
| `EjectionSearchProofs!EachRequestOnce` | `EachOnce` | |
| `EjectionSearchProofs!SolutionAlwaysStands` | `SolutionStands` | |

### The arguments

*`JobServer`.* The parts of `InductiveInvariant`:

- `Typed`: `TypeOK`, and which program counters imply that a local holds a job.
- `SlotInv`: a live process is in `s_procs`; the processes of `s_procs` have
  different slots; whatever the watcher has found stopped stays there until it
  is replaced. This gives `OneProcessPerSlot`.
- `LockInv`: who holds `results_lock` by program counter.
- `QueueInv`: a job is on the queue once, and one solver at most has just taken it.
- `FreshInv`: while a job is *fresh* (not yet looked up by a solver) no entry
  names a process for it, no process works on it, no response carries it, the
  watcher does not report it and no handler is about to stop or delete it.
  Every delete of the abort list comes from one of these, so an aborted
  fresh job keeps its entry.
- `AbortInv`: whoever lists a job as aborted has completed its result or holds
  `results_lock` to do so; hence an empty response finds a done result, and the
  results thread, which needs the lock, drops it.

On top of it, in the same module:

- `AnswerInv` (`AbortedResult`, `OwnerInv`, `DoneInv`): the job is with at most
  one of queue, solver, responses and results thread, so that at most one
  answer can come, and none after an abort has completed the result.
- `ViewInv`, for the refinement: what a client sees of a job follows the states
  of `JobLifecycle`; every step of `JobServer` is one of it or a stutter.
- `NoStopInv`, `WatchInv`: without aborts of running jobs the pid in an entry is
  that of the process that has the job, or of one that stopped and that the
  watcher has still to look up. The hypotheses of `EntriesOwned` and
  `Refinement` are necessary: the runs `wrongkill` and `abort_done` show what
  happens without them. They restrict what clients ask, not the code.

*`Shutdown`.* `Typed` adds to `TypeOK` that a shutdown message is about no job
and that the main process lists only what it started. `ThreadInv` says how far
each of the two completing threads has come, and that the second starts when the
first is dead. `WaitInv`: who waits is registered, and once all are marked done
every registered result is done or in one of the threads' sets. `AnswerInv`: a
result that holds an answer is done and in neither of the sets. `AbortInv`: a
DELETE in progress is about some job, and one that is to stop a process has its
pid. `AnswersStand` is about any number of
requests; its exception, a DELETE between its look at the abort list and
`set_aborted`, is what `abort_done` shows to be needed.

*`ClientCallbacks`.* `ChainInv` counts the incumbents from the callback back to
the solver as one sequence without a gap, until one of the faults breaks it, and
has the answer last on the queue. `ServerInv`: a done job that was not aborted
has emptied the queue. `CallerInv`: which threads have ended where the caller's
is. `EndInv` and `LogInv`: the sentinel and the last page of the log were read
after the end of the solver. The lemmas say of appending, splitting and
concatenating what they do to sequences that count.

*`BranchAndBound`.* Trees have any number of inner nodes. `UpperInv` and
`LowerInv`: only solutions lower the upper bound, a node's bound is below its
integer optimum, and a closed node's is no better than the upper bound.
`TreeInv`: the tree hangs together; heap and hand hold leaves. `SearchInv` is
the heart: while no limit has ended the search, the optimum is found or is that
of an open node, and an active node that is not open has an active child (or
`set_status` is about to close it). The invariant is `GivenUp` once the root
relaxation was given up, when nothing is left to say but that `solve()` has
returned, and `Inv` otherwise. Hence, with an empty heap, a last active node
does not exist (a well-founded descent, `LastNode`), and the root is
closed. `GapInv` and `EndInv` carry this to the status.

*`Population`.* A population is *sound* (`Sound`) if it passes its test, ranks and
places agree, there is room for `MaxSolutions` solutions, and the best cost is
that of a feasible solution. For each operation `PopulationProofs` has a lemma: it keeps a
population sound, `Keeps` says that neither the best nor what is reported gets
worse and that only the best is newly reported, `Covers` that the best is as
good as each feasible solution that was added. The heart is `AddSolutionFacts`:
after the similar solutions, or the last one, have left (`RemovedFacts`) there is a
free place (`FreePlace`), the new solution is similar to nobody, and behind its
position costs are larger (`InsertedFacts`). Loops over a sequence are a
function on `0..Len`; `AddAllFacts` goes by the first prefix after which something
is lost. `InOrder` is what both the removal of places and the
sort come down to; `Enumerates` shows, for any total order on a finite
set, that it lists each place once. The sort is modelled as a stable one: a
permutation among equal costs passes the test as well.

*`MipHeuristics`.* `PopInv`: the population is sound, or has no room yet, and it
is empty until the first one is made (only then `find_diversity` may change the
radius). That nothing better is kept than was reported is part of soundness
(`BestInv`). A population *lacks* an objective (`Lacks`) if it has no feasible
solution, or if that objective is `Exact` and below the cost of its best.
`HeldInv`: a population that lacks what was reported has it pending, so that
`Rebuild`, which clears all and adds population and pending solutions again, ends
with what it began with, or with a feasible one that costs less. `PopNext` shows
this of every step, and that the best place is only taken by what costs no more
(`BestNeverWorse`). What changes the weights changes costs; `LacksLess` says why
nothing is lacking then that was not before: a best that costs no more than an
exact objective, which is no worse than what was reported, has that objective
itself, and no excess. `SentInv`: what branch and bound sent is covered by the
best, or in the queue, or among the external solutions under way, through every
drain, unless something better was reported or it was the zero vector of a root.
`OptimumInv`: preemption after a closed gap comes with an upper bound, sent or
reported, whose gap is closed, and it stays closed as the bound only falls.
`AnswerInv`: who was preempted has drained the queue, and nobody sends any more.
The last three together give `PreemptedIsOptimal`: the answer is feasible, and its
objective no worse than the upper bound if that is exact. `Exact` is needed: see
`BestFoundIsStored` above.

*`ConcurrentLP`.* `ControlInv`: what each program counter says of the two
results. `AloneInv`: of the solves that share the halt flag at most one is
active, as a batch uses PDLP alone. `HaltInv`: a raised flag was raised by one of
the active solve's solvers, which has the answer and waits. `TruthInv` says that a status
is true of the problem, `BestInv` that the kept point is feasible if one was.

*`EjectionSearch`.* `Inv` speaks of the variables through `Good`, so that a lemma
may say what an operation returns to, whoever called it (`FixedReturnsGood`,
`LoopSucceedsGood`, `LoopFailsGood`). `PlacesOf` is `EachOnce` as an equality of sets:
the places of the pool in use hold, each once, what the routes do not serve.
`HoldsOnce` with its lemmas says what becomes of that when requests are pushed
over a place (`PushedFacts`), permuted, popped or dropped while the pool is walked
(`EjectInsertedFacts`, by the least place after which it fails); `RoomForAll` counts that
pushes stay within the pool. It is not inductive alone: a loop that fails
returns to `saved`, so `WholeOf` says that the save serves all whenever it may
be restored or its excess was noted, and `FeasibleOf` that it is feasible when the minimizer
made it. `ControlOf` ties loop counters to program counters: failures and
iterations left add up to a constant at most, which bounds the failures. `FeasibleOf` also carries
`ExceededBy` from the repair to the minimizer, and that a generated solution has
no empty routes when it is repaired at the end, so that the repair moves nothing
there. Assumed of a problem are natural demands and capacities, what
`set_min_vehicles` accepts (at most the fleet, `data_model_view.cu:461`), and
an `Unset` above any excess. An excess is below it (`ExcessFacts`), so a
first squeeze is always saved: that is why what is returned at the end serves
all. Sums are cardinalities of sets of pairs (`Total`), since facts about folds
need induction over data.

### What stays with TLC

- Liveness (`...Spec => <>`, `~>`): the prover has no rule for fairness and
  ENABLED. These are `AbortStopsWork`, `JobCompletes`, `WaitersReleased`,
  `EndsOrHangs`, `ClientReturns`, `Terminates`, `AnswerEndsSolve`, `ReturnsInTime`
  and `Ends`.
- The properties of the violating runs, of course, which are false.

## 5. Plan

The models are as wide as planned, and every safety property the passing runs
check is a theorem. Next would be a module for the request cache (below).

## 6. Not modelled

- *Request cache and shared memory*: a component worth a module (a segment should
  outlive the jobs that name it); its state is apart from that of `JobServer`,
  where a request with a cached id is only accepted or refused.
- *Strong branching*: the threads write to disjoint ranges of variables, and what
  they compute orders the branching, which `BranchAndBound` leaves open.
- *The rest of the routing solver*: the evolutionary search compares and
  recombines complete solutions, with costs as its only state; the moves of
  local search are kernels over the routes, which `EjectionSearch` has as
  oracles.
- *Numerical kernels* (iterations and restarts of PDLP, the linear algebra of
  the simplex, feasibility jump): floating point and GPU code is out of a model
  checker's reach, and what the control needs from it is an outcome. They are
  most of the repository's lines.
- *Validation, data models, the MPS parser, bindings and file output*:
  sequential functions of one input, reached by unit tests.
- Continuous integration, packaging, documentation, benchmarks and data sets.
