------------------------------- MODULE Shutdown -------------------------------
(***************************************************************************)
(* How the cuOpt REST server stops: on a signal to its main process, when  *)
(* a solver process finds CUDA unhealthy, or when the thread that          *)
(* processes results fails (python/cuopt_server: cuopt_service.py,         *)
(* webserver.py, utils/process_handler.py, utils/job_queue.py,             *)
(* utils/solver.py).                                                       *)
(*                                                                         *)
(* The main process watches the solvers, and its signal handler may        *)
(* interrupt it between any two steps. The web server has one thread per   *)
(* POST, the results thread and the heartbeat thread. A put goes to the    *)
(* feeder thread of the process that puts (outbox), which writes to a pipe *)
(* of limited room (resq); a process ends only when its feeder is done.    *)
(*                                                                         *)
(* One DELETE of a job is in progress at a time, by abort_by_id or by      *)
(* abort_all, of which one job is looked at. What JobServer has in detail  *)
(* is one step here: a report of the watcher, setting a result and         *)
(* dropping its entry. A start that fails (port in use, no GPU) is left    *)
(* out.                                                                    *)
(***************************************************************************)
EXTENDS Naturals, Sequences, FiniteSets

CONSTANTS
  Jobs,         \* ids of the requests, each posted once and waited for
  NumSlots,     \* solver processes the service keeps
  MaxPid,       \* bound on the process ids ever used
  PipeRoom,     \* messages that the pipe of results_queue holds
  MaxEvents,    \* bound on the aborts, the solvers that die on their own,
                \* the CUDA health checks that fail and the failures of the
                \* results thread
  Exit,         \* an ExitJob on the job queue
  NoJob,
  Absent,       \* the abort list has no entry for the id
  Aborted,      \* its entry is False: aborted before a solver took it
  Finished      \* its entry is True: the solver has an answer

Main == 0                \* the main process, next to the solvers' pids
Pids == 1..MaxPid
Marks == {Absent, Aborted, Finished}

ASSUME ConstantsAssumption ==
  /\ NumSlots \in Nat \ {0} /\ PipeRoom \in Nat \ {0}
  /\ MaxEvents \in Nat /\ MaxPid \in Nat
  /\ MaxPid >= 2 * NumSlots + MaxEvents
  /\ Exit \notin Jobs /\ NoJob \notin Jobs /\ Exit # NoJob
  /\ Marks \cap Pids = {}
  /\ Absent # Aborted /\ Absent # Finished /\ Aborted # Finished

VARIABLES
  app_exit, jobs_marked_done,    \* events shared by the processes
  all_jobs_marked_done, healthy, \* of the web server's process
  terminated, short, \* main: a signal was handled; it told too few solvers
  ppc, got,          \* each POST: its program counter and its answer
  apc, aid, avalue,  \* a DELETE: program counter, job and value of its entry
  entry,             \* AbortList.jobs
  saved, done, result, \* saved_results: ids, those done, what they hold
  jobq, abortq, resq, outbox,    \* the queues, and their feeder threads
  pc, job,           \* each solver: program counter and job
  listed, nextpid,   \* keys of s_procs, the next process id
  mpc, mret,         \* main: program counter, and what a signal interrupted
  mold, mnew, mgone, \* the process it replaces, its successor, those to do
  web,               \* the web server's main thread
  rpc, rmsg, rtodo,  \* results thread: pc, message, results to complete
  hpc, htodo,        \* heartbeat thread: pc, results to complete
  events             \* how many of the bounded events have happened

flags   == <<app_exit, jobs_marked_done, terminated, short>>
results == <<all_jobs_marked_done, healthy, saved, done, result>>
posts   == <<ppc, got>>
aborts  == <<apc, aid, avalue>>
queues  == <<jobq, abortq, resq, outbox>>
solvers == <<pc, job>>
main    == <<listed, nextpid, mpc, mret, mold, mnew, mgone>>
threads == <<rpc, rmsg, rtodo, hpc, htodo>>
vars == <<flags, results, posts, aborts, entry, queues, solvers, main, web,
          threads, events>>

Message == [kind : {"answer", "aborted", "shutdown", "unhealthy"},
            id : Jobs \cup {NoJob}]

Msg(k, j) == [kind |-> k, id |-> j]

NoMessage == Msg("answer", NoJob)

Answers == {"none", "answer", "aborted", "shutdown", "refused"}

MainPCs == {"watch", "kill", "start", "list", "check", "scan", "restart",
            "drop", "marked", "join", "joinweb", "ended"}

TypeOK ==
  /\ {app_exit, jobs_marked_done, all_jobs_marked_done, healthy,
      terminated, short} \subseteq BOOLEAN
  /\ ppc \in [Jobs -> {"new", "register", "put", "blocked", "answered"}]
  /\ got \in [Jobs -> Answers]
  /\ apc \in {"ready", "value", "mark", "stop"}
  /\ aid \in Jobs \cup {NoJob} /\ avalue \in Pids \cup {Absent}
  /\ entry \in [Jobs -> Pids \cup Marks]
  /\ saved \subseteq Jobs /\ done \subseteq Jobs
  /\ result \in [Jobs -> Answers]
  /\ jobq \in Seq(Jobs \cup {Exit}) /\ abortq \in Seq(Pids)
  /\ resq \in Seq(Message) /\ Len(resq) <= PipeRoom
  /\ outbox \in [Pids \cup {Main} -> Seq(Message)]
  /\ pc \in [Pids -> {"unborn", "idle", "solving", "complete", "exited",
                      "dead"}]
  /\ job \in [Pids -> Jobs \cup {NoJob}]
  /\ listed \subseteq Pids /\ nextpid \in 1..(MaxPid + 1)
  /\ mpc \in MainPCs \cup {"terminate"} /\ mret \in MainPCs
  /\ {mold, mnew} \subseteq Pids \cup {Main} /\ mgone \subseteq Pids
  /\ web \in {"booting", "serving", "closing", "gone"}
  /\ rpc \in {"get", "set", "mark", "complete", "dead"}
  /\ rmsg \in Message /\ rtodo \subseteq Jobs
  /\ hpc \in {"watch", "mark", "complete", "done"}
  /\ htodo \subseteq Jobs
  /\ events \in 0..MaxEvents

Init ==
  /\ app_exit = FALSE /\ jobs_marked_done = FALSE
  /\ all_jobs_marked_done = FALSE /\ healthy = TRUE
  /\ terminated = FALSE /\ short = FALSE
  /\ ppc = [j \in Jobs |-> "new"] /\ got = [j \in Jobs |-> "none"]
  /\ apc = "ready" /\ aid = NoJob /\ avalue = Absent
  /\ entry = [j \in Jobs |-> Absent]
  /\ saved = {} /\ done = {} /\ result = [j \in Jobs |-> "none"]
  /\ jobq = <<>> /\ abortq = <<>> /\ resq = <<>>
  /\ outbox = [p \in Pids \cup {Main} |-> <<>>]
  /\ pc = [p \in Pids |-> IF p <= NumSlots THEN "idle" ELSE "unborn"]
  /\ job = [p \in Pids |-> NoJob]
  /\ listed = 1..NumSlots /\ nextpid = NumSlots + 1
  /\ mpc = "watch" /\ mret = "watch" /\ mold = Main /\ mnew = Main /\ mgone = {}
  /\ web = "booting"
  /\ rpc = "get" /\ rmsg = NoMessage /\ rtodo = {}
  /\ hpc = "watch" /\ htodo = {}
  /\ events = 0

Happens == events < MaxEvents /\ events' = events + 1

Put(p, m) == outbox' = [outbox EXCEPT ![p] = Append(@, m)]

Live(p) == pc[p] \in {"idle", "solving"}

\* solver_complete is set.
Complete(p) == pc[p] \in {"complete", "exited"}

\* set_result: whoever waits for the result of j is woken.
SetResult(j, r) ==
  /\ result' = [result EXCEPT ![j] = r]
  /\ done' = done \cup {j}

\* Nobody is inside results_lock between two steps.
LockFree == apc \notin {"value", "mark"}

\* AbortList.delete.
EntryDeleted(j) ==
  entry' = [i \in Jobs |-> IF i = j THEN Absent ELSE entry[i]]

-----------------------------------------------------------------------------
(* A POST to /cuopt/cuopt.                                                 *)

Answer(j, r) ==
  /\ ppc' = [ppc EXCEPT ![j] = "answered"]
  /\ got' = [got EXCEPT ![j] = r]

Post(j) ==
  /\ web = "serving" /\ ppc[j] = "new"
  /\ IF app_exit \/ ~healthy
       THEN Answer(j, "refused")
       ELSE ppc' = [ppc EXCEPT ![j] = "register"] /\ UNCHANGED got
  /\ UNCHANGED <<flags, results, aborts, entry, queues, solvers, main, web,
                 threads, events>>

Register(j) ==
  /\ ppc[j] = "register" /\ LockFree
  /\ ppc' = [ppc EXCEPT ![j] = "put"]
  /\ saved' = saved \cup {j}
  /\ UNCHANGED <<all_jobs_marked_done, healthy, done, result, got>>
  /\ UNCHANGED <<flags, aborts, entry, queues, solvers, main, web, threads,
                 events>>

WaitUnchecked(j) ==
  /\ ppc[j] = "put"
  /\ jobq' = Append(jobq, j)
  /\ ppc' = [ppc EXCEPT ![j] = "blocked"]
  /\ UNCHANGED <<got, results, aborts, entry, abortq, resq, outbox>>
  /\ UNCHANGED <<flags, solvers, main, web, threads, events>>

\* wait_for_job: BaseResult.wait reads is_done() first, and only if it is not
\* the flag all_jobs_marked_done; a result completed between the two is lost.
WaitForJob(j) ==
  /\ ppc[j] = "put"
  /\ jobq' = Append(jobq, j)
  /\ \/ /\ all_jobs_marked_done /\ LockFree
        /\ Answer(j, "shutdown") /\ saved' = saved \ {j}
     \/ /\ ~all_jobs_marked_done \/ j \in done
        /\ ppc' = [ppc EXCEPT ![j] = "blocked"]
        /\ UNCHANGED <<got, saved>>
  /\ UNCHANGED <<all_jobs_marked_done, healthy, done, result>>
  /\ UNCHANGED <<aborts, entry, abortq, resq, outbox>>
  /\ UNCHANGED <<flags, solvers, main, web, threads, events>>

\* unregister_result takes results_lock.
Wake(j) ==
  /\ ppc[j] = "blocked" /\ j \in done /\ LockFree
  /\ Answer(j, result[j]) /\ saved' = saved \ {j}
  /\ UNCHANGED <<all_jobs_marked_done, healthy, done, result>>
  /\ UNCHANGED <<flags, aborts, entry, queues, solvers, main, web, threads,
                 events>>

PostStep(j) == Register(j) \/ WaitForJob(j) \/ Wake(j)

-----------------------------------------------------------------------------
(* A DELETE of /cuopt/request.                                             *)

\* It takes results_lock and goes on if the result is not done.
Abort(j) ==
  /\ web = "serving" /\ Happens
  /\ apc = "ready" /\ j \in saved \ done
  /\ apc' = "value" /\ aid' = j
  /\ UNCHANGED <<flags, results, posts, avalue, entry, queues, solvers, main,
                 web, threads>>

\* Which jobs are aborted, by the flags of the request.
ToBeAborted(v, running, queued) ==
  \/ queued /\ v = Absent
  \/ running /\ v \in Pids

\* Look the job up on the abort list, adding it if queued jobs are aborted.
\* set_result takes no lock: the result may be done by then.
AbortValue ==
  /\ apc = "value"
  /\ \E running, queued \in BOOLEAN :
       /\ running \/ queued
       /\ IF queued /\ entry[aid] = Absent
            THEN entry' = [entry EXCEPT ![aid] = Aborted]
            ELSE UNCHANGED entry
       /\ IF ToBeAborted(entry[aid], running, queued)
            THEN apc' = "mark" /\ avalue' = entry[aid] /\ UNCHANGED aid
            ELSE apc' = "ready" /\ aid' = NoJob /\ UNCHANGED avalue
  /\ UNCHANGED <<flags, results, posts, queues, solvers, main, web, threads,
                 events>>

MustStopAny(v) == TRUE

\* "It's currently running so we should stop the process"
MustStop(v) == v # Absent

\* set_aborted, whatever the result holds. abort_all gives up results_lock
\* before it stops processes, abort_by_id keeps it.
AbortMark ==
  /\ apc = "mark"
  /\ SetResult(aid, "aborted")
  /\ IF MustStop(avalue)
       THEN apc' = "stop" /\ UNCHANGED <<aid, avalue>>
       ELSE apc' = "ready" /\ aid' = NoJob /\ avalue' = Absent
  /\ UNCHANGED <<all_jobs_marked_done, healthy, saved>>
  /\ UNCHANGED <<flags, posts, entry, queues, solvers, main, web, threads,
                 events>>

AbortStop ==
  /\ apc = "stop"
  /\ abortq' = Append(abortq, avalue)
  /\ EntryDeleted(aid)
  /\ apc' = "ready" /\ aid' = NoJob /\ avalue' = Absent
  /\ UNCHANGED <<jobq, resq, outbox>>
  /\ UNCHANGED <<flags, results, posts, solvers, main, web, threads, events>>

AbortStep == AbortValue \/ AbortMark \/ AbortStop

-----------------------------------------------------------------------------
(* A solver process (process_async_solve).                                 *)

\* What the solver does with what it got off the queue: anything makes it
\* leave once the service exits, an aborted job is skipped.
Taken(p, item) ==
  IF item = Exit \/ app_exit
    THEN /\ pc' = [pc EXCEPT ![p] = "complete"]
         /\ UNCHANGED <<job, entry, outbox>>
  ELSE IF entry[item] # Absent
    THEN Put(p, Msg("aborted", item)) /\ UNCHANGED <<solvers, entry>>
  ELSE /\ pc' = [pc EXCEPT ![p] = "solving"]
       /\ job' = [job EXCEPT ![p] = item]
       /\ entry' = [entry EXCEPT ![item] = p]
       /\ UNCHANGED outbox

Take(p) ==
  /\ pc[p] = "idle" /\ jobq # <<>>
  /\ jobq' = Tail(jobq)
  /\ Taken(p, Head(jobq))
  /\ UNCHANGED <<abortq, resq>>
  /\ UNCHANGED <<flags, results, posts, aborts, main, web, threads, events>>

\* AbortList.update, then the response.
FinishSolve(p) ==
  /\ pc[p] = "solving"
  /\ entry' = [entry EXCEPT ![job[p]] = IF @ = Absent THEN @ ELSE Finished]
  /\ Put(p, Msg("answer", job[p]))
  /\ pc' = [pc EXCEPT ![p] = "idle"]
  /\ job' = [job EXCEPT ![p] = NoJob]
  /\ UNCHANGED <<jobq, abortq, resq>>
  /\ UNCHANGED <<flags, results, posts, aborts, main, web, threads, events>>

\* check_and_send finds CUDA unhealthy, with a job in hand or, when the wait
\* for one times out, without.
CudaFails(p) ==
  /\ Live(p) /\ Happens
  /\ Put(p, Msg("unhealthy", NoJob))
  /\ pc' = [pc EXCEPT ![p] = "complete"]
  /\ job' = [job EXCEPT ![p] = NoJob]
  /\ UNCHANGED <<entry, jobq, abortq, resq>>
  /\ UNCHANGED <<flags, results, posts, aborts, main, web, threads>>

\* The feeder thread of process p writes to the pipe.
Feed(p) ==
  /\ outbox[p] # <<>> /\ Len(resq) < PipeRoom
  /\ resq' = Append(resq, Head(outbox[p]))
  /\ outbox' = [outbox EXCEPT ![p] = Tail(@)]
  /\ UNCHANGED <<jobq, abortq>>
  /\ UNCHANGED <<flags, results, posts, aborts, entry, solvers, main, web,
                 threads, events>>

ExitProcess(p) ==
  /\ pc[p] = "complete" /\ outbox[p] = <<>>
  /\ pc' = [pc EXCEPT ![p] = "exited"]
  /\ UNCHANGED job
  /\ UNCHANGED <<flags, results, posts, aborts, entry, queues, main, web,
                 threads, events>>

\* SIGKILL: what the feeder has not written is lost.
Killed(ps) ==
  /\ pc' = [p \in Pids |-> IF p \in ps /\ pc[p] \notin {"unborn", "exited"}
                             THEN "dead" ELSE pc[p]]
  /\ job' = [p \in Pids |-> IF p \in ps THEN NoJob ELSE job[p]]
  /\ outbox' = [p \in DOMAIN outbox |->
                  IF p \in ps THEN <<>> ELSE outbox[p]]

Crash(p) ==
  /\ pc[p] = "solving" /\ Happens
  /\ Killed({p})
  /\ UNCHANGED <<entry, jobq, abortq, resq>>
  /\ UNCHANGED <<flags, results, posts, aborts, main, web, threads>>

SolverStep(p) == Take(p) \/ FinishSolve(p) \/ ExitProcess(p)

-----------------------------------------------------------------------------
(* The main process: watch_solvers, the end of __main__.                   *)

Goto(l) == mpc' = l /\ UNCHANGED mret

WatchUnchanged ==
  UNCHANGED <<flags, results, posts, aborts, web, threads, events>>

NeverExits == "scan"

\* "everything is exiting, main will check s_procs"
AfterCheck == IF app_exit THEN "marked" ELSE "scan"

\* abort_queue.get, which raises once terminate has closed the queue.
WatchAbort ==
  /\ mpc = "watch" /\ WatchUnchanged /\ UNCHANGED <<entry, jobq, resq>>
  /\ UNCHANGED <<listed, nextpid, mnew, mgone>>
  /\ \/ /\ terminated
        /\ Goto("marked") /\ UNCHANGED <<abortq, mold, solvers, outbox>>
     \/ /\ ~terminated /\ abortq # <<>>
        /\ abortq' = Tail(abortq) /\ mold' = Head(abortq)
        /\ IF app_exit
             THEN Goto("marked") /\ UNCHANGED <<solvers, outbox>>
             ELSE Goto("kill") /\ Killed({Head(abortq)})
     \/ /\ ~terminated /\ abortq = <<>>
        /\ Goto(AfterCheck) /\ UNCHANGED <<abortq, mold, solvers, outbox>>

\* s_procs[abort_id] raises KeyError when the process is not there.
Forget ==
  /\ mpc = "kill" /\ WatchUnchanged
  /\ IF mold \in listed
       THEN Goto("start") /\ listed' = listed \ {mold}
       ELSE Goto("marked") /\ UNCHANGED listed
  /\ UNCHANGED <<entry, queues, solvers, nextpid, mold, mnew, mgone>>

\* s.start() of create_process. A process forked from a main process whose
\* queues are closed leaves its loop at once.
StartProcess ==
  /\ mpc = "start" /\ nextpid <= MaxPid /\ WatchUnchanged
  /\ pc' = [pc EXCEPT ![nextpid] = IF terminated THEN "complete" ELSE "idle"]
  /\ mnew' = nextpid /\ nextpid' = nextpid + 1
  /\ Goto("list")
  /\ UNCHANGED <<entry, job, queues, listed, mold, mgone>>

\* create_process enters it in s_procs. The scan drops the one it replaces
\* only after that, a kill has done so before.
ListProcess ==
  /\ mpc = "list" /\ WatchUnchanged
  /\ listed' = listed \cup {mnew} /\ mnew' = Main
  /\ IF mold \in listed
       THEN Goto("drop") /\ UNCHANGED mold
       ELSE Goto("check") /\ mold' = Main
  /\ UNCHANGED <<entry, queues, solvers, nextpid, mgone>>

DropReplaced ==
  /\ mpc = "drop" /\ WatchUnchanged
  /\ listed' = listed \ {mold} /\ mold' = Main
  /\ Goto("restart")
  /\ UNCHANGED <<entry, queues, solvers, nextpid, mnew, mgone>>

CheckExit ==
  /\ mpc = "check" /\ WatchUnchanged
  /\ Goto(AfterCheck)
  /\ UNCHANGED <<entry, queues, solvers, listed, nextpid, mold, mnew, mgone>>

Stopped(p) == Complete(p) \/ pc[p] = "dead"

\* find_job_by_pid.
JobOf(p) ==
  LET js == {j \in Jobs : entry[j] = p}
  IN IF js = {} THEN NoJob ELSE CHOOSE j \in js : TRUE

EntriesDeleted(ps) ==
  entry' = [j \in Jobs |-> IF j \in {JobOf(p) : p \in ps} THEN Absent
                           ELSE entry[j]]

\* abort_by_pid sends an answer for each process that has stopped, for no job
\* if it had none. It raises once terminate has closed results_queue, and the
\* watcher ends.
Report(gone) ==
  \/ /\ ~terminated \/ gone = {}
     /\ Goto(IF gone = {} THEN "watch" ELSE "restart")
     /\ EntriesDeleted(gone)
     /\ \E s \in [1..Cardinality(gone) -> gone] :
          /\ \A p \in gone : \E i \in DOMAIN s : s[i] = p
          /\ outbox' = [outbox EXCEPT ![Main] =
               @ \o [i \in DOMAIN s |-> Msg("aborted", JobOf(s[i]))]]
  \/ /\ terminated
     /\ Goto("marked")
     /\ \E p \in gone : EntriesDeleted({p})
     /\ UNCHANGED outbox

Scan ==
  /\ mpc = "scan" /\ WatchUnchanged
  /\ mgone' = {p \in listed : Stopped(p)}
  /\ Report(mgone')
  /\ UNCHANGED <<solvers, jobq, abortq, resq, listed, nextpid, mold, mnew>>

Restart ==
  /\ mpc = "restart" /\ WatchUnchanged
  /\ IF mgone = {}
       THEN Goto("watch") /\ UNCHANGED <<mold, mgone>>
       ELSE \E p \in mgone : /\ mold' = p /\ mgone' = mgone \ {p}
                             /\ Goto("start")
  /\ UNCHANGED <<entry, queues, solvers, listed, nextpid, mnew>>

\* jobs_marked_done.wait(timeout=1), then s.process.join() for each solver,
\* then w.join(). Threads left over by then are killed.
WaitMarked == mpc = "marked" /\ Goto("join")

JoinSolvers ==
  /\ mpc = "join" /\ \A p \in listed : pc[p] \in {"exited", "dead"}
  /\ Goto("joinweb")

JoinWeb == mpc = "joinweb" /\ web = "gone" /\ Goto("ended")

Join ==
  /\ WaitMarked \/ JoinSolvers \/ JoinWeb
  /\ WatchUnchanged
  /\ UNCHANGED <<entry, queues, solvers, listed, nextpid, mold, mnew, mgone>>

ExitJobs == [i \in 1..Cardinality(listed) |-> Exit]

\* A signal: handle_exit runs between two steps of the main process, once.
\* terminate tells as many solvers as s_procs has, and the results thread.
Signal ==
  /\ ~terminated /\ mpc # "ended"
  /\ terminated' = TRUE /\ app_exit' = TRUE
  /\ short' = (Cardinality({p \in Pids : Live(p)}) > Cardinality(listed))
  /\ jobq' = jobq \o ExitJobs
  /\ Put(Main, Msg("shutdown", NoJob))
  /\ mret' = mpc /\ mpc' = "terminate"
  /\ UNCHANGED <<jobs_marked_done, abortq, resq>>
  /\ UNCHANGED <<listed, nextpid, mold, mnew, mgone>>
  /\ UNCHANGED <<results, posts, aborts, entry, solvers, web, threads, events>>

\* All solvers are complete within 0.2 seconds, or all are killed.
Terminate ==
  /\ mpc = "terminate" /\ WatchUnchanged
  /\ mpc' = mret /\ mret' = "watch"
  /\ \/ /\ \A p \in listed : Complete(p)
        /\ UNCHANGED <<solvers, outbox>>
     \/ /\ \E p \in listed : ~Complete(p)
        /\ Killed(listed)
  /\ UNCHANGED <<entry, jobq, abortq, resq>>
  /\ UNCHANGED <<listed, nextpid, mold, mnew, mgone>>

MainStep ==
  \/ WatchAbort \/ Forget \/ StartProcess \/ ListProcess \/ DropReplaced
  \/ CheckExit \/ Scan \/ Restart \/ Join \/ Terminate

-----------------------------------------------------------------------------
(* The web server's process.                                               *)

\* SIGTERM to the web server: ignored until uvicorn has set its handler.
TerminateWeb == web' = IF web = "serving" THEN "closing" ELSE web

ThreadUnchanged ==
  UNCHANGED <<posts, aborts, solvers, main, terminated, short, events>>

UncollectedResults == saved \ done

\* The result a response is for is looked up under results_lock. A response
\* that nobody waits for has its entry deleted.
GetMessage ==
  /\ rpc = "get" /\ resq # <<>>
  /\ resq' = Tail(resq)
  /\ LET m == Head(resq)
     IN \/ /\ m.kind \in {"shutdown", "unhealthy"}
           /\ rmsg' = m /\ rpc' = "mark" /\ UNCHANGED entry
        \/ /\ m.id \in UncollectedResults /\ LockFree
           /\ rmsg' = m /\ rpc' = "set" /\ UNCHANGED entry
        \/ /\ m.kind \in {"answer", "aborted"} /\ LockFree
           /\ m.id \notin UncollectedResults
           /\ EntryDeleted(m.id) /\ UNCHANGED <<rmsg, rpc>>
  /\ UNCHANGED <<app_exit, jobs_marked_done, jobq, abortq, outbox>>
  /\ UNCHANGED <<results, rtodo, hpc, htodo, web>>

\* The get times out after app_exit.
GetTimesOut ==
  /\ rpc = "get" /\ resq = <<>> /\ app_exit
  /\ rmsg' = Msg("shutdown", NoJob) /\ rpc' = "mark"
  /\ UNCHANGED <<app_exit, jobs_marked_done, rtodo, hpc, htodo, web>>
  /\ UNCHANGED <<entry, queues, results>>

\* set_result, without the lock, and AbortList.delete.
SetAnswer ==
  /\ rpc = "set"
  /\ SetResult(rmsg.id, rmsg.kind) /\ EntryDeleted(rmsg.id)
  /\ rpc' = "get" /\ rmsg' = NoMessage
  /\ UNCHANGED <<all_jobs_marked_done, healthy, saved>>
  /\ UNCHANGED <<app_exit, jobs_marked_done, rtodo, hpc, htodo, web>>
  /\ UNCHANGED queues

\* Shutdown.process, by the results thread: under results_lock it collects
\* the results to complete and marks all done; then it completes each.
MarkAll ==
  /\ rpc = "mark" /\ LockFree
  /\ rtodo' = IF all_jobs_marked_done THEN {} ELSE UncollectedResults
  /\ all_jobs_marked_done' = TRUE
  /\ rpc' = "complete"
  /\ UNCHANGED <<healthy, saved, done, result>>
  /\ UNCHANGED <<app_exit, jobs_marked_done, rmsg, hpc, htodo, web>>
  /\ UNCHANGED <<entry, queues>>

CompleteOne ==
  /\ rpc = "complete"
  /\ \E j \in rtodo : SetResult(j, "shutdown") /\ rtodo' = rtodo \ {j}
  /\ UNCHANGED <<all_jobs_marked_done, healthy, saved, entry, queues>>
  /\ UNCHANGED <<app_exit, jobs_marked_done, rpc, rmsg, hpc, htodo, web>>

AllCompleted == rtodo = {}

\* set_unhealthy, jobs_marked_done.set(), terminate_pid(parent), break.
EndResults ==
  /\ rpc = "complete" /\ AllCompleted
  /\ healthy' = (healthy /\ rmsg.kind # "unhealthy")
  /\ jobs_marked_done' = TRUE /\ TerminateWeb
  /\ rpc' = "dead" /\ rmsg' = NoMessage
  /\ UNCHANGED <<all_jobs_marked_done, saved, done, result>>
  /\ UNCHANGED <<app_exit, rtodo, hpc, htodo, entry, queues>>

\* results_queue.get or the message fails, and the thread ends.
ResultsThreadFails ==
  /\ rpc = "get" /\ web # "gone" /\ Happens
  /\ rpc' = "dead"
  /\ UNCHANGED <<flags, results, posts, aborts, entry, queues, solvers, main,
                 web>>
  /\ UNCHANGED <<rmsg, rtodo, hpc, htodo>>

HeartbeatFindsExit == app_exit

HeartbeatFindsDead == rpc = "dead"

HeartbeatWakes ==
  /\ hpc = "watch" /\ HeartbeatFindsDead
  /\ app_exit' = TRUE /\ hpc' = "mark"
  /\ UNCHANGED <<jobs_marked_done, rpc, rmsg, rtodo, htodo, web>>
  /\ UNCHANGED <<results, entry, queues>>

HeartbeatSkips ==
  /\ hpc = "mark" /\ hpc' = "complete"
  /\ UNCHANGED <<app_exit, jobs_marked_done, rpc, rmsg, rtodo, htodo, web>>
  /\ UNCHANGED <<results, entry, queues>>

\* Shutdown().process() again, by the heartbeat thread.
HeartbeatMarks ==
  /\ hpc = "mark" /\ LockFree
  /\ htodo' = IF all_jobs_marked_done THEN {} ELSE UncollectedResults
  /\ all_jobs_marked_done' = TRUE
  /\ hpc' = "complete"
  /\ UNCHANGED <<healthy, saved, done, result>>
  /\ UNCHANGED <<app_exit, jobs_marked_done, rpc, rmsg, rtodo, web>>
  /\ UNCHANGED <<entry, queues>>

HeartbeatCompletes ==
  /\ hpc = "complete"
  /\ \E j \in htodo : SetResult(j, "shutdown") /\ htodo' = htodo \ {j}
  /\ UNCHANGED <<all_jobs_marked_done, healthy, saved, entry, queues>>
  /\ UNCHANGED <<app_exit, jobs_marked_done, rpc, rmsg, rtodo, hpc, web>>

EndHeartbeat ==
  /\ hpc = "complete" /\ htodo = {}
  /\ jobs_marked_done' = TRUE /\ TerminateWeb /\ hpc' = "done"
  /\ UNCHANGED <<app_exit, rpc, rmsg, rtodo, htodo, results, entry, queues>>

ResultsStep ==
  /\ \/ GetMessage \/ GetTimesOut \/ SetAnswer
     \/ MarkAll \/ CompleteOne \/ EndResults
  /\ ThreadUnchanged

\* The threads end with their process.
HeartbeatStep ==
  /\ web # "gone"
  /\ \/ HeartbeatWakes \/ HeartbeatMarks \/ HeartbeatCompletes
     \/ EndHeartbeat
  /\ ThreadUnchanged

\* uvicorn starts, and on SIGTERM ends when no request is in progress.
Serve ==
  /\ web = "booting" /\ web' = "serving"
  /\ UNCHANGED <<flags, results, posts, aborts, entry, queues, solvers, main,
                 threads, events>>

Close ==
  /\ web = "closing" /\ apc = "ready"
  /\ \A j \in Jobs : ppc[j] \in {"new", "answered"}
  /\ web' = "gone" /\ jobs_marked_done' = TRUE
  /\ UNCHANGED <<app_exit, terminated, short>>
  /\ UNCHANGED <<results, posts, aborts, entry, queues, solvers, main, threads,
                 events>>

WebStep == Serve \/ Close
-----------------------------------------------------------------------------
Next ==
  \/ \E j \in Jobs : Post(j) \/ PostStep(j) \/ Abort(j)
  \/ AbortStep
  \/ \E p \in Pids : SolverStep(p) \/ CudaFails(p) \/ Crash(p)
  \/ \E p \in Pids \cup {Main} : Feed(p)
  \/ Signal \/ MainStep \/ ResultsStep \/ ResultsThreadFails
  \/ HeartbeatStep \/ WebStep

Spec == Init /\ [][Next]_vars

\* Processes and threads run on, a solve ends. Nobody has to post, to abort
\* or to stop the service, and nothing has to fail.
FairSpec ==
  /\ Spec
  /\ \A j \in Jobs : WF_vars(PostStep(j))
  /\ \A p \in Pids : WF_vars(SolverStep(p))
  /\ \A p \in Pids \cup {Main} : WF_vars(Feed(p))
  /\ WF_vars(AbortStep) /\ WF_vars(MainStep) /\ WF_vars(WebStep)
  /\ WF_vars(ResultsStep) /\ WF_vars(HeartbeatStep)
-----------------------------------------------------------------------------
(* Safety.                                                                 *)

\* No client is left waiting by a shutdown: once all jobs are marked done,
\* a POST that blocks on its result is one whose result is done, or will be
\* by the thread that marked them. "If we snuck in during a shutdown and
\* missed being marked complete, just finish" (job_queue.py:540).  And
\* jobs_marked_done is set "when all jobs have been marked done, to give a
\* chance for anyone actively waiting to get a graceful response"
\* (cuopt_service.py:90): nobody waits for a result any more by then, whoever
\* sets the flag.
NoOrphanWaiter ==
  /\ all_jobs_marked_done =>
       \A j \in Jobs : ppc[j] = "blocked" => j \in done \cup rtodo \cup htodo
  /\ jobs_marked_done => \A j \in Jobs : ppc[j] = "blocked" => j \in done

\* The answer of a solver that a client may already have seen stands: neither
\* of the two threads that shut down replaces it, nor a response that comes
\* late. Only a DELETE that was under way when it came may (finding abort_done
\* of JobServer).
AnswerStands ==
  [][\A j \in Jobs : result[j] = "answer" =>
       \/ result'[j] = "answer"
       \/ apc = "mark" /\ aid = j /\ result'[j] = "aborted"]_vars

-----------------------------------------------------------------------------
(* Liveness.                                                               *)

\* Once the service exits every POST in progress gets its answer, whatever
\* failed and whoever noticed.
WaitersReleased ==
  app_exit ~> \A j \in Jobs : ppc[j] \in {"new", "answered"}

\* What may keep the main process from ending.

\* A solver waits for a job that never comes: it was started when terminate
\* ran and not yet in s_procs, or there was no signal, and so no ExitJob.
Untold ==
  /\ mpc = "join" /\ (short \/ ~terminated)
  /\ jobq = <<>> /\ \E p \in listed : pc[p] = "idle"

\* A solver that is complete has an answer to write that nobody reads.
Clogged ==
  /\ rpc = "dead" /\ Len(resq) = PipeRoom
  /\ \E p \in listed : pc[p] = "complete" /\ outbox[p] # <<>>

\* The web server started after both of its threads had sent it SIGTERM.
Deaf == web = "serving" /\ hpc = "done"

\* It ended before its heartbeat thread could tell the others to exit.
Silent == web = "gone" /\ ~app_exit

\* A shutdown ends the service, but for these four cases.
EndsOrHangs ==
  app_exit \/ all_jobs_marked_done ~>
    [](mpc = "ended" \/ Untold \/ Clogged \/ Deaf \/ Silent)
=============================================================================
