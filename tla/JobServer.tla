----------------------------- MODULE JobServer -----------------------------
(***************************************************************************)
(* The job path of the cuOpt REST server: the handlers of the web server,  *)
(* the thread that processes results, the pool of solver processes and the *)
(* watcher that restarts them, sharing one table of results, one abort     *)
(* list and three multiprocessing queues                                   *)
(* (python/cuopt_server: webserver.py, utils/job_queue.py,                 *)
(* utils/solver.py, utils/process_handler.py).                             *)
(*                                                                         *)
(* A step is a stretch of code that no other thread or process can observe *)
(* half done: a section under results_lock that touches nothing else, one  *)
(* operation of the abort list (it has its own lock), one put or get.      *)
(* abort_by_id, abort_all, SolverBinaryResponse.process and the loop of a  *)
(* solver are therefore several steps each.                                *)
(*                                                                         *)
(* Left to other modules: shutdown and unhealthy CUDA devices, the cache   *)
(* of requests, incumbent solutions.                                       *)
(***************************************************************************)
EXTENDS Naturals, Sequences, FiniteSets

CONSTANTS
  Jobs,        \* ids of the requests that clients may post
  SyncJobs,    \* those posted to /cuopt/cuopt, whose handler waits
  LPJobs,      \* those whose answer carries PDLP warm start data
  Handlers,    \* threads serving DELETE /cuopt/request/{id}
  AbortFlags,  \* the [running, queued] query flags clients use
  NumSlots,    \* solver processes the service keeps, one per slot
  MaxPid,      \* bound on the process ids ever used
  MaxAborts,   \* bound on the DELETE requests
  MaxCrashes,  \* bound on the solver processes that die on their own
  CrashPoints, \* where in its loop a solver process may die
  Absent,      \* the abort list has no entry for the id
  Aborted,     \* its entry is False: aborted before a solver took it
  Finished,    \* its entry is True: the solver has an answer
  None         \* no job, no lock holder, no process

Pids == 1..MaxPid
Marks == {Absent, Aborted, Finished}
Flags == [running: BOOLEAN, queued: BOOLEAN]
AllCrashPoints == {"idle", "reading", "got", "solving", "marked"}

ASSUME ConstantsAssumption ==
  /\ SyncJobs \subseteq Jobs /\ LPJobs \subseteq Jobs
  /\ None \notin Jobs \cup Handlers \cup Pids
  /\ AbortFlags \subseteq Flags
  /\ NumSlots \in Nat \ {0} /\ MaxPid \in Nat /\ NumSlots <= MaxPid
  /\ MaxAborts \in Nat /\ MaxCrashes \in Nat
  /\ CrashPoints \subseteq AllCrashPoints
  /\ Marks \cap Pids = {}
  /\ Absent # Aborted /\ Absent # Finished /\ Aborted # Finished

VARIABLES
  post,     \* how far the POST of each job has come
  saved,    \* keys of saved_results
  done,     \* results whose done event is set
  aborted,  \* results whose aborted flag is set
  result,   \* what the result object holds
  warm,     \* results that hold warm start data
  lock,     \* the handler inside results_lock between two steps, or None
  entry,    \* AbortList.jobs
  jobq, abortq, resq,  \* job_queue, abort_queue, results_queue
  reader,   \* the process inside job_queue's read lock, or None
  pc, job,  \* program counter and current job of each solver process
  procs,    \* keys of process_handler.s_procs
  slot,     \* the slot (GPU) each process was created for
  nextpid,  \* the next process id
  hpc,      \* program counter of each handler thread of DELETE /cuopt/request
  hreq,     \* its request: abort one id or all, and the flags
  htodo,    \* what abort_all's walk of saved_results has still to visit
  hid, hvalue, \* the id it is at, and the value of its entry
  hstop,    \* ids_to_delete: the processes to stop, with their jobs
  rpc, rmsg,   \* program counter and message of the results thread
  wpc,      \* program counter of the watcher
  wtodo, wgone, \* stopped processes it has still to report, to replace
  wpid, wid,   \* the process it is reporting and the job found for it
  naborts, ncrashes

resultVars == <<saved, done, aborted, result, warm>>
queueVars  == <<jobq, abortq, resq>>
solverVars == <<reader, pc, job>>
procVars   == <<procs, slot, nextpid>>
handlerVars == <<hpc, hreq, htodo, hid, hvalue, hstop>>
receiverVars == <<rpc, rmsg>>
watchVars == <<wpc, wtodo, wgone, wpid, wid>>
vars == <<post, resultVars, lock, entry, queueVars, solverVars, procVars,
          handlerVars, receiverVars, watchVars, naborts, ncrashes>>

-----------------------------------------------------------------------------
Answers == {"none", "answer", "aborted"}

Message == [id: Jobs \cup {None}, ans: Answers]

NoMessage == [id |-> None, ans |-> "none"]

HandlerPCs == {"ready", "next", "value", "mark", "stop", "delete"}

Request == [all: BOOLEAN, flags: Flags]

NoRequest == [all |-> FALSE, flags |-> [running |-> FALSE, queued |-> FALSE]]

TypeOK ==
  /\ post \in [Jobs -> {"new", "registered", "sent", "failed"}]
  /\ saved \subseteq Jobs
  /\ done \subseteq Jobs
  /\ aborted \subseteq Jobs
  /\ result \in [Jobs -> Answers]
  /\ warm \subseteq Jobs
  /\ lock \in Handlers \cup {None}
  /\ entry \in [Jobs -> Pids \cup Marks]
  /\ jobq \in Seq(Jobs)
  /\ abortq \in Seq(Pids)
  /\ resq \in Seq(Message)
  /\ reader \in Pids \cup {None}
  /\ pc \in [Pids -> AllCrashPoints \cup {"unborn", "exited", "dead"}]
  /\ job \in [Pids -> Jobs \cup {None}]
  /\ procs \subseteq Pids
  /\ slot \in [Pids -> 0..NumSlots]
  /\ nextpid \in 1..(MaxPid + 1)
  /\ hpc \in [Handlers -> HandlerPCs]
  /\ hreq \in [Handlers -> Request]
  /\ htodo \in [Handlers -> SUBSET Jobs]
  /\ hid \in [Handlers -> Jobs \cup {None}]
  /\ hvalue \in [Handlers -> Pids \cup Marks]
  /\ hstop \in [Handlers -> Seq(Pids \X Jobs)]
  /\ rpc \in {"get", "set", "warm", "delete"}
  /\ rmsg \in Message
  /\ wpc \in {"get", "scan", "find", "report", "restart", "crashed"}
  /\ wtodo \subseteq Pids /\ wgone \subseteq Pids
  /\ wpid \in Pids \cup {None}
  /\ wid \in Jobs \cup {None}
  /\ naborts \in 0..MaxAborts
  /\ ncrashes \in 0..MaxCrashes

Init ==
  /\ post = [j \in Jobs |-> "new"]
  /\ saved = {} /\ done = {} /\ aborted = {} /\ warm = {}
  /\ result = [j \in Jobs |-> "none"]
  /\ lock = None
  /\ entry = [j \in Jobs |-> Absent]
  /\ jobq = <<>> /\ abortq = <<>> /\ resq = <<>>
  /\ reader = None
  /\ pc = [p \in Pids |-> IF p <= NumSlots THEN "idle" ELSE "unborn"]
  /\ job = [p \in Pids |-> None]
  /\ procs = 1..NumSlots
  /\ slot = [p \in Pids |-> IF p <= NumSlots THEN p ELSE 0]
  /\ nextpid = NumSlots + 1
  /\ hpc = [h \in Handlers |-> "ready"]
  /\ hreq = [h \in Handlers |-> NoRequest]
  /\ htodo = [h \in Handlers |-> {}]
  /\ hid = [h \in Handlers |-> None]
  /\ hvalue = [h \in Handlers |-> Absent]
  /\ hstop = [h \in Handlers |-> <<>>]
  /\ rpc = "get" /\ rmsg = NoMessage
  /\ wpc = "get" /\ wtodo = {} /\ wgone = {} /\ wpid = None /\ wid = None
  /\ naborts = 0 /\ ncrashes = 0

-----------------------------------------------------------------------------
(* Operations of the abort list and of the result table.                  *)

\* Mutant: delete forgets to take the id off the list.
ListUnchanged(id) == entry

\* AbortList.delete(id): nothing happens when the id is not listed.
ListWithout(id) == [j \in Jobs |-> IF j = id THEN Absent ELSE entry[j]]

\* Mutant: a queued job is looked up but not listed as aborted.
ListNotAdded(j, f) == entry

\* What AbortList.add_id_or_return(id) (queued jobs are to be aborted) or
\* AbortList.get(id) leaves in the list.
ListAfterRead(j, f) ==
  IF f.queued /\ entry[j] = Absent THEN [entry EXCEPT ![j] = Aborted]
                                   ELSE entry

\* Mutant: a queued job is listed as aborted, its result is not completed.
AbortOnlyRunning(value, f) == f.running /\ value \in Pids

\* Mutant: an answer in transit (True) is taken for a running job.
AbortAnyEntry(value, f) == value # Absent \/ f.queued

\* The value read calls for an abort: the job is queued, or a process has it.
ToBeAborted(value, f) ==
  \/ f.queued /\ value = Absent
  \/ f.running /\ value \in Pids

\* Mutant: the job of a stopped process is never found.
NoJobOf(p) == {}

\* AbortList.find_job_by_pid: the jobs whose entry is the pid.
JobsOf(p) == {j \in Jobs : entry[j] = p}

\* Mutant: any response is stored that is not for a finished result.
WaitingUnregistered(id) == id \notin done

\* Mutant: a response is stored whether or not the result is done.
WaitingDone(id) == id \in saved

\* A response for this id finds a result that is waiting for it.
Waiting(id) == id \in saved \ done

-----------------------------------------------------------------------------
(* The handlers of POST /cuopt/request, POST /cuopt/cuopt and             *)
(* DELETE /cuopt/solution/{id}.                                           *)

\* A result object is created for the request and entered in saved_results.
Register(j) ==
  /\ post[j] = "new"
  /\ lock = None
  /\ post' = [post EXCEPT ![j] = "registered"]
  /\ saved' = saved \cup {j}
  /\ UNCHANGED <<done, aborted, result, warm, lock, entry, queueVars,
                 solverVars, procVars, handlerVars, receiverVars, watchVars,
                 naborts, ncrashes>>

\* reqId names no cached request: the result is unregistered again.
RejectUnknownCache(j) ==
  /\ post[j] = "registered"
  /\ j \notin SyncJobs
  /\ lock = None
  /\ post' = [post EXCEPT ![j] = "failed"]
  /\ saved' = saved \ {j}
  /\ UNCHANGED <<done, aborted, result, warm, lock, entry, queueVars,
                 solverVars, procVars, handlerVars, receiverVars, watchVars,
                 naborts, ncrashes>>

\* Reading the body, initialId or warmstartId raises: the handler answers
\* with the error and leaves the result where Register put it.
RejectAfterRegister(j) ==
  /\ post[j] = "registered"
  /\ j \notin SyncJobs
  /\ post' = [post EXCEPT ![j] = "failed"]
  /\ UNCHANGED <<resultVars, lock, entry, queueVars, solverVars, procVars,
                 handlerVars, receiverVars, watchVars, naborts, ncrashes>>

\* wait_for_job puts the job on the queue; the id is returned to the client.
Enqueue(j) ==
  /\ post[j] = "registered"
  /\ post' = [post EXCEPT ![j] = "sent"]
  /\ jobq' = Append(jobq, j)
  /\ UNCHANGED <<resultVars, lock, entry, abortq, resq, solverVars, procVars,
                 handlerVars, receiverVars, watchVars, naborts, ncrashes>>

\* The waiting handler of /cuopt/cuopt wakes up and unregisters the result;
\* DELETE /cuopt/solution removes a result that is done.
Unregister(j) ==
  /\ post[j] = "sent"
  /\ lock = None
  /\ j \in saved \cap done
  /\ saved' = saved \ {j}
  /\ UNCHANGED <<post, done, aborted, result, warm, lock, entry, queueVars,
                 solverVars, procVars, handlerVars, receiverVars, watchVars,
                 naborts, ncrashes>>

-----------------------------------------------------------------------------
(* DELETE /cuopt/request/{id}: abort_by_id and abort_all.                  *)

\* abort_by_id takes results_lock and goes on if the result is not done.
AbortById(h, j, f) ==
  /\ hpc[h] = "ready"
  /\ naborts < MaxAborts
  /\ lock = None
  /\ f.running \/ f.queued
  /\ post[j] = "sent" /\ j \notin SyncJobs  \* the client knows the id
  /\ j \in saved \ done
  /\ lock' = h
  /\ hpc' = [hpc EXCEPT ![h] = "value"]
  /\ hreq' = [hreq EXCEPT ![h] = [all |-> FALSE, flags |-> f]]
  /\ hid' = [hid EXCEPT ![h] = j]
  /\ naborts' = naborts + 1
  /\ UNCHANGED <<post, resultVars, entry, queueVars, solverVars, procVars,
                 htodo, hvalue, hstop, receiverVars, watchVars, ncrashes>>

\* abort_all takes results_lock and walks saved_results.
AbortAll(h, f) ==
  /\ hpc[h] = "ready"
  /\ naborts < MaxAborts
  /\ lock = None
  /\ f.running \/ f.queued
  /\ saved # {}
  /\ lock' = h
  /\ hpc' = [hpc EXCEPT ![h] = "next"]
  /\ hreq' = [hreq EXCEPT ![h] = [all |-> TRUE, flags |-> f]]
  /\ htodo' = [htodo EXCEPT ![h] = saved]
  /\ naborts' = naborts + 1
  /\ UNCHANGED <<post, resultVars, entry, queueVars, solverVars, procVars,
                 hid, hvalue, hstop, receiverVars, watchVars, ncrashes>>

\* The next result of the walk: done results are passed over.
AbortNext(h) ==
  /\ hpc[h] = "next"
  /\ \E j \in htodo[h] :
       /\ htodo' = [htodo EXCEPT ![h] = @ \ {j}]
       /\ hpc' = [hpc EXCEPT ![h] = IF j \in done THEN "next" ELSE "value"]
       /\ hid' = [hid EXCEPT ![h] = IF j \in done THEN None ELSE j]
  /\ UNCHANGED <<post, resultVars, lock, entry, queueVars, solverVars,
                 procVars, hreq, hvalue, hstop, receiverVars, watchVars,
                 naborts, ncrashes>>

\* The walk is over. abort_all gives up results_lock before it stops
\* processes, abort_by_id keeps it.
AbortWalked(h) ==
  /\ hpc[h] = "next"
  /\ htodo[h] = {}
  /\ hpc' = [hpc EXCEPT ![h] = "stop"]
  /\ lock' = IF hreq[h].all THEN None ELSE lock
  /\ UNCHANGED <<post, resultVars, entry, queueVars, solverVars, procVars,
                 hreq, htodo, hid, hvalue, hstop, receiverVars, watchVars,
                 naborts, ncrashes>>

\* Look the job up on the abort list, adding it if queued jobs are aborted.
AbortValue(h) ==
  LET j == hid[h]
      f == hreq[h].flags
      v == entry[j]
  IN /\ hpc[h] = "value"
     /\ entry' = ListAfterRead(j, f)
     /\ hvalue' = [hvalue EXCEPT ![h] = v]
     /\ hpc' = [hpc EXCEPT ![h] = IF ToBeAborted(v, f) THEN "mark" ELSE "next"]
     /\ UNCHANGED <<post, resultVars, lock, queueVars, solverVars, procVars,
                    hreq, htodo, hid, hstop, receiverVars, watchVars, naborts,
                    ncrashes>>

\* set_aborted, and remember the process if one is running the job.
AbortMark(h) ==
  LET j == hid[h]
      v == hvalue[h]
  IN /\ hpc[h] = "mark"
     /\ aborted' = aborted \cup {j}
     /\ done' = done \cup {j}
     /\ result' = [result EXCEPT ![j] = "aborted"]
     /\ hpc' = [hpc EXCEPT ![h] = "next"]
     /\ hstop' = IF v \in Pids THEN [hstop EXCEPT ![h] = Append(@, <<v, j>>)]
                               ELSE hstop
     /\ UNCHANGED <<post, saved, warm, lock, entry, queueVars, solverVars,
                    procVars, hreq, htodo, hid, hvalue, receiverVars,
                    watchVars, naborts, ncrashes>>

\* Ask the watcher to stop the process of the next job to stop.
AbortStop(h) ==
  /\ hpc[h] = "stop"
  /\ hstop[h] # <<>>
  /\ abortq' = Append(abortq, Head(hstop[h])[1])
  /\ hpc' = [hpc EXCEPT ![h] = "delete"]
  /\ UNCHANGED <<post, resultVars, lock, entry, jobq, resq, solverVars,
                 procVars, hreq, htodo, hid, hvalue, hstop, receiverVars,
                 watchVars, naborts, ncrashes>>

\* ... and take the job off the abort list.
AbortDelete(h) ==
  /\ hpc[h] = "delete"
  /\ entry' = ListWithout(Head(hstop[h])[2])
  /\ hstop' = [hstop EXCEPT ![h] = Tail(@)]
  /\ hpc' = [hpc EXCEPT ![h] = "stop"]
  /\ UNCHANGED <<post, resultVars, lock, queueVars, solverVars, procVars,
                 hreq, htodo, hid, hvalue, receiverVars, watchVars, naborts,
                 ncrashes>>

AbortReturn(h) ==
  /\ hpc[h] = "stop"
  /\ hstop[h] = <<>>
  /\ hpc' = [hpc EXCEPT ![h] = "ready"]
  /\ hreq' = [hreq EXCEPT ![h] = NoRequest]
  /\ hid' = [hid EXCEPT ![h] = None]
  /\ hvalue' = [hvalue EXCEPT ![h] = Absent]
  /\ lock' = IF hreq[h].all THEN lock ELSE None
  /\ UNCHANGED <<post, resultVars, entry, queueVars, solverVars, procVars,
                 htodo, hstop, receiverVars, watchVars, naborts, ncrashes>>

AbortStep(h) ==
  \/ AbortNext(h) \/ AbortWalked(h) \/ AbortValue(h) \/ AbortMark(h)
  \/ AbortStop(h) \/ AbortDelete(h) \/ AbortReturn(h)

-----------------------------------------------------------------------------
(* The results thread: receive_results and SolverBinaryResponse.process.   *)

\* Take a response; under results_lock, find the result that waits for it.
ResultPick ==
  /\ rpc = "get"
  /\ resq # <<>>
  /\ lock = None
  /\ resq' = Tail(resq)
  /\ rpc' = IF Waiting(Head(resq).id) THEN "set" ELSE "delete"
  /\ rmsg' = Head(resq)
  /\ UNCHANGED <<post, resultVars, lock, entry, jobq, abortq, solverVars,
                 procVars, handlerVars, watchVars, naborts, ncrashes>>

\* set_result: from here on the result is done.
ResultSet ==
  /\ rpc = "set"
  /\ done' = done \cup {rmsg.id}
  /\ result' = [result EXCEPT ![rmsg.id] = rmsg.ans]
  /\ rpc' = "warm"
  /\ UNCHANGED <<post, saved, aborted, warm, lock, entry, queueVars,
                 solverVars, procVars, handlerVars, rmsg, watchVars, naborts,
                 ncrashes>>

\* set_warmstart_data.
ResultWarm ==
  /\ rpc = "warm"
  /\ warm' = IF rmsg.id \in LPJobs /\ rmsg.ans = "answer"
             THEN warm \cup {rmsg.id} ELSE warm \ {rmsg.id}
  /\ rpc' = "delete"
  /\ UNCHANGED <<post, saved, done, aborted, result, lock, entry, queueVars,
                 solverVars, procVars, handlerVars, rmsg, watchVars, naborts,
                 ncrashes>>

\* abort_list.delete(id), whether or not the response was used.
ResultDelete ==
  /\ rpc = "delete"
  /\ entry' = ListWithout(rmsg.id)
  /\ rpc' = "get" /\ rmsg' = NoMessage
  /\ UNCHANGED <<post, resultVars, lock, queueVars, solverVars, procVars,
                 handlerVars, watchVars, naborts, ncrashes>>

ResultStep == ResultPick \/ ResultSet \/ ResultWarm \/ ResultDelete

-----------------------------------------------------------------------------
(* The loop of a solver process: process_async_solve.                      *)

\* job_queue.get() first takes the queue's read lock ...
StartRead(p) ==
  /\ pc[p] = "idle"
  /\ reader = None
  /\ reader' = p
  /\ pc' = [pc EXCEPT ![p] = "reading"]
  /\ UNCHANGED <<post, resultVars, lock, entry, queueVars, job, procVars,
                 handlerVars, receiverVars, watchVars, naborts, ncrashes>>

\* ... and gives it up with a job, ...
GetJob(p) ==
  /\ pc[p] = "reading"
  /\ jobq # <<>>
  /\ jobq' = Tail(jobq)
  /\ job' = [job EXCEPT ![p] = Head(jobq)]
  /\ reader' = None
  /\ pc' = [pc EXCEPT ![p] = "got"]
  /\ UNCHANGED <<post, resultVars, lock, entry, abortq, resq, procVars,
                 handlerVars, receiverVars, watchVars, naborts, ncrashes>>

\* ... or when the timeout is over (the CUDA check that follows succeeds).
GetTimeout(p) ==
  /\ pc[p] = "reading"
  /\ jobq = <<>>
  /\ reader' = None
  /\ pc' = [pc EXCEPT ![p] = "idle"]
  /\ UNCHANGED <<post, resultVars, lock, entry, queueVars, job, procVars,
                 handlerVars, receiverVars, watchVars, naborts, ncrashes>>

\* add_id_or_return(job.id, getpid()): the job is this process's now ...
Claim(p) ==
  /\ pc[p] = "got"
  /\ entry[job[p]] = Absent
  /\ entry' = [entry EXCEPT ![job[p]] = p]
  /\ pc' = [pc EXCEPT ![p] = "solving"]
  /\ UNCHANGED <<post, resultVars, lock, queueVars, reader, job, procVars,
                 handlerVars, receiverVars, watchVars, naborts, ncrashes>>

\* ... or it has been aborted: answer with an empty response and skip it.
Skip(p) ==
  /\ pc[p] = "got"
  /\ entry[job[p]] # Absent
  /\ resq' = Append(resq, [id |-> job[p], ans |-> "none"])
  /\ pc' = [pc EXCEPT ![p] = "idle"]
  /\ job' = [job EXCEPT ![p] = None]
  /\ UNCHANGED <<post, resultVars, lock, entry, jobq, abortq, reader,
                 procVars, handlerVars, receiverVars, watchVars, naborts,
                 ncrashes>>

\* job.solve returned, with an answer or an error: abort_list.update(job.id).
FinishSolve(p) ==
  /\ pc[p] = "solving"
  /\ entry' = [entry EXCEPT ![job[p]] =
                  IF @ = Absent THEN Absent ELSE Finished]
  /\ pc' = [pc EXCEPT ![p] = "marked"]
  /\ UNCHANGED <<post, resultVars, lock, queueVars, reader, job, procVars,
                 handlerVars, receiverVars, watchVars, naborts, ncrashes>>

\* The response reaches results_queue.
Respond(p) ==
  /\ pc[p] = "marked"
  /\ resq' = Append(resq, [id |-> job[p], ans |-> "answer"])
  /\ pc' = [pc EXCEPT ![p] = "idle"]
  /\ job' = [job EXCEPT ![p] = None]
  /\ UNCHANGED <<post, resultVars, lock, entry, jobq, abortq, reader,
                 procVars, handlerVars, receiverVars, watchVars, naborts,
                 ncrashes>>

\* The process dies on its own. At "marked" this is also an exception while
\* the response is built, which ends the loop.
Crash(p) ==
  /\ pc[p] \in CrashPoints
  /\ ncrashes < MaxCrashes
  /\ ncrashes' = ncrashes + 1
  /\ pc' = [pc EXCEPT ![p] = IF @ = "marked" THEN "exited" ELSE "dead"]
  /\ UNCHANGED <<post, resultVars, lock, entry, queueVars, reader, job,
                 procVars, handlerVars, receiverVars, watchVars, naborts>>

SolverStep(p) ==
  \/ StartRead(p) \/ GetJob(p) \/ GetTimeout(p) \/ Claim(p) \/ Skip(p)
  \/ FinishSolve(p) \/ Respond(p)

-----------------------------------------------------------------------------
(* The watcher: watch_solvers, create_process, abort_by_pid.               *)

Stopped(p) == pc[p] \in {"exited", "dead"}

\* create_process in the slot of p, and p leaves s_procs.
Replace(p) ==
  /\ nextpid <= MaxPid
  /\ procs' = (procs \ {p}) \cup {nextpid}
  /\ slot' = [slot EXCEPT ![nextpid] = slot[p]]
  /\ nextpid' = nextpid + 1

\* Mutant: the new process is started beside the old one.
StartWithoutKill(p, new) == [pc EXCEPT ![new] = "idle"]

\* kill_pid(p), which may come too late, and a process with a new pid.
KillAndStart(p, new) == [pc EXCEPT ![p] = "dead", ![new] = "idle"]

\* A process to stop: kill it and start another in its slot.
WatchAbort ==
  /\ wpc = "get"
  /\ abortq # <<>>
  /\ Head(abortq) \in procs
  /\ abortq' = Tail(abortq)
  /\ Replace(Head(abortq))
  /\ pc' = KillAndStart(Head(abortq), nextpid)
  /\ wpc' = "scan"
  /\ UNCHANGED <<post, resultVars, lock, entry, jobq, resq, reader, job,
                 handlerVars, receiverVars, wtodo, wgone, wpid, wid, naborts,
                 ncrashes>>

\* The process is not in s_procs any more: s_procs[abort_id] raises KeyError,
\* which nothing catches before the watcher is left.
WatchKeyError ==
  /\ wpc = "get"
  /\ abortq # <<>>
  /\ Head(abortq) \notin procs
  /\ abortq' = Tail(abortq)
  /\ wpc' = "crashed"
  /\ UNCHANGED <<post, resultVars, lock, entry, jobq, resq, solverVars,
                 procVars, handlerVars, receiverVars, wtodo, wgone, wpid, wid,
                 naborts, ncrashes>>

\* After an abort, or when get has timed out (a put may still be on its way
\* through the queue's pipe), the watcher looks for processes that stopped.
WatchScan ==
  LET stopped == {p \in procs : Stopped(p)}
  IN /\ \/ wpc = "scan"
        \/ wpc = "get" /\ stopped # {}
     /\ wpc' = IF stopped = {} THEN "get" ELSE "find"
     /\ wtodo' = stopped
     /\ UNCHANGED <<post, resultVars, lock, entry, queueVars, solverVars,
                    procVars, handlerVars, receiverVars, wgone, wpid, wid,
                    naborts, ncrashes>>

\* The job that the abort list has for a stopped process, if any.
WatchFind ==
  /\ wpc = "find"
  /\ wpc' = "report"
  /\ \E p \in wtodo :
       /\ wpid' = p
       /\ wid' \in IF JobsOf(p) = {} THEN {None} ELSE JobsOf(p)
  /\ UNCHANGED <<post, resultVars, lock, entry, queueVars, solverVars,
                 procVars, handlerVars, receiverVars, wtodo, wgone, naborts,
                 ncrashes>>

\* The job leaves the abort list and its client gets "... was aborted".
WatchReport ==
  /\ wpc = "report"
  /\ entry' = ListWithout(wid)
  /\ resq' = Append(resq, [id |-> wid, ans |-> "aborted"])
  /\ wtodo' = wtodo \ {wpid}
  /\ wgone' = wgone \cup {wpid}
  /\ wpc' = IF wtodo = {wpid} THEN "restart" ELSE "find"
  /\ wpid' = None /\ wid' = None
  /\ UNCHANGED <<post, resultVars, lock, jobq, abortq, solverVars, procVars,
                 handlerVars, receiverVars, naborts, ncrashes>>

\* Every process found stopped is replaced.
WatchRestart ==
  /\ wpc = "restart"
  /\ \E p \in wgone :
       /\ Replace(p)
       /\ wgone' = wgone \ {p}
       /\ wpc' = IF wgone = {p} THEN "get" ELSE "restart"
  /\ pc' = [pc EXCEPT ![nextpid] = "idle"]
  /\ UNCHANGED <<post, resultVars, lock, entry, queueVars, reader, job,
                 handlerVars, receiverVars, wtodo, wpid, wid, naborts,
                 ncrashes>>

WatchStep ==
  \/ WatchAbort \/ WatchKeyError \/ WatchScan \/ WatchFind \/ WatchReport
  \/ WatchRestart

-----------------------------------------------------------------------------
ClientStep ==
  \/ \E j \in Jobs : \/ Register(j) \/ RejectUnknownCache(j)
                     \/ RejectAfterRegister(j) \/ Enqueue(j) \/ Unregister(j)
  \/ \E h \in Handlers, f \in AbortFlags :
       AbortAll(h, f) \/ \E j \in Jobs : AbortById(h, j, f)

Next ==
  \/ ClientStep
  \/ \E h \in Handlers : AbortStep(h)
  \/ ResultStep
  \/ \E p \in Pids : SolverStep(p) \/ Crash(p)
  \/ WatchStep

Spec == Init /\ [][Next]_vars

(***************************************************************************)
(* Every thread and process that has a step to take takes one eventually;  *)
(* a solve returns (job.solve is bounded by its time limit) or its process *)
(* dies. Clients owe nothing, and nothing is assumed of who gets a lock.   *)
(***************************************************************************)
Fairness ==
  /\ \A h \in Handlers : WF_vars(AbortStep(h))
  /\ WF_vars(ResultStep)
  /\ \A p \in Pids : WF_vars(SolverStep(p))
  /\ WF_vars(WatchStep)

FairSpec == Spec /\ Fairness

\* The same, but a solve may go on for as long as it likes.
LongSolveFairness ==
  /\ \A h \in Handlers : WF_vars(AbortStep(h))
  /\ WF_vars(ResultStep)
  /\ \A p \in Pids : WF_vars(SolverStep(p) /\ pc[p] # "solving")
  /\ WF_vars(WatchStep)

LongSolveSpec == Spec /\ LongSolveFairness

-----------------------------------------------------------------------------
(* What the server promises.                                              *)

\* The job is on job_queue, or off it and not yet looked up by its solver.
OnQueue(j) ==
  \/ \E i \in 1..Len(jobq) : jobq[i] = j
  \/ \E p \in Pids : pc[p] = "got" /\ job[p] = j

\* A response for the job is on its way through the results thread.
InTransit(j) ==
  \/ \E i \in 1..Len(resq) : resq[i].id = j
  \/ rpc # "get" /\ rmsg.id = j

\* A job whose result says "aborted" stays aborted: no answer of a solver
\* process that was not stopped in time ever replaces the abort
\* (set_aborted against SolverBinaryResponse.process).
AbortedResult ==
  \A j \in aborted : j \in done /\ result[j] = "aborted"

\* No client finds a done result with nothing in it: the empty response of
\* a skipped job is never stored, because whoever put the id on the abort
\* list has completed the result before results_lock is free again
\* (process_async_solve's skip, abort_by_id, abort_all).
NoEmptyResult == \A j \in done : result[j] # "none"

\* A job aborted while it waits is skipped: until a solver has looked it up
\* its entry stays on the abort list, whatever responses, restarts and other
\* aborts do to the list meanwhile ("it's on the queue but will be skipped").
AbortedIsSkipped ==
  \A j \in aborted : OnQueue(j) => entry[j] = Aborted

\* Two solver processes never share a slot (a GPU): the watcher starts one
\* only for a process that it has killed or found stopped.
OneProcessPerSlot ==
  \A p, q \in Pids :
    /\ pc[p] # "unborn" /\ ~Stopped(p) /\ pc[q] # "unborn" /\ ~Stopped(q)
    /\ slot[p] = slot[q]
    => p = q

\* To a client the server is JobLifecycle: every step of every thread and
\* process changes at most one job, from unknown to pending to one final
\* outcome, and a removed job never comes back (a late response, a second
\* abort or a restart changes no result that a GET may have returned).
Lifecycle == INSTANCE JobLifecycle WITH
  view <- [j \in Jobs |->
             IF post[j] = "new" THEN "unknown"
             ELSE IF j \notin saved THEN "removed"
             ELSE IF j \in done THEN result[j] ELSE "pending"]

ImplementsLifecycle == Lifecycle!Spec

\* A job without a result that is listed as running is being run by that
\* process, or the process has stopped and is still in s_procs, so that the
\* watcher will find it and complete the job (abort_by_pid).
EntryIsWatched ==
  \A j \in Jobs \ done : entry[j] \in Pids =>
    /\ entry[j] \in procs
    /\ job[entry[j]] = j
    /\ pc[entry[j]] = "solving" \/ Stopped(entry[j])

\* An entry True means "just completed": its response is about to be sent,
\* or in transit.
FinishedInTransit ==
  \A j \in Jobs : entry[j] = Finished =>
    InTransit(j) \/ \E p \in Pids : pc[p] = "marked" /\ job[p] = j

\* Every entry of the abort list has an owner that will complete its job or
\* has answered it.
EntryHasOwner == EntryIsWatched /\ FinishedInTransit

\* A job that its POST put on the queue gets a result.
JobCompletes == \A j \in Jobs : post[j] = "sent" ~> j \in done

\* Once a job is aborted, no process goes on working on it, however long the
\* solve would take, as long as there is a watcher to stop it.
AbortStopsWork ==
  \A j \in Jobs :
    j \in aborted ~>
      \/ [](\A p \in Pids : job[p] = j => pc[p] \in {"idle", "dead", "exited"})
      \/ wpc = "crashed"

\* An abort that finds no entry is aborting a job that no process has run.
NoEntryMeansQueued ==
  \A h \in Handlers :
    hpc[h] = "mark" /\ hvalue[h] = Absent => result[hid[h]] = "none"
=============================================================================
