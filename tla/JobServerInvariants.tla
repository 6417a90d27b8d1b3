------------------------ MODULE JobServerInvariants ------------------------
(***************************************************************************)
(* Why the safety properties of JobServer hold: the relations between its  *)
(* variables that every step keeps. TLC checks InductiveInvariant on small *)
(* instances, JobServerProofs proves it and draws the properties from it.  *)
(***************************************************************************)
EXTENDS JobServer

\* The program counters say when a field holds a job or a process.
HoldsJob ==
  /\ rpc \in {"set", "warm"} => rmsg.id \in Jobs
  /\ \A h \in Handlers : hpc[h] \in {"value", "mark"} => hid[h] \in Jobs
  /\ \A h \in Handlers : hpc[h] = "delete" => hstop[h] # <<>>
  /\ \A p \in Pids :
       pc[p] \in {"got", "solving", "marked"} => job[p] \in Jobs
  /\ wpc = "report" => wpid \in Pids

Typed == TypeOK /\ HoldsJob

-----------------------------------------------------------------------------
(* One process per slot.                                                  *)

\* A process that is alive is in s_procs, and the processes of s_procs have
\* different slots. What the watcher has found stopped stays in s_procs,
\* and stopped, until the watcher replaces it.
SlotInv ==
  /\ \A p \in Pids : p >= nextpid => p \notin procs /\ pc[p] = "unborn"
  /\ \A p \in Pids : pc[p] # "unborn" /\ ~Stopped(p) => p \in procs
  /\ \A p, q \in procs : slot[p] = slot[q] => p = q
  /\ wtodo \cup wgone \subseteq {p \in procs : Stopped(p)}
  /\ wpc \in {"get", "scan", "crashed"} => wtodo = {} /\ wgone = {}
  /\ wpc = "restart" => wtodo = {}
  /\ wpc = "report" => wpid \in wtodo

-----------------------------------------------------------------------------
(* Aborted jobs are skipped and no empty result is stored.                *)

\* No solver has looked the job up.
Fresh(j) == post[j] # "sent" \/ OnQueue(j)

\* A handler is about to complete the result of a queued job.
Marking(j) ==
  \E h \in Handlers : hpc[h] = "mark" /\ hid[h] = j /\ hvalue[h] = Absent

\* abort_by_id holds results_lock to its end, abort_all until it has walked
\* saved_results.
LockInv ==
  \A h \in Handlers :
    \/ hpc[h] \in {"next", "value", "mark"}
    \/ hpc[h] \in {"stop", "delete"} /\ ~hreq[h].all
    => lock = h

\* A job is on job_queue once, and at most one solver has taken it off.
QueueInv ==
  /\ \A i, k \in 1..Len(jobq) : jobq[i] = jobq[k] => i = k
  /\ \A p \in Pids, i \in 1..Len(jobq) : pc[p] = "got" => jobq[i] # job[p]
  /\ \A p, q \in Pids :
       pc[p] = "got" /\ pc[q] = "got" /\ job[p] = job[q] => p = q
  /\ \A j \in Jobs : OnQueue(j) => post[j] = "sent"

\* Nobody who may delete or overwrite the entry of a job, or answer for it,
\* knows of a job that no solver has looked up: no process works on it, no
\* response carries it, the watcher does not report it, no handler takes it
\* for a job to stop.
Untaken(j) ==
  /\ entry[j] \in {Absent, Aborted}
  /\ \A p \in Pids : pc[p] \in {"solving", "marked"} => job[p] # j

NotStopping(j) ==
  \A h \in Handlers :
    /\ \A i \in 1..Len(hstop[h]) : hstop[h][i][2] # j
    /\ hpc[h] = "mark" /\ hid[h] = j => hvalue[h] = Absent

FreshInv ==
  \A j \in Jobs : Fresh(j) =>
    Untaken(j) /\ ~InTransit(j) /\ wid # j /\ NotStopping(j)

\* Whoever lists a queued job as aborted completes its result before
\* results_lock is free, so the results thread drops the empty response.
AbortInv ==
  /\ \A j \in Jobs : entry[j] = Aborted => j \in done \/ Marking(j)
  /\ \A j \in Jobs, i \in 1..Len(resq) :
       resq[i].id = j /\ resq[i].ans = "none" => j \in done \/ Marking(j)
  /\ rpc = "set" => rmsg.ans # "none"
  /\ \A j \in Jobs : Fresh(j) /\ (j \in aborted \/ Marking(j)) =>
       entry[j] = Aborted
  /\ \A h \in Handlers : hpc[h] = "mark" => hvalue[h] \in Pids \cup {Absent}
  /\ NoEmptyResult

\* The strengthening that makes OneProcessPerSlot, NoEmptyResult and
\* AbortedIsSkipped inductive, over every thread and process of the server.
InductiveInvariant ==
  Typed /\ SlotInv /\ LockInv /\ QueueInv /\ FreshInv /\ AbortInv

-----------------------------------------------------------------------------
(* An aborted result stays aborted.                                       *)

\* A result with an answer on its way to it: an abort that finds its entry
\* True leaves it alone.
Answering(j) ==
  \/ \E p \in Pids : pc[p] = "marked" /\ job[p] = j
  \/ \E i \in 1..Len(resq) : resq[i].id = j /\ resq[i].ans = "answer"
  \/ rpc = "set" /\ rmsg.id = j /\ rmsg.ans = "answer"

\* As long as the result of a job is open, its entry tells who is to complete
\* it: the solver that works on it, its answer, the watcher that has found
\* its solver stopped.
OwnerInv ==
  \A j \in Jobs \ done :
    /\ \A p \in Pids : pc[p] = "solving" /\ job[p] = j => entry[j] = p
    /\ Answering(j) => entry[j] = Finished
    /\ wid = j => entry[j] \in Pids /\ Stopped(entry[j])

\* A job is registered until its result is done. The results thread holds an
\* answer only for an open result that nobody is about to abort, and takes
\* entries off the abort list for results that are done. So do the handlers
\* with what they stop.
DoneInv ==
  /\ \A h \in Handlers : \A i \in 1..Len(hstop[h]) : hstop[h][i][2] \in aborted
  /\ \A j \in Jobs \ saved :
       /\ post[j] # "registered"
       /\ post[j] = "sent" => j \in done
  /\ rpc \in {"warm", "delete"} => rmsg.id \in done \cup {None}
  /\ rpc = "set" /\ rmsg.ans = "answer" =>
       /\ rmsg.id \notin done
       /\ \A h \in Handlers : hpc[h] = "mark" => hid[h] # rmsg.id

AnswerInv == AbortedResult /\ OwnerInv /\ DoneInv

-----------------------------------------------------------------------------
(* Entries and their owners, when running jobs are not aborted.           *)

\* Nobody is ever asked to stop a process.
NoStopInv ==
  /\ abortq = <<>>
  /\ \A h \in Handlers :
       /\ hstop[h] = <<>> /\ ~hreq[h].flags.running
       /\ hpc[h] = "mark" => hvalue[h] = Absent

\* The process an entry names has the job, done or not, until the watcher
\* has reported that it stopped.
WatchInv ==
  /\ \A j \in Jobs : entry[j] \in Pids =>
       /\ entry[j] \in procs
       /\ job[entry[j]] = j
       /\ pc[entry[j]] = "solving" \/ Stopped(entry[j])
  /\ \A p \in wgone : JobsOf(p) = {}
  /\ wpc = "report" => JobsOf(wpid) \subseteq {wid}

-----------------------------------------------------------------------------
(* The life of a job, when queued jobs are not aborted.                   *)

ViewInv ==
  /\ \A h \in Handlers : /\ ~hreq[h].flags.queued
                         /\ hpc[h] = "mark" => hvalue[h] \in Pids
  /\ \A j \in done : ~Fresh(j)
  /\ rpc = "set" => rmsg.id \notin done \/ result[rmsg.id] = "aborted"
  /\ \A j \in done : result[j] = "answer" =>
       /\ entry[j] \notin Pids
       /\ \A h \in Handlers : hpc[h] = "mark" => hid[h] # j
=============================================================================
