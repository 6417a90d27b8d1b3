-------------------------- MODULE ClientCallbacks ---------------------------
(***************************************************************************)
(* How the incumbents and the log of one MIP job reach the callbacks of    *)
(* the client that posted it: the solver process, the queue to the web     *)
(* server and the log file, the results thread, the result's list, and the *)
(* client's three threads (cuopt_server/utils: solver.py, job_queue.py;    *)
(* webserver.py; cuopt_sh_client/cuopt_self_host_client.py).               *)
(*                                                                         *)
(* An incumbent is the number of its turn, and so is a piece of the log.   *)
(* The server's handlers hold results_lock and are atomic, but the results *)
(* thread is not: it looks at a result under the lock and completes it     *)
(* without. A request of the client takes effect at the server in one      *)
(* step; its thread goes on with the response in a later one.              *)
(***************************************************************************)
EXTENDS Naturals, Sequences

CONSTANTS
  MaxIncumbents,  \* bound on the incumbents of the job
  MaxLog,         \* bound on the pieces of its log
  MaxFaults       \* bound on aborts, deletions by others, lost responses

ASSUME ConstantsAssumption ==
  /\ MaxIncumbents \in Nat /\ MaxLog \in Nat
  /\ MaxFaults \in Nat

Answer == 0    \* the SolverBinaryResponse; the other messages are numbers
Messages == 0..MaxIncumbents
Incumbent == 1..MaxIncumbents
Piece == 1..MaxLog

VARIABLES
  produced,  \* the incumbents the solver has found
  solver,    \* "solving", "ended" or "killed"
  written,   \* the pieces of the log in its file, 0 before there is one
  unlinked,  \* the file has been deleted
  queue,     \* results_queue: what the solver sent, in its order
  exists,    \* the job is in saved_results
  done,      \* is_done() of its result
  aborted,   \* that result is the error of set_aborted()
  list,      \* incumbents of its result
  rpc,       \* the results thread: "get", or "set" the result it looked up
  mpc,       \* _poll_request in the thread of the caller
  complete,  \* its local of that name
  doneEvent, \* its Event for the threads it started
  ipc,       \* poll_for_incumbents
  reply,     \* the response it has to go through
  incDone,   \* its local inc_done
  seen,      \* what incumbent_callback was called with
  lpc,       \* poll_for_logs
  page,      \* the response it has to go through
  loggedbytes, \* of the client: how far it has read
  logSeen,   \* what logging_callback was called with
  faults     \* which faults have happened

serverVars == <<exists, done, aborted, list>>
mainVars == <<mpc, complete, doneEvent>>
threadVars == <<ipc, reply, incDone, seen>>
logVars == <<lpc, page, loggedbytes, logSeen>>
fileVars == <<written, unlinked>>
vars == <<produced, solver, fileVars, queue, serverVars, rpc, mainVars,
          threadVars, logVars, faults>>

\* Responses: a list of incumbents, the sentinel, or "does not exist".
Pending == [kind |-> "list", incumbents |-> <<>>]
Listed(s) == [kind |-> "list", incumbents |-> s]
Sentinel == [kind |-> "sentinel", incumbents |-> <<>>]
NoSuchJob == [kind |-> "error", incumbents |-> <<>>]

\* Of the log: the pieces from where the client is to the end of the file,
\* with that end, or "log not found".
Page(from, to) ==
  [found |-> TRUE, pieces |-> [i \in 1..(to - from) |-> from + i],
   nbytes |-> to]
NotFound == [found |-> FALSE, pieces |-> <<>>, nbytes |-> 0]

Fault(f) == Len(faults) < MaxFaults /\ faults' = Append(faults, f)
Happened(f) == \E i \in DOMAIN faults : faults[i] = f

Init ==
  /\ produced = 0 /\ solver = "solving" /\ queue = <<>>
  /\ written = 0 /\ unlinked = FALSE
  /\ exists = TRUE /\ done = FALSE /\ aborted = FALSE /\ list = <<>>
  /\ rpc = "get"
  /\ mpc = "poll" /\ complete = FALSE /\ doneEvent = FALSE
  /\ ipc = "fetch" /\ reply = Pending /\ incDone = FALSE /\ seen = <<>>
  /\ lpc = "test" /\ page = NotFound /\ loggedbytes = 0 /\ logSeen = <<>>
  /\ faults = <<>>

---------------------------------------------------------------------------
(* The solver process.                                                     *)

\* The callback of the MIP solver: send_solution.
SendSolution ==
  /\ solver = "solving" /\ produced < MaxIncumbents
  /\ produced' = produced + 1
  /\ queue' = Append(queue, produced + 1)
  /\ UNCHANGED <<solver, serverVars, rpc, mainVars, threadVars, faults,
                 fileVars, logVars>>

\* The logger writes to the file, and flushes at every line.
WriteLog ==
  /\ solver = "solving" /\ written < MaxLog
  /\ written' = written + 1
  /\ UNCHANGED <<produced, solver, unlinked, queue, serverVars, rpc, mainVars,
                 threadVars, logVars, faults>>

Respond ==
  /\ solver = "solving"
  /\ solver' = "ended"
  /\ queue' = Append(queue, Answer)
  /\ UNCHANGED <<produced, serverVars, rpc, mainVars, threadVars, faults,
                 fileVars, logVars>>

\* The watcher kills the process that had the aborted job, done with it or
\* not. What the feeder thread of its end of the queue has not yet written
\* is lost.
Kill ==
  /\ Happened("abort") /\ solver # "killed"
  /\ solver' = "killed"
  /\ \E n \in 0..Len(queue) : queue' = SubSeq(queue, 1, n)
  /\ UNCHANGED <<produced, serverVars, rpc, mainVars, threadVars, faults,
                 fileVars, logVars>>

---------------------------------------------------------------------------
(* The web server.                                                         *)

\* Mutant: incumbents are counted from zero.
AddedFromZero(e) == Append(list, e - 1)

\* add_incumbent.
Added(e) == Append(list, e)

\* SolverIntermediateResponse.process: done or not.
AddIncumbent ==
  /\ rpc = "get" /\ queue # <<>> /\ Head(queue) # Answer
  /\ queue' = Tail(queue)
  /\ list' = IF exists THEN Added(Head(queue)) ELSE list
  /\ UNCHANGED <<produced, solver, exists, done, aborted, rpc, mainVars,
                 threadVars, faults, fileVars, logVars>>

\* SolverBinaryResponse.process, up to the end of its lock.
LookUp ==
  /\ rpc = "get" /\ queue # <<>> /\ Head(queue) = Answer
  /\ queue' = Tail(queue)
  /\ rpc' = IF exists /\ ~done THEN "set" ELSE "get"
  /\ UNCHANGED <<produced, solver, serverVars, mainVars, threadVars, faults,
                 fileVars, logVars>>

\* set_result, on a result that may be aborted or removed by now.
SetResult ==
  /\ rpc = "set"
  /\ rpc' = "get"
  /\ done' = TRUE
  /\ aborted' = FALSE
  /\ UNCHANGED <<produced, solver, queue, exists, list, mainVars, threadVars,
                 faults, fileVars, logVars>>

\* Another client aborts the job: set_aborted.
AbortJob ==
  /\ exists /\ ~done
  /\ Fault("abort")
  /\ done' = TRUE /\ aborted' = TRUE
  /\ UNCHANGED <<produced, solver, queue, exists, list, rpc, mainVars,
                 threadVars, fileVars, logVars>>

\* Another client deletes the solution.
DeletedByOther ==
  /\ exists /\ done
  /\ Fault("deletion")
  /\ exists' = FALSE /\ list' = <<>>
  /\ UNCHANGED <<produced, solver, queue, done, aborted, rpc, mainVars,
                 threadVars, fileVars, logVars>>

\* Another client deletes the log. The solver goes on writing to the file.
LogDeletedByOther ==
  /\ written > 0 /\ ~unlinked
  /\ Fault("unlink")
  /\ unlinked' = TRUE
  /\ UNCHANGED <<produced, solver, written, queue, serverVars, rpc, mainVars,
                 threadVars, logVars>>

\* getsolverlogs.
SolverLogs ==
  IF written = 0 \/ unlinked THEN NotFound ELSE Page(loggedbytes, written)

\* Mutant: the sentinel is sent when the job is done, whatever is left.
SentinelWhenDone ==
  IF ~exists THEN NoSuchJob
  ELSE IF done THEN Sentinel
  ELSE Listed(list)

\* get_current_incumbents: the list since the last time, or the sentinel
\* once the job is done and nothing is left.
CurrentIncumbents ==
  IF ~exists THEN NoSuchJob
  ELSE IF done /\ list = <<>> THEN Sentinel
  ELSE Listed(list)

\* Mutant: incumbents that were sent stay in the list.
KeptFrom(l) == l

\* What is left in the list.
TakenFrom(l) == <<>>

---------------------------------------------------------------------------
(* The client's thread for incumbents.                                     *)

\* The request of _get_incumbents.
Fetch ==
  /\ ipc = "fetch"
  /\ reply' = CurrentIncumbents
  /\ list' = TakenFrom(list)
  /\ ipc' = "receive"
  /\ UNCHANGED <<produced, solver, queue, exists, done, aborted, rpc, mainVars,
                 incDone, seen, faults, fileVars, logVars>>

\* The response is lost or late: requests raises something else than an
\* HTTPError, which ends the thread.
LoseResponse ==
  /\ ipc = "receive"
  /\ Fault("lost")
  /\ ipc' = "ended" /\ reply' = Pending
  /\ UNCHANGED <<produced, solver, queue, serverVars, rpc, mainVars, incDone,
                 seen, fileVars, logVars>>

\* The callback for each incumbent, and what _get_incumbents returns.
Receive ==
  /\ ipc = "receive"
  /\ seen' = seen \o reply.incumbents
  /\ incDone' = (reply.kind \in {"sentinel", "error"})
  /\ ipc' = "test"
  /\ UNCHANGED <<produced, solver, queue, serverVars, rpc, mainVars, reply,
                 faults, fileVars, logVars>>

\* The loop ends at the sentinel or when the caller says so; else it sleeps
\* for a second.
Leaves == incDone \/ doneEvent

Test ==
  /\ ipc = "test"
  /\ IF Leaves THEN /\ ipc' = "ended"
                    /\ UNCHANGED reply
               ELSE /\ ipc' = "fetch"
                    /\ reply' = Pending
  /\ UNCHANGED <<produced, solver, queue, serverVars, rpc, mainVars, incDone,
                 seen, faults, fileVars, logVars>>

---------------------------------------------------------------------------
(* The client's thread for the log.                                        *)

LogUnchanged ==
  UNCHANGED <<produced, solver, fileVars, queue, serverVars, rpc, mainVars,
              threadVars>>

\* Mutant: the thread just ends when it is told to.
AtOnce == "ended"

\* "Issue one more call in case logs showed up during sleep"
AfterDone == "last"

LogTest ==
  /\ lpc = "test"
  /\ lpc' = IF doneEvent THEN AfterDone ELSE "fetch"
  /\ UNCHANGED <<page, loggedbytes, logSeen, faults>>
  /\ LogUnchanged

\* The request of _get_logs.
LogFetch ==
  /\ \/ lpc = "fetch" /\ lpc' = "receive"
     \/ lpc = "last" /\ lpc' = "lastreceive"
  /\ page' = SolverLogs
  /\ UNCHANGED <<loggedbytes, logSeen, faults>>
  /\ LogUnchanged

ReadUpTo(p) == p.nbytes

\* The callback, and the position to go on from.
LogReceive ==
  /\ \/ lpc = "receive" /\ lpc' = "test"
     \/ lpc = "lastreceive" /\ lpc' = "ended"
  /\ logSeen' = logSeen \o page.pieces
  /\ loggedbytes' = IF page.found THEN ReadUpTo(page) ELSE loggedbytes
  /\ page' = NotFound
  /\ UNCHANGED faults
  /\ LogUnchanged

LoseLog ==
  /\ lpc \in {"receive", "lastreceive"}
  /\ Fault("lostlog")
  /\ lpc' = "ended" /\ page' = NotFound
  /\ UNCHANGED <<loggedbytes, logSeen>>
  /\ LogUnchanged

---------------------------------------------------------------------------
(* The caller's thread.                                                    *)

\* A request for the solution that leaves the loop: with the answer, with
\* the error of an aborted or a missing job.
Poll ==
  /\ mpc = "poll" /\ (done \/ ~exists)
  /\ complete' = (exists /\ ~aborted)
  /\ mpc' = "stop"
  /\ UNCHANGED <<produced, solver, queue, serverVars, rpc, doneEvent,
                 threadVars, faults, fileVars, logVars>>

\* polling_timeout passes after a response without the solution, or one of
\* these requests fails.
PollTimesOut ==
  /\ mpc = "poll"
  /\ mpc' = "stop"
  /\ UNCHANGED <<produced, solver, queue, serverVars, rpc, complete, doneEvent,
                 threadVars, faults, fileVars, logVars>>

\* Mutant: the threads are told to stop only if the answer was received.
SignalledIfComplete == complete

\* stop_threads.
Signalled == TRUE

StopThreads ==
  /\ mpc = "stop"
  /\ doneEvent' = Signalled
  /\ mpc' = "join"
  /\ UNCHANGED <<produced, solver, queue, serverVars, rpc, complete,
                 threadVars, faults, fileVars, logVars>>

Joined == ipc = "ended" /\ lpc = "ended"

JoinThread ==
  /\ mpc = "join" /\ Joined
  /\ mpc' = IF complete THEN "delete" ELSE "returned"
  /\ UNCHANGED <<produced, solver, queue, serverVars, rpc, complete, doneEvent,
                 threadVars, faults, fileVars, logVars>>

\* The solution is deleted when it was received, and then its log. The log
\* stays when there is no such solution any more.
DeleteSolution ==
  /\ mpc = "delete"
  /\ mpc' = IF exists THEN "deletelog" ELSE "returned"
  /\ exists' = FALSE /\ list' = <<>>
  /\ UNCHANGED <<produced, solver, fileVars, queue, done, aborted, rpc,
                 complete, doneEvent, threadVars, logVars, faults>>

DeleteLog ==
  /\ mpc = "deletelog"
  /\ mpc' = "returned"
  /\ unlinked' = (written > 0)
  /\ UNCHANGED <<produced, solver, written, queue, serverVars, rpc, complete,
                 doneEvent, threadVars, logVars, faults>>

SolverStep == SendSolution \/ WriteLog \/ Respond \/ Kill
ServerStep == AddIncumbent \/ LookUp \/ SetResult \/ AbortJob
                \/ DeletedByOther \/ LogDeletedByOther
ThreadStep == Fetch \/ LoseResponse \/ Receive \/ Test
MainStep == Poll \/ PollTimesOut \/ StopThreads \/ JoinThread
              \/ DeleteSolution \/ DeleteLog
LogStep == LogTest \/ LogFetch \/ LogReceive \/ LoseLog

Next == SolverStep \/ ServerStep \/ ThreadStep \/ LogStep \/ MainStep

Spec == Init /\ [][Next]_vars

(***************************************************************************)
(* The results thread and the client's threads run on, and polling_timeout *)
(* (600 s if not set) passes. A solve need not end.                        *)
(***************************************************************************)
FairSpec ==
  /\ Spec
  /\ WF_vars(AddIncumbent \/ LookUp \/ SetResult)
  /\ WF_vars(Fetch \/ Receive \/ Test)
  /\ WF_vars(LogTest \/ LogFetch \/ LogReceive)
  /\ WF_vars(PollTimesOut \/ StopThreads \/ JoinThread \/ DeleteSolution
               \/ DeleteLog)

---------------------------------------------------------------------------
(* The values of all variables (job_queue.py:459; the client's line 429).  *)
TypeOK ==
  /\ produced \in 0..MaxIncumbents
  /\ solver \in {"solving", "ended", "killed"}
  /\ written \in 0..MaxLog /\ unlinked \in BOOLEAN
  /\ queue \in Seq(Messages)
  /\ {exists, done, aborted, complete, doneEvent, incDone} \subseteq BOOLEAN
  /\ list \in Seq(Incumbent)
  /\ rpc \in {"get", "set"}
  /\ mpc \in {"poll", "stop", "join", "delete", "deletelog", "returned"}
  /\ ipc \in {"fetch", "receive", "test", "ended"}
  /\ reply \in [kind : {"list", "sentinel", "error"},
                incumbents : Seq(Incumbent)]
  /\ seen \in Seq(Incumbent)
  /\ lpc \in {"test", "fetch", "receive", "last", "lastreceive", "ended"}
  /\ page \in [found : BOOLEAN, pieces : Seq(Piece), nbytes : 0..MaxLog]
  /\ loggedbytes \in 0..MaxLog /\ logSeen \in Seq(Piece)
  /\ faults \in Seq({"abort", "deletion", "unlink", "lost", "lostlog"})

Unread == IF ipc = "receive" THEN reply.incumbents ELSE <<>>
\* The answer is the last message the solver sends.
AnswerQueued == queue # <<>> /\ queue[Len(queue)] = Answer
InQueue == IF AnswerQueued THEN SubSeq(queue, 1, Len(queue) - 1) ELSE queue

(* No incumbent vanishes, appears twice or overtakes another on its way    *)
(* from the solver to the callback: as long as the job is neither aborted  *)
(* nor removed and no response is lost, those passed on, those under way   *)
(* and those waiting are all there are, in their order                     *)
(* (job_queue.py:567-582, 1610; the client's line 411). And whatever is    *)
(* aborted, killed, deleted or lost, the callbacks are called with an      *)
(* initial part of the incumbents and of the log: each once, in their      *)
(* order, and no gap before the last one (the client's lines 393, 411).    *)
NoneVanishes ==
  /\ exists /\ ~Happened("abort") /\ ~Happened("lost") =>
       seen \o Unread \o list \o InQueue = [i \in 1..produced |-> i]
  /\ seen = [i \in 1..Len(seen) |-> i]
  /\ logSeen = [i \in 1..Len(logSeen) |-> i]

(* What ends the thread for incumbents is true. The sentinel keeps its     *)
(* promise that no future incumbent values will be produced                *)
(* (webserver.py:377): for a job that is not aborted, the client that has  *)
(* it has had all incumbents. (An abort completes the result while the     *)
(* solver is still at work.) And the job does not exist only if another    *)
(* client deleted it (the client's line 423: "This should never happen     *)
(* unless someone deletes the job underneath us"), not this one.           *)
EndMarksAreTrue ==
  /\ reply = Sentinel /\ ~Happened("abort") /\ ~Happened("lost") =>
       /\ solver = "ended"
       /\ seen = [i \in 1..produced |-> i]
  /\ reply = NoSuchJob => Happened("deletion")

(* A client that got the answer has seen the whole log, and the log is not *)
(* deleted before: the thread asks once more when it is told to stop, by   *)
(* which time the solver has closed the file (the client's line 443).      *)
LogIsWhole ==
  /\ complete /\ mpc \in {"delete", "deletelog", "returned"}
  /\ ~Happened("unlink") /\ ~Happened("lostlog")
  => logSeen = [i \in 1..written |-> i]

(* A call of the client returns, and its threads have ended: it is not     *)
(* left to wait for a sentinel that never comes (the client's line 457).   *)
ClientReturns == <>(mpc = "returned" /\ ipc = "ended" /\ lpc = "ended")
=============================================================================
