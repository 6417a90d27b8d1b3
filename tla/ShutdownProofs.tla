---------------------------- MODULE ShutdownProofs ----------------------------
(***************************************************************************)
(* Theorems about Shutdown, for any number of jobs, solver processes and   *)
(* failures: a shutdown leaves no client waiting for a result that nobody  *)
(* will complete, and only a DELETE under way replaces an answer that was  *)
(* there.                                                                  *)
(***************************************************************************)
EXTENDS Shutdown, TLAPS, SequenceTheorems, FiniteSetTheorems

-----------------------------------------------------------------------------
(* The inductive invariant, in parts.                                      *)

\* A message of the shutdown is about no job.
Proper == {m \in Message : m.kind \in {"shutdown", "unhealthy"}
                             => m.id = NoJob}

\* What the results thread takes for the answer to a job is one.
MailInv ==
  /\ outbox \in [Pids \cup {Main} -> Seq(Proper)]
  /\ resq \in Seq(Proper)
  /\ rpc = "set" => rmsg.id \in Jobs /\ rmsg.kind \in {"answer", "aborted"}

\* The main process, or what a signal interrupted in it, lists a process
\* that it has started.
MainInv ==
  /\ mpc = "terminate" => terminated
  /\ mpc = "list" \/ (mpc = "terminate" /\ mret = "list") => mnew \in Pids

\* A DELETE in progress is of a job, and has the pid of what it is to stop.
AbortInv ==
  /\ apc # "ready" => aid \in Jobs
  /\ apc = "stop" => avalue \in Pids

Typed == TypeOK /\ MailInv /\ MainInv /\ AbortInv

\* How far each of the two threads that complete the results has come: the
\* heartbeat thread starts when the results thread is dead, and whoever has
\* marked the jobs knows which it has still to complete.
ThreadInv ==
  /\ rpc = "complete" => all_jobs_marked_done
  /\ hpc \in {"complete", "done"} => all_jobs_marked_done
  /\ jobs_marked_done \/ web \in {"closing", "gone"} => all_jobs_marked_done
  /\ rpc # "complete" => rtodo = {}
  /\ hpc # "complete" => htodo = {}
  /\ hpc # "watch" => rpc = "dead"

\* A POST that waits for its result is registered.
WaitInv ==
  /\ \A j \in Jobs : ppc[j] \in {"put", "blocked"} => j \in saved
  /\ NoOrphanWaiter

\* An answer is that of a result which is done, and nobody has yet to
\* complete one that is answered.
AnswerInv ==
  /\ \A j \in Jobs : result[j] = "answer" => j \in done
  /\ \A j \in rtodo \cup htodo : result[j] # "answer"
  /\ rpc = "set" => result[rmsg.id] # "answer"

Inv == Typed /\ ThreadInv /\ WaitInv /\ AnswerInv

-----------------------------------------------------------------------------
(* Lemmas about the messages and about sets of processes.                  *)

\* What is put on a queue, and what the members of the queue are.
LEMMA Mail ==
  /\ Proper \subseteq Message
  /\ NoMessage \in Message
  /\ \A j \in Jobs \cup {NoJob} : /\ Msg("answer", j) \in Proper
                                  /\ Msg("aborted", j) \in Proper
  /\ Msg("shutdown", NoJob) \in Proper /\ Msg("unhealthy", NoJob) \in Proper
BY DEF Proper, Message, Msg, NoMessage

\* A sequence of proper messages is one of messages.
LEMMA ProperSeq ==
  \A s \in Seq(Proper) : s \in Seq(Message)
BY SeqMonotonic, Mail

\* There are finitely many processes.
LEMMA FinitePids ==
  ASSUME NEW ps \in SUBSET Pids
  PROVE  IsFiniteSet(ps) /\ Cardinality(ps) \in Nat
<1>1. IsFiniteSet(1..MaxPid)
  BY ConstantsAssumption, FS_Interval
<1> QED
  BY <1>1, FS_Subset, FS_CardinalityType DEF Pids

\* The ExitJobs that a signal puts on the job queue.
LEMMA ExitJobsType ==
  ASSUME listed \subseteq Pids
  PROVE  ExitJobs \in Seq(Jobs \cup {Exit})
<1>1. Cardinality(listed) \in Nat
  BY FinitePids
<1> QED
  BY <1>1 DEF ExitJobs

-----------------------------------------------------------------------------
(* Types.                                                                  *)

\* The variables have their types at the start.
LEMMA InitTyped ==
  Init => Typed
<1> SUFFICES ASSUME Init PROVE Typed
  OBVIOUS
<1> USE ConstantsAssumption
<1>1. NumSlots + 1 \in 1..(MaxPid + 1) /\ 1..NumSlots \subseteq Pids
  BY DEF Pids
<1>2. MailInv
  BY Mail DEF Init, MailInv
<1>3. MainInv
  BY DEF Init, MainInv
<1>5. AbortInv
  BY DEF Init, AbortInv
<1>4. TypeOK
  <2>1. /\ {app_exit, jobs_marked_done, all_jobs_marked_done, healthy,
            terminated, short} \subseteq BOOLEAN
        /\ ppc \in [Jobs -> {"new", "register", "put", "blocked", "answered"}]
        /\ got \in [Jobs -> Answers] /\ result \in [Jobs -> Answers]
        /\ saved \subseteq Jobs /\ done \subseteq Jobs
    BY DEF Init, Answers
  <2>2. /\ jobq \in Seq(Jobs \cup {Exit}) /\ abortq \in Seq(Pids)
        /\ resq \in Seq(Message) /\ Len(resq) <= PipeRoom
        /\ outbox \in [Pids \cup {Main} -> Seq(Message)]
    BY DEF Init
  <2>3. /\ pc \in [Pids -> {"unborn", "idle", "solving", "complete", "exited",
                            "dead"}]
        /\ job \in [Pids -> Jobs \cup {NoJob}]
        /\ listed \subseteq Pids /\ nextpid \in 1..(MaxPid + 1)
        /\ {mold, mnew} \subseteq Pids \cup {Main} /\ mgone \subseteq Pids
    BY <1>1 DEF Init
  <2>4. /\ mpc \in MainPCs \cup {"terminate"} /\ mret \in MainPCs
        /\ web \in {"booting", "serving", "closing", "gone"}
        /\ rpc \in {"get", "set", "mark", "complete", "dead"}
        /\ rmsg \in Message /\ rtodo \subseteq Jobs
        /\ hpc \in {"watch", "mark", "complete", "done"}
        /\ htodo \subseteq Jobs /\ events \in 0..MaxEvents
    BY Mail DEF Init, MainPCs
  <2>5. /\ apc \in {"ready", "value", "mark", "stop"}
        /\ aid \in Jobs \cup {NoJob} /\ avalue \in Pids \cup {Absent}
        /\ entry \in [Jobs -> Pids \cup Marks]
    BY DEF Init, Marks
  <2> QED
    BY <2>1, <2>2, <2>3, <2>4, <2>5 DEF TypeOK
<1> QED
  BY <1>2, <1>3, <1>4, <1>5 DEF Typed

\* What is not a DELETE or a POST leaves the DELETE in progress alone, and
\* puts what belongs there into the abort list.
LEMMA AbortList ==
  ASSUME entry \in [Jobs -> Pids \cup Marks],
         \/ \E p \in Pids : SolverStep(p) \/ CudaFails(p) \/ Crash(p)
         \/ \E p \in Pids \cup {Main} : Feed(p)
         \/ Signal \/ MainStep \/ ResultsStep \/ ResultsThreadFails
         \/ HeartbeatStep
  PROVE  /\ UNCHANGED <<apc, aid, avalue>>
         /\ entry' \in [Jobs -> Pids \cup Marks]
<1> USE DEF aborts, Marks
<1>1. CASE \E p \in Pids : SolverStep(p) \/ CudaFails(p) \/ Crash(p)
  BY <1>1 DEF SolverStep, Take, Taken, FinishSolve, ExitProcess, CudaFails,
     Crash
<1>2. CASE \E p \in Pids \cup {Main} : Feed(p)
  BY <1>2 DEF Feed
<1>3. CASE Signal
  BY <1>3 DEF Signal
<1>4. CASE MainStep
  <2>1. UNCHANGED aborts
    BY <1>4 DEF MainStep, WatchAbort, Forget, StartProcess, ListProcess,
       DropReplaced, CheckExit, Scan, Restart, Join, Terminate, WatchUnchanged
  <2>2. CASE Scan
    BY <2>1, <2>2 DEF Scan, Report, EntriesDeleted
  <2>3. CASE MainStep /\ ~Scan
    BY <2>1, <2>3 DEF MainStep, WatchAbort, Forget, StartProcess,
       ListProcess, DropReplaced, CheckExit, Restart, Join, Terminate
  <2> QED
    BY <1>4, <2>2, <2>3
<1>5. CASE ResultsStep \/ ResultsThreadFails
  BY <1>5 DEF ResultsStep, GetMessage, GetTimesOut, SetAnswer, MarkAll,
     CompleteOne, EndResults, ThreadUnchanged, ResultsThreadFails,
     EntryDeleted
<1>6. CASE HeartbeatStep
  BY <1>6 DEF HeartbeatStep, HeartbeatWakes, HeartbeatMarks,
     HeartbeatCompletes, EndHeartbeat, ThreadUnchanged
<1> QED
  BY <1>1, <1>2, <1>3, <1>4, <1>5, <1>6

\* The steps of a POST keep the types.
LEMMA PostTyped ==
  ASSUME Typed, NEW j \in Jobs, Post(j) \/ PostStep(j)
  PROVE  Typed'
<1> USE DEF Typed, flags, results, posts, aborts, queues, solvers, main,
            threads
<1>1. CASE Post(j)
  <2>1. /\ ppc' \in [Jobs -> {"new", "register", "put", "blocked", "answered"}]
        /\ got' \in [Jobs -> Answers]
    BY <1>1 DEF Post, Answer, TypeOK, Answers
  <2>2. UNCHANGED <<flags, results, aborts, entry, queues, solvers, main, web,
                    threads, events>>
    BY <1>1 DEF Post
  <2> QED
    BY <2>1, <2>2 DEF TypeOK, MailInv, MainInv, AbortInv
<1>2. CASE Register(j)
  BY <1>2 DEF Register, TypeOK, MailInv, MainInv, AbortInv
<1>3. CASE WaitForJob(j)
  <2>1. jobq' \in Seq(Jobs \cup {Exit})
    BY <1>3 DEF WaitForJob, TypeOK
  <2>2. /\ ppc' \in [Jobs -> {"new", "register", "put", "blocked", "answered"}]
        /\ got' \in [Jobs -> Answers] /\ saved' \subseteq Jobs
    BY <1>3 DEF WaitForJob, Answer, TypeOK, Answers
  <2>3. UNCHANGED <<all_jobs_marked_done, healthy, done, result, aborts,
                    entry, abortq, resq, outbox, flags, solvers, main, web,
                    threads, events>>
    BY <1>3 DEF WaitForJob
  <2> QED
    BY <2>1, <2>2, <2>3 DEF TypeOK, MailInv, MainInv, AbortInv
<1>4. CASE Wake(j)
  BY <1>4 DEF Wake, Answer, TypeOK, MailInv, MainInv, AbortInv
<1> QED
  BY <1>1, <1>2, <1>3, <1>4 DEF PostStep

\* The steps of a DELETE keep the types.
LEMMA AbortTyped ==
  ASSUME Typed, AbortStep \/ \E j \in Jobs : Abort(j)
  PROVE  Typed'
<1> USE DEF Typed, flags, results, posts, aborts, queues, solvers, main,
            threads
<1>1. CASE \E j \in Jobs : Abort(j)
  <2>1. events' \in 0..MaxEvents
    BY <1>1, ConstantsAssumption DEF Abort, Happens, TypeOK
  <2>2. /\ apc' = "value" /\ aid' \in Jobs
        /\ UNCHANGED <<flags, results, posts, avalue, entry, queues, solvers,
                       main, web, threads>>
    BY <1>1 DEF Abort
  <2> QED
    BY <2>1, <2>2 DEF TypeOK, MailInv, MainInv, AbortInv
<1>2. CASE AbortValue
  <2>1. /\ apc' \in {"ready", "mark"} /\ aid' \in Jobs \cup {NoJob}
        /\ apc' = "mark" => aid' \in Jobs
        /\ avalue' \in Pids \cup {Absent}
    BY <1>2 DEF AbortValue, ToBeAborted, TypeOK, AbortInv
  <2>2. entry' \in [Jobs -> Pids \cup Marks]
    BY <1>2 DEF AbortValue, TypeOK, Marks
  <2>3. UNCHANGED <<flags, results, posts, queues, solvers, main, web,
                    threads, events>>
    BY <1>2 DEF AbortValue
  <2> QED
    BY <2>1, <2>2, <2>3 DEF TypeOK, MailInv, MainInv, AbortInv
<1>3. CASE AbortMark
  <2>1. /\ apc' \in {"ready", "stop"} /\ aid' \in Jobs \cup {NoJob}
        /\ apc' = "stop" => aid' \in Jobs /\ avalue' \in Pids
        /\ avalue' \in Pids \cup {Absent}
    BY <1>3 DEF AbortMark, MustStop, TypeOK, AbortInv
  <2>2. result' \in [Jobs -> Answers] /\ done' \subseteq Jobs
    BY <1>3 DEF AbortMark, SetResult, TypeOK, AbortInv, Answers
  <2>3. UNCHANGED <<all_jobs_marked_done, healthy, saved, flags, posts, entry,
                    queues, solvers, main, web, threads, events>>
    BY <1>3 DEF AbortMark
  <2> QED
    BY <2>1, <2>2, <2>3 DEF TypeOK, MailInv, MainInv, AbortInv
<1>4. CASE AbortStop
  <2>1. abortq' \in Seq(Pids)
    BY <1>4 DEF AbortStop, TypeOK, AbortInv
  <2>2. entry' \in [Jobs -> Pids \cup Marks]
    BY <1>4 DEF AbortStop, EntryDeleted, TypeOK, Marks
  <2>3. /\ apc' = "ready" /\ aid' = NoJob /\ avalue' = Absent
        /\ UNCHANGED <<jobq, resq, outbox, flags, results, posts, solvers,
                       main, web, threads, events>>
    BY <1>4 DEF AbortStop
  <2> QED
    BY <2>1, <2>2, <2>3 DEF TypeOK, MailInv, MainInv, AbortInv
<1> QED
  BY <1>1, <1>2, <1>3, <1>4 DEF AbortStep

\* A solver process, or the feeder thread of a process.
LEMMA SolverTyped ==
  ASSUME Typed, NEW p \in Pids, SolverStep(p) \/ CudaFails(p) \/ Crash(p)
  PROVE  Typed'
<1> USE DEF Typed, flags, results, posts, aborts, queues, solvers, main,
            threads
<1>f. /\ UNCHANGED <<apc, aid, avalue>>
      /\ entry' \in [Jobs -> Pids \cup Marks]
  BY AbortList DEF TypeOK
<1> USE <1>f
<1>1. CASE Take(p)
  <2>1. jobq' \in Seq(Jobs \cup {Exit}) /\ Head(jobq) \in Jobs \cup {Exit}
    BY <1>1 DEF Take, TypeOK
  <2>2. /\ pc' \in [Pids -> {"unborn", "idle", "solving", "complete",
                             "exited", "dead"}]
        /\ job' \in [Pids -> Jobs \cup {NoJob}]
    BY <1>1, <2>1 DEF Take, Taken, TypeOK
  <2>3. outbox' \in [Pids \cup {Main} -> Seq(Proper)]
    <3>1. CASE outbox' = outbox
      BY <3>1 DEF MailInv
    <3>2. CASE /\ Head(jobq) # Exit
               /\ Put(p, Msg("aborted", Head(jobq)))
      BY <2>1, <3>2, Mail DEF Put, MailInv
    <3> QED
      BY <1>1, <3>1, <3>2 DEF Take, Taken
  <2>4. UNCHANGED <<abortq, resq, flags, results, posts, main, web, threads,
                    events>>
    BY <1>1 DEF Take
  <2> QED
    BY <2>1, <2>2, <2>3, <2>4, ProperSeq DEF TypeOK, MailInv, MainInv, AbortInv
<1>2. CASE FinishSolve(p)
  <2>1. outbox' \in [Pids \cup {Main} -> Seq(Proper)]
    BY <1>2, Mail DEF FinishSolve, Put, TypeOK, MailInv
  <2>2. /\ pc' \in [Pids -> {"unborn", "idle", "solving", "complete",
                             "exited", "dead"}]
        /\ job' \in [Pids -> Jobs \cup {NoJob}]
    BY <1>2 DEF FinishSolve, TypeOK
  <2>3. UNCHANGED <<jobq, abortq, resq, flags, results, posts, main, web,
                    threads, events>>
    BY <1>2 DEF FinishSolve
  <2> QED
    BY <2>1, <2>2, <2>3, ProperSeq DEF TypeOK, MailInv, MainInv, AbortInv
<1>3. CASE ExitProcess(p)
  BY <1>3 DEF ExitProcess, TypeOK, MailInv, MainInv, AbortInv
<1>4. CASE CudaFails(p)
  <2>1. outbox' \in [Pids \cup {Main} -> Seq(Proper)]
    BY <1>4, Mail DEF CudaFails, Put, MailInv
  <2>2. /\ pc' \in [Pids -> {"unborn", "idle", "solving", "complete",
                             "exited", "dead"}]
        /\ job' \in [Pids -> Jobs \cup {NoJob}]
        /\ events' \in 0..MaxEvents
    BY <1>4, ConstantsAssumption DEF CudaFails, Happens, TypeOK
  <2>3. UNCHANGED <<jobq, abortq, resq, flags, results, posts, main, web,
                    threads>>
    BY <1>4 DEF CudaFails
  <2> QED
    BY <2>1, <2>2, <2>3, ProperSeq DEF TypeOK, MailInv, MainInv, AbortInv
<1>5. CASE Crash(p)
  <2>1. outbox' \in [Pids \cup {Main} -> Seq(Proper)]
    BY <1>5 DEF Crash, Killed, MailInv
  <2>2. /\ pc' \in [Pids -> {"unborn", "idle", "solving", "complete",
                             "exited", "dead"}]
        /\ job' \in [Pids -> Jobs \cup {NoJob}]
        /\ events' \in 0..MaxEvents
    BY <1>5, ConstantsAssumption DEF Crash, Killed, Happens, TypeOK
  <2>3. UNCHANGED <<jobq, abortq, resq, flags, results, posts, main, web,
                    threads>>
    BY <1>5 DEF Crash
  <2> QED
    BY <2>1, <2>2, <2>3, ProperSeq DEF TypeOK, MailInv, MainInv, AbortInv
<1> QED
  BY <1>1, <1>2, <1>3, <1>4, <1>5 DEF SolverStep

\* The feeder thread of a queue keeps the types.
LEMMA FeedTyped ==
  ASSUME Typed, NEW p \in Pids \cup {Main}, Feed(p)
  PROVE  Typed'
<1> USE DEF Typed, flags, results, posts, aborts, queues, solvers, main,
            threads
<1>f. /\ UNCHANGED <<apc, aid, avalue>>
      /\ entry' \in [Jobs -> Pids \cup Marks]
  BY AbortList DEF TypeOK
<1> USE <1>f
<1>1. outbox[p] \in Seq(Proper) /\ outbox[p] # <<>> /\ resq \in Seq(Proper)
  BY DEF Feed, MailInv
<1>2. /\ resq' \in Seq(Proper) /\ Len(resq') = Len(resq) + 1
      /\ Tail(outbox[p]) \in Seq(Proper)
  BY <1>1 DEF Feed
<1>3. outbox' \in [Pids \cup {Main} -> Seq(Proper)]
  BY <1>2 DEF Feed, MailInv
<1>4. Len(resq') <= PipeRoom
  BY <1>1, <1>2, ConstantsAssumption DEF Feed
<1>5. UNCHANGED <<jobq, abortq, flags, results, posts, solvers, main, web,
                  threads, events>>
  BY DEF Feed
<1>6. TypeOK'
  BY <1>2, <1>3, <1>4, <1>5, ProperSeq DEF TypeOK
<1> QED
  BY <1>2, <1>3, <1>5, <1>6 DEF MailInv, MainInv, AbortInv

\* What the main process leaves alone in each of its steps.
LEMMA MainFrame ==
  ASSUME MainStep
  PROVE  UNCHANGED <<flags, results, posts, web, threads, events, resq>>
BY DEF MainStep, WatchAbort, Forget, StartProcess, ListProcess, DropReplaced,
   CheckExit, Scan, Restart, Join, Terminate, WatchUnchanged, queues

\* SIGKILL keeps the types of the processes and of their messages.
LEMMA KilledType ==
  ASSUME Typed, NEW ps, Killed(ps)
  PROVE  /\ pc' \in [Pids -> {"unborn", "idle", "solving", "complete",
                              "exited", "dead"}]
         /\ job' \in [Pids -> Jobs \cup {NoJob}]
         /\ outbox' \in [Pids \cup {Main} -> Seq(Proper)]
BY DEF Typed, TypeOK, MailInv, Killed

\* The job that the abort list has for a process is one, if it has one.
LEMMA JobOfType ==
  \A p : JobOf(p) \in Jobs \cup {NoJob}
BY DEF JobOf

\* The answers of abort_by_pid.
LEMMA ReportType ==
  ASSUME Typed, NEW gone \in SUBSET Pids, Report(gone)
  PROVE  outbox' \in [Pids \cup {Main} -> Seq(Proper)]
<1> USE DEF Typed
<1>1. CASE ~(~terminated \/ gone = {})
  BY <1>1 DEF Report, MailInv
<1>2. CASE ~terminated \/ gone = {}
  <2>1. CASE UNCHANGED outbox
    BY <2>1 DEF MailInv
  <2>2. CASE \E s \in [1..Cardinality(gone) -> gone] :
               outbox' = [outbox EXCEPT ![Main] =
                            @ \o [i \in DOMAIN s |->
                                    Msg("aborted", JobOf(s[i]))]]
    <3>1. PICK s \in [1..Cardinality(gone) -> gone] :
                 outbox' = [outbox EXCEPT ![Main] =
                              @ \o [i \in DOMAIN s |->
                                      Msg("aborted", JobOf(s[i]))]]
      BY <2>2
    <3> DEFINE answers == [i \in DOMAIN s |-> Msg("aborted", JobOf(s[i]))]
    <3>2. answers \in [1..Cardinality(gone) -> Proper]
      <4>1. \A i \in 1..Cardinality(gone) :
               Msg("aborted", JobOf(s[i])) \in Proper
        BY Mail, JobOfType
      <4> QED
        BY <4>1
    <3> HIDE DEF answers
    <3>3. answers \in Seq(Proper)
      BY <3>2, FinitePids, SMT
    <3>4. outbox' = [outbox EXCEPT ![Main] = @ \o answers]
      BY <3>1 DEF answers
    <3> QED
      BY <3>3, <3>4 DEF MailInv
  <2> QED
    BY <1>2, <2>1, <2>2 DEF Report
<1> QED
  BY <1>1, <1>2

\* The types of what the main process leaves alone.
OthersTyped ==
  /\ {app_exit, jobs_marked_done, all_jobs_marked_done, healthy,
      terminated, short} \subseteq BOOLEAN
  /\ ppc \in [Jobs -> {"new", "register", "put", "blocked", "answered"}]
  /\ got \in [Jobs -> Answers]
  /\ saved \subseteq Jobs /\ done \subseteq Jobs
  /\ result \in [Jobs -> Answers]
  /\ resq \in Seq(Message) /\ Len(resq) <= PipeRoom
  /\ web \in {"booting", "serving", "closing", "gone"}
  /\ rpc \in {"get", "set", "mark", "complete", "dead"}
  /\ rmsg \in Message /\ rtodo \subseteq Jobs
  /\ hpc \in {"watch", "mark", "complete", "done"}
  /\ htodo \subseteq Jobs
  /\ events \in 0..MaxEvents

\* The main process keeps the types.
LEMMA MainTyped ==
  ASSUME Typed, MainStep
  PROVE  Typed'
<1> USE DEF Typed, flags, results, posts, aborts, queues, solvers, main,
            threads,
            MainPCs
<1>f. /\ UNCHANGED <<apc, aid, avalue>>
      /\ entry' \in [Jobs -> Pids \cup Marks]
  BY AbortList DEF TypeOK
<1> USE <1>f
<1>0. UNCHANGED <<flags, results, posts, web, threads, events, resq>>
  BY MainFrame
<1>00. OthersTyped'
  BY <1>0 DEF OthersTyped, TypeOK
<1>1. CASE WatchAbort
  <2>1. /\ UNCHANGED <<jobq, listed, nextpid, mnew, mgone, mret>>
        /\ mpc' \in MainPCs \ {"list"}
    BY <1>1 DEF WatchAbort, Goto, AfterCheck
  <2>2. mold' \in Pids \cup {Main} /\ abortq' \in Seq(Pids)
    <3>1. \/ UNCHANGED <<abortq, mold>>
          \/ /\ abortq # <<>>
             /\ abortq' = Tail(abortq) /\ mold' = Head(abortq)
      BY <1>1 DEF WatchAbort
    <3>2. abortq \in Seq(Pids) /\ mold \in Pids \cup {Main}
      BY DEF TypeOK
    <3> QED
      BY <3>1, <3>2
  <2>3. /\ pc' \in [Pids -> {"unborn", "idle", "solving", "complete",
                             "exited", "dead"}]
        /\ job' \in [Pids -> Jobs \cup {NoJob}]
        /\ outbox' \in [Pids \cup {Main} -> Seq(Proper)]
    <3>1. UNCHANGED <<pc, job, outbox>> \/ Killed({Head(abortq)})
      BY <1>1 DEF WatchAbort
    <3> QED
      BY <3>1, KilledType DEF TypeOK, MailInv
  <2>4. TypeOK'
    <3>1. outbox' \in [Pids \cup {Main} -> Seq(Message)]
      BY <2>3, ProperSeq
    <3> QED
      BY <1>00, <2>1, <2>2, <2>3, <3>1 DEF TypeOK, OthersTyped
  <2> QED
    BY <1>0, <2>1, <2>3, <2>4 DEF MailInv, MainInv, AbortInv
<1>2. CASE Forget
  BY <1>0, <1>2 DEF Forget, Goto, TypeOK, MailInv, MainInv, AbortInv
<1>3. CASE StartProcess
  <2>1. nextpid \in Pids /\ nextpid' \in 1..(MaxPid + 1)
    BY <1>3, ConstantsAssumption DEF StartProcess, TypeOK, Pids
  <2>2. pc' \in [Pids -> {"unborn", "idle", "solving", "complete", "exited",
                          "dead"}]
    BY <1>3 DEF StartProcess, TypeOK
  <2>3. /\ UNCHANGED <<job, queues, listed, mold, mgone, mret>>
        /\ mnew' = nextpid /\ mpc' = "list"
    BY <1>3 DEF StartProcess, Goto
  <2> QED
    BY <1>0, <2>1, <2>2, <2>3 DEF TypeOK, MailInv, MainInv, AbortInv
<1>4. CASE ListProcess
  BY <1>0, <1>4 DEF ListProcess, Goto, TypeOK, MailInv, MainInv, AbortInv
<1>5. CASE DropReplaced
  BY <1>0, <1>5 DEF DropReplaced, Goto, TypeOK, MailInv, MainInv, AbortInv
<1>6. CASE CheckExit
  BY <1>0, <1>6 DEF CheckExit, Goto, AfterCheck, TypeOK, MailInv,
     MainInv, AbortInv
<1>7. CASE Scan
  <2>1. mgone' \in SUBSET Pids
    BY <1>7 DEF Scan, TypeOK
  <2>2. outbox' \in [Pids \cup {Main} -> Seq(Proper)]
    BY <1>7, <2>1, ReportType DEF Scan
  <2>3. /\ mpc' \in {"watch", "restart", "marked"} /\ UNCHANGED mret
        /\ UNCHANGED <<pc, job, jobq, abortq, listed, nextpid, mold, mnew>>
    BY <1>7 DEF Scan, Report, Goto
  <2> QED
    BY <1>0, <2>1, <2>2, <2>3, ProperSeq DEF TypeOK, MailInv, MainInv, AbortInv
<1>8. CASE Restart
  BY <1>0, <1>8 DEF Restart, Goto, TypeOK, MailInv, MainInv, AbortInv
<1>9. CASE Join
  BY <1>0, <1>9 DEF Join, WaitMarked, JoinSolvers, JoinWeb, Goto, TypeOK,
     MailInv, MainInv, AbortInv
<1>10. CASE Terminate
  <2>1. /\ UNCHANGED <<jobq, abortq, listed, nextpid, mold, mnew, mgone>>
        /\ mpc = "terminate" /\ mpc' = mret /\ mret' = "watch"
        /\ UNCHANGED <<pc, job, outbox>> \/ Killed(listed)
    BY <1>10 DEF Terminate
  <2>2. /\ pc' \in [Pids -> {"unborn", "idle", "solving", "complete",
                             "exited", "dead"}]
        /\ job' \in [Pids -> Jobs \cup {NoJob}]
        /\ outbox' \in [Pids \cup {Main} -> Seq(Proper)]
    BY <2>1, KilledType DEF TypeOK, MailInv
  <2>3. TypeOK'
    <3>1. outbox' \in [Pids \cup {Main} -> Seq(Message)]
      BY <2>2, ProperSeq
    <3>2. mpc' \in MainPCs \cup {"terminate"} /\ mret' \in MainPCs
      BY <2>1 DEF TypeOK
    <3> QED
      BY <1>00, <2>1, <2>2, <3>1, <3>2 DEF TypeOK, OthersTyped
  <2> QED
    BY <1>0, <2>1, <2>2, <2>3 DEF MailInv, MainInv, AbortInv
<1> QED
  BY <1>1, <1>2, <1>3, <1>4, <1>5, <1>6, <1>7, <1>8, <1>9, <1>10
  DEF MainStep

\* A signal: the main process notes where it was interrupted.
LEMMA SignalTyped ==
  ASSUME Typed, Signal
  PROVE  Typed'
<1> USE DEF Typed, flags, results, posts, aborts, queues, solvers, main,
            threads,
            MainPCs
<1>f. /\ UNCHANGED <<apc, aid, avalue>>
      /\ entry' \in [Jobs -> Pids \cup Marks]
  BY AbortList DEF TypeOK
<1> USE <1>f
<1>1. jobq' \in Seq(Jobs \cup {Exit})
  BY ExitJobsType DEF Signal, TypeOK
<1>2. outbox' \in [Pids \cup {Main} -> Seq(Proper)]
  BY Mail DEF Signal, Put, MailInv
<1>3. /\ terminated' = TRUE /\ app_exit' = TRUE /\ (short' \in BOOLEAN)
      /\ mret' \in MainPCs /\ mret' = mpc /\ mpc' = "terminate"
  BY DEF Signal, TypeOK, MainInv
<1>4. UNCHANGED <<jobs_marked_done, abortq, resq, listed, nextpid, mold, mnew,
                  mgone, results, posts, solvers, web, threads, events>>
  BY DEF Signal
<1> QED
  BY <1>1, <1>2, <1>3, <1>4, ProperSeq DEF TypeOK, MailInv, MainInv, AbortInv

\* The results thread.
LEMMA ResultsTyped ==
  ASSUME Typed, ResultsStep \/ ResultsThreadFails
  PROVE  Typed'
<1> USE DEF Typed, flags, results, posts, aborts, queues, solvers, main,
            threads
<1>f. /\ UNCHANGED <<apc, aid, avalue>>
      /\ entry' \in [Jobs -> Pids \cup Marks]
  BY AbortList DEF TypeOK
<1> USE <1>f
<1>1. CASE GetMessage /\ ThreadUnchanged
  <2>1. /\ Head(resq) \in Proper /\ resq' \in Seq(Proper)
        /\ Len(resq') <= PipeRoom
    BY <1>1, ConstantsAssumption DEF GetMessage, MailInv, TypeOK
  <2>2. /\ rmsg' \in Message /\ rpc' \in {"get", "set", "mark"}
        /\ rpc' = "set" => rmsg'.id \in Jobs
                           /\ rmsg'.kind \in {"answer", "aborted"}
    <3>1. UncollectedResults \subseteq Jobs /\ NoJob \notin Jobs
      BY ConstantsAssumption DEF UncollectedResults, TypeOK
    <3>2. /\ Head(resq) \in Message
          /\ Head(resq).kind \in {"shutdown", "unhealthy"} =>
               Head(resq).id = NoJob
          /\ Head(resq).kind \in {"answer", "aborted", "shutdown",
                                  "unhealthy"}
      BY <2>1 DEF Proper, Message
    <3>3. \/ rmsg' = Head(resq) /\ rpc' = "mark"
          \/ /\ rmsg' = Head(resq) /\ rpc' = "set"
             /\ Head(resq).id \in UncollectedResults
          \/ rpc = "get" /\ UNCHANGED <<rmsg, rpc>>
      BY <1>1 DEF GetMessage
    <3> QED
      BY <3>1, <3>2, <3>3 DEF TypeOK
  <2>3. UNCHANGED <<app_exit, jobs_marked_done, jobq, abortq, outbox, results,
                    rtodo, hpc, htodo, web, posts, solvers, main, terminated,
                    short, events>>
    BY <1>1 DEF GetMessage, ThreadUnchanged
  <2> QED
    BY <2>1, <2>2, <2>3, ProperSeq DEF TypeOK, MailInv, MainInv, AbortInv
<1>2. CASE GetTimesOut /\ ThreadUnchanged
  BY <1>2, Mail DEF GetTimesOut, ThreadUnchanged, TypeOK, MailInv,
     MainInv, AbortInv, Proper
<1>3. CASE SetAnswer /\ ThreadUnchanged
  <2>1. /\ result' \in [Jobs -> Answers] /\ done' \subseteq Jobs
        /\ rpc' = "get" /\ rmsg' \in Message
    BY <1>3, Mail DEF SetAnswer, SetResult, TypeOK, MailInv, Answers
  <2>2. UNCHANGED <<all_jobs_marked_done, healthy, saved, app_exit,
                    jobs_marked_done, rtodo, hpc, htodo, web, queues, posts,
                    solvers, main, terminated, short, events>>
    BY <1>3 DEF SetAnswer, ThreadUnchanged
  <2> QED
    BY <2>1, <2>2 DEF TypeOK, MailInv, MainInv, AbortInv
<1>4. CASE MarkAll /\ ThreadUnchanged
  BY <1>4 DEF MarkAll, ThreadUnchanged, UncollectedResults, TypeOK, MailInv,
     MainInv, AbortInv
<1>5. CASE CompleteOne /\ ThreadUnchanged
  <2>1. /\ result' \in [Jobs -> Answers] /\ done' \subseteq Jobs
        /\ rtodo' \subseteq Jobs
    BY <1>5 DEF CompleteOne, SetResult, TypeOK, Answers
  <2>2. UNCHANGED <<all_jobs_marked_done, healthy, saved, queues, app_exit,
                    jobs_marked_done, rpc, rmsg, hpc, htodo, web, posts,
                    solvers, main, terminated, short, events>>
    BY <1>5 DEF CompleteOne, ThreadUnchanged
  <2> QED
    BY <2>1, <2>2 DEF TypeOK, MailInv, MainInv, AbortInv
<1>6. CASE EndResults /\ ThreadUnchanged
  <2>1. /\ healthy' \in BOOLEAN /\ jobs_marked_done' = TRUE
        /\ web' \in {"booting", "serving", "closing", "gone"}
        /\ rpc' = "dead" /\ rmsg' \in Message
    BY <1>6, Mail DEF EndResults, TerminateWeb, TypeOK
  <2>2. UNCHANGED <<all_jobs_marked_done, saved, done, result, app_exit,
                    rtodo, hpc, htodo, queues, posts, solvers, main,
                    terminated, short, events>>
    BY <1>6 DEF EndResults, ThreadUnchanged
  <2> QED
    BY <2>1, <2>2 DEF TypeOK, MailInv, MainInv, AbortInv
<1>7. CASE ResultsThreadFails
  BY <1>7, ConstantsAssumption DEF ResultsThreadFails, Happens, TypeOK,
     MailInv, MainInv, AbortInv
<1> QED
  BY <1>1, <1>2, <1>3, <1>4, <1>5, <1>6, <1>7 DEF ResultsStep

\* The heartbeat thread.
LEMMA HeartbeatTyped ==
  ASSUME Typed, HeartbeatStep
  PROVE  Typed'
<1> USE DEF Typed, flags, results, posts, aborts, queues, solvers, main,
            threads
<1>f. /\ UNCHANGED <<apc, aid, avalue>>
      /\ entry' \in [Jobs -> Pids \cup Marks]
  BY AbortList DEF TypeOK
<1> USE <1>f
<1>0. UNCHANGED <<posts, solvers, main, terminated, short, events, queues,
                  rpc, rmsg>>
  BY DEF HeartbeatStep, ThreadUnchanged, HeartbeatWakes, HeartbeatMarks,
     HeartbeatCompletes, EndHeartbeat
<1>1. CASE HeartbeatWakes
  BY <1>0, <1>1 DEF HeartbeatWakes, TypeOK, MailInv, MainInv, AbortInv
<1>2. CASE HeartbeatMarks
  BY <1>0, <1>2 DEF HeartbeatMarks, UncollectedResults, TypeOK, MailInv,
     MainInv, AbortInv
<1>3. CASE HeartbeatCompletes
  <2>1. /\ result' \in [Jobs -> Answers] /\ done' \subseteq Jobs
        /\ htodo' \subseteq Jobs
    BY <1>3 DEF HeartbeatCompletes, SetResult, TypeOK, Answers
  <2>2. UNCHANGED <<all_jobs_marked_done, healthy, saved, app_exit,
                    jobs_marked_done, rtodo, hpc, web>>
    BY <1>3 DEF HeartbeatCompletes
  <2> QED
    BY <1>0, <2>1, <2>2 DEF TypeOK, MailInv, MainInv, AbortInv
<1>4. CASE EndHeartbeat
  BY <1>0, <1>4 DEF EndHeartbeat, TerminateWeb, TypeOK, MailInv,
     MainInv, AbortInv
<1> QED
  BY <1>1, <1>2, <1>3, <1>4 DEF HeartbeatStep

\* The types, the messages and the main process: every step keeps them.
LEMMA NextTyped ==
  Typed /\ [Next]_vars => Typed'
<1> SUFFICES ASSUME Typed, [Next]_vars PROVE Typed'
  OBVIOUS
<1> USE DEF flags, results, posts, aborts, queues, solvers, main, threads
<1>1. CASE UNCHANGED vars
  BY <1>1 DEF vars, Typed, TypeOK, MailInv, MainInv, AbortInv
<1>2. CASE WebStep
  <2>1. /\ web' \in {"booting", "serving", "closing", "gone"}
        /\ jobs_marked_done' \in BOOLEAN
        /\ UNCHANGED <<app_exit, terminated, short, results, posts, aborts,
                       entry, queues, solvers, main, threads, events>>
    BY <1>2 DEF WebStep, Serve, Close, Typed, TypeOK
  <2> QED
    BY <2>1 DEF Typed, TypeOK, MailInv, MainInv, AbortInv
<1> QED
  BY <1>1, <1>2, PostTyped, AbortTyped, SolverTyped, FeedTyped,
     SignalTyped, MainTyped, ResultsTyped, HeartbeatTyped DEF Next

-----------------------------------------------------------------------------
(* The threads, the waiting clients and the answers.                       *)

Shared == <<results, posts, web, threads, jobs_marked_done>>

\* What the solvers, the feeder threads and the main process do is of no
\* concern to the clients: they work on the queues. So does a DELETE until it
\* has its job aborted.
LEMMA Bystanders ==
  ASSUME \/ \E p \in Pids : SolverStep(p) \/ CudaFails(p) \/ Crash(p)
         \/ \E p \in Pids \cup {Main} : Feed(p)
         \/ \E j \in Jobs : Abort(j)
         \/ AbortValue \/ AbortStop
         \/ Signal \/ MainStep \/ UNCHANGED vars
  PROVE  UNCHANGED Shared
<1> USE DEF Shared, flags
<1>1. CASE \E p \in Pids : SolverStep(p) \/ CudaFails(p) \/ Crash(p)
  BY <1>1 DEF SolverStep, Take, FinishSolve, ExitProcess, CudaFails, Crash
<1>2. CASE \E p \in Pids \cup {Main} : Feed(p)
  BY <1>2 DEF Feed
<1>3. CASE Signal
  BY <1>3 DEF Signal
<1>4. CASE MainStep
  BY <1>4, MainFrame
<1>5. CASE UNCHANGED vars
  BY <1>5 DEF vars
<1>6. CASE (\E j \in Jobs : Abort(j)) \/ AbortValue \/ AbortStop
  BY <1>6 DEF Abort, AbortValue, AbortStop
<1> QED
  BY <1>1, <1>2, <1>3, <1>4, <1>5, <1>6

\* A step that leaves alone what the threads share keeps the invariant.
LEMMA SharedKeeps ==
  ASSUME ThreadInv, WaitInv, AnswerInv, UNCHANGED Shared
  PROVE  ThreadInv' /\ WaitInv' /\ AnswerInv'
BY DEF ThreadInv, WaitInv, NoOrphanWaiter, AnswerInv, Shared, results, posts,
   threads

\* A client comes only to wait for a result that is done, or whose threads
\* have not begun to mark, and leaves only when it is done.
LEMMA PostKeeps ==
  ASSUME Inv, NEW j \in Jobs, Post(j) \/ PostStep(j)
  PROVE  ThreadInv' /\ WaitInv' /\ AnswerInv'
<1> USE DEF Inv, Typed, flags, threads
<1>1. UNCHANGED <<jobs_marked_done, all_jobs_marked_done, web, threads>>
  BY DEF Post, PostStep, Register, WaitForJob, Wake, results
<1>2. ThreadInv'
  BY <1>1 DEF ThreadInv
<1>3. WaitInv'
  <2>1. CASE Post(j)
    BY <1>1, <2>1 DEF Post, Answer, TypeOK, WaitInv, NoOrphanWaiter, results
  <2>2. CASE Register(j)
    BY <1>1, <2>2 DEF Register, TypeOK, WaitInv, NoOrphanWaiter
  <2>3. CASE WaitForJob(j)
    <3>1. jobs_marked_done => all_jobs_marked_done
      BY DEF ThreadInv
    <3>2. UNCHANGED <<done, rtodo, htodo>>
      BY <1>1, <2>3 DEF WaitForJob
    <3>3. CASE Answer(j, "shutdown") /\ saved' = saved \ {j}
      BY <1>1, <3>2, <3>3 DEF Answer, TypeOK, WaitInv, NoOrphanWaiter
    <3>4. CASE /\ ppc[j] = "put" /\ (~all_jobs_marked_done \/ j \in done)
               /\ ppc' = [ppc EXCEPT ![j] = "blocked"]
               /\ UNCHANGED saved
      BY <1>1, <3>1, <3>2, <3>4 DEF TypeOK, WaitInv, NoOrphanWaiter
    <3> QED
      BY <2>3, <3>3, <3>4 DEF WaitForJob
  <2>4. CASE Wake(j)
    BY <1>1, <2>4 DEF Wake, Answer, TypeOK, WaitInv, NoOrphanWaiter
  <2> QED
    BY <2>1, <2>2, <2>3, <2>4 DEF PostStep
<1>4. AnswerInv'
  <2>1. UNCHANGED <<result, done>>
    BY DEF Post, PostStep, Register, WaitForJob, Wake, results
  <2> QED
    BY <1>1, <2>1 DEF AnswerInv
<1> QED
  BY <1>2, <1>3, <1>4

\* A DELETE completes the result of its job.
LEMMA AbortKeeps ==
  ASSUME Inv, AbortMark
  PROVE  ThreadInv' /\ WaitInv' /\ AnswerInv'
<1>1. /\ result' = [result EXCEPT ![aid] = "aborted"]
      /\ done' = done \cup {aid}
      /\ UNCHANGED <<all_jobs_marked_done, jobs_marked_done, saved, posts, web,
                     threads>>
  BY DEF AbortMark, SetResult, flags
<1>2. ThreadInv' /\ WaitInv'
  BY <1>1 DEF Inv, ThreadInv, WaitInv, NoOrphanWaiter, posts, threads
<1>3. AnswerInv'
  BY <1>1 DEF Inv, Typed, TypeOK, MailInv, AnswerInv, threads
<1> QED
  BY <1>2, <1>3

\* The results thread answers, and completes what it has marked.
LEMMA ResultsKeep ==
  ASSUME Inv, ResultsStep \/ ResultsThreadFails
  PROVE  ThreadInv' /\ WaitInv' /\ AnswerInv'
<1> USE DEF Inv, Typed, flags, posts
<1>1. UNCHANGED <<posts, hpc, htodo, saved>>
  BY DEF ResultsStep, GetMessage, GetTimesOut, SetAnswer, MarkAll,
     CompleteOne, EndResults, ThreadUnchanged, ResultsThreadFails, results
<1>2. CASE GetMessage \/ GetTimesOut \/ ResultsThreadFails
  <2>1. /\ UNCHANGED <<all_jobs_marked_done, done, result, rtodo, web,
                       jobs_marked_done>>
        /\ rpc = "get" /\ rpc' \in {"get", "set", "mark", "dead"}
        /\ rpc' = "set" => rmsg'.id \in UncollectedResults
    BY <1>2 DEF GetMessage, GetTimesOut, ResultsThreadFails, results
  <2>2. ThreadInv'
    BY <1>1, <2>1 DEF ThreadInv
  <2>3. WaitInv'
    BY <1>1, <2>1 DEF WaitInv, NoOrphanWaiter
  <2>4. AnswerInv'
    BY <1>1, <2>1 DEF AnswerInv, UncollectedResults, TypeOK
  <2> QED
    BY <2>2, <2>3, <2>4
<1>3. CASE SetAnswer
  <2>1. /\ rpc = "set" /\ rpc' = "get" /\ rmsg.id \in Jobs
        /\ result' = [result EXCEPT ![rmsg.id] = rmsg.kind]
        /\ done' = done \cup {rmsg.id}
        /\ UNCHANGED <<all_jobs_marked_done, rtodo, web, jobs_marked_done>>
    BY <1>3 DEF SetAnswer, SetResult, MailInv
  <2>2. rtodo = {} /\ htodo = {}
    BY <2>1 DEF ThreadInv
  <2>3. ThreadInv' /\ WaitInv'
    BY <1>1, <2>1 DEF ThreadInv, WaitInv, NoOrphanWaiter
  <2>4. AnswerInv'
    BY <1>1, <2>1, <2>2 DEF AnswerInv, TypeOK
  <2> QED
    BY <2>3, <2>4
<1>4. CASE MarkAll
  <2>1. /\ rpc = "mark" /\ rpc' = "complete" /\ all_jobs_marked_done' = TRUE
        /\ rtodo' = IF all_jobs_marked_done THEN {} ELSE UncollectedResults
        /\ UNCHANGED <<done, result, web, jobs_marked_done, rmsg>>
    BY <1>4 DEF MarkAll
  <2>2. ThreadInv'
    BY <1>1, <2>1 DEF ThreadInv
  <2>3. WaitInv'
    BY <1>1, <2>1 DEF WaitInv, NoOrphanWaiter, ThreadInv, UncollectedResults
  <2>4. AnswerInv'
    BY <1>1, <2>1 DEF AnswerInv, UncollectedResults, TypeOK
  <2> QED
    BY <2>2, <2>3, <2>4
<1>5. CASE CompleteOne
  <2>1. PICK j \in rtodo : /\ result' = [result EXCEPT ![j] = "shutdown"]
                           /\ done' = done \cup {j}
                           /\ rtodo' = rtodo \ {j}
    BY <1>5 DEF CompleteOne, SetResult
  <2>2. /\ rpc = "complete"
        /\ UNCHANGED <<all_jobs_marked_done, web, jobs_marked_done, rpc, rmsg>>
    BY <1>5 DEF CompleteOne
  <2>3. ThreadInv' /\ WaitInv'
    BY <1>1, <2>1, <2>2 DEF ThreadInv, WaitInv, NoOrphanWaiter
  <2>4. AnswerInv'
    BY <1>1, <2>1, <2>2 DEF AnswerInv, TypeOK
  <2> QED
    BY <2>3, <2>4
<1>6. CASE EndResults
  <2>1. /\ rpc = "complete" /\ rtodo = {} /\ rpc' = "dead"
        /\ jobs_marked_done' = TRUE
        /\ UNCHANGED <<all_jobs_marked_done, done, result, rtodo>>
    BY <1>6 DEF EndResults, AllCompleted
  <2>2. ThreadInv'
    BY <1>1, <2>1 DEF ThreadInv
  <2>3. WaitInv'
    BY <1>1, <2>1 DEF WaitInv, NoOrphanWaiter, ThreadInv
  <2>4. AnswerInv'
    BY <1>1, <2>1 DEF AnswerInv
  <2> QED
    BY <2>2, <2>3, <2>4
<1> QED
  BY <1>2, <1>3, <1>4, <1>5, <1>6 DEF ResultsStep

\* The heartbeat thread marks and completes when the results thread is dead.
LEMMA HeartbeatKeeps ==
  ASSUME Inv, HeartbeatStep
  PROVE  ThreadInv' /\ WaitInv' /\ AnswerInv'
<1> USE DEF Inv, Typed, posts, results
<1>1. UNCHANGED <<posts, rpc, rmsg, rtodo, saved>>
  BY DEF HeartbeatStep, HeartbeatWakes, HeartbeatMarks, HeartbeatCompletes,
     EndHeartbeat, ThreadUnchanged
<1>2. CASE HeartbeatWakes
  <2>1. /\ rpc = "dead" /\ hpc = "watch" /\ hpc' = "mark"
        /\ UNCHANGED <<jobs_marked_done, htodo, web, results>>
    BY <1>2 DEF HeartbeatWakes, HeartbeatFindsDead
  <2> QED
    BY <1>1, <2>1 DEF ThreadInv, WaitInv, NoOrphanWaiter, AnswerInv
<1>3. CASE HeartbeatMarks
  <2>1. /\ hpc = "mark" /\ hpc' = "complete" /\ all_jobs_marked_done' = TRUE
        /\ htodo' = IF all_jobs_marked_done THEN {} ELSE UncollectedResults
        /\ UNCHANGED <<done, result, web, jobs_marked_done>>
    BY <1>3 DEF HeartbeatMarks
  <2>2. ThreadInv'
    BY <1>1, <2>1 DEF ThreadInv
  <2>3. WaitInv'
    BY <1>1, <2>1 DEF WaitInv, NoOrphanWaiter, ThreadInv, UncollectedResults
  <2>4. AnswerInv'
    BY <1>1, <2>1 DEF AnswerInv, UncollectedResults, TypeOK
  <2> QED
    BY <2>2, <2>3, <2>4
<1>4. CASE HeartbeatCompletes
  <2>1. PICK j \in htodo : /\ result' = [result EXCEPT ![j] = "shutdown"]
                           /\ done' = done \cup {j}
                           /\ htodo' = htodo \ {j}
    BY <1>4 DEF HeartbeatCompletes, SetResult
  <2>2. /\ hpc = "complete" /\ rpc # "set"
        /\ UNCHANGED <<all_jobs_marked_done, web, jobs_marked_done, hpc>>
    BY <1>4 DEF HeartbeatCompletes, ThreadInv
  <2>3. ThreadInv' /\ WaitInv'
    BY <1>1, <2>1, <2>2 DEF ThreadInv, WaitInv, NoOrphanWaiter
  <2>4. AnswerInv'
    BY <1>1, <2>1, <2>2 DEF AnswerInv, TypeOK
  <2> QED
    BY <2>3, <2>4
<1>5. CASE EndHeartbeat
  <2>1. /\ hpc = "complete" /\ htodo = {} /\ hpc' = "done"
        /\ jobs_marked_done' = TRUE
        /\ UNCHANGED <<all_jobs_marked_done, done, result, htodo>>
    BY <1>5 DEF EndHeartbeat
  <2>2. ThreadInv'
    BY <1>1, <2>1 DEF ThreadInv
  <2>3. WaitInv'
    BY <1>1, <2>1 DEF WaitInv, NoOrphanWaiter, ThreadInv
  <2>4. AnswerInv'
    BY <1>1, <2>1 DEF AnswerInv
  <2> QED
    BY <2>2, <2>3, <2>4
<1> QED
  BY <1>2, <1>3, <1>4, <1>5 DEF HeartbeatStep

\* The web server ends when nobody waits any more.
LEMMA WebKeeps ==
  ASSUME Inv, WebStep
  PROVE  ThreadInv' /\ WaitInv' /\ AnswerInv'
<1> USE DEF Inv, flags, results, posts, threads
<1>1. CASE Serve
  BY <1>1 DEF Serve, ThreadInv, WaitInv, NoOrphanWaiter, AnswerInv
<1>2. CASE Close
  BY <1>2 DEF Close, ThreadInv, WaitInv, NoOrphanWaiter, AnswerInv
<1> QED
  BY <1>1, <1>2 DEF WebStep

\* The invariant holds when the service starts.
LEMMA InitInv ==
  Init => Inv
<1> SUFFICES ASSUME Init PROVE Inv
  OBVIOUS
<1>1. ThreadInv /\ WaitInv /\ AnswerInv
  BY DEF Init, ThreadInv, WaitInv, NoOrphanWaiter, AnswerInv
<1> QED
  BY <1>1, InitTyped DEF Inv

\* Every step keeps the invariant: one case for each process.
LEMMA NextInv ==
  Inv /\ [Next]_vars => Inv'
<1> SUFFICES ASSUME Inv, [Next]_vars PROVE Inv'
  OBVIOUS
<1>1. Typed'
  BY NextTyped DEF Inv
<1>2. ThreadInv' /\ WaitInv' /\ AnswerInv'
  BY PostKeeps, AbortKeeps, ResultsKeep, HeartbeatKeeps, WebKeeps, Bystanders,
     SharedKeeps DEF Inv, Next, AbortStep
<1> QED
  BY <1>1, <1>2 DEF Inv

\* The invariant holds throughout every behaviour.
LEMMA Invariance ==
  Spec => []Inv
<1>1. Init => Inv
  BY InitInv
<1>2. Inv /\ [Next]_vars => Inv'
  BY NextInv
<1> QED
  BY <1>1, <1>2, PTL DEF Spec

-----------------------------------------------------------------------------
(* The theorems.                                                           *)

\* The variables keep to their types, and the pipe to its room.
THEOREM TypeCorrect ==
  Spec => []TypeOK
BY Invariance, PTL DEF Inv, Typed

\* Once all jobs are marked done, whoever waits for a result waits for one
\* that is done, or that the thread which marked them is about to complete.
THEOREM NoOrphans ==
  Spec => []NoOrphanWaiter
BY Invariance, PTL DEF Inv, WaitInv

\* An answer that a client may have seen is replaced by nobody but a DELETE
\* that was under way when the answer came: neither by the two threads that
\* shut down nor by a response that comes late.
THEOREM AnswersStand ==
  Spec => AnswerStands
<1> DEFINE Stands(j) == \/ result'[j] = "answer"
                        \/ apc = "mark" /\ aid = j /\ result'[j] = "aborted"
<1>1. ASSUME Inv, [Next]_vars, NEW j \in Jobs, result[j] = "answer"
      PROVE  Stands(j)
  <2> USE <1>1 DEF Inv, Typed
  <2>1. UNCHANGED result \/ Next
    BY DEF vars, results
  <2>2. CASE AbortMark
    BY <2>2 DEF AbortMark, SetResult, TypeOK
  <2>3. CASE SetAnswer
    BY <2>3 DEF SetAnswer, SetResult, TypeOK, AnswerInv
  <2>4. CASE CompleteOne \/ HeartbeatCompletes
    BY <2>4 DEF CompleteOne, HeartbeatCompletes, SetResult, TypeOK, AnswerInv
  <2>5. CASE (\E i \in Jobs : Post(i) \/ PostStep(i)) \/ WebStep
    BY <2>5 DEF Post, PostStep, Register, WaitForJob, Wake, WebStep, Serve,
       Close, results
  <2>6. CASE (ResultsStep /\ ~SetAnswer /\ ~CompleteOne) \/ ResultsThreadFails
    BY <2>6 DEF ResultsStep, GetMessage, GetTimesOut, MarkAll, EndResults,
       ResultsThreadFails, results
  <2>7. CASE HeartbeatStep /\ ~HeartbeatCompletes
    BY <2>7 DEF HeartbeatStep, HeartbeatWakes, HeartbeatMarks, EndHeartbeat,
       results
  <2>8. CASE UNCHANGED Shared
    BY <2>8 DEF Shared, results
  <2> QED
    BY <2>1, <2>2, <2>3, <2>4, <2>5, <2>6, <2>7, <2>8, Bystanders
    DEF Next, AbortStep
<1>2. Inv /\ [Next]_vars =>
        [\A j \in Jobs : result[j] = "answer" => Stands(j)]_vars
  BY <1>1
<1> QED
  BY <1>2, Invariance, PTL DEF Spec, AnswerStands
=============================================================================
