-------------------------- MODULE JobServerProofs --------------------------
(***************************************************************************)
(* Theorems about JobServer for any number of jobs, handlers, processes,   *)
(* aborts and crashes. The argument is laid out in the README. First the   *)
(* inductive invariant; then, with the invariants of JobServerInvariants   *)
(* about who completes the result of a job: an aborted result stays        *)
(* aborted, whatever is aborted; every entry of the abort list has an      *)
(* owner, when running jobs are not aborted; to a client the server is     *)
(* JobLifecycle, when queued jobs are not.                                 *)
(***************************************************************************)
EXTENDS JobServerInvariants, TLAPS

-----------------------------------------------------------------------------
(* Types.                                                                  *)

\* The variables have their types at the start.
LEMMA InitTyped == Init => Typed
  BY ConstantsAssumption, SMTT(60)
  DEF Init, Typed, TypeOK, HoldsJob, Pids, Marks, Flags, AllCrashPoints,
      Answers, Message, HandlerPCs, Request, NoRequest, NoMessage

\* Every step keeps the types.
LEMMA TypedStep == Typed /\ [Next]_vars => Typed'
<1> SUFFICES ASSUME TypeOK, HoldsJob, [Next]_vars PROVE TypeOK' /\ HoldsJob'
  BY DEF Typed
<1> USE ConstantsAssumption
<1>1. ASSUME NEW j \in Jobs, Register(j)
     PROVE  TypeOK' /\ HoldsJob'
  BY <1>1, SMTT(30) DEF TypeOK, HoldsJob, Register, resultVars, queueVars,
     solverVars, procVars, handlerVars, receiverVars, watchVars
<1>2. ASSUME NEW j \in Jobs, RejectUnknownCache(j)
     PROVE  TypeOK' /\ HoldsJob'
  BY <1>2, SMTT(30) DEF TypeOK, HoldsJob, RejectUnknownCache, resultVars,
     queueVars, solverVars, procVars, handlerVars, receiverVars, watchVars
<1>3. ASSUME NEW j \in Jobs, RejectAfterRegister(j)
     PROVE  TypeOK' /\ HoldsJob'
  BY <1>3, SMTT(30) DEF TypeOK, HoldsJob, RejectAfterRegister, resultVars,
     queueVars, solverVars, procVars, handlerVars, receiverVars, watchVars
<1>4. ASSUME NEW j \in Jobs, Enqueue(j)
     PROVE  TypeOK' /\ HoldsJob'
  BY <1>4, SMTT(30) DEF TypeOK, HoldsJob, Enqueue, resultVars, queueVars,
     solverVars, procVars, handlerVars, receiverVars, watchVars
<1>5. ASSUME NEW j \in Jobs, Unregister(j)
     PROVE  TypeOK' /\ HoldsJob'
  BY <1>5, SMTT(30) DEF TypeOK, HoldsJob, Unregister, resultVars, queueVars,
     solverVars, procVars, handlerVars, receiverVars, watchVars
<1>6. ASSUME NEW h \in Handlers, NEW j \in Jobs, NEW f \in AbortFlags,
     AbortById(h, j, f)
     PROVE  TypeOK' /\ HoldsJob'
  BY <1>6, SMTT(30) DEF TypeOK, HoldsJob, AbortById, resultVars, queueVars,
     solverVars, procVars, handlerVars, receiverVars, watchVars, HandlerPCs,
     Request
<1>7. ASSUME NEW h \in Handlers, NEW f \in AbortFlags, AbortAll(h, f)
     PROVE  TypeOK' /\ HoldsJob'
  BY <1>7, SMTT(30) DEF TypeOK, HoldsJob, AbortAll, resultVars, queueVars,
     solverVars, procVars, handlerVars, receiverVars, watchVars, HandlerPCs,
     Request
<1>8. ASSUME NEW h \in Handlers, AbortNext(h)
     PROVE  TypeOK' /\ HoldsJob'
  <2>1. PICK j \in htodo[h] :
          /\ htodo' = [htodo EXCEPT ![h] = @ \ {j}]
          /\ hpc' = [hpc EXCEPT ![h] = IF j \in done THEN "next" ELSE "value"]
          /\ hid' = [hid EXCEPT ![h] = IF j \in done THEN None ELSE j]
    BY <1>8 DEF AbortNext
  <2>2. j \in Jobs /\ htodo[h] \ {j} \in SUBSET Jobs
    BY <2>1 DEF TypeOK
  <2>3. htodo' \in [Handlers -> SUBSET Jobs]
    BY <2>1, <2>2 DEF TypeOK
  <2>4. hpc' \in [Handlers -> HandlerPCs] /\ hid' \in [Handlers -> Jobs \cup {None}]
    BY <2>1, <2>2, SMTT(30) DEF TypeOK, HandlerPCs
  <2> QED
    BY <1>8, <2>1, <2>2, <2>3, <2>4, SMTT(30) DEF TypeOK, HoldsJob, AbortNext,
       resultVars, queueVars, solverVars, procVars, handlerVars, receiverVars,
       watchVars
<1>9. ASSUME NEW h \in Handlers, AbortWalked(h)
     PROVE  TypeOK' /\ HoldsJob'
  BY <1>9, SMTT(30) DEF TypeOK, HoldsJob, AbortWalked, resultVars, queueVars,
     solverVars, procVars, handlerVars, receiverVars, watchVars, HandlerPCs
<1>10. ASSUME NEW h \in Handlers, AbortValue(h)
     PROVE  TypeOK' /\ HoldsJob'
  BY <1>10, SMTT(30) DEF TypeOK, HoldsJob, AbortValue, resultVars, queueVars,
     solverVars, procVars, handlerVars, receiverVars, watchVars, HandlerPCs,
     ListAfterRead, Marks
<1>11. ASSUME NEW h \in Handlers, AbortMark(h)
     PROVE  TypeOK' /\ HoldsJob'
  BY <1>11, SMTT(30) DEF TypeOK, HoldsJob, AbortMark, resultVars, queueVars,
     solverVars, procVars, handlerVars, receiverVars, watchVars, HandlerPCs,
     Answers
<1>12. ASSUME NEW h \in Handlers, AbortStop(h)
     PROVE  TypeOK' /\ HoldsJob'
  BY <1>12, SMTT(30) DEF TypeOK, HoldsJob, AbortStop, resultVars, queueVars,
     solverVars, procVars, handlerVars, receiverVars, watchVars, HandlerPCs
<1>13. ASSUME NEW h \in Handlers, AbortDelete(h)
     PROVE  TypeOK' /\ HoldsJob'
  BY <1>13, SMTT(30) DEF TypeOK, HoldsJob, AbortDelete, resultVars, queueVars,
     solverVars, procVars, handlerVars, receiverVars, watchVars, HandlerPCs,
     ListWithout, Marks
<1>14. ASSUME NEW h \in Handlers, AbortReturn(h)
     PROVE  TypeOK' /\ HoldsJob'
  BY <1>14, SMTT(30) DEF TypeOK, HoldsJob, AbortReturn, resultVars, queueVars,
     solverVars, procVars, handlerVars, receiverVars, watchVars, HandlerPCs,
     NoRequest, Request, Flags, Marks
<1>15. ASSUME ResultPick
     PROVE  TypeOK' /\ HoldsJob'
  <2>1. Head(resq) \in Message /\ resq' \in Seq(Message)
    BY <1>15, SMTT(30) DEF TypeOK, ResultPick
  <2>2. rpc' = "set" => rmsg'.id \in Jobs
    BY <1>15, SMTT(30) DEF TypeOK, ResultPick, Waiting
  <2> QED
    BY <1>15, <2>1, <2>2, SMTT(30) DEF TypeOK, HoldsJob, ResultPick,
       resultVars, queueVars, solverVars, procVars, handlerVars, receiverVars,
       watchVars
<1>16. ASSUME ResultSet
     PROVE  TypeOK' /\ HoldsJob'
  BY <1>16, SMTT(30) DEF TypeOK, HoldsJob, ResultSet, resultVars, queueVars,
     solverVars, procVars, handlerVars, receiverVars, watchVars, Message
<1>17. ASSUME ResultWarm
     PROVE  TypeOK' /\ HoldsJob'
  BY <1>17, SMTT(30) DEF TypeOK, HoldsJob, ResultWarm, resultVars, queueVars,
     solverVars, procVars, handlerVars, receiverVars, watchVars
<1>18. ASSUME ResultDelete
     PROVE  TypeOK' /\ HoldsJob'
  BY <1>18, SMTT(30) DEF TypeOK, HoldsJob, ResultDelete, resultVars,
     queueVars, solverVars, procVars, handlerVars, receiverVars, watchVars,
     ListWithout, Marks, NoMessage, Message, Answers
<1>19. ASSUME NEW p \in Pids, StartRead(p)
     PROVE  TypeOK' /\ HoldsJob'
  BY <1>19, SMTT(30) DEF TypeOK, HoldsJob, StartRead, resultVars, queueVars,
     solverVars, procVars, handlerVars, receiverVars, watchVars,
     AllCrashPoints
<1>20. ASSUME NEW p \in Pids, GetJob(p)
     PROVE  TypeOK' /\ HoldsJob'
  BY <1>20, SMTT(30) DEF TypeOK, HoldsJob, GetJob, resultVars, queueVars,
     solverVars, procVars, handlerVars, receiverVars, watchVars,
     AllCrashPoints
<1>21. ASSUME NEW p \in Pids, GetTimeout(p)
     PROVE  TypeOK' /\ HoldsJob'
  BY <1>21, SMTT(30) DEF TypeOK, HoldsJob, GetTimeout, resultVars, queueVars,
     solverVars, procVars, handlerVars, receiverVars, watchVars,
     AllCrashPoints
<1>22. ASSUME NEW p \in Pids, Claim(p)
     PROVE  TypeOK' /\ HoldsJob'
  BY <1>22, SMTT(30) DEF TypeOK, HoldsJob, Claim, resultVars, queueVars,
     solverVars, procVars, handlerVars, receiverVars, watchVars,
     AllCrashPoints
<1>23. ASSUME NEW p \in Pids, Skip(p)
     PROVE  TypeOK' /\ HoldsJob'
  BY <1>23, SMTT(30) DEF TypeOK, HoldsJob, Skip, resultVars, queueVars,
     solverVars, procVars, handlerVars, receiverVars, watchVars,
     AllCrashPoints, Message, Answers
<1>24. ASSUME NEW p \in Pids, FinishSolve(p)
     PROVE  TypeOK' /\ HoldsJob'
  BY <1>24, SMTT(30) DEF TypeOK, HoldsJob, FinishSolve, resultVars, queueVars,
     solverVars, procVars, handlerVars, receiverVars, watchVars,
     AllCrashPoints, Marks
<1>25. ASSUME NEW p \in Pids, Respond(p)
     PROVE  TypeOK' /\ HoldsJob'
  BY <1>25, SMTT(30) DEF TypeOK, HoldsJob, Respond, resultVars, queueVars,
     solverVars, procVars, handlerVars, receiverVars, watchVars,
     AllCrashPoints, Message, Answers
<1>26. ASSUME NEW p \in Pids, Crash(p)
     PROVE  TypeOK' /\ HoldsJob'
  BY <1>26, SMTT(30) DEF TypeOK, HoldsJob, Crash, resultVars, queueVars,
     solverVars, procVars, handlerVars, receiverVars, watchVars
<1>27. ASSUME WatchAbort
     PROVE  TypeOK' /\ HoldsJob'
  <2>1. Head(abortq) \in Pids /\ abortq' \in Seq(Pids)
    BY <1>27, SMTT(30) DEF TypeOK, WatchAbort
  <2>2. nextpid \in Pids /\ nextpid' \in 1..(MaxPid + 1)
    BY <1>27, SMTT(30) DEF TypeOK, WatchAbort, Replace, Pids
  <2>3. procs' \subseteq Pids
    <3>1. procs' = (procs \ {Head(abortq)}) \cup {nextpid}
      BY <1>27 DEF WatchAbort, Replace
    <3> QED
      BY <2>2, <3>1 DEF TypeOK
  <2>6. slot' \in [Pids -> 0..NumSlots]
    <3>1. slot' = [slot EXCEPT ![nextpid] = slot[Head(abortq)]]
      BY <1>27 DEF WatchAbort, Replace
    <3>2. slot[Head(abortq)] \in 0..NumSlots
      BY <2>1 DEF TypeOK
    <3> QED
      BY <2>2, <3>1, <3>2 DEF TypeOK
  <2>4. pc' \in [Pids -> AllCrashPoints \cup {"unborn", "exited", "dead"}]
    <3>1. pc' = [pc EXCEPT ![Head(abortq)] = "dead", ![nextpid] = "idle"]
      BY <1>27 DEF WatchAbort, KillAndStart
    <3>2. "idle" \in AllCrashPoints
      BY DEF AllCrashPoints
    <3>3. pc \in [Pids -> AllCrashPoints \cup {"unborn", "exited", "dead"}]
      BY DEF TypeOK
    <3> QED
      BY <2>1, <2>2, <3>1, <3>2, <3>3
  <2>5. \A p \in Pids : pc'[p] \in {"got", "solving", "marked"} => pc'[p] = pc[p]
    BY <1>27, <2>1, <2>2, SMTT(30) DEF TypeOK, WatchAbort, KillAndStart
  <2> QED
    BY <1>27, <2>1, <2>2, <2>3, <2>4, <2>5, <2>6, SMTT(30) DEF TypeOK, HoldsJob,
       WatchAbort, resultVars, queueVars, solverVars, procVars, handlerVars,
       receiverVars, watchVars
<1>28. ASSUME WatchKeyError
     PROVE  TypeOK' /\ HoldsJob'
  BY <1>28, SMTT(30) DEF TypeOK, HoldsJob, WatchKeyError, resultVars,
     queueVars, solverVars, procVars, handlerVars, receiverVars, watchVars
<1>29. ASSUME WatchScan
     PROVE  TypeOK' /\ HoldsJob'
  BY <1>29, SMTT(30) DEF TypeOK, HoldsJob, WatchScan, resultVars, queueVars,
     solverVars, procVars, handlerVars, receiverVars, watchVars
<1>30. ASSUME WatchFind
     PROVE  TypeOK' /\ HoldsJob'
  BY <1>30, SMTT(30) DEF TypeOK, HoldsJob, WatchFind, resultVars, queueVars,
     solverVars, procVars, handlerVars, receiverVars, watchVars, JobsOf
<1>31. ASSUME WatchReport
     PROVE  TypeOK' /\ HoldsJob'
  BY <1>31, SMTT(30) DEF TypeOK, HoldsJob, WatchReport, resultVars, queueVars,
     solverVars, procVars, handlerVars, receiverVars, watchVars, Message,
     Answers, ListWithout, Marks
<1>32. ASSUME WatchRestart
     PROVE  TypeOK' /\ HoldsJob'
  BY <1>32, SMTT(30) DEF TypeOK, HoldsJob, WatchRestart, resultVars,
     queueVars, solverVars, procVars, handlerVars, receiverVars, watchVars,
     Replace, AllCrashPoints, Pids
<1>33. CASE UNCHANGED vars
  BY <1>33, SMTT(30) DEF TypeOK, HoldsJob, vars, resultVars, queueVars,
     solverVars, procVars, handlerVars, receiverVars, watchVars
<1> QED
  BY <1>1, <1>2, <1>3, <1>4, <1>5, <1>6, <1>7, <1>8, <1>9, <1>10, <1>11,
     <1>12, <1>13, <1>14, <1>15, <1>16, <1>17, <1>18, <1>19, <1>20, <1>21,
     <1>22, <1>23, <1>24, <1>25, <1>26, <1>27, <1>28, <1>29, <1>30, <1>31,
     <1>32, <1>33
  DEF Next, ClientStep, AbortStep, ResultStep, SolverStep, WatchStep

-----------------------------------------------------------------------------
(* One process per slot.                                                  *)

\* The processes are alone in their slots at the start.
LEMMA InitSlot == Init => SlotInv
  BY ConstantsAssumption, SMTT(30) DEF Init, SlotInv, Stopped, Pids

\* Every step keeps SlotInv.
LEMMA SlotStep == Typed /\ SlotInv /\ [Next]_vars => SlotInv'
<1> SUFFICES ASSUME Typed, SlotInv, [Next]_vars PROVE SlotInv'
  OBVIOUS
<1> DEFINE slotVars == <<procs, slot, nextpid, pc, wpc, wtodo, wgone, wpid>>
<1>1. CASE UNCHANGED slotVars
  BY <1>1 DEF SlotInv, Stopped
<1>2. ClientStep \/ ResultStep \/ UNCHANGED vars => UNCHANGED slotVars
  BY DEF ClientStep, Register, RejectUnknownCache, RejectAfterRegister,
     Enqueue, Unregister, AbortById, AbortAll, ResultStep, ResultPick,
     ResultSet, ResultWarm, ResultDelete, vars, solverVars, procVars, watchVars
<1>3. ASSUME NEW h \in Handlers, AbortStep(h) PROVE UNCHANGED slotVars
  BY <1>3 DEF AbortStep, AbortNext, AbortWalked, AbortValue, AbortMark,
     AbortStop, AbortDelete, AbortReturn, solverVars, procVars, watchVars
<1>4. ASSUME NEW p \in Pids, SolverStep(p) PROVE SlotInv'
  <2>1. /\ pc[p] \notin {"unborn", "exited", "dead"}
        /\ \E s \in AllCrashPoints : pc' = [pc EXCEPT ![p] = s]
        /\ UNCHANGED <<procs, slot, nextpid, wpc, wtodo, wgone, wpid>>
    BY <1>4 DEF SolverStep, StartRead, GetJob, GetTimeout, Claim, Skip,
       FinishSolve, Respond, AllCrashPoints, procVars, watchVars
  <2> QED
    BY <2>1, SMTT(30) DEF Typed, TypeOK, SlotInv, Stopped, AllCrashPoints
<1>5. ASSUME NEW p \in Pids, Crash(p) PROVE SlotInv'
  <2>1. pc[p] \in AllCrashPoints /\ UNCHANGED <<procs, slot, nextpid, wpc, wtodo, wgone, wpid>>
    BY <1>5, ConstantsAssumption DEF Crash, procVars, watchVars
  <2> QED
    BY <1>5, <2>1, SMTT(30) DEF Crash, Typed, TypeOK, SlotInv, Stopped,
       AllCrashPoints
<1>6. CASE WatchAbort
  <2> DEFINE old == Head(abortq)
  <2>1. /\ old \in procs
        /\ procs' = (procs \ {old}) \cup {nextpid}
        /\ slot' = [slot EXCEPT ![nextpid] = slot[old]]
        /\ nextpid' = nextpid + 1
        /\ pc' = [pc EXCEPT ![old] = "dead", ![nextpid] = "idle"]
        /\ wpc' = "scan" /\ UNCHANGED <<wtodo, wgone>>
        /\ nextpid <= MaxPid
        /\ wpc = "get"
    BY <1>6 DEF WatchAbort, KillAndStart, Replace
  <2> HIDE DEF old
  <2>8. procs \subseteq Pids /\ old \in Pids /\ wtodo = {} /\ wgone = {}
    BY <2>1 DEF Typed, TypeOK, SlotInv
  <2>9. nextpid \in Pids
    BY <2>1, ConstantsAssumption DEF Typed, TypeOK, Pids
  <2>2. nextpid \notin procs /\ nextpid # old
    BY <2>1, <2>8, <2>9, SMTT(30) DEF Typed, TypeOK, SlotInv, Pids
  <2>3. pc'[nextpid] = "idle" /\ pc'[old] = "dead"
        /\ \A p \in Pids \ {old, nextpid} : pc'[p] = pc[p]
    BY <2>1, <2>8, <2>9, <2>2, SMTT(30) DEF Typed, TypeOK
  <2>4. slot'[nextpid] = slot[old] /\ \A p \in Pids \ {nextpid} : slot'[p] = slot[p]
    BY <2>1, <2>8, <2>9, SMTT(30) DEF Typed, TypeOK
  <2>5. \A p \in Pids : p >= nextpid' => p \notin procs' /\ pc'[p] = "unborn"
    BY <2>1, <2>8, <2>9, <2>2, <2>3, SMTT(30) DEF Typed, TypeOK, SlotInv, Pids
  <2>6. \A p \in Pids : pc'[p] # "unborn" /\ pc'[p] \notin {"exited", "dead"}
                        => p \in procs'
    BY <2>1, <2>8, <2>9, <2>2, <2>3, SMTT(30) DEF SlotInv, Stopped
  <2>7. \A p, q \in procs' : slot'[p] = slot'[q] => p = q
    <3>1. \A p \in procs : slot'[p] = slot[p]
      BY <2>2, <2>4, <2>8, <2>9
    <3> QED
      BY <2>1, <2>2, <2>4, <3>1, SMTT(30) DEF SlotInv
  <2>10. wtodo' = {} /\ wgone' = {} /\ wpc' = "scan"
    BY <2>1, <2>8
  <2> QED
    BY <2>5, <2>6, <2>7, <2>10 DEF SlotInv, Stopped
<1>7. CASE WatchKeyError \/ WatchScan
  BY <1>7, SMTT(30) DEF WatchKeyError, WatchScan, Typed, TypeOK, SlotInv,
     Stopped, solverVars, procVars
<1>8. CASE WatchFind \/ WatchReport
  BY <1>8, SMTT(30) DEF WatchFind, WatchReport, Typed, TypeOK, SlotInv,
     Stopped, solverVars, procVars
<1>9. CASE WatchRestart
  BY <1>9, SMTT(30) DEF WatchRestart, Replace, Typed, TypeOK, SlotInv,
     Stopped, Pids
<1> QED
  BY <1>1, <1>2, <1>3, <1>4, <1>5, <1>6, <1>7, <1>8, <1>9
  DEF Next, WatchStep

-----------------------------------------------------------------------------
(* Lemmas about the queues.                                               *)

\* A sequence with one more element.
LEMMA AppendElements ==
  ASSUME NEW S, NEW s \in Seq(S), NEW x \in S
  PROVE  /\ Len(Append(s, x)) = Len(s) + 1
         /\ \A i \in 1..Len(s) : Append(s, x)[i] = s[i]
         /\ Append(s, x)[Len(s) + 1] = x
  OBVIOUS

\* A sequence without its first element.
LEMMA TailElements ==
  ASSUME NEW S, NEW s \in Seq(S), s # <<>>
  PROVE  /\ Len(s) \in Nat \ {0}
         /\ Head(s) = s[1] /\ Head(s) \in S
         /\ Tail(s) \in Seq(S)
         /\ Len(Tail(s)) = Len(s) - 1
         /\ \A i \in 1..Len(Tail(s)) : Tail(s)[i] = s[i + 1] /\ i + 1 \in 1..Len(s)
  OBVIOUS

-----------------------------------------------------------------------------
(* results_lock.                                                          *)

\* Nobody holds the lock of the abort list at the start.
LEMMA InitLock == Init => LockInv
  BY DEF Init, LockInv

\* Every step keeps LockInv.
LEMMA LockStep == Typed /\ LockInv /\ [Next]_vars => LockInv'
<1> SUFFICES ASSUME Typed, LockInv, [Next]_vars PROVE LockInv'
  OBVIOUS
<1> USE ConstantsAssumption
<1>1. CASE UNCHANGED <<hpc, hreq, lock>>
  BY <1>1 DEF LockInv
<1>2. ASSUME NEW j \in Jobs,
             \/ Register(j) \/ RejectUnknownCache(j) \/ RejectAfterRegister(j)
             \/ Enqueue(j) \/ Unregister(j)
      PROVE  UNCHANGED <<hpc, hreq, lock>>
  BY <1>2 DEF Register, RejectUnknownCache, RejectAfterRegister, Enqueue,
     Unregister, handlerVars
<1>3. ASSUME NEW h \in Handlers, NEW f \in AbortFlags,
             AbortAll(h, f) \/ \E j \in Jobs : AbortById(h, j, f)
      PROVE  LockInv'
  <2>1. lock = None /\ lock' = h /\ \A g \in Handlers \ {h} : hpc'[g] = hpc[g] /\ hreq'[g] = hreq[g]
    BY <1>3, SMTT(30) DEF AbortAll, AbortById, Typed, TypeOK
  <2> QED
    BY <2>1, SMTT(30) DEF LockInv
<1>4. ASSUME NEW h \in Handlers, AbortStep(h) PROVE LockInv'
  <2>1. \A g \in Handlers \ {h} : hpc'[g] = hpc[g] /\ hreq'[g] = hreq[g]
    BY <1>4, SMTT(30) DEF AbortStep, AbortNext, AbortWalked, AbortValue,
       AbortMark, AbortStop, AbortDelete, AbortReturn, Typed, TypeOK
  <2>2. CASE AbortNext(h) \/ AbortValue(h) \/ AbortMark(h)
    <3>1. hpc[h] \in {"next", "value", "mark"} /\ lock' = lock
      BY <2>2 DEF AbortNext, AbortValue, AbortMark
    <3> QED
      BY <2>1, <3>1, SMTT(30) DEF LockInv
  <2>3. CASE AbortStop(h) \/ AbortDelete(h)
    <3>1. hpc[h] \in {"stop", "delete"} /\ lock' = lock /\ hreq' = hreq
          /\ hpc'[h] \in {"stop", "delete"}
      BY <2>3, SMTT(30) DEF AbortStop, AbortDelete, Typed, TypeOK
    <3> QED
      BY <2>1, <3>1, SMTT(30) DEF LockInv
  <2>4. CASE AbortWalked(h)
    <3>1. hpc[h] = "next" /\ hpc'[h] = "stop" /\ hreq' = hreq
          /\ lock' = IF hreq[h].all THEN None ELSE lock
      BY <2>4, SMTT(30) DEF AbortWalked, Typed, TypeOK
    <3> QED
      BY <2>1, <3>1, SMTT(30) DEF LockInv
  <2>5. CASE AbortReturn(h)
    <3>1. hpc[h] = "stop" /\ hpc'[h] = "ready"
          /\ lock' = IF hreq[h].all THEN lock ELSE None
      BY <2>5, SMTT(30) DEF AbortReturn, Typed, TypeOK
    <3> QED
      BY <2>1, <3>1, SMTT(30) DEF LockInv
  <2> QED
    BY <1>4, <2>2, <2>3, <2>4, <2>5 DEF AbortStep
<1>5. ResultStep \/ WatchStep \/ UNCHANGED vars => UNCHANGED <<hpc, hreq, lock>>
  BY DEF ResultStep, ResultPick, ResultSet, ResultWarm, ResultDelete,
     WatchStep, WatchAbort, WatchKeyError, WatchScan, WatchFind, WatchReport,
     WatchRestart, vars, handlerVars
<1>6. ASSUME NEW p \in Pids, SolverStep(p) \/ Crash(p)
      PROVE  UNCHANGED <<hpc, hreq, lock>>
  BY <1>6 DEF SolverStep, StartRead, GetJob, GetTimeout, Claim, Skip,
     FinishSolve, Respond, Crash, handlerVars
<1> QED
  BY <1>1, <1>2, <1>3, <1>4, <1>5, <1>6 DEF Next, ClientStep

-----------------------------------------------------------------------------
(* job_queue.                                                             *)

\* No job joins the queue and no solver takes one off it in this step.
QueueQuiet ==
  /\ jobq' = jobq
  /\ \A p \in Pids : pc'[p] = "got" => pc[p] = "got" /\ job'[p] = job[p]
  /\ \A j \in Jobs : post'[j] = "sent" <=> post[j] = "sent"

\* Only a client puts a job on the queue, and only a solver takes one off.
LEMMA QueueSteps ==
  ASSUME Typed, [Next]_vars
  PROVE  \/ \E j \in Jobs : Enqueue(j)
         \/ \E p \in Pids : GetJob(p)
         \/ QueueQuiet
<1>1. CASE UNCHANGED <<jobq, pc, job, post>>
  BY <1>1 DEF QueueQuiet
<1>2. ASSUME NEW j \in Jobs,
             Register(j) \/ RejectUnknownCache(j) \/ RejectAfterRegister(j)
      PROVE  QueueQuiet
  BY <1>2, SMTT(30) DEF Register, RejectUnknownCache, RejectAfterRegister,
     QueueQuiet, Typed, TypeOK, queueVars, solverVars
<1>3. ASSUME NEW j \in Jobs, Unregister(j) PROVE UNCHANGED <<jobq, pc, job, post>>
  BY <1>3 DEF Unregister, queueVars, solverVars
<1>4. ASSUME NEW h \in Handlers, NEW f \in AbortFlags,
             AbortAll(h, f) \/ \E j \in Jobs : AbortById(h, j, f)
      PROVE  UNCHANGED <<jobq, pc, job, post>>
  BY <1>4 DEF AbortAll, AbortById, queueVars, solverVars
<1>5. ASSUME NEW h \in Handlers, AbortStep(h)
      PROVE  UNCHANGED <<jobq, pc, job, post>>
  BY <1>5 DEF AbortStep, AbortNext, AbortWalked, AbortValue, AbortMark,
     AbortStop, AbortDelete, AbortReturn, queueVars, solverVars
<1>6. ResultStep \/ UNCHANGED vars => UNCHANGED <<jobq, pc, job, post>>
  BY DEF ResultStep, ResultPick, ResultSet, ResultWarm, ResultDelete, vars,
     queueVars, solverVars
<1>7. ASSUME NEW p \in Pids,
             \/ StartRead(p) \/ GetTimeout(p) \/ Claim(p) \/ Skip(p)
             \/ FinishSolve(p) \/ Respond(p) \/ Crash(p)
      PROVE  QueueQuiet
  <2>1. /\ jobq' = jobq /\ post' = post
        /\ job' = job \/ job' = [job EXCEPT ![p] = None]
        /\ \E s \in {"reading", "idle", "solving", "marked", "exited", "dead"} :
             pc' = [pc EXCEPT ![p] = s]
    BY <1>7 DEF StartRead, GetTimeout, Claim, Skip, FinishSolve, Respond,
       Crash, queueVars
  <2> QED
    BY <2>1, SMTT(30) DEF QueueQuiet, Typed, TypeOK
<1>8. WatchAbort => QueueQuiet
  <2> SUFFICES ASSUME WatchAbort PROVE QueueQuiet
    OBVIOUS
  <2>1. /\ pc' = [pc EXCEPT ![Head(abortq)] = "dead", ![nextpid] = "idle"]
        /\ UNCHANGED <<jobq, job, post>>
    BY DEF WatchAbort, KillAndStart
  <2>2. \A q \in Pids : pc'[q] = pc[q] \/ pc'[q] \in {"dead", "idle"}
    BY <2>1, SMTT(30) DEF Typed, TypeOK
  <2> QED
    BY <2>1, <2>2 DEF QueueQuiet
<1>10. WatchRestart => QueueQuiet
  <2> SUFFICES ASSUME WatchRestart PROVE QueueQuiet
    OBVIOUS
  <2>1. pc' = [pc EXCEPT ![nextpid] = "idle"] /\ UNCHANGED <<jobq, job, post>>
    BY DEF WatchRestart, queueVars
  <2>2. \A q \in Pids : pc'[q] = pc[q] \/ pc'[q] = "idle"
    BY <2>1, SMTT(30) DEF Typed, TypeOK
  <2> QED
    BY <2>1, <2>2 DEF QueueQuiet
<1>11. WatchKeyError \/ WatchScan \/ WatchFind \/ WatchReport
       => UNCHANGED <<jobq, pc, job, post>>
  BY DEF WatchKeyError, WatchScan, WatchFind, WatchReport, queueVars, solverVars
<1> QED
  BY <1>1, <1>2, <1>3, <1>4, <1>5, <1>6, <1>7, <1>8, <1>10, <1>11
  DEF Next, ClientStep, SolverStep, WatchStep

\* The queue is empty at the start.
LEMMA InitQueue == Init => QueueInv
  BY SMTT(30) DEF Init, QueueInv, OnQueue, Pids

\* Every step keeps QueueInv.
LEMMA QueueStep == Typed /\ QueueInv /\ [Next]_vars => QueueInv'
<1> SUFFICES ASSUME Typed, QueueInv, [Next]_vars PROVE QueueInv'
  OBVIOUS
<1>1. CASE QueueQuiet
  <2>1. \A j \in Jobs : OnQueue(j)' => OnQueue(j)
    BY <1>1, SMTT(30) DEF QueueQuiet, OnQueue
  <2> QED
    BY <1>1, <2>1, SMTT(30) DEF QueueQuiet, QueueInv
<1>2. ASSUME NEW j \in Jobs, Enqueue(j) PROVE QueueInv'
  <2>1. /\ jobq \in Seq(Jobs) /\ jobq' = Append(jobq, j)
        /\ post[j] # "sent" /\ UNCHANGED <<pc, job>>
        /\ \A k \in Jobs : post'[k] = IF k = j THEN "sent" ELSE post[k]
    BY <1>2, SMTT(30) DEF Enqueue, Typed, TypeOK, solverVars
  <2>2. /\ \A i \in 1..Len(jobq) : jobq[i] # j
        /\ \A p \in Pids : pc[p] = "got" => job[p] # j
    BY <2>1 DEF QueueInv, OnQueue
  <2>3. /\ Len(jobq') = Len(jobq) + 1 /\ Len(jobq) \in Nat
        /\ \A i \in 1..Len(jobq) : jobq'[i] = jobq[i]
        /\ jobq'[Len(jobq) + 1] = j
    BY <2>1, AppendElements
  <2>4. \A k \in Jobs : OnQueue(k)' => k = j \/ OnQueue(k)
    BY <2>1, <2>3, SMTT(30) DEF OnQueue
  <2>5. \A k \in Jobs : OnQueue(k)' => post'[k] = "sent"
    BY <2>1, <2>4 DEF QueueInv
  <2> QED
    BY <2>1, <2>2, <2>3, <2>5, SMTT(30) DEF QueueInv
<1>3. ASSUME NEW p \in Pids, GetJob(p) PROVE QueueInv'
  <2>1. /\ jobq \in Seq(Jobs) /\ jobq # <<>> /\ jobq' = Tail(jobq)
        /\ pc[p] = "reading" /\ pc'[p] = "got" /\ job'[p] = Head(jobq)
        /\ \A q \in Pids \ {p} : pc'[q] = pc[q] /\ job'[q] = job[q]
        /\ post' = post
    BY <1>3, SMTT(30) DEF GetJob, Typed, TypeOK
  <2>2. /\ Len(jobq) \in Nat \ {0} /\ Head(jobq) = jobq[1]
        /\ Len(jobq') = Len(jobq) - 1
        /\ \A i \in 1..Len(jobq') : jobq'[i] = jobq[i + 1] /\ i + 1 \in 1..Len(jobq)
    BY <2>1, TailElements
  <2>3. 1 \in 1..Len(jobq)
    BY <2>2
  <2>4. \A k \in Jobs : OnQueue(k)' => OnQueue(k)
    BY <2>1, <2>2, <2>3, SMTT(30) DEF OnQueue
  <2> QED
    BY <2>1, <2>2, <2>3, <2>4, SMTT(30) DEF QueueInv
<1> QED
  BY <1>1, <1>2, <1>3, QueueSteps

\* A job that some solver has looked up never becomes fresh again.
LEMMA FreshShrinks ==
  ASSUME Typed, QueueInv, [Next]_vars, NEW j \in Jobs, Fresh(j)'
  PROVE  Fresh(j)
<1>1. CASE QueueQuiet
  BY <1>1, SMTT(30) DEF QueueQuiet, Fresh, OnQueue
<1>2. ASSUME NEW k \in Jobs, Enqueue(k) PROVE Fresh(j)
  <2>1. /\ jobq \in Seq(Jobs) /\ jobq' = Append(jobq, k)
        /\ post[k] # "sent" /\ UNCHANGED <<pc, job>>
        /\ \A i \in Jobs : post'[i] = IF i = k THEN "sent" ELSE post[i]
    BY <1>2, SMTT(30) DEF Enqueue, Typed, TypeOK, solverVars
  <2>2. /\ Len(jobq') = Len(jobq) + 1 /\ Len(jobq) \in Nat
        /\ \A i \in 1..Len(jobq) : jobq'[i] = jobq[i]
        /\ jobq'[Len(jobq) + 1] = k
    BY <2>1, AppendElements
  <2> QED
    BY <2>1, <2>2, SMTT(30) DEF Fresh, OnQueue
<1>3. ASSUME NEW p \in Pids, GetJob(p) PROVE Fresh(j)
  <2>1. /\ jobq \in Seq(Jobs) /\ jobq # <<>> /\ jobq' = Tail(jobq)
        /\ job'[p] = Head(jobq) /\ post' = post
        /\ \A q \in Pids \ {p} : pc'[q] = pc[q] /\ job'[q] = job[q]
    BY <1>3, SMTT(30) DEF GetJob, Typed, TypeOK
  <2>2. /\ Len(jobq) \in Nat \ {0} /\ Head(jobq) = jobq[1]
        /\ \A i \in 1..Len(jobq') : jobq'[i] = jobq[i + 1] /\ i + 1 \in 1..Len(jobq)
    BY <2>1, TailElements
  <2>3. 1 \in 1..Len(jobq)
    BY <2>2
  <2> QED
    BY <2>1, <2>2, <2>3, SMTT(30) DEF Fresh, OnQueue
<1> QED
  BY <1>1, <1>2, <1>3, QueueSteps

\* The solver that looks a job up is the only one that has it.
LEMMA LookedUp ==
  ASSUME Typed, QueueInv, NEW p \in Pids, Claim(p) \/ Skip(p),
         NEW j, j = job[p]
  PROVE  ~Fresh(j)'
<1>1. /\ post' = post /\ jobq' = jobq /\ pc[p] = "got" /\ pc'[p] # "got"
      /\ \A q \in Pids \ {p} : pc'[q] = pc[q] /\ job'[q] = job[q]
  BY SMTT(30) DEF Claim, Skip, Typed, TypeOK, queueVars
<1>2. j \in Jobs /\ OnQueue(j)
  BY <1>1 DEF Typed, HoldsJob, OnQueue
<1>3. post[j] = "sent"
  BY <1>2 DEF QueueInv
<1> QED
  BY <1>1, <1>2, <1>3, SMTT(30) DEF QueueInv, Fresh, OnQueue

-----------------------------------------------------------------------------
(* Which steps touch the abort list, the responses and the handlers.      *)

\* Which steps change the abort list.
LEMMA EntrySteps ==
  ASSUME [Next]_vars
  PROVE  \/ entry' = entry
         \/ \E h \in Handlers : AbortValue(h) \/ AbortDelete(h)
         \/ ResultDelete \/ WatchReport
         \/ \E p \in Pids : Claim(p) \/ FinishSolve(p)
  BY Zenon DEF Next, ClientStep, Register, RejectUnknownCache,
     RejectAfterRegister, Enqueue, Unregister, AbortById, AbortAll, AbortStep,
     AbortNext, AbortWalked, AbortMark, AbortStop, AbortReturn, ResultStep,
     ResultPick, ResultSet, ResultWarm, SolverStep, StartRead, GetJob,
     GetTimeout, Skip, Respond, Crash, WatchStep, WatchAbort, WatchKeyError,
     WatchScan, WatchFind, WatchRestart, vars

\* Which steps put a response on the queue of results or take one off.
LEMMA ResponseSteps ==
  ASSUME [Next]_vars
  PROVE  \/ UNCHANGED <<resq, rpc, rmsg>>
         \/ ResultStep \/ WatchReport
         \/ \E p \in Pids : Skip(p) \/ Respond(p)
  BY Zenon DEF Next, ClientStep, Register, RejectUnknownCache,
     RejectAfterRegister, Enqueue, Unregister, AbortById, AbortAll, AbortStep,
     AbortNext, AbortWalked, AbortValue, AbortMark, AbortStop, AbortDelete,
     AbortReturn, SolverStep, StartRead, GetJob, GetTimeout, Claim,
     FinishSolve, Crash, WatchStep, WatchAbort, WatchKeyError, WatchScan,
     WatchFind, WatchRestart, vars, queueVars, receiverVars

\* Which steps move the handler of a DELETE.
LEMMA HandlerSteps ==
  ASSUME [Next]_vars
  PROVE  \/ UNCHANGED <<hpc, hid, hvalue, hstop>>
         \/ \E h \in Handlers, f \in AbortFlags :
              AbortAll(h, f) \/ \E j \in Jobs : AbortById(h, j, f)
         \/ \E h \in Handlers : AbortStep(h)
  BY Zenon DEF Next, ClientStep, Register, RejectUnknownCache,
     RejectAfterRegister, Enqueue, Unregister, ResultStep, ResultPick,
     ResultSet, ResultWarm, ResultDelete, SolverStep, StartRead, GetJob,
     GetTimeout, Claim, FinishSolve, Respond, Skip, Crash, WatchStep,
     WatchAbort, WatchKeyError, WatchScan, WatchFind, WatchReport,
     WatchRestart, vars, handlerVars

\* A solver is at work on a job since it looked it up.
LEMMA TakenSteps ==
  ASSUME Typed, [Next]_vars, NEW p \in Pids,
         pc'[p] \in {"solving", "marked"}
  PROVE  (pc[p] = pc'[p] /\ job'[p] = job[p]) \/ Claim(p) \/ FinishSolve(p)
<1>1. ASSUME NEW q \in Pids,
             \/ StartRead(q) \/ GetJob(q) \/ GetTimeout(q) \/ Claim(q)
             \/ Skip(q) \/ FinishSolve(q) \/ Respond(q) \/ Crash(q)
      PROVE  (pc[p] = pc'[p] /\ job'[p] = job[p]) \/ Claim(p) \/ FinishSolve(p)
  <2>1. CASE p # q
    <3>1. /\ \E s : pc' = [pc EXCEPT ![q] = s]
          /\ \E s : job' = [job EXCEPT ![q] = s] \/ job' = job
      BY <1>1 DEF StartRead, GetJob, GetTimeout, Claim, Skip, FinishSolve,
         Respond, Crash
    <3> QED
      BY <2>1, <3>1, SMTT(30) DEF Typed, TypeOK
  <2>2. CASE p = q /\ ~(Claim(q) \/ FinishSolve(q))
    <3>1. \E s \in {"reading", "got", "idle", "exited", "dead"} :
             pc' = [pc EXCEPT ![q] = s]
      BY <1>1, <2>2 DEF StartRead, GetJob, GetTimeout, Skip, Respond, Crash
    <3> QED
      BY <2>2, <3>1, SMTT(30) DEF Typed, TypeOK
  <2> QED
    BY <2>1, <2>2
<1>2. CASE WatchAbort
  <2>1. pc' = [pc EXCEPT ![Head(abortq)] = "dead", ![nextpid] = "idle"] /\ job' = job
    BY <1>2 DEF WatchAbort, KillAndStart
  <2>2. pc'[p] = pc[p] \/ pc'[p] \in {"dead", "idle"}
    BY <2>1, SMTT(30) DEF Typed, TypeOK
  <2> QED
    BY <2>1, <2>2
<1>3. CASE WatchRestart
  <2>1. pc' = [pc EXCEPT ![nextpid] = "idle"] /\ job' = job
    BY <1>3 DEF WatchRestart
  <2>2. pc'[p] = pc[p] \/ pc'[p] = "idle"
    BY <2>1, SMTT(30) DEF Typed, TypeOK
  <2> QED
    BY <2>1, <2>2
<1>4. \/ UNCHANGED <<pc, job>> \/ WatchAbort \/ WatchRestart
      \/ \E q \in Pids : SolverStep(q) \/ Crash(q)
  BY Zenon DEF Next, ClientStep, Register, RejectUnknownCache,
     RejectAfterRegister, Enqueue, Unregister, AbortById, AbortAll, AbortStep,
     AbortNext, AbortWalked, AbortValue, AbortMark, AbortStop, AbortDelete,
     AbortReturn, ResultStep, ResultPick, ResultSet, ResultWarm, ResultDelete,
     WatchStep, WatchKeyError, WatchScan, WatchFind, WatchReport, vars,
     solverVars
<1> QED
  BY <1>1, <1>2, <1>3, <1>4 DEF SolverStep

-----------------------------------------------------------------------------
(* Nobody knows of a job that no solver has looked up.                    *)

\* All jobs are fresh at the start.
LEMMA InitFresh == Init => FreshInv
  BY ConstantsAssumption, SMTT(30)
  DEF Init, FreshInv, Fresh, Untaken, InTransit, NotStopping, Pids

\* Every step keeps FreshInv.
LEMMA FreshStep == Typed /\ QueueInv /\ FreshInv /\ [Next]_vars => FreshInv'
<1> SUFFICES ASSUME Typed, QueueInv, FreshInv, [Next]_vars,
                    NEW j \in Jobs, Fresh(j)'
             PROVE  (Untaken(j) /\ ~InTransit(j) /\ wid # j /\ NotStopping(j))'
  BY DEF FreshInv
<1> USE ConstantsAssumption
<1>1. Untaken(j) /\ ~InTransit(j) /\ wid # j /\ NotStopping(j)
  BY FreshShrinks DEF FreshInv
<1>2. \A p \in Pids : Claim(p) \/ Skip(p) => job[p] # j
  BY LookedUp
<1>3. \A p \in Pids : pc[p] \in {"solving", "marked"} => job[p] # j
  BY <1>1 DEF Untaken
<1>4. Untaken(j)'
  <2>1. \A p \in Pids : pc'[p] \in {"solving", "marked"} => job'[p] # j
    <3> SUFFICES ASSUME NEW p \in Pids, pc'[p] \in {"solving", "marked"}
                 PROVE  job'[p] # j
      OBVIOUS
    <3>1. CASE pc[p] = pc'[p] /\ job'[p] = job[p]
      BY <1>3, <3>1
    <3>2. CASE Claim(p) \/ FinishSolve(p)
      BY <1>2, <1>3, <3>2 DEF Claim, FinishSolve
    <3> QED
      BY <3>1, <3>2, TakenSteps
  <2>2. entry'[j] \in {Absent, Aborted}
    <3>1. CASE entry' = entry
      BY <1>1, <3>1 DEF Untaken
    <3>2. ASSUME NEW id, entry' = ListWithout(id) PROVE entry'[j] \in {Absent, Aborted}
      BY <1>1, <3>2 DEF Untaken, ListWithout
    <3>3. ASSUME NEW h \in Handlers, AbortValue(h)
          PROVE  entry'[j] \in {Absent, Aborted}
      BY <1>1, <3>3, SMTT(30) DEF AbortValue, ListAfterRead, Untaken, Typed, TypeOK
    <3>4. ASSUME NEW p \in Pids, Claim(p) \/ FinishSolve(p)
          PROVE  entry'[j] \in {Absent, Aborted}
      <4>1. job[p] # j
        BY <1>2, <1>3, <3>4 DEF FinishSolve
      <4>2. \E v : entry' = [entry EXCEPT ![job[p]] = v]
        BY <3>4 DEF Claim, FinishSolve
      <4> QED
        BY <1>1, <4>1, <4>2 DEF Untaken, Typed, TypeOK
    <3> QED
      BY <3>1, <3>2, <3>3, <3>4, EntrySteps DEF AbortDelete, ResultDelete, WatchReport
  <2> QED
    BY <2>1, <2>2 DEF Untaken
<1>5. ~InTransit(j)'
  <2>1. CASE UNCHANGED <<resq, rpc, rmsg>>
    BY <1>1, <2>1 DEF InTransit
  <2>2. ASSUME NEW m \in Message, m.id # j, resq' = Append(resq, m),
               UNCHANGED receiverVars
        PROVE  ~InTransit(j)'
    <3>1. resq \in Seq(Message)
      BY DEF Typed, TypeOK
    <3>2. /\ Len(resq') = Len(resq) + 1
          /\ \A i \in 1..Len(resq) : resq'[i] = resq[i]
          /\ resq'[Len(resq) + 1] = m
      BY <2>2, <3>1, AppendElements
    <3> QED
      BY <1>1, <2>2, <3>1, <3>2, SMTT(30) DEF InTransit, receiverVars
  <2>3. ASSUME NEW p \in Pids, Skip(p) \/ Respond(p) PROVE ~InTransit(j)'
    <3>1. job[p] # j /\ job[p] \in Jobs
      BY <1>2, <1>3, <2>3 DEF Respond, Skip, Typed, HoldsJob
    <3>2. \E a \in Answers : resq' = Append(resq, [id |-> job[p], ans |-> a])
                             /\ UNCHANGED receiverVars
      BY <2>3 DEF Skip, Respond, Answers
    <3> QED
      BY <2>2, <3>1, <3>2 DEF Message
  <2>4. CASE WatchReport
    <3>1. [id |-> wid, ans |-> "aborted"] \in Message
      BY DEF Typed, TypeOK, Message, Answers
    <3> QED
      BY <1>1, <2>2, <2>4, <3>1 DEF WatchReport
  <2>5. CASE ResultPick
    <3>1. resq \in Seq(Message) /\ resq # <<>> /\ resq' = Tail(resq) /\ rmsg' = Head(resq)
      BY <2>5 DEF ResultPick, Typed, TypeOK
    <3>2. /\ Len(resq) \in Nat \ {0} /\ Head(resq) = resq[1]
          /\ Len(resq') = Len(resq) - 1
          /\ \A i \in 1..Len(resq') : resq'[i] = resq[i + 1] /\ i + 1 \in 1..Len(resq)
      BY <3>1, TailElements
    <3>3. 1 \in 1..Len(resq)
      BY <3>2
    <3> QED
      BY <1>1, <3>1, <3>2, <3>3 DEF InTransit
  <2>6. CASE ResultSet \/ ResultWarm \/ ResultDelete
    BY <1>1, <2>6 DEF ResultSet, ResultWarm, ResultDelete, InTransit, queueVars
  <2> QED
    BY <2>1, <2>3, <2>4, <2>5, <2>6, ResponseSteps DEF ResultStep
<1>6. wid' # j
  <2>1. wid' = wid \/ WatchFind \/ wid' = None
    BY Zenon DEF Next, ClientStep, Register, RejectUnknownCache,
       RejectAfterRegister, Enqueue, Unregister, AbortById, AbortAll,
       AbortStep, AbortNext, AbortWalked, AbortValue, AbortMark, AbortStop,
       AbortDelete, AbortReturn, ResultStep, ResultPick, ResultSet,
       ResultWarm, ResultDelete, SolverStep, StartRead, GetJob, GetTimeout,
       Claim, FinishSolve, Respond, Skip, Crash, WatchStep, WatchAbort,
       WatchKeyError, WatchScan, WatchReport, WatchRestart, vars, watchVars
  <2>2. CASE WatchFind
    <3>1. PICK p \in wtodo : wid' \in IF JobsOf(p) = {} THEN {None} ELSE JobsOf(p)
      BY <2>2 DEF WatchFind
    <3>2. p \in Pids
      BY <3>1 DEF Typed, TypeOK
    <3>3. j \notin JobsOf(p)
      BY <1>1, <3>2 DEF Untaken, JobsOf, Marks
    <3> QED
      BY <3>1, <3>3
  <2> QED
    BY <1>1, <2>1, <2>2
<1>7. NotStopping(j)'
  <2>1. CASE UNCHANGED <<hpc, hid, hvalue, hstop>>
    BY <1>1, <2>1 DEF NotStopping
  <2>2. ASSUME NEW h \in Handlers, UNCHANGED <<hvalue, hstop>>,
               \/ \E s \in {"next", "value", "stop", "delete"} : hpc' = [hpc EXCEPT ![h] = s]
               \/ hpc' = [hpc EXCEPT ![h] = "ready"],
               hid' = hid \/ \E k : hid' = [hid EXCEPT ![h] = k]
        PROVE  NotStopping(j)'
    BY <1>1, <2>2, SMTT(30) DEF NotStopping, Typed, TypeOK
  <2>3. ASSUME NEW h \in Handlers, NEW f \in AbortFlags,
               AbortAll(h, f) \/ \E k \in Jobs : AbortById(h, k, f)
        PROVE  NotStopping(j)'
    BY <2>2, <2>3 DEF AbortAll, AbortById
  <2>4. ASSUME NEW h \in Handlers, AbortNext(h) \/ AbortWalked(h) \/ AbortStop(h)
        PROVE  NotStopping(j)'
    BY <2>2, <2>4 DEF AbortNext, AbortWalked, AbortStop
  <2>5. ASSUME NEW h \in Handlers, AbortValue(h) PROVE NotStopping(j)'
    <3>1. ToBeAborted(entry[j], hreq[h].flags) => entry[j] = Absent
      BY <1>1 DEF Untaken, ToBeAborted, Marks
    <3>2. /\ hpc'[h] = "mark" => ToBeAborted(hvalue'[h], hreq[h].flags)
          /\ hvalue'[h] = entry[hid[h]] /\ UNCHANGED <<hid, hstop>>
          /\ \A g \in Handlers \ {h} : hpc'[g] = hpc[g] /\ hvalue'[g] = hvalue[g]
      BY <2>5, SMTT(30) DEF AbortValue, Typed, TypeOK
    <3> QED
      BY <1>1, <3>1, <3>2, SMTT(30) DEF NotStopping
  <2>6. ASSUME NEW h \in Handlers, AbortMark(h) PROVE NotStopping(j)'
    <3>1. /\ hpc[h] = "mark" /\ UNCHANGED <<hid, hvalue>>
          /\ hpc' = [hpc EXCEPT ![h] = "next"]
          /\ hstop' = IF hvalue[h] \in Pids
                      THEN [hstop EXCEPT ![h] = Append(@, <<hvalue[h], hid[h]>>)]
                      ELSE hstop
      BY <2>6 DEF AbortMark
    <3>2. hid[h] = j => hvalue[h] \notin Pids
      BY <1>1, <3>1 DEF NotStopping, Marks
    <3>3. ASSUME hvalue[h] \in Pids
          PROVE  \A i \in 1..Len(hstop'[h]) : hstop'[h][i][2] # j
      <4>1. hstop[h] \in Seq(Pids \X Jobs) /\ <<hvalue[h], hid[h]>> \in Pids \X Jobs
        BY <3>1, <3>3 DEF Typed, TypeOK, HoldsJob
      <4>2. hstop'[h] = Append(hstop[h], <<hvalue[h], hid[h]>>)
        BY <3>1, <3>3 DEF Typed, TypeOK
      <4>3. /\ Len(hstop'[h]) = Len(hstop[h]) + 1 /\ Len(hstop[h]) \in Nat
            /\ \A i \in 1..Len(hstop[h]) : hstop'[h][i] = hstop[h][i]
            /\ hstop'[h][Len(hstop[h]) + 1] = <<hvalue[h], hid[h]>>
        BY <4>1, <4>2, AppendElements
      <4>4. \A i \in 1..Len(hstop[h]) : hstop[h][i][2] # j
        BY <1>1 DEF NotStopping
      <4> QED
        BY <3>2, <3>3, <4>3, <4>4
    <3>4. /\ hpc'[h] # "mark"
          /\ \A g \in Handlers \ {h} : hpc'[g] = hpc[g] /\ hstop'[g] = hstop[g]
          /\ hvalue[h] \notin Pids => hstop' = hstop
      BY <3>1, SMTT(30) DEF Typed, TypeOK
    <3> QED
      BY <1>1, <3>1, <3>3, <3>4 DEF NotStopping
  <2>7. ASSUME NEW h \in Handlers, AbortDelete(h) PROVE NotStopping(j)'
    <3>1. /\ hpc[h] = "delete" /\ UNCHANGED <<hid, hvalue>>
          /\ hpc'[h] = "stop" /\ hstop'[h] = Tail(hstop[h])
          /\ \A g \in Handlers \ {h} : hpc'[g] = hpc[g] /\ hstop'[g] = hstop[g]
      BY <2>7, SMTT(30) DEF AbortDelete, Typed, TypeOK
    <3>2. hstop[h] \in Seq(Pids \X Jobs) /\ hstop[h] # <<>>
      BY <3>1 DEF Typed, TypeOK, HoldsJob
    <3>3. \A i \in 1..Len(hstop'[h]) : hstop'[h][i] = hstop[h][i + 1] /\ i + 1 \in 1..Len(hstop[h])
      BY <3>1, <3>2, TailElements
    <3>4. \A k \in 1..Len(hstop[h]) : hstop[h][k][2] # j
      BY <1>1 DEF NotStopping
    <3>5. \A i \in 1..Len(hstop'[h]) : hstop'[h][i][2] # j
      BY <3>3, <3>4
    <3> SUFFICES ASSUME NEW g \in Handlers
                 PROVE  /\ \A i \in 1..Len(hstop'[g]) : hstop'[g][i][2] # j
                        /\ hpc'[g] = "mark" /\ hid'[g] = j => hvalue'[g] = Absent
      BY DEF NotStopping
    <3>6. CASE g = h
      BY <3>1, <3>5, <3>6
    <3>7. CASE g # h
      BY <1>1, <3>1, <3>7 DEF NotStopping
    <3> QED
      BY <3>6, <3>7
  <2>8. ASSUME NEW h \in Handlers, AbortReturn(h) PROVE NotStopping(j)'
    <3>1. /\ hpc'[h] = "ready" /\ hstop' = hstop
          /\ \A g \in Handlers \ {h} : hpc'[g] = hpc[g] /\ hid'[g] = hid[g] /\ hvalue'[g] = hvalue[g]
      BY <2>8, SMTT(30) DEF AbortReturn, Typed, TypeOK
    <3> QED
      BY <1>1, <3>1 DEF NotStopping
  <2> QED
    BY <2>1, <2>3, <2>4, <2>5, <2>6, <2>7, <2>8, HandlerSteps DEF AbortStep
<1> QED
  BY <1>4, <1>5, <1>6, <1>7

-----------------------------------------------------------------------------
(* Aborted jobs are skipped, and no empty result is stored.               *)

\* Which steps change a result.
LEMMA ResultSteps ==
  ASSUME [Next]_vars
  PROVE  \/ UNCHANGED <<done, aborted, result>>
         \/ \E h \in Handlers : AbortMark(h)
         \/ ResultSet
  BY Zenon DEF Next, ClientStep, Register, RejectUnknownCache,
     RejectAfterRegister, Enqueue, Unregister, AbortById, AbortAll, AbortStep,
     AbortNext, AbortWalked, AbortValue, AbortStop, AbortDelete, AbortReturn,
     ResultStep, ResultPick, ResultWarm, ResultDelete, SolverStep, StartRead,
     GetJob, GetTimeout, Claim, FinishSolve, Respond, Skip, Crash, WatchStep,
     WatchAbort, WatchKeyError, WatchScan, WatchFind, WatchReport,
     WatchRestart, vars, resultVars

\* The program counter of a handler points to set_aborted only after the
\* lookup, and leaves it only through set_aborted.
LEMMA MarkSteps ==
  ASSUME Typed, [Next]_vars, NEW h \in Handlers
  PROVE  /\ hpc'[h] = "mark" =>
              \/ AbortValue(h)
              \/ /\ hpc[h] = "mark"
                 /\ hid'[h] = hid[h] /\ hvalue'[h] = hvalue[h]
         /\ hpc[h] = "mark" =>
              \/ AbortMark(h)
              \/ /\ hpc'[h] = "mark"
                 /\ hid'[h] = hid[h] /\ hvalue'[h] = hvalue[h]
<1>1. CASE UNCHANGED <<hpc, hid, hvalue, hstop>>
  BY <1>1
<1>2. ASSUME NEW g \in Handlers, NEW f \in AbortFlags,
             AbortAll(g, f) \/ \E j \in Jobs : AbortById(g, j, f)
      PROVE  /\ hpc[g] = "ready" /\ hpc'[g] # "mark"
             /\ g # h => hpc'[h] = hpc[h] /\ hid'[h] = hid[h] /\ hvalue'[h] = hvalue[h]
  BY <1>2, SMTT(30) DEF AbortAll, AbortById, Typed, TypeOK
<1>3. ASSUME NEW g \in Handlers, AbortStep(g), g # h
      PROVE  hpc'[h] = hpc[h] /\ hid'[h] = hid[h] /\ hvalue'[h] = hvalue[h]
  BY <1>3, SMTT(30) DEF AbortStep, AbortNext, AbortWalked, AbortValue,
     AbortMark, AbortStop, AbortDelete, AbortReturn, Typed, TypeOK
<1>4. ASSUME AbortStep(h), ~AbortValue(h), ~AbortMark(h)
      PROVE  hpc[h] # "mark" /\ hpc'[h] # "mark"
  <2>1. /\ hpc[h] # "mark"
        /\ \E s \in {"next", "value", "stop", "delete", "ready"} :
             hpc' = [hpc EXCEPT ![h] = s]
    BY <1>4 DEF AbortStep, AbortNext, AbortWalked, AbortStop, AbortDelete,
       AbortReturn
  <2>2. PICK s \in {"next", "value", "stop", "delete", "ready"} :
           hpc' = [hpc EXCEPT ![h] = s]
    BY <2>1
  <2>3. hpc'[h] = s /\ s # "mark"
    BY <2>2 DEF Typed, TypeOK
  <2> QED
    BY <2>1, <2>3
<1>5. AbortValue(h) => hpc[h] # "mark"
  BY DEF AbortValue
<1>6. AbortMark(h) => hpc'[h] # "mark"
  BY SMTT(30) DEF AbortMark, Typed, TypeOK
<1> QED
  BY <1>1, <1>2, <1>3, <1>4, <1>5, <1>6, HandlerSteps

\* The lookup lists a queued job as aborted exactly when the result is to be
\* completed for that reason.
LEMMA Lookup ==
  ASSUME Typed, NEW h \in Handlers, AbortValue(h)
  PROVE  /\ hid[h] \in Jobs /\ hid'[h] = hid[h] /\ hvalue'[h] = entry[hid[h]]
         /\ \A j \in Jobs : entry'[j] = entry[j] \/ (j = hid[h] /\ entry[j] = Absent /\ entry'[j] = Aborted)
         /\ entry'[hid[h]] # entry[hid[h]] => hpc'[h] = "mark"
         /\ hpc'[h] = "mark" => \/ hvalue'[h] \in Pids
                                \/ hvalue'[h] = Absent /\ entry'[hid[h]] = Aborted
<1> USE ConstantsAssumption
<1>1. /\ hid[h] \in Jobs /\ hid'[h] = hid[h]
      /\ hvalue'[h] = entry[hid[h]]
      /\ hpc'[h] = IF ToBeAborted(entry[hid[h]], hreq[h].flags) THEN "mark" ELSE "next"
      /\ entry' = ListAfterRead(hid[h], hreq[h].flags)
  BY SMTT(30) DEF AbortValue, Typed, TypeOK, HoldsJob
<1> DEFINE f == hreq[h].flags
<1>2. CASE f.queued /\ entry[hid[h]] = Absent
  <2>1. entry' = [entry EXCEPT ![hid[h]] = Aborted] /\ hpc'[h] = "mark"
    BY <1>1, <1>2 DEF ListAfterRead, ToBeAborted
  <2> QED
    BY <1>1, <1>2, <2>1 DEF Typed, TypeOK
<1>3. CASE ~(f.queued /\ entry[hid[h]] = Absent)
  <2>1. entry' = entry
    BY <1>1, <1>3 DEF ListAfterRead
  <2>2. hpc'[h] = "mark" => entry[hid[h]] \in Pids
    BY <1>1, <1>3 DEF ToBeAborted
  <2> QED
    BY <1>1, <2>1, <2>2
<1> QED
  BY <1>2, <1>3

\* A result that is complete, or about to be, stays so.
LEMMA SettledStays ==
  ASSUME Typed, [Next]_vars, NEW j, j \in done \/ Marking(j)
  PROVE  (j \in done \/ Marking(j))'
<1>1. done \subseteq done'
  BY ResultSteps DEF AbortMark, ResultSet
<1>2. CASE j \in done
  BY <1>1, <1>2
<1>3. CASE Marking(j)
  <2>1. PICK h \in Handlers : hpc[h] = "mark" /\ hid[h] = j /\ hvalue[h] = Absent
    BY <1>3 DEF Marking
  <2>2. CASE AbortMark(h)
    BY <2>1, <2>2 DEF AbortMark
  <2>3. CASE hpc'[h] = "mark" /\ hid'[h] = hid[h] /\ hvalue'[h] = hvalue[h]
    BY <2>1, <2>3 DEF Marking
  <2> QED
    BY <2>1, <2>2, <2>3, MarkSteps
<1> QED
  BY <1>2, <1>3

\* Nothing is marked for abort at the start.
LEMMA InitAbort == Init => AbortInv
  BY ConstantsAssumption, SMTT(30) DEF Init, AbortInv, Fresh, Marking, NoEmptyResult, NoMessage

\* Every step keeps AbortInv.
LEMMA AbortInvStep ==
  ASSUME Typed, LockInv, QueueInv, FreshInv, AbortInv, [Next]_vars
  PROVE  AbortInv'
<1> USE ConstantsAssumption
<1>1. ASSUME NEW j \in Jobs, entry'[j] = Aborted PROVE (j \in done \/ Marking(j))'
  <2>1. CASE entry[j] = Aborted
    BY <2>1, SettledStays DEF AbortInv
  <2>2. ASSUME NEW h \in Handlers, AbortValue(h), entry[j] # Aborted
        PROVE  Marking(j)'
    <3>1. hid'[h] = j /\ hvalue'[h] = Absent /\ hpc'[h] = "mark"
      BY <1>1, <2>2, Lookup
    <3> QED
      BY <3>1 DEF Marking
  <2>3. ASSUME NEW id, entry' = ListWithout(id) PROVE entry[j] = Aborted
    BY <1>1, <2>3 DEF ListWithout
  <2>4. ASSUME NEW p \in Pids, Claim(p) \/ FinishSolve(p) PROVE entry[j] = Aborted
    BY <1>1, <2>4, SMTT(30) DEF Claim, FinishSolve, Typed, TypeOK, Marks
  <2> QED
    BY <1>1, <2>1, <2>2, <2>3, <2>4, EntrySteps
    DEF AbortDelete, ResultDelete, WatchReport
<1>2. ASSUME NEW j \in Jobs, NEW i \in 1..Len(resq'),
             resq'[i].id = j, resq'[i].ans = "none"
      PROVE  (j \in done \/ Marking(j))'
  <2>0. resq \in Seq(Message)
    BY DEF Typed, TypeOK
  <2>1. ASSUME NEW k \in 1..Len(resq), resq'[i] = resq[k]
        PROVE  (j \in done \/ Marking(j))'
    BY <1>2, <2>1, SettledStays DEF AbortInv
  <2>2. CASE resq' = resq
    BY <1>2, <2>1, <2>2
  <2>3. ASSUME NEW m \in Message, resq' = Append(resq, m),
               m.ans = "none" /\ m.id = j => j \in done \/ Marking(j)
        PROVE  (j \in done \/ Marking(j))'
    <3>1. /\ Len(resq') = Len(resq) + 1 /\ Len(resq) \in Nat
          /\ \A k \in 1..Len(resq) : resq'[k] = resq[k]
          /\ resq'[Len(resq) + 1] = m
      BY <2>0, <2>3, AppendElements
    <3>2. CASE i \in 1..Len(resq)
      BY <2>1, <3>1, <3>2
    <3>3. CASE resq'[i] = m
      BY <1>2, <2>3, <3>3, SettledStays
    <3> QED
      BY <3>1, <3>2, <3>3
  <2>4. ASSUME NEW p \in Pids, Skip(p) PROVE (j \in done \/ Marking(j))'
    <3>1. job[p] \in Jobs /\ Fresh(job[p]) /\ entry[job[p]] # Absent
      BY <2>4 DEF Skip, Typed, HoldsJob, Fresh, OnQueue
    <3>2. job[p] \in done \/ Marking(job[p])
      BY <3>1 DEF FreshInv, Untaken, AbortInv
    <3>3. [id |-> job[p], ans |-> "none"] \in Message
      BY <3>1 DEF Message, Answers
    <3> QED
      BY <2>3, <2>4, <3>2, <3>3 DEF Skip
  <2>5. ASSUME NEW p \in Pids, Respond(p) PROVE (j \in done \/ Marking(j))'
    <3>1. [id |-> job[p], ans |-> "answer"] \in Message
      BY <2>5 DEF Respond, Typed, HoldsJob, Message, Answers
    <3> QED
      BY <2>3, <2>5, <3>1 DEF Respond
  <2>6. CASE WatchReport
    <3>1. [id |-> wid, ans |-> "aborted"] \in Message
      BY DEF Typed, TypeOK, Message, Answers
    <3> QED
      BY <2>3, <2>6, <3>1 DEF WatchReport
  <2>7. CASE ResultPick
    <3>1. resq # <<>> /\ resq' = Tail(resq)
      BY <2>7 DEF ResultPick
    <3>2. resq'[i] = resq[i + 1] /\ i + 1 \in 1..Len(resq)
      BY <1>2, <2>0, <3>1, TailElements
    <3> QED
      BY <2>1, <3>2
  <2>8. CASE ResultSet \/ ResultWarm \/ ResultDelete
    BY <2>2, <2>8 DEF ResultSet, ResultWarm, ResultDelete, queueVars
  <2> QED
    BY <2>2, <2>4, <2>5, <2>6, <2>7, <2>8, ResponseSteps DEF ResultStep
<1>3. ASSUME rpc' = "set" PROVE rmsg'.ans # "none"
  <2>1. CASE UNCHANGED <<rpc, rmsg>>
    BY <1>3, <2>1 DEF AbortInv
  <2>2. CASE ResultPick
    <3>1. /\ resq \in Seq(Message) /\ resq # <<>> /\ lock = None
          /\ rmsg' = Head(resq)
          /\ Head(resq).id \in Jobs \ done
      BY <1>3, <2>2 DEF ResultPick, Waiting, Typed, TypeOK
    <3>2. Len(resq) \in Nat \ {0} /\ Head(resq) = resq[1]
      BY <3>1, TailElements
    <3>3. ~Marking(Head(resq).id)
      BY <3>1 DEF Marking, LockInv
    <3>4. 1 \in 1..Len(resq)
      BY <3>2
    <3> QED
      BY <3>1, <3>2, <3>3, <3>4 DEF AbortInv
  <2>3. CASE ResultSet \/ ResultWarm \/ ResultDelete
    BY <1>3, <2>3 DEF ResultSet, ResultWarm, ResultDelete
  <2>4. CASE WatchReport \/ \E p \in Pids : Skip(p) \/ Respond(p)
    BY <2>1, <2>4 DEF WatchReport, Skip, Respond, receiverVars
  <2> QED
    BY <2>1, <2>2, <2>3, <2>4, ResponseSteps DEF ResultStep
<1>4. ASSUME NEW j \in Jobs, Fresh(j)', (j \in aborted \/ Marking(j))'
      PROVE  entry'[j] = Aborted
  <2>1. Fresh(j) /\ Untaken(j) /\ ~InTransit(j) /\ wid # j /\ NotStopping(j)
    BY <1>4, FreshShrinks DEF FreshInv
  <2>2. CASE entry[j] = Aborted
    <3>1. ASSUME NEW id, id # j, entry' = ListWithout(id) PROVE entry'[j] = Aborted
      BY <2>2, <3>1 DEF ListWithout
    <3>2. ASSUME NEW h \in Handlers, AbortValue(h) PROVE entry'[j] = Aborted
      BY <2>2, <3>2, Lookup
    <3>3. ASSUME NEW h \in Handlers, AbortDelete(h) PROVE entry'[j] = Aborted
      <4>1. hstop[h] \in Seq(Pids \X Jobs) /\ hstop[h] # <<>>
        BY <3>3 DEF AbortDelete, Typed, TypeOK, HoldsJob
      <4>2. Len(hstop[h]) \in Nat \ {0} /\ Head(hstop[h]) = hstop[h][1]
        BY <4>1, TailElements
      <4>3. Head(hstop[h])[2] # j
        BY <2>1, <4>2 DEF NotStopping
      <4> QED
        BY <3>1, <3>3, <4>3 DEF AbortDelete
    <3>4. CASE ResultDelete
      BY <2>1, <3>1, <3>4 DEF ResultDelete, InTransit
    <3>5. CASE WatchReport
      BY <2>1, <3>1, <3>5 DEF WatchReport
    <3>6. ASSUME NEW p \in Pids, Claim(p) \/ FinishSolve(p) PROVE entry'[j] = Aborted
      <4>1. job[p] # j
        BY <1>4, <2>1, <3>6, LookedUp DEF FinishSolve, Untaken
      <4>2. \E v : entry' = [entry EXCEPT ![job[p]] = v]
        BY <3>6 DEF Claim, FinishSolve
      <4> QED
        BY <2>2, <4>1, <4>2 DEF Typed, TypeOK
    <3> QED
      BY <2>2, <3>2, <3>3, <3>4, <3>5, <3>6, EntrySteps
  <2>3. CASE Marking(j)'
    <3>1. PICK h \in Handlers : hpc'[h] = "mark" /\ hid'[h] = j /\ hvalue'[h] = Absent
      BY <2>3 DEF Marking
    <3>2. CASE AbortValue(h)
      BY <3>1, <3>2, Lookup DEF Marks
    <3>3. CASE hpc[h] = "mark" /\ hid'[h] = hid[h] /\ hvalue'[h] = hvalue[h]
      BY <2>1, <2>2, <3>1, <3>3 DEF AbortInv, Marking
    <3> QED
      BY <3>1, <3>2, <3>3, MarkSteps
  <2>4. CASE j \in aborted
    BY <2>1, <2>2, <2>4 DEF AbortInv
  <2>5. CASE j \in aborted' /\ j \notin aborted
    <3>1. PICK h \in Handlers : AbortMark(h)
      BY <2>5, ResultSteps DEF ResultSet
    <3>2. hpc[h] = "mark" /\ hid[h] = j
      BY <2>5, <3>1 DEF AbortMark
    <3>3. Marking(j)
      BY <2>1, <3>2 DEF NotStopping, Marking
    <3> QED
      BY <2>1, <2>2, <3>3 DEF AbortInv
  <2> QED
    BY <1>4, <2>3, <2>4, <2>5
<1>5. ASSUME NEW h \in Handlers, hpc'[h] = "mark" PROVE hvalue'[h] \in Pids \cup {Absent}
  BY <1>5, MarkSteps, Lookup DEF AbortInv
<1>6. NoEmptyResult'
  <2>1. CASE UNCHANGED <<done, aborted, result>>
    BY <2>1 DEF AbortInv, NoEmptyResult
  <2>2. ASSUME NEW h \in Handlers, AbortMark(h) PROVE NoEmptyResult'
    <3>1. hid[h] \in Jobs /\ done' = done \cup {hid[h]}
          /\ result' = [result EXCEPT ![hid[h]] = "aborted"]
      BY <2>2 DEF AbortMark, Typed, HoldsJob
    <3> QED
      BY <3>1, SMTT(30) DEF AbortInv, NoEmptyResult, Typed, TypeOK
  <2>3. CASE ResultSet
    <3>1. /\ rmsg.ans # "none" /\ rmsg.id \in Jobs
          /\ done' = done \cup {rmsg.id}
          /\ result' = [result EXCEPT ![rmsg.id] = rmsg.ans]
      BY <2>3 DEF ResultSet, AbortInv, Typed, HoldsJob
    <3> QED
      BY <3>1, SMTT(30) DEF AbortInv, NoEmptyResult, Typed, TypeOK
  <2> QED
    BY <2>1, <2>2, <2>3, ResultSteps
<1> QED
  BY <1>1, <1>2, <1>3, <1>4, <1>5, <1>6 DEF AbortInv

-----------------------------------------------------------------------------
(* The theorems.                                                          *)

\* The inductive invariant holds in every behaviour of the server.
LEMMA InductiveInvariantHolds == Spec => []InductiveInvariant
<1>1. Init => InductiveInvariant
  BY InitTyped, InitSlot, InitLock, InitQueue, InitFresh, InitAbort
  DEF InductiveInvariant
<1>2. InductiveInvariant /\ [Next]_vars => InductiveInvariant'
  BY TypedStep, SlotStep, LockStep, QueueStep, FreshStep, AbortInvStep
  DEF InductiveInvariant
<1> QED
  BY <1>1, <1>2, PTL DEF Spec

\* Every variable keeps its type: the program counters, the abort list, the
\* queues and the tables of JobServer.
THEOREM TypeCorrect == Spec => []TypeOK
<1>1. InductiveInvariant => TypeOK
  BY DEF InductiveInvariant, Typed
<1> QED
  BY <1>1, InductiveInvariantHolds, PTL

\* Two living solver processes never share a GPU, however aborts, crashes
\* and restarts follow each other (watch_solvers, create_process).
THEOREM OneProcess == Spec => []OneProcessPerSlot
<1>1. InductiveInvariant => OneProcessPerSlot
  BY DEF InductiveInvariant, SlotInv, OneProcessPerSlot, Stopped
<1> QED
  BY <1>1, InductiveInvariantHolds, PTL

\* No done result is empty: the response of a skipped job is never stored
\* (process_async_solve, abort_by_id, abort_all, SolverBinaryResponse.process).
THEOREM ResultsNotEmpty == Spec => []NoEmptyResult
<1>1. InductiveInvariant => NoEmptyResult
  BY DEF InductiveInvariant, AbortInv
<1> QED
  BY <1>1, InductiveInvariantHolds, PTL

\* A job aborted while it is queued stays listed as aborted until a solver
\* takes it off the queue and looks it up.
THEOREM AbortedSkipped == Spec => []AbortedIsSkipped
<1>1. InductiveInvariant => AbortedIsSkipped
  BY DEF InductiveInvariant, AbortInv, AbortedIsSkipped, Fresh, Typed, TypeOK
<1> QED
  BY <1>1, InductiveInvariantHolds, PTL

-----------------------------------------------------------------------------
(* What a step does to a process, an entry, an answer.                     *)

\* A process that solves or has stopped keeps its job, and once stopped it
\* stays stopped.
LEMMA HeldSteps ==
  ASSUME Typed, SlotInv, [Next]_vars, NEW p \in Pids,
         pc[p] = "solving" \/ Stopped(p)
  PROVE  /\ job'[p] = job[p]
         /\ pc'[p] = "solving" \/ Stopped(p)' \/ FinishSolve(p)
         /\ Stopped(p) => Stopped(p)'
<1>1. ASSUME NEW q \in Pids, q # p, SolverStep(q) \/ Crash(q)
      PROVE  job'[p] = job[p] /\ pc'[p] = pc[p]
  <2>1. /\ \E s : pc' = [pc EXCEPT ![q] = s]
        /\ \E s : job' = [job EXCEPT ![q] = s] \/ job' = job
    BY <1>1 DEF SolverStep, StartRead, GetJob, GetTimeout, Claim, Skip,
       FinishSolve, Respond, Crash
  <2> QED
    BY <1>1, <2>1, SMTT(30) DEF Typed, TypeOK
<1>2. CASE SolverStep(p)
  BY <1>2 DEF SolverStep, StartRead, GetJob, GetTimeout, Claim, Skip,
     FinishSolve, Respond, Stopped
<1>3. CASE Crash(p)
  BY <1>3, SMTT(30) DEF Crash, Stopped, Typed, TypeOK
<1>4. ASSUME job' = job, NEW q, pc' = [pc EXCEPT ![q] = "dead",
                                             ![nextpid] = "idle"]
      PROVE  job'[p] = job[p] /\ (pc'[p] = pc[p] \/ Stopped(p)')
  <2>1. p # nextpid
    BY DEF SlotInv, Stopped, Typed, TypeOK, Pids
  <2> QED
    BY <1>4, <2>1 DEF Typed, TypeOK, Stopped
<1>5. CASE WatchAbort
  BY <1>4, <1>5 DEF WatchAbort, KillAndStart, Stopped
<1>6. CASE WatchRestart
  <2>1. p # nextpid
    BY DEF SlotInv, Stopped, Typed, TypeOK, Pids
  <2> QED
    BY <1>6, <2>1 DEF WatchRestart, Typed, TypeOK, Stopped
<1>7. \/ UNCHANGED <<pc, job>> \/ WatchAbort \/ WatchRestart
      \/ \E q \in Pids : SolverStep(q) \/ Crash(q)
  BY Zenon DEF Next, ClientStep, Register, RejectUnknownCache,
     RejectAfterRegister, Enqueue, Unregister, AbortById, AbortAll, AbortStep,
     AbortNext, AbortWalked, AbortValue, AbortMark, AbortStop, AbortDelete,
     AbortReturn, ResultStep, ResultPick, ResultSet, ResultWarm, ResultDelete,
     WatchStep, WatchKeyError, WatchScan, WatchFind, WatchReport, vars,
     solverVars
<1> QED
  BY <1>1, <1>2, <1>3, <1>5, <1>6, <1>7 DEF Stopped

\* An entry names a process only by the claim of that process.
LEMMA PidEntry ==
  ASSUME Typed, [Next]_vars, NEW j \in Jobs, entry'[j] \in Pids
  PROVE  \/ entry'[j] = entry[j]
         \/ Claim(entry'[j]) /\ job[entry'[j]] = j
<1> USE ConstantsAssumption
<1>1. ASSUME NEW h \in Handlers, AbortValue(h) PROVE entry'[j] = entry[j]
  BY <1>1, Lookup DEF Marks
<1>2. ASSUME NEW id, entry' = ListWithout(id) PROVE entry'[j] = entry[j]
  BY <1>2 DEF ListWithout, Marks
<1>3. ASSUME NEW p \in Pids, Claim(p)
      PROVE  entry'[j] = entry[j] \/ (entry'[j] = p /\ job[p] = j)
  <2>1. job[p] \in Jobs /\ entry' = [entry EXCEPT ![job[p]] = p]
    BY <1>3 DEF Claim, Typed, HoldsJob
  <2> QED
    BY <2>1 DEF Typed, TypeOK
<1>4. ASSUME NEW p \in Pids, FinishSolve(p) PROVE entry'[j] = entry[j]
  BY <1>4 DEF FinishSolve, Typed, TypeOK, Marks
<1> QED
  BY <1>1, <1>2, <1>3, <1>4, EntrySteps
  DEF AbortDelete, ResultDelete, WatchReport

\* A solver that looks a job up is the first one to do so.
LEMMA ClaimsFresh ==
  ASSUME Typed, FreshInv, NEW p \in Pids, Claim(p)
  PROVE  job[p] \in Jobs /\ Fresh(job[p]) /\ Untaken(job[p])
         /\ ~InTransit(job[p]) /\ wid # job[p]
BY DEF Claim, Typed, HoldsJob, Fresh, OnQueue, FreshInv

\* The watcher looks for the job of a stopped process, and forgets it.
LEMMA WidSteps ==
  ASSUME [Next]_vars
  PROVE  wid' = wid \/ WatchFind \/ wid' = None
BY Zenon DEF Next, ClientStep, Register, RejectUnknownCache,
   RejectAfterRegister, Enqueue, Unregister, AbortById, AbortAll, AbortStep,
   AbortNext, AbortWalked, AbortValue, AbortMark, AbortStop, AbortDelete,
   AbortReturn, ResultStep, ResultPick, ResultSet, ResultWarm, ResultDelete,
   SolverStep, StartRead, GetJob, GetTimeout, Claim, FinishSolve, Respond,
   Skip, Crash, WatchStep, WatchAbort, WatchKeyError, WatchScan, WatchReport,
   WatchRestart, vars, watchVars

\* A new answer comes from a solver that has just finished the job.
LEMMA AnsweringSteps ==
  ASSUME Typed, [Next]_vars, NEW j \in Jobs, Answering(j)'
  PROVE  Answering(j) \/ \E p \in Pids : FinishSolve(p) /\ job[p] = j
<1> SUFFICES ASSUME ~Answering(j)
             PROVE  \E p \in Pids : FinishSolve(p) /\ job[p] = j
  OBVIOUS
<1>0. resq \in Seq(Message)
  BY DEF Typed, TypeOK
<1>1. ASSUME NEW p \in Pids, pc'[p] = "marked", job'[p] = j
      PROVE  FinishSolve(p) /\ job[p] = j
  <2>1. FinishSolve(p) \/ Claim(p)
    BY <1>1, TakenSteps DEF Answering
  <2>2. ~Claim(p)
    BY <1>1 DEF Claim, Typed, TypeOK
  <2> QED
    BY <1>1, <2>1, <2>2 DEF FinishSolve
<1>2. ASSUME NEW i \in 1..Len(resq'), resq'[i].id = j, resq'[i].ans = "answer"
      PROVE  FALSE
  <2>1. \A k \in 1..Len(resq) : resq'[i] # resq[k]
    BY <1>2 DEF Answering
  <2>2. resq' # resq
    BY <1>2, <2>1
  <2>3. ASSUME NEW m \in Message, resq' = Append(resq, m)
        PROVE  m.id = j /\ m.ans = "answer"
    <3>1. /\ Len(resq') = Len(resq) + 1 /\ Len(resq) \in Nat
          /\ \A k \in 1..Len(resq) : resq'[k] = resq[k]
          /\ resq'[Len(resq) + 1] = m
      BY <1>0, <2>3, AppendElements
    <3>2. i = Len(resq) + 1
      BY <2>1, <3>1
    <3> QED
      BY <1>2, <3>1, <3>2
  <2>4. ASSUME NEW p \in Pids, Skip(p) PROVE FALSE
    <3>1. [id |-> job[p], ans |-> "none"] \in Message
      BY <2>4 DEF Skip, Typed, HoldsJob, Message, Answers
    <3> QED
      BY <2>3, <2>4, <3>1 DEF Skip
  <2>5. ASSUME NEW p \in Pids, Respond(p) PROVE FALSE
    <3>1. [id |-> job[p], ans |-> "answer"] \in Message
      BY <2>5 DEF Respond, Typed, HoldsJob, Message, Answers
    <3>2. job[p] = j /\ pc[p] = "marked"
      BY <2>3, <2>5, <3>1 DEF Respond
    <3> QED
      BY <3>2 DEF Answering
  <2>6. CASE WatchReport
    <3>1. [id |-> wid, ans |-> "aborted"] \in Message
      BY DEF Typed, TypeOK, Message, Answers
    <3> QED
      BY <2>3, <2>6, <3>1 DEF WatchReport
  <2>7. CASE ResultPick
    <3>1. resq # <<>> /\ resq' = Tail(resq)
      BY <2>7 DEF ResultPick
    <3>2. resq'[i] = resq[i + 1] /\ i + 1 \in 1..Len(resq)
      BY <1>0, <1>2, <3>1, TailElements
    <3> QED
      BY <2>1, <3>2
  <2>8. CASE ResultSet \/ ResultWarm \/ ResultDelete
    BY <2>2, <2>8 DEF ResultSet, ResultWarm, ResultDelete, queueVars
  <2> QED
    BY <2>2, <2>4, <2>5, <2>6, <2>7, <2>8, ResponseSteps DEF ResultStep
<1>3. ASSUME rpc' = "set", rmsg'.id = j, rmsg'.ans = "answer" PROVE FALSE
  <2>1. ~UNCHANGED <<rpc, rmsg>>
    BY <1>3 DEF Answering
  <2>2. ResultPick
    BY <1>3, <2>1, ResponseSteps DEF ResultStep, ResultSet, ResultWarm,
       ResultDelete, WatchReport, Skip, Respond, receiverVars
  <2>3. resq # <<>> /\ rmsg' = Head(resq)
    BY <2>2 DEF ResultPick
  <2>4. 1 \in 1..Len(resq) /\ rmsg' = resq[1]
    BY <1>0, <2>3, TailElements
  <2> QED
    BY <1>3, <2>4 DEF Answering
<1> QED
  BY <1>1, <1>2, <1>3 DEF Answering

-----------------------------------------------------------------------------
(* An aborted result stays aborted.                                       *)

\* Nothing is answered or done at the start.
LEMMA InitAnswer == Init => AnswerInv
<1> SUFFICES ASSUME Init PROVE AnswerInv
  OBVIOUS
<1>1. /\ \A p \in Pids : pc[p] \in {"idle", "unborn"}
      /\ resq = <<>> /\ rpc = "get" /\ wid = None /\ aborted = {}
      /\ \A h \in Handlers : hstop[h] = <<>>
      /\ \A j \in Jobs : post[j] = "new"
  BY DEF Init
<1> QED
  BY <1>1, ConstantsAssumption
  DEF AnswerInv, AbortedResult, OwnerInv, DoneInv, Answering

\* Who may change the entry of a job whose result stays open: an abort of a
\* queued job, the solver that takes it, the one that has finished it, and
\* the watcher that has found that solver stopped.
LEMMA OpenEntry ==
  ASSUME Typed, AnswerInv, [Next]_vars, NEW j \in Jobs \ done
  PROVE  \/ entry'[j] = entry[j]
         \/ entry[j] = Absent
         \/ \E p \in Pids : /\ FinishSolve(p) /\ job[p] = j
                           /\ entry[j] = p /\ entry'[j] = Finished
         \/ WatchReport /\ wid = j
<1> USE ConstantsAssumption
<1>1. ASSUME NEW h \in Handlers, AbortValue(h)
      PROVE  entry'[j] = entry[j] \/ entry[j] = Absent
  BY <1>1, Lookup
<1>2. ASSUME NEW id, id # j, entry' = ListWithout(id)
      PROVE  entry'[j] = entry[j]
  BY <1>2 DEF ListWithout
<1>3. ASSUME NEW h \in Handlers, AbortDelete(h) PROVE entry'[j] = entry[j]
  <2>1. hstop[h] \in Seq(Pids \X Jobs) /\ hstop[h] # <<>>
    BY <1>3 DEF AbortDelete, Typed, TypeOK, HoldsJob
  <2>2. 1 \in 1..Len(hstop[h]) /\ Head(hstop[h]) = hstop[h][1]
    BY <2>1, TailElements
  <2>3. Head(hstop[h])[2] \in done
    BY <2>2 DEF AnswerInv, DoneInv, AbortedResult
  <2>4. Head(hstop[h])[2] # j
    BY <2>3
  <2> QED
    BY <1>2, <1>3, <2>4 DEF AbortDelete
<1>4. CASE ResultDelete
  <2>1. rmsg.id # j
    BY <1>4 DEF ResultDelete, AnswerInv, DoneInv
  <2> QED
    BY <1>2, <1>4, <2>1 DEF ResultDelete
<1>5. CASE WatchReport
  BY <1>2, <1>5 DEF WatchReport
<1>6. ASSUME NEW p \in Pids, Claim(p) \/ FinishSolve(p), job[p] # j
      PROVE  entry'[j] = entry[j]
  <2>1. \E v : entry' = [entry EXCEPT ![job[p]] = v]
    BY <1>6 DEF Claim, FinishSolve
  <2> QED
    BY <1>6, <2>1 DEF Typed, TypeOK
<1>7. ASSUME NEW p \in Pids, Claim(p), job[p] = j PROVE entry[j] = Absent
  BY <1>7 DEF Claim
<1>8. ASSUME NEW p \in Pids, FinishSolve(p), job[p] = j
      PROVE  entry[j] = p /\ entry'[j] = Finished
  <2>1. entry[j] = p /\ p # Absent
    BY <1>8 DEF FinishSolve, AnswerInv, OwnerInv, Marks
  <2> QED
    BY <1>8, <2>1 DEF FinishSolve, Typed, TypeOK
<1> QED
  BY <1>1, <1>3, <1>4, <1>5, <1>6, <1>7, <1>8, EntrySteps

\* Every step keeps OwnerInv.
LEMMA OwnerStep ==
  ASSUME InductiveInvariant, AnswerInv, [Next]_vars
  PROVE  OwnerInv'
<1> USE ConstantsAssumption
<1>0. Typed /\ SlotInv /\ QueueInv /\ FreshInv
  BY DEF InductiveInvariant
<1> SUFFICES ASSUME NEW j \in Jobs, j \notin done'
             PROVE  /\ \A p \in Pids : pc'[p] = "solving" /\ job'[p] = j
                                      => entry'[j] = p
                    /\ Answering(j)' => entry'[j] = Finished
                    /\ wid' = j => entry'[j] \in Pids /\ Stopped(entry[j])'
  BY DEF OwnerInv
<1>1. j \notin done
  BY ResultSteps DEF AbortMark, ResultSet
<1>2. /\ \A p \in Pids : pc[p] = "solving" /\ job[p] = j => entry[j] = p
      /\ Answering(j) => entry[j] = Finished
      /\ wid = j => entry[j] \in Pids /\ Stopped(entry[j])
  BY <1>1 DEF AnswerInv, OwnerInv
<1>3. ASSUME NEW p \in Pids, pc'[p] = "solving", job'[p] = j
      PROVE  entry'[j] = p
  <2>1. CASE Claim(p)
    BY <1>0, <1>3, <2>1, ClaimsFresh DEF Claim, Typed, TypeOK
  <2>2. CASE pc[p] = "solving" /\ job[p] = j
    <3>1. entry[j] = p /\ p # Absent
      BY <1>2, <2>2 DEF Marks
    <3>2. ~FinishSolve(p)
      BY <1>0, <1>3 DEF FinishSolve, Typed, TypeOK
    <3>3. ~(WatchReport /\ wid = j)
      BY <1>2, <2>2, <3>1 DEF Stopped
    <3> QED
      BY <1>0, <1>1, <3>1, <3>2, <3>3, OpenEntry
  <2> QED
    BY <1>0, <1>3, <2>1, <2>2, TakenSteps DEF FinishSolve, Typed, TypeOK
<1>4. ASSUME Answering(j)' PROVE entry'[j] = Finished
  <2>1. CASE Answering(j)
    <3>1. entry[j] = Finished /\ Finished \notin Pids /\ Finished # Absent
      BY <1>2, <2>1 DEF Marks
    <3> QED
      BY <1>0, <1>1, <1>2, <3>1, OpenEntry
  <2>2. ASSUME NEW p \in Pids, FinishSolve(p), job[p] = j
        PROVE  entry'[j] = Finished
    <3>1. entry[j] = p /\ p # Absent
      BY <1>2, <2>2 DEF FinishSolve, Marks
    <3> QED
      BY <1>0, <2>2, <3>1 DEF FinishSolve, Typed, TypeOK
  <2> QED
    BY <1>0, <1>4, <2>1, <2>2, AnsweringSteps
<1>5. ASSUME wid' = j PROVE entry'[j] \in Pids /\ Stopped(entry[j])'
  <2>1. CASE wid = j /\ ~WatchReport
    <3>1. PICK p \in Pids : entry[j] = p /\ Stopped(p)
      BY <1>2, <2>1
    <3>2. Stopped(p)'
      BY <1>0, <3>1, HeldSteps
    <3>3. ~FinishSolve(p)
      BY <3>1 DEF FinishSolve, Stopped
    <3>4. entry'[j] = p
      BY <1>0, <1>1, <2>1, <3>1, <3>3, OpenEntry DEF Marks
    <3> QED
      BY <3>2, <3>4 DEF Stopped
  <2>2. CASE WatchFind
    <3>1. PICK p \in wtodo :
             wid' \in IF JobsOf(p) = {} THEN {None} ELSE JobsOf(p)
      BY <2>2 DEF WatchFind
    <3>2. entry[j] = p
      BY <1>5, <3>1 DEF JobsOf
    <3>3. p \in Pids /\ Stopped(p)
      BY <1>0, <3>1 DEF SlotInv, Typed, TypeOK
    <3> QED
      BY <2>2, <3>2, <3>3 DEF WatchFind, solverVars, Stopped
  <2>3. CASE wid' # wid \/ WatchReport
    BY <1>5, <2>2, <2>3, WidSteps DEF WatchReport
  <2> QED
    BY <1>5, <2>1, <2>3
<1> QED
  BY <1>3, <1>4, <1>5

\* Only the client of a job changes its result before a handler does.
LEMMA SavedSteps ==
  ASSUME [Next]_vars
  PROVE  \/ UNCHANGED <<post, saved>>
         \/ \E j \in Jobs : \/ Register(j) \/ RejectUnknownCache(j)
                            \/ RejectAfterRegister(j) \/ Enqueue(j)
                            \/ Unregister(j)
BY Zenon DEF Next, ClientStep, AbortById, AbortAll, AbortStep,
   AbortNext, AbortWalked, AbortValue, AbortMark, AbortStop, AbortDelete,
   AbortReturn, ResultStep, ResultPick, ResultSet, ResultWarm, ResultDelete,
   SolverStep, StartRead, GetJob, GetTimeout, Claim, FinishSolve, Respond,
   Skip, Crash, WatchStep, WatchAbort, WatchKeyError, WatchScan, WatchFind,
   WatchReport, WatchRestart, vars, resultVars

\* What handlers stop is what they have aborted.
LEMMA StopStep ==
  ASSUME Typed, AnswerInv, [Next]_vars, NEW h \in Handlers,
         NEW i \in 1..Len(hstop'[h])
  PROVE  hstop'[h][i][2] \in aborted'
<1>0. aborted \subseteq aborted'
  BY ResultSteps DEF AbortMark, ResultSet
<1>1. hstop[h] \in Seq(Pids \X Jobs)
  BY DEF Typed, TypeOK
<1>2. ASSUME NEW k \in 1..Len(hstop[h]), hstop'[h][i] = hstop[h][k]
      PROVE  hstop'[h][i][2] \in aborted'
  BY <1>0, <1>2 DEF AnswerInv, DoneInv
<1>3. CASE hstop'[h] = hstop[h]
  BY <1>2, <1>3
<1>4. ASSUME NEW g \in Handlers, AbortMark(g), hstop'[h] # hstop[h]
      PROVE  hstop'[h][i][2] \in aborted'
  <2>1. /\ hid[h] \in aborted' /\ hid[h] \in Jobs /\ hvalue[h] \in Pids
        /\ hstop'[h] = Append(hstop[h], <<hvalue[h], hid[h]>>)
    BY <1>4 DEF AbortMark, Typed, TypeOK, HoldsJob
  <2>2. /\ Len(hstop'[h]) = Len(hstop[h]) + 1 /\ Len(hstop[h]) \in Nat
        /\ \A k \in 1..Len(hstop[h]) : hstop'[h][k] = hstop[h][k]
        /\ hstop'[h][Len(hstop[h]) + 1] = <<hvalue[h], hid[h]>>
    BY <1>1, <2>1, AppendElements
  <2>3. CASE i = Len(hstop[h]) + 1
    BY <2>1, <2>2, <2>3
  <2>4. CASE i # Len(hstop[h]) + 1
    BY <1>2, <2>2, <2>4
  <2> QED
    BY <2>3, <2>4
<1>5. ASSUME NEW g \in Handlers, AbortDelete(g), hstop'[h] # hstop[h]
      PROVE  hstop'[h][i][2] \in aborted'
  <2>1. hstop'[h] = Tail(hstop[h]) /\ hstop[h] # <<>>
    BY <1>5 DEF AbortDelete, Typed, TypeOK, HoldsJob
  <2>2. hstop'[h][i] = hstop[h][i + 1] /\ i + 1 \in 1..Len(hstop[h])
    BY <1>1, <2>1, TailElements
  <2> QED
    BY <1>2, <2>2
<1> QED
  BY <1>3, <1>4, <1>5, HandlerSteps DEF AbortStep, AbortNext, AbortWalked,
     AbortValue, AbortStop, AbortReturn, AbortAll, AbortById

\* Every step keeps DoneInv: what is done is in the end answered for.
LEMMA DoneStep ==
  ASSUME InductiveInvariant, AnswerInv, [Next]_vars
  PROVE  DoneInv'
<1> USE ConstantsAssumption
<1>0. Typed /\ QueueInv /\ FreshInv /\ LockInv /\ DoneInv /\ OwnerInv
  BY DEF InductiveInvariant, AnswerInv
<1>1. done \subseteq done'
  BY ResultSteps DEF AbortMark, ResultSet
<1>2. ASSUME NEW h \in Handlers, NEW i \in 1..Len(hstop'[h])
      PROVE  hstop'[h][i][2] \in aborted'
  BY <1>0, StopStep
<1>3. ASSUME NEW j \in Jobs, j \notin saved'
      PROVE  post'[j] # "registered" /\ (post'[j] = "sent" => j \in done')
  <2>1. CASE UNCHANGED <<post, saved>>
    BY <1>0, <1>1, <1>3, <2>1 DEF DoneInv
  <2>2. ASSUME NEW k \in Jobs,
               \/ Register(k) \/ RejectUnknownCache(k)
               \/ RejectAfterRegister(k) \/ Enqueue(k)
        PROVE  post'[j] # "registered" /\ (post'[j] = "sent" => j \in done')
    BY <1>0, <1>3, <2>2, SMTT(30) DEF Register, RejectUnknownCache,
       RejectAfterRegister, Enqueue, DoneInv, Typed, TypeOK, resultVars
  <2>3. ASSUME NEW k \in Jobs, Unregister(k)
        PROVE  post'[j] # "registered" /\ (post'[j] = "sent" => j \in done')
    BY <1>0, <1>3, <2>3 DEF Unregister, DoneInv
  <2> QED
    BY <2>1, <2>2, <2>3, SavedSteps
<1>4. ASSUME rpc' \in {"warm", "delete"} PROVE rmsg'.id \in done' \cup {None}
  <2>1. CASE UNCHANGED <<rpc, rmsg>>
    BY <1>0, <1>1, <1>4, <2>1 DEF DoneInv
  <2>2. CASE ResultSet \/ ResultWarm \/ ResultDelete
    BY <1>0, <1>1, <1>4, <2>2 DEF ResultSet, ResultWarm, ResultDelete, DoneInv
  <2>3. CASE ResultPick
    <3>1. /\ resq \in Seq(Message) /\ resq # <<>> /\ rmsg' = Head(resq)
          /\ ~Waiting(Head(resq).id) /\ done' = done
      BY <1>4, <2>3
         DEF ResultPick, Typed, TypeOK, resultVars, InductiveInvariant
    <3>2. 1 \in 1..Len(resq) /\ Head(resq) = resq[1] /\ Head(resq) \in Message
      BY <3>1, TailElements
    <3> SUFFICES ASSUME rmsg'.id \in Jobs \ saved PROVE rmsg'.id \in done
      BY <3>1, <3>2 DEF Waiting, Message
    <3>3. InTransit(rmsg'.id)
      BY <3>1, <3>2 DEF InTransit
    <3>4. post[rmsg'.id] = "sent"
      BY <1>0, <3>3 DEF FreshInv, Fresh
    <3> QED
      BY <1>0, <3>4 DEF DoneInv
  <2> QED
    BY <2>1, <2>2, <2>3, ResponseSteps
    DEF ResultStep, WatchReport, Skip, Respond, receiverVars
<1>5. ASSUME rpc' = "set", rmsg'.ans = "answer"
      PROVE  /\ rmsg'.id \notin done'
             /\ \A h \in Handlers : hpc'[h] = "mark" => hid'[h] # rmsg'.id
  <2>1. CASE ResultPick
    <3>1. Waiting(rmsg'.id) /\ lock = None /\ UNCHANGED <<done, hpc, hid>>
      BY <1>5, <2>1 DEF ResultPick, resultVars, handlerVars
    <3> QED
      BY <1>0, <3>1 DEF Waiting, LockInv
  <2>2. CASE UNCHANGED <<rpc, rmsg>>
    <3> DEFINE j == rmsg.id
    <3>1. /\ rpc = "set" /\ rmsg.ans = "answer" /\ rmsg' = rmsg
          /\ j \in Jobs /\ j \notin done
          /\ \A h \in Handlers : hpc[h] = "mark" => hid[h] # j
      BY <1>0, <1>5, <2>2 DEF DoneInv, Typed, HoldsJob
    <3>2. entry[j] = Finished
      BY <1>0, <3>1 DEF OwnerInv, Answering
    <3> HIDE DEF j
    <3>3. j \notin done'
      BY <1>5, <3>1, ResultSteps DEF AbortMark, ResultSet
    <3>4. ASSUME NEW h \in Handlers, hpc'[h] = "mark" PROVE hid'[h] # j
      <4>1. AbortValue(h) => hid'[h] # j
        BY <1>0, <3>2, <3>4, Lookup DEF Marks
      <4> QED
        BY <1>0, <3>1, <3>4, <4>1, MarkSteps
    <3> QED
      BY <3>1, <3>3, <3>4 DEF j
  <2> QED
    BY <1>5, <2>1, <2>2, ResponseSteps DEF ResultStep, ResultSet, ResultWarm,
       ResultDelete, WatchReport, Skip, Respond, receiverVars
<1> QED
  BY <1>2, <1>3, <1>4, <1>5 DEF DoneInv

\* Every step keeps AbortedResult: no answer comes after the one that said
\* aborted.
LEMMA AbortedStep ==
  ASSUME InductiveInvariant, AnswerInv, [Next]_vars
  PROVE  AbortedResult'
<1>0. Typed /\ AbortInv /\ DoneInv /\ AbortedResult
  BY DEF InductiveInvariant, AnswerInv
<1>1. CASE UNCHANGED <<done, aborted, result>>
  BY <1>0, <1>1 DEF AbortedResult
<1>2. ASSUME NEW h \in Handlers, AbortMark(h) PROVE AbortedResult'
  <2>1. /\ aborted' = aborted \cup {hid[h]} /\ done' = done \cup {hid[h]}
        /\ result' = [result EXCEPT ![hid[h]] = "aborted"]
        /\ aborted \subseteq Jobs /\ hid[h] \in Jobs
    BY <1>0, <1>2 DEF AbortMark, Typed, TypeOK, HoldsJob
  <2> QED
    BY <1>0, <2>1 DEF AbortedResult, Typed, TypeOK
<1>3. CASE ResultSet
  <2>1. /\ aborted' = aborted /\ done' = done \cup {rmsg.id}
        /\ result' = [result EXCEPT ![rmsg.id] = rmsg.ans]
        /\ aborted \subseteq Jobs /\ rmsg.id \in Jobs
    BY <1>0, <1>3 DEF ResultSet, Typed, TypeOK, HoldsJob
  <2>2. rmsg.ans = "aborted" \/ rmsg.id \notin aborted
    BY <1>0, <1>3 DEF ResultSet, AbortInv, DoneInv, AbortedResult, Typed,
       TypeOK, Message, Answers
  <2> QED
    BY <1>0, <2>1, <2>2 DEF AbortedResult, Typed, TypeOK
<1> QED
  BY <1>1, <1>2, <1>3, ResultSteps

\* The invariants of the server and of who completes a result hold.
LEMMA AnswersHold == Spec => [](InductiveInvariant /\ AnswerInv)
<1>1. Init => AnswerInv
  BY InitAnswer
<1>2. InductiveInvariant /\ AnswerInv /\ [Next]_vars => AnswerInv'
  BY OwnerStep, DoneStep, AbortedStep DEF AnswerInv
<1> QED
  BY <1>1, <1>2, InductiveInvariantHolds, PTL DEF Spec

\* A job whose result says "aborted" stays aborted, whatever was still
\* running, in transit or restarted when it was aborted (set_aborted against
\* SolverBinaryResponse.process, abort_by_pid and FinishSolve's update).
THEOREM AbortedStays == Spec => []AbortedResult
<1>1. AnswerInv => AbortedResult
  BY DEF AnswerInv
<1> QED
  BY <1>1, AnswersHold, PTL

-----------------------------------------------------------------------------
(* Every entry has an owner, when running jobs are not aborted.           *)

\* No DELETE request asks for running jobs: it cannot be said of the code
\* that entries have owners otherwise, because the process of a job may be
\* stopped when it has taken another one.
NotRunning == \A f \in AbortFlags : ~f.running

\* A handler works on its request until it returns.
LEMMA FlagSteps ==
  ASSUME Typed, [Next]_vars, NEW h \in Handlers
  PROVE  hreq'[h] = hreq[h] \/ hreq'[h].flags \in AbortFlags
         \/ hreq'[h] = NoRequest
<1>1. ASSUME NEW g \in Handlers, NEW f \in AbortFlags,
             AbortAll(g, f) \/ \E j \in Jobs : AbortById(g, j, f)
      PROVE  hreq'[h] = hreq[h] \/ hreq'[h].flags \in AbortFlags
  <2>1. \E a \in BOOLEAN : hreq' = [hreq EXCEPT ![g] = [all |-> a, flags |-> f]]
    BY <1>1 DEF AbortAll, AbortById
  <2> QED
    BY <2>1 DEF Typed, TypeOK
<1>2. ASSUME NEW g \in Handlers, AbortStep(g)
      PROVE  hreq'[h] = hreq[h] \/ hreq'[h] = NoRequest
  BY <1>2 DEF AbortStep, AbortNext, AbortWalked, AbortValue, AbortMark,
     AbortStop, AbortDelete, AbortReturn, Typed, TypeOK
<1>3. \/ hreq' = hreq
      \/ \E g \in Handlers, f \in AbortFlags :
           AbortAll(g, f) \/ \E j \in Jobs : AbortById(g, j, f)
      \/ \E g \in Handlers : AbortStep(g)
  BY Zenon DEF Next, ClientStep, Register, RejectUnknownCache,
     RejectAfterRegister, Enqueue, Unregister, ResultStep, ResultPick,
     ResultSet, ResultWarm, ResultDelete, SolverStep, StartRead, GetJob,
     GetTimeout, Claim, FinishSolve, Respond, Skip, Crash, WatchStep,
     WatchAbort, WatchKeyError, WatchScan, WatchFind, WatchReport,
     WatchRestart, vars, handlerVars
<1> QED
  BY <1>1, <1>2, <1>3

\* Without a DELETE of running jobs, nobody asks the watcher to stop a process.
LEMMA NoStopStep ==
  ASSUME NotRunning, Typed, NoStopInv, [Next]_vars
  PROVE  NoStopInv'
<1> USE ConstantsAssumption
<1>1. abortq' = <<>>
  <2>1. \/ abortq' = abortq \/ WatchAbort \/ WatchKeyError
        \/ \E h \in Handlers : AbortStop(h)
    BY Zenon DEF Next, ClientStep, Register, RejectUnknownCache,
       RejectAfterRegister, Enqueue, Unregister, AbortById, AbortAll,
       AbortStep, AbortNext, AbortWalked, AbortValue, AbortMark, AbortDelete,
       AbortReturn, ResultStep, ResultPick, ResultSet, ResultWarm,
       ResultDelete, SolverStep, StartRead, GetJob, GetTimeout, Claim,
       FinishSolve, Respond, Skip, Crash, WatchStep, WatchScan, WatchFind,
       WatchReport, WatchRestart, vars, queueVars
  <2> QED
    BY <2>1 DEF NoStopInv, WatchAbort, WatchKeyError, AbortStop
<1> SUFFICES ASSUME NEW h \in Handlers
             PROVE  /\ hstop'[h] = <<>> /\ ~hreq'[h].flags.running
                    /\ hpc'[h] = "mark" => hvalue'[h] = Absent
  BY <1>1 DEF NoStopInv
<1>2. ~hreq'[h].flags.running
  BY FlagSteps DEF NoStopInv, NotRunning, NoRequest
<1>3. ASSUME hpc'[h] = "mark" PROVE hvalue'[h] = Absent
  <2>1. CASE AbortValue(h)
    <3>1. /\ hvalue'[h] = entry[hid[h]]
          /\ ToBeAborted(entry[hid[h]], hreq[h].flags)
      BY <1>3, <2>1 DEF AbortValue, Typed, TypeOK
    <3> QED
      BY <3>1 DEF ToBeAborted, NoStopInv
  <2> QED
    BY <1>3, <2>1, MarkSteps DEF NoStopInv
<1>4. hstop'[h] = <<>>
  <2>1. ASSUME NEW g \in Handlers, AbortMark(g) PROVE hstop' = hstop
    BY <2>1 DEF AbortMark, NoStopInv, Marks
  <2>2. ASSUME NEW g \in Handlers PROVE ~AbortDelete(g)
    BY DEF AbortDelete, NoStopInv, Typed, HoldsJob
  <2> QED
    BY <2>1, <2>2, HandlerSteps DEF NoStopInv, AbortStep, AbortNext,
       AbortWalked, AbortValue, AbortStop, AbortReturn, AbortAll, AbortById
<1> QED
  BY <1>2, <1>3, <1>4

\* A process leaves s_procs when it is replaced.
LEMMA ProcsSteps ==
  ASSUME [Next]_vars, abortq = <<>>
  PROVE  procs' = procs \/ WatchRestart
BY Zenon DEF Next, ClientStep, Register, RejectUnknownCache,
   RejectAfterRegister, Enqueue, Unregister, AbortById, AbortAll, AbortStep,
   AbortNext, AbortWalked, AbortValue, AbortMark, AbortStop, AbortDelete,
   AbortReturn, ResultStep, ResultPick, ResultSet, ResultWarm, ResultDelete,
   SolverStep, StartRead, GetJob, GetTimeout, Claim, FinishSolve, Respond,
   Skip, Crash, WatchStep, WatchAbort, WatchKeyError, WatchScan, WatchFind,
   WatchReport, vars, procVars

\* Only the watcher changes what it is at.
LEMMA WatchVarsSteps ==
  ASSUME [Next]_vars
  PROVE  UNCHANGED watchVars \/ WatchStep
BY Zenon DEF Next, ClientStep, Register, RejectUnknownCache,
   RejectAfterRegister, Enqueue, Unregister, AbortById, AbortAll, AbortStep,
   AbortNext, AbortWalked, AbortValue, AbortMark, AbortStop, AbortDelete,
   AbortReturn, ResultStep, ResultPick, ResultSet, ResultWarm, ResultDelete,
   SolverStep, StartRead, GetJob, GetTimeout, Claim, FinishSolve, Respond,
   Skip, Crash, vars

\* Every step keeps WatchInv: the watcher reports the job of a process that is
\* gone, or one that is completed.
LEMMA WatchInvStep ==
  ASSUME InductiveInvariant, NoStopInv, WatchInv, [Next]_vars
  PROVE  WatchInv'
<1> USE ConstantsAssumption
<1>0. Typed /\ SlotInv /\ FreshInv /\ abortq = <<>>
  BY DEF InductiveInvariant, NoStopInv
<1>1. ASSUME NEW p \in Pids, Claim(p)
      PROVE  /\ p \in procs /\ p \notin wgone /\ p \notin wtodo
             /\ UNCHANGED <<procs, watchVars, job>> /\ pc'[p] = "solving"
  BY <1>0, <1>1 DEF Claim, SlotInv, Stopped, procVars, Typed, TypeOK
\* An entry that named a process before the step.
<1>2. ASSUME NEW j \in Jobs, NEW p \in Pids, entry[j] = p, entry'[j] = p
      PROVE  /\ p \in procs' /\ job'[p] = j
             /\ pc'[p] = "solving" \/ Stopped(p)'
  <2>1. /\ p \in procs /\ job[p] = j
        /\ pc[p] = "solving" \/ Stopped(p)
    BY <1>2 DEF WatchInv
  <2>2. ~FinishSolve(p)
    BY <1>0, <1>2, <2>1 DEF FinishSolve, Typed, TypeOK, Marks
  <2>3. job'[p] = j /\ (pc'[p] = "solving" \/ Stopped(p)')
    BY <1>0, <2>1, <2>2, HeldSteps
  <2>4. p \in procs'
    <3>1. CASE WatchRestart
      <4>1. PICK q \in wgone : procs' = (procs \ {q}) \cup {nextpid}
        BY <3>1 DEF WatchRestart, Replace
      <4>2. p # q
        BY <1>2, <4>1 DEF WatchInv, JobsOf
      <4> QED
        BY <2>1, <4>1, <4>2
    <3> QED
      BY <1>0, <2>1, <3>1, ProcsSteps
  <2> QED
    BY <2>3, <2>4
<1>3. ASSUME NEW j \in Jobs, NEW p \in Pids, entry'[j] = p
      PROVE  /\ p \in procs' /\ job'[p] = j
             /\ pc'[p] = "solving" \/ Stopped(p)'
  <2>1. CASE Claim(p) /\ job[p] = j
    BY <1>1, <2>1
  <2> QED
    BY <1>0, <1>2, <1>3, <2>1, PidEntry
<1>4. ASSUME NEW p \in Pids, p \in wgone \/ p \in wtodo
      PROVE  \A j \in Jobs : entry'[j] = p => entry[j] = p
  BY <1>0, <1>1, <1>4, PidEntry
<1>5. wgone \subseteq Pids /\ wtodo \subseteq Pids
  BY <1>0 DEF Typed, TypeOK
<1>6. ASSUME NEW p \in wgone' PROVE JobsOf(p)' = {}
  <2>1. CASE p \in wgone
    BY <1>4, <1>5, <2>1 DEF WatchInv, JobsOf
  <2>2. CASE WatchReport /\ p = wpid
    <3>1. JobsOf(p) \subseteq {wid} /\ entry' = ListWithout(wid) /\ p \in Pids
      BY <1>0, <2>2 DEF WatchInv, WatchReport, SlotInv, Typed, TypeOK, HoldsJob
    <3> SUFFICES ASSUME NEW j \in Jobs, entry'[j] = p PROVE FALSE
      BY DEF JobsOf
    <3> QED
      BY <3>1 DEF ListWithout, JobsOf, Marks
  <2>3. wgone' \subseteq wgone \/ (WatchReport /\ wgone' = wgone \cup {wpid})
    BY WatchVarsSteps DEF watchVars, WatchStep, WatchAbort, WatchKeyError,
       WatchScan, WatchFind, WatchReport, WatchRestart
  <2> QED
    BY <2>1, <2>2, <2>3
<1>7. ASSUME wpc' = "report" PROVE JobsOf(wpid)' \subseteq {wid'}
  <2>1. CASE UNCHANGED watchVars
    <3>1. JobsOf(wpid) \subseteq {wid} /\ wpid \in wtodo /\ wpid \in Pids
          /\ UNCHANGED <<wpid, wid>>
      BY <1>0, <1>7, <2>1 DEF WatchInv, watchVars, SlotInv, Typed, HoldsJob
    <3> SUFFICES ASSUME NEW j \in Jobs, entry'[j] = wpid PROVE j = wid
      BY <3>1 DEF JobsOf
    <3> QED
      BY <1>4, <3>1 DEF JobsOf
  <2>2. CASE WatchFind
    <3>1. PICK p \in wtodo :
             /\ wpid' = p
             /\ wid' \in IF JobsOf(p) = {} THEN {None} ELSE JobsOf(p)
      BY <2>2 DEF WatchFind
    <3>2. \A j \in JobsOf(p) : j = job[p]
      BY <1>5, <3>1 DEF WatchInv, JobsOf
    <3>3. entry' = entry
      BY <2>2 DEF WatchFind
    <3> SUFFICES ASSUME NEW j \in Jobs, entry[j] = p PROVE j = wid'
      BY <3>1, <3>3 DEF JobsOf
    <3>4. j \in JobsOf(p)
      BY DEF JobsOf
    <3> QED
      BY <3>1, <3>2, <3>4
  <2> QED
    BY <1>7, <2>1, <2>2, WatchVarsSteps DEF WatchStep, WatchAbort,
       WatchKeyError, WatchScan, WatchReport, WatchRestart
<1> QED
  BY <1>3, <1>6, <1>7 DEF WatchInv, Stopped

\* Every step keeps FinishedInTransit: a job that is finished has its answer on
\* the way or delivered.
LEMMA TransitStep ==
  ASSUME InductiveInvariant, NoStopInv, FinishedInTransit, [Next]_vars,
         "marked" \notin CrashPoints
  PROVE  FinishedInTransit'
<1> USE ConstantsAssumption
<1>0. Typed /\ SlotInv /\ resq \in Seq(Message)
  BY DEF InductiveInvariant, Typed, TypeOK
<1> SUFFICES ASSUME NEW j \in Jobs, entry'[j] = Finished
             PROVE  \/ InTransit(j)'
                    \/ \E p \in Pids : pc'[p] = "marked" /\ job'[p] = j
  BY DEF FinishedInTransit
<1>1. ASSUME NEW p \in Pids, FinishSolve(p), job[p] = j
      PROVE  pc'[p] = "marked" /\ job'[p] = j
  BY <1>0, <1>1 DEF FinishSolve, Typed, TypeOK
<1>2. entry[j] = Finished \/ \E p \in Pids : FinishSolve(p) /\ job[p] = j
  <2>1. ASSUME NEW h \in Handlers, AbortValue(h) PROVE entry[j] = Finished
    BY <1>0, <2>1, Lookup
  <2>2. ASSUME NEW id, entry' = ListWithout(id) PROVE entry[j] = Finished
    BY <2>2 DEF ListWithout
  <2>3. ASSUME NEW p \in Pids, Claim(p) PROVE entry[j] = Finished
    BY <1>0, <2>3 DEF Claim, Typed, TypeOK, Marks
  <2>4. ASSUME NEW p \in Pids, FinishSolve(p), job[p] # j
        PROVE  entry[j] = Finished
    BY <1>0, <2>4 DEF FinishSolve, Typed, TypeOK
  <2> QED
    BY <2>1, <2>2, <2>3, <2>4, EntrySteps
    DEF AbortDelete, ResultDelete, WatchReport
<1> SUFFICES ASSUME entry[j] = Finished
             PROVE  \/ InTransit(j)'
                    \/ \E p \in Pids : pc'[p] = "marked" /\ job'[p] = j
  BY <1>1, <1>2
<1>3. ASSUME NEW p \in Pids, Respond(p), job[p] = j PROVE InTransit(j)'
  <2>1. resq' = Append(resq, [id |-> j, ans |-> "answer"])
        /\ [id |-> j, ans |-> "answer"] \in Message
    BY <1>3 DEF Respond, Message, Answers
  <2>2. /\ Len(resq') = Len(resq) + 1 /\ Len(resq) \in Nat
        /\ resq'[Len(resq) + 1].id = j
    BY <1>0, <2>1, AppendElements
  <2> QED
    BY <2>2 DEF InTransit
<1>4. ASSUME NEW p \in Pids, pc[p] = "marked", job[p] = j,
             ~(pc'[p] = "marked" /\ job'[p] = j)
      PROVE  Respond(p)
  <2>1. ASSUME NEW q \in Pids, q # p, SolverStep(q) \/ Crash(q)
        PROVE  job'[p] = job[p] /\ pc'[p] = pc[p]
    <3>1. /\ \E s : pc' = [pc EXCEPT ![q] = s]
          /\ \E s : job' = [job EXCEPT ![q] = s] \/ job' = job
      BY <2>1 DEF SolverStep, StartRead, GetJob, GetTimeout, Claim, Skip,
         FinishSolve, Respond, Crash
    <3> QED
      BY <1>0, <2>1, <3>1, SMTT(30) DEF Typed, TypeOK
  <2>2. CASE SolverStep(p) \/ Crash(p)
    BY <1>4, <2>2 DEF SolverStep, StartRead, GetJob, GetTimeout, Claim, Skip,
       FinishSolve, Crash
  <2>3. ~WatchAbort
    BY DEF WatchAbort, NoStopInv
  <2>4. CASE WatchRestart
    <3>1. p # nextpid
      BY <1>0, <1>4 DEF SlotInv, Typed, TypeOK, Pids
    <3> QED
      BY <1>0, <1>4, <2>4, <3>1 DEF WatchRestart, Typed, TypeOK
  <2>5. \/ UNCHANGED <<pc, job>> \/ WatchAbort \/ WatchRestart
        \/ \E q \in Pids : SolverStep(q) \/ Crash(q)
    BY Zenon DEF Next, ClientStep, Register, RejectUnknownCache,
       RejectAfterRegister, Enqueue, Unregister, AbortById, AbortAll,
       AbortStep, AbortNext, AbortWalked, AbortValue, AbortMark, AbortStop,
       AbortDelete, AbortReturn, ResultStep, ResultPick, ResultSet,
       ResultWarm, ResultDelete, WatchStep, WatchKeyError, WatchScan,
       WatchFind, WatchReport, vars, solverVars
  <2> QED
    BY <1>4, <2>1, <2>2, <2>3, <2>4, <2>5
<1>5. ASSUME InTransit(j) PROVE InTransit(j)'
  <2>1. CASE UNCHANGED <<resq, rpc, rmsg>>
    BY <1>5, <2>1 DEF InTransit
  <2>2. ASSUME NEW m \in Message,
               resq' = Append(resq, m), UNCHANGED receiverVars
        PROVE  InTransit(j)'
    <3>1. /\ Len(resq') = Len(resq) + 1 /\ Len(resq) \in Nat
          /\ \A k \in 1..Len(resq) : resq'[k] = resq[k]
      BY <1>0, <2>2, AppendElements
    <3> QED
      BY <1>5, <2>2, <3>1 DEF InTransit, receiverVars
  <2>3. ASSUME NEW p \in Pids, Skip(p) \/ Respond(p) PROVE InTransit(j)'
    <3>1. job[p] \in Jobs
      BY <1>0, <2>3 DEF Skip, Respond, Typed, HoldsJob
    <3>2. \E a \in Answers : resq' = Append(resq, [id |-> job[p], ans |-> a])
                             /\ UNCHANGED receiverVars
      BY <2>3 DEF Skip, Respond, Answers
    <3> QED
      BY <2>2, <3>1, <3>2 DEF Message
  <2>4. CASE WatchReport
    <3>1. [id |-> wid, ans |-> "aborted"] \in Message
      BY <1>0 DEF Typed, TypeOK, Message, Answers
    <3> QED
      BY <2>2, <2>4, <3>1 DEF WatchReport
  <2>5. CASE ResultPick
    <3>1. /\ resq # <<>> /\ resq' = Tail(resq) /\ rmsg' = Head(resq)
          /\ rpc = "get" /\ rpc' # "get"
      BY <2>5 DEF ResultPick
    <3>2. /\ Len(resq) \in Nat \ {0} /\ Head(resq) = resq[1]
          /\ Len(resq') = Len(resq) - 1
          /\ \A k \in 1..Len(resq') : resq'[k] = resq[k + 1]
      BY <1>0, <3>1, TailElements
    <3>3. PICK i \in 1..Len(resq) : resq[i].id = j
      BY <1>5, <3>1 DEF InTransit
    <3>4. CASE i = 1
      BY <3>1, <3>2, <3>3, <3>4 DEF InTransit
    <3>5. CASE i # 1
      <4>1. i - 1 \in 1..Len(resq') /\ (i - 1) + 1 = i
        BY <3>2, <3>3, <3>5
      <4>2. resq'[i - 1].id = j
        BY <3>2, <3>3, <4>1
      <4> QED
        BY <4>1, <4>2 DEF InTransit
    <3> QED
      BY <3>4, <3>5
  <2>6. CASE ResultSet \/ ResultWarm
    BY <1>5, <2>6 DEF ResultSet, ResultWarm, InTransit, queueVars
  <2>7. CASE ResultDelete
    BY <1>5, <2>7 DEF ResultDelete, InTransit, queueVars, ListWithout
  <2> QED
    BY <2>1, <2>3, <2>4, <2>5, <2>6, <2>7, ResponseSteps DEF ResultStep
<1> QED
  BY <1>3, <1>4, <1>5 DEF FinishedInTransit

\* Every entry of the abort list has an owner that will complete its job or
\* has answered it, as long as no client aborts running jobs and no process
\* ends between update(id) and the put of its response (add_id_or_return,
\* update, find_job_by_pid and delete of the abort list).
THEOREM EntriesOwned ==
  ASSUME NotRunning, "marked" \notin CrashPoints
  PROVE  Spec => []EntryHasOwner
<1> DEFINE Owned == NoStopInv /\ WatchInv /\ FinishedInTransit
<1>1. Init => Owned
  <2> SUFFICES ASSUME Init PROVE Owned
    OBVIOUS
  <2>1. /\ abortq = <<>> /\ wgone = {} /\ wpc = "get"
        /\ \A h \in Handlers : /\ hstop[h] = <<>> /\ hreq[h] = NoRequest
                               /\ hpc[h] = "ready"
        /\ \A j \in Jobs : entry[j] = Absent
    BY DEF Init
  <2> QED
    BY <2>1, ConstantsAssumption
    DEF NoStopInv, WatchInv, FinishedInTransit, NoRequest, Marks
<1>2. InductiveInvariant /\ Owned /\ [Next]_vars => Owned'
  BY NoStopStep, WatchInvStep, TransitStep DEF InductiveInvariant
<1>3. Owned => EntryHasOwner
  BY DEF EntryHasOwner, EntryIsWatched, WatchInv
<1> QED
  BY <1>1, <1>2, <1>3, InductiveInvariantHolds, PTL DEF Spec

-----------------------------------------------------------------------------
(* The server implements JobLifecycle, when queued jobs are not aborted.   *)

\* No DELETE request asks for queued jobs: an abort of a queued job that
\* finds no entry may be late, and replace an answer.
NotQueued == \A f \in AbortFlags : ~f.queued

\* ViewInv holds at the start.
LEMMA InitView == Init => ViewInv
<1> SUFFICES ASSUME Init PROVE ViewInv
  OBVIOUS
<1>1. /\ \A h \in Handlers : hreq[h] = NoRequest /\ hpc[h] = "ready"
      /\ done = {} /\ rpc = "get"
  BY DEF Init
<1> QED
  BY <1>1 DEF ViewInv, NoRequest

\* Every step keeps ViewInv.
LEMMA ViewStep ==
  ASSUME NotQueued, InductiveInvariant, AnswerInv, ViewInv, [Next]_vars
  PROVE  ViewInv'
<1> USE ConstantsAssumption
<1>0. Typed /\ QueueInv /\ FreshInv /\ OwnerInv /\ DoneInv
  BY DEF InductiveInvariant, AnswerInv
<1>1. ASSUME NEW h \in Handlers
      PROVE  /\ ~hreq'[h].flags.queued
             /\ hpc'[h] = "mark" => hvalue'[h] \in Pids
  <2>1. ~hreq'[h].flags.queued
    BY <1>0, FlagSteps DEF ViewInv, NotQueued, NoRequest
  <2>2. AbortValue(h) /\ hpc'[h] = "mark" => hvalue'[h] \in Pids
    <3> SUFFICES ASSUME AbortValue(h), hpc'[h] = "mark"
                 PROVE  hvalue'[h] \in Pids
      OBVIOUS
    <3>1. /\ hvalue'[h] = entry[hid[h]]
          /\ ToBeAborted(entry[hid[h]], hreq[h].flags)
      BY <1>0 DEF AbortValue, Typed, TypeOK
    <3> QED
      BY <3>1 DEF ToBeAborted, ViewInv
  <2> QED
    BY <1>0, <2>1, <2>2, MarkSteps DEF ViewInv
<1>2. ASSUME NEW h \in Handlers, AbortMark(h)
      PROVE  hid[h] \in Jobs /\ ~Fresh(hid[h])
  <2>1. hid[h] \in Jobs /\ hvalue[h] # Absent
    BY <1>0, <1>2 DEF AbortMark, Typed, HoldsJob, ViewInv, Marks
  <2> QED
    BY <1>0, <1>2, <2>1 DEF AbortMark, FreshInv, NotStopping
<1>3. CASE ResultSet
  <2>1. rmsg.id \in Jobs /\ InTransit(rmsg.id)
    BY <1>0, <1>3 DEF ResultSet, Typed, HoldsJob, InTransit
  <2>2. ~Fresh(rmsg.id)
    BY <1>0, <2>1 DEF FreshInv
  <2>3. done \subseteq Jobs /\ done' = done \cup {rmsg.id}
    BY <1>0, <1>3 DEF ResultSet, Typed, TypeOK
  <2>4. /\ UNCHANGED <<entry, hpc, hid>> /\ rpc' = "warm"
        /\ result' = [result EXCEPT ![rmsg.id] = rmsg.ans]
    BY <1>3 DEF ResultSet, handlerVars
  <2>5. ASSUME NEW j \in done' PROVE ~Fresh(j)'
    <3>1. j \in Jobs /\ ~Fresh(j)
      BY <2>1, <2>2, <2>3, <2>5 DEF ViewInv
    <3> QED
      BY <1>0, <3>1, FreshShrinks
  <2>6. ASSUME NEW j \in done', result'[j] = "answer"
        PROVE  /\ entry'[j] \notin Pids
               /\ \A h \in Handlers : hpc'[h] = "mark" => hid'[h] # j
    <3>1. CASE j = rmsg.id
      <4>1. rpc = "set" /\ rmsg.ans = "answer"
        BY <1>0, <1>3, <2>1, <2>4, <2>6, <3>1 DEF ResultSet, Typed, TypeOK
      <4>2. /\ j \in Jobs \ done /\ Answering(j)
            /\ \A h \in Handlers : hpc[h] = "mark" => hid[h] # j
        BY <1>0, <2>1, <3>1, <4>1 DEF DoneInv, Answering
      <4>3. entry[j] = Finished
        BY <1>0, <4>2 DEF OwnerInv
      <4> QED
        BY <2>4, <4>2, <4>3 DEF Marks
    <3>2. CASE j # rmsg.id
      <4>1. j \in done /\ result[j] = "answer"
        BY <1>0, <2>3, <2>4, <2>6, <3>2 DEF Typed, TypeOK
      <4> QED
        BY <2>4, <4>1 DEF ViewInv
    <3> QED
      BY <3>1, <3>2
  <2> QED
    BY <1>1, <2>4, <2>5, <2>6 DEF ViewInv
<1>4. CASE ~ResultSet
  <2>1. ASSUME NEW j \in done', result'[j] # "aborted"
        PROVE  j \in done /\ result[j] = result'[j] /\ j \in Jobs
    <3>1. ASSUME NEW h \in Handlers, AbortMark(h)
          PROVE  j \in done /\ result[j] = result'[j]
      <4>1. /\ done' = done \cup {hid[h]} /\ hid[h] \in Jobs
            /\ result' = [result EXCEPT ![hid[h]] = "aborted"]
        BY <1>0, <3>1 DEF AbortMark, Typed, HoldsJob
      <4> QED
        BY <1>0, <2>1, <4>1 DEF Typed, TypeOK
    <3> QED
      BY <1>0, <1>4, <2>1, <3>1, ResultSteps DEF Typed, TypeOK
  <2>2. ASSUME NEW j \in done' PROVE ~Fresh(j)'
    <3>1. j \in done \/ \E h \in Handlers : AbortMark(h) /\ j = hid[h]
      BY <1>4, <2>2, ResultSteps DEF AbortMark
    <3>2. ~Fresh(j) /\ j \in Jobs
      BY <1>0, <1>2, <3>1 DEF ViewInv, Typed, TypeOK
    <3> QED
      BY <1>0, <3>2, FreshShrinks
  <2>3. ASSUME rpc' = "set"
        PROVE  rmsg'.id \notin done' \/ result'[rmsg'.id] = "aborted"
    <3> SUFFICES ASSUME rmsg'.id \in done', result'[rmsg'.id] # "aborted"
                 PROVE  FALSE
      OBVIOUS
    <3>1. rmsg'.id \in done /\ result[rmsg'.id] # "aborted"
      BY <2>1
    <3>2. ~(UNCHANGED <<rpc, rmsg>>)
      BY <2>3, <3>1 DEF ViewInv
    <3>3. ~ResultPick
      BY <2>3, <3>1 DEF ResultPick, Waiting
    <3> QED
      BY <2>3, <3>2, <3>3, ResponseSteps DEF ResultStep, ResultSet, ResultWarm,
         ResultDelete, WatchReport, Skip, Respond, receiverVars
  <2>4. ASSUME NEW j \in done', result'[j] = "answer"
        PROVE  /\ entry'[j] \notin Pids
               /\ \A h \in Handlers : hpc'[h] = "mark" => hid'[h] # j
    <3>1. /\ j \in done /\ j \in Jobs /\ entry[j] \notin Pids
          /\ \A h \in Handlers : hpc[h] = "mark" => hid[h] # j
      BY <2>1, <2>4 DEF ViewInv
    <3>2. ~Fresh(j)
      BY <3>1 DEF ViewInv
    <3>3. entry'[j] \notin Pids
      BY <1>0, <3>1, <3>2, PidEntry, ClaimsFresh
    <3>4. ASSUME NEW h \in Handlers, hpc'[h] = "mark" PROVE hid'[h] # j
      <4>1. AbortValue(h) => hid'[h] # j
        BY <1>0, <1>1, <3>1, <3>4, Lookup
      <4> QED
        BY <1>0, <3>1, <3>4, <4>1, MarkSteps
    <3> QED
      BY <3>3, <3>4
  <2> QED
    BY <1>1, <2>2, <2>3, <2>4 DEF ViewInv
<1> QED
  BY <1>3, <1>4

\* What a GET of the solution of j would find.
ViewOf(j) == IF post[j] = "new" THEN "unknown"
             ELSE IF j \notin saved THEN "removed"
             ELSE IF j \in done THEN result[j] ELSE "pending"

View == [j \in Jobs |-> ViewOf(j)]

\* The view of one job at most changes in a step, as it does in JobLifecycle.
LEMMA ViewChanges ==
  ASSUME InductiveInvariant, AnswerInv, ViewInv, [Next]_vars
  PROVE  \/ \A j \in Jobs : ViewOf(j)' = ViewOf(j)
         \/ \E j \in Jobs :
              /\ \A k \in Jobs \ {j} : ViewOf(k)' = ViewOf(k)
              /\ \/ ViewOf(j) = "unknown" /\ ViewOf(j)' = "pending"
                 \/ ViewOf(j) = "pending"
                      /\ ViewOf(j)' \in {"removed", "answer", "aborted"}
                 \/ ViewOf(j) \in {"answer", "aborted"}
                      /\ ViewOf(j)' = "removed"
<1> USE ConstantsAssumption
<1>0. Typed /\ FreshInv /\ AbortInv /\ OwnerInv /\ DoneInv
  BY DEF InductiveInvariant, AnswerInv
<1>1. CASE UNCHANGED <<post, saved, done, result>>
  BY <1>1 DEF ViewOf
<1>2. ASSUME NEW j \in Jobs, Register(j)
      PROVE  /\ \A k \in Jobs \ {j} : ViewOf(k)' = ViewOf(k)
             /\ ViewOf(j) = "unknown" /\ ViewOf(j)' = "pending"
  <2>1. /\ post[j] = "new" /\ saved' = saved \cup {j}
        /\ \A k \in Jobs : post'[k] = IF k = j THEN "registered" ELSE post[k]
        /\ UNCHANGED <<done, result>>
    BY <1>0, <1>2 DEF Register, Typed, TypeOK
  <2>2. j \notin done
    BY <2>1 DEF ViewInv, Fresh
  <2> QED
    BY <2>1, <2>2 DEF ViewOf
<1>3. ASSUME NEW j \in Jobs, RejectUnknownCache(j)
      PROVE  /\ \A k \in Jobs \ {j} : ViewOf(k)' = ViewOf(k)
             /\ ViewOf(j) = "pending" /\ ViewOf(j)' = "removed"
  <2>1. /\ post[j] = "registered" /\ saved' = saved \ {j}
        /\ \A k \in Jobs : post'[k] = IF k = j THEN "failed" ELSE post[k]
        /\ UNCHANGED <<done, result>>
    BY <1>0, <1>3 DEF RejectUnknownCache, Typed, TypeOK
  <2>2. j \notin done /\ j \in saved
    BY <1>0, <2>1 DEF ViewInv, Fresh, DoneInv
  <2> QED
    BY <2>1, <2>2 DEF ViewOf
<1>4. ASSUME NEW j \in Jobs, RejectAfterRegister(j) \/ Enqueue(j)
      PROVE  \A k \in Jobs : ViewOf(k)' = ViewOf(k)
  <2>1. /\ post[j] = "registered" /\ UNCHANGED resultVars
        /\ \A k \in Jobs : k = j \/ post'[k] = post[k]
        /\ post'[j] \in {"failed", "sent"}
    BY <1>0, <1>4, SMTT(30) DEF RejectAfterRegister, Enqueue, Typed, TypeOK
  <2> QED
    BY <2>1 DEF ViewOf, resultVars
<1>5. ASSUME NEW j \in Jobs, Unregister(j)
      PROVE  /\ \A k \in Jobs \ {j} : ViewOf(k)' = ViewOf(k)
             /\ ViewOf(j) \in {"answer", "aborted"} /\ ViewOf(j)' = "removed"
  <2>1. /\ post[j] = "sent" /\ saved' = saved \ {j} /\ j \in saved \cap done
        /\ UNCHANGED <<post, done, result>>
    BY <1>5 DEF Unregister
  <2>2. result[j] \in {"answer", "aborted"}
    BY <1>0, <2>1 DEF AbortInv, NoEmptyResult, Typed, TypeOK, Answers
  <2> QED
    BY <2>1, <2>2 DEF ViewOf
<1>6. ASSUME NEW h \in Handlers, AbortMark(h)
      PROVE  \E j \in Jobs :
               /\ \A k \in Jobs \ {j} : ViewOf(k)' = ViewOf(k)
               /\ \/ ViewOf(j)' = ViewOf(j)
                  \/ ViewOf(j) = "pending" /\ ViewOf(j)' = "aborted"
  <2>1. PICK j \in Jobs : j = hid[h]
    BY <1>0, <1>6 DEF AbortMark, Typed, HoldsJob
  <2>2. /\ done' = done \cup {j} /\ UNCHANGED <<post, saved>>
        /\ \A k \in Jobs : result'[k] = IF k = j THEN "aborted" ELSE result[k]
    BY <1>0, <1>6, <2>1 DEF AbortMark, Typed, TypeOK
  <2>3. j \in done => result[j] = "aborted"
    BY <1>0, <1>6, <2>1 DEF AbortMark, ViewInv, AbortInv, NoEmptyResult, Typed,
       TypeOK, Answers
  <2> QED
    BY <2>1, <2>2, <2>3 DEF ViewOf
<1>7. ASSUME ResultSet
      PROVE  \E j \in Jobs :
               /\ \A k \in Jobs \ {j} : ViewOf(k)' = ViewOf(k)
               /\ \/ ViewOf(j)' = ViewOf(j)
                  \/ /\ ViewOf(j) = "pending"
                     /\ ViewOf(j)' \in {"answer", "aborted"}
  <2>1. PICK j \in Jobs : j = rmsg.id
    BY <1>0, <1>7 DEF ResultSet, Typed, HoldsJob
  <2>2. /\ done' = done \cup {j} /\ UNCHANGED <<post, saved>>
        /\ \A k \in Jobs : result'[k] = IF k = j THEN rmsg.ans ELSE result[k]
    BY <1>0, <1>7, <2>1 DEF ResultSet, Typed, TypeOK
  <2>3. rmsg.ans \in {"answer", "aborted"}
    BY <1>0, <1>7 DEF ResultSet, AbortInv, Typed, TypeOK, Message, Answers
  <2>4. j \in done => rmsg.ans = "aborted" /\ result[j] = "aborted"
    BY <1>0, <1>7, <2>1, <2>3 DEF ResultSet, ViewInv, DoneInv
  <2> QED
    BY <2>2, <2>3, <2>4 DEF ViewOf
<1>8. CASE UNCHANGED <<post, saved>>
  BY <1>1, <1>6, <1>7, <1>8, ResultSteps
<1> QED
  BY <1>2, <1>3, <1>4, <1>5, <1>8, SavedSteps

\* To a client the server is JobLifecycle, as long as no client aborts queued
\* jobs: one outcome for every job, which nothing replaces (the answers of
\* GET and DELETE /cuopt/solution/{id}, whatever aborts, crashes, restarts
\* and late responses do).
THEOREM Refinement ==
  ASSUME NotQueued
  PROVE  Spec => ImplementsLifecycle
<1>1. Init => Lifecycle!Init
  BY DEF Init, Lifecycle!Init
<1>2. ASSUME InductiveInvariant, AnswerInv, ViewInv, [Next]_vars
      PROVE  Lifecycle!Next \/ View' = View
  <2>1. CASE \A j \in Jobs : ViewOf(j)' = ViewOf(j)
    BY <2>1 DEF View
  <2>2. ASSUME NEW j \in Jobs, \A k \in Jobs \ {j} : ViewOf(k)' = ViewOf(k),
               NEW x, ViewOf(j)' = x
        PROVE  View' = [View EXCEPT ![j] = x]
    BY <2>2 DEF View
  <2>3. ASSUME NEW j \in Jobs, \A k \in Jobs \ {j} : ViewOf(k)' = ViewOf(k),
               ViewOf(j) = "unknown", ViewOf(j)' = "pending"
        PROVE  Lifecycle!Accept(j)
    <3>1. View[j] = "unknown" /\ View' = [View EXCEPT ![j] = "pending"]
      BY <2>2, <2>3 DEF View
    <3> QED
      BY <3>1 DEF Lifecycle!Accept, View, ViewOf
  <2>4. ASSUME NEW j \in Jobs, \A k \in Jobs \ {j} : ViewOf(k)' = ViewOf(k),
               ViewOf(j) = "pending", ViewOf(j)' = "removed"
        PROVE  Lifecycle!Refuse(j)
    <3>1. View[j] = "pending" /\ View' = [View EXCEPT ![j] = "removed"]
      BY <2>2, <2>4 DEF View
    <3> QED
      BY <3>1 DEF Lifecycle!Refuse, View, ViewOf
  <2>5. ASSUME NEW j \in Jobs, \A k \in Jobs \ {j} : ViewOf(k)' = ViewOf(k),
               ViewOf(j) = "pending", NEW o \in {"answer", "aborted"},
               ViewOf(j)' = o
        PROVE  Lifecycle!Settle(j)
    <3>1. View[j] = "pending" /\ View' = [View EXCEPT ![j] = o]
      BY <2>2, <2>5 DEF View
    <3> QED
      BY <3>1 DEF Lifecycle!Settle, Lifecycle!Outcomes, View, ViewOf
  <2>6. ASSUME NEW j \in Jobs, \A k \in Jobs \ {j} : ViewOf(k)' = ViewOf(k),
               ViewOf(j) \in {"answer", "aborted"}, ViewOf(j)' = "removed"
        PROVE  Lifecycle!Remove(j)
    <3>1. View[j] \in {"answer", "aborted"}
          /\ View' = [View EXCEPT ![j] = "removed"]
      BY <2>2, <2>6 DEF View
    <3> QED
      BY <3>1 DEF Lifecycle!Remove, Lifecycle!Outcomes, View, ViewOf
  <2> QED
    BY <1>2, <2>1, <2>3, <2>4, <2>5, <2>6, ViewChanges DEF Lifecycle!Next
<1>3. InductiveInvariant /\ AnswerInv /\ ViewInv /\ [Next]_vars
        => [Lifecycle!Next]_View
  BY <1>2
<1>4. InductiveInvariant /\ AnswerInv /\ ViewInv /\ [Next]_vars => ViewInv'
  BY ViewStep
<1>5. Init => ViewInv
  BY InitView
<1> QED
  BY <1>1, <1>3, <1>4, <1>5, AnswersHold, PTL
  DEF Spec, ImplementsLifecycle, Lifecycle!Spec, View, ViewOf
=============================================================================
