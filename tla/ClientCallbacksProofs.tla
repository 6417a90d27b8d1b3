------------------------ MODULE ClientCallbacksProofs -------------------------
(***************************************************************************)
(* Theorems about ClientCallbacks, for any number of incumbents, of pieces *)
(* of the log and of faults: what reaches the client's callbacks, and what *)
(* the end marks that stop its threads are worth.                          *)
(***************************************************************************)
EXTENDS ClientCallbacks, TLAPS, SequenceTheorems

-----------------------------------------------------------------------------
(* The inductive invariant, in parts.                                      *)

\* s counts on from n.
Follows(s, n) == \A i \in DOMAIN s : s[i] = n + i

\* How many incumbents have got so far on their way.
ReadCount == Len(seen) + Len(Unread)
ListCount == ReadCount + Len(list)
QueueCount ==
  ListCount + (IF AnswerQueued THEN Len(queue) - 1 ELSE Len(queue))

\* Until a fault breaks it, the chain from the callback back to the solver
\* counts the incumbents without a gap.
ChainInv ==
  /\ Follows(seen, 0)
  /\ Follows(Unread, Len(seen))
  /\ \A i \in DOMAIN queue : queue[i] = Answer => i = Len(queue)
  /\ exists /\ ~Happened("lost") =>
       /\ Follows(list, ReadCount)
       /\ \A i \in DOMAIN queue :
            queue[i] # Answer => queue[i] = ListCount + i
       /\ QueueCount <= produced
       /\ solver # "killed" => QueueCount = produced

\* What the server and the caller know of the end of the solver: when the
\* job is done and not aborted, the solver has sent its last message.
ServerInv ==
  /\ (\E i \in DOMAIN queue : queue[i] = Answer) \/ rpc = "set"
       \/ (done /\ ~aborted) \/ complete => solver # "solving"
  /\ ~Happened("abort") =>
       /\ solver # "killed" /\ ~aborted
       /\ rpc = "set" \/ done => queue = <<>>

\* How far the caller's thread has come, and what became of the other two.
CallerInv ==
  /\ mpc = "poll" => ~complete /\ ~doneEvent
  /\ mpc \in {"delete", "deletelog", "returned"} =>
       ipc = "ended" /\ lpc = "ended"
  /\ ~exists => Happened("deletion") \/ ipc = "ended"
  /\ Happened("lost") => ipc = "ended"

EndInv ==
  /\ reply = Sentinel /\ ~Happened("abort") /\ ~Happened("lost") =>
       solver = "ended" /\ Len(seen) = produced
  /\ reply = NoSuchJob => Happened("deletion")

\* The log goes to the callback piece by piece, and after the last request
\* to its end.
LogInv ==
  /\ Follows(logSeen, 0) /\ Len(logSeen) = loggedbytes
  /\ loggedbytes <= written
  /\ IF page.found
     THEN /\ lpc \in {"receive", "lastreceive"}
          /\ loggedbytes <= page.nbytes /\ page.nbytes <= written
          /\ Len(page.pieces) = page.nbytes - loggedbytes
          /\ Follows(page.pieces, loggedbytes)
     ELSE page = NotFound
  /\ unlinked => Happened("unlink") \/ lpc = "ended"
  /\ lpc \in {"last", "lastreceive"} => doneEvent
  /\ lpc = "ended" => doneEvent \/ Happened("lostlog")
  /\ complete /\ ~Happened("unlink") =>
       /\ lpc = "lastreceive" =>
            (IF page.found THEN page.nbytes = written ELSE written = 0)
       /\ lpc = "ended" /\ ~Happened("lostlog") => loggedbytes = written

Inv == TypeOK /\ ChainInv /\ ServerInv /\ CallerInv /\ EndInv /\ LogInv

-----------------------------------------------------------------------------
(* Lemmas about sequences and faults.                                      *)

\* A sequence with one more element.
LEMMA AppendElements ==
  ASSUME NEW S, NEW s \in Seq(S), NEW x \in S
  PROVE  /\ Append(s, x) \in Seq(S) /\ Len(Append(s, x)) = Len(s) + 1
         /\ \A i \in 1..Len(s) : Append(s, x)[i] = s[i]
         /\ Append(s, x)[Len(s) + 1] = x
         /\ DOMAIN Append(s, x) = 1..(Len(s) + 1)
  OBVIOUS

\* A sequence without its first element.
LEMMA TailElements ==
  ASSUME NEW S, NEW s \in Seq(S), s # <<>>
  PROVE  /\ Len(s) \in Nat \ {0}
         /\ Head(s) = s[1] /\ Head(s) \in S
         /\ Tail(s) \in Seq(S)
         /\ Len(Tail(s)) = Len(s) - 1
         /\ DOMAIN Tail(s) = 1..(Len(s) - 1)
         /\ \A i \in 1..(Len(s) - 1) : Tail(s)[i] = s[i + 1]
  OBVIOUS

\* An initial part of a sequence.
LEMMA PrefixElements ==
  ASSUME NEW S, NEW s \in Seq(S), NEW n \in 0..Len(s)
  PROVE  /\ SubSeq(s, 1, n) \in Seq(S) /\ Len(SubSeq(s, 1, n)) = n
         /\ DOMAIN SubSeq(s, 1, n) = 1..n
         /\ \A i \in 1..n : SubSeq(s, 1, n)[i] = s[i]
  OBVIOUS

\* Two sequences that count on from one another are one that counts on.
LEMMA FollowsConcat ==
  ASSUME NEW S, NEW s \in Seq(S), NEW t \in Seq(S), NEW n \in Nat,
         S \subseteq Nat, Follows(s, n), Follows(t, n + Len(s))
  PROVE  /\ s \o t \in Seq(S) /\ Len(s \o t) = Len(s) + Len(t)
         /\ Follows(s \o t, n)
<1>1. /\ s \o t \in Seq(S) /\ Len(s \o t) = Len(s) + Len(t)
      /\ \A i \in 1..(Len(s) + Len(t)) :
           (s \o t)[i] = IF i <= Len(s) THEN s[i] ELSE t[i - Len(s)]
  BY ConcatProperties
<1>2. DOMAIN (s \o t) = 1..(Len(s) + Len(t))
  BY <1>1
<1>3. ASSUME NEW i \in 1..(Len(s) + Len(t)) PROVE (s \o t)[i] = n + i
  <2>1. CASE i <= Len(s)
    BY <1>1, <1>3, <2>1 DEF Follows
  <2>2. CASE ~(i <= Len(s))
    <3>1. i - Len(s) \in DOMAIN t
      BY <1>3, <2>2
    <3>2. t[i - Len(s)] = (n + Len(s)) + (i - Len(s))
      BY <3>1 DEF Follows
    <3> QED
      BY <1>1, <1>3, <2>2, <3>2
  <2> QED
    BY <2>1, <2>2
<1> QED
  BY <1>1, <1>2, <1>3 DEF Follows

\* A sequence that counts on from 0 is the sequence of the numbers.
LEMMA CountsFromOne ==
  ASSUME NEW S, NEW s \in Seq(S)
  PROVE  Follows(s, 0) <=> s = [i \in 1..Len(s) |-> i]
<1>1. s = [i \in 1..Len(s) |-> s[i]] /\ DOMAIN s = 1..Len(s)
      /\ Len(s) \in Nat
  OBVIOUS
<1>2. ASSUME Follows(s, 0) PROVE s = [i \in 1..Len(s) |-> i]
  <2>1. \A i \in 1..Len(s) : s[i] = i
    BY <1>1, <1>2 DEF Follows
  <2> QED
    BY <1>1, <2>1
<1>3. ASSUME s = [i \in 1..Len(s) |-> i] PROVE Follows(s, 0)
  <2>1. \A i \in 1..Len(s) : s[i] = i
    BY <1>3
  <2> QED
    BY <1>1, <2>1 DEF Follows
<1> QED
  BY <1>2, <1>3

\* A fault that happened has happened for good.
LEMMA FaultFacts ==
  ASSUME TypeOK,
         NEW f \in {"abort", "deletion", "unlink", "lost", "lostlog"},
         Fault(f)
  PROVE  \A g : Happened(g)' <=> Happened(g) \/ g = f
<1>1. /\ faults' = Append(faults, f) /\ DOMAIN faults = 1..Len(faults)
      /\ DOMAIN faults' = 1..(Len(faults) + 1)
      /\ \A i \in 1..Len(faults) : faults'[i] = faults[i]
      /\ faults'[Len(faults) + 1] = f /\ Len(faults) \in Nat
  BY AppendElements DEF TypeOK, Fault
<1>2. ASSUME NEW g, Happened(g)' PROVE Happened(g) \/ g = f
  BY <1>1, <1>2 DEF Happened
<1>3. ASSUME NEW g, Happened(g) PROVE Happened(g)'
  BY <1>1, <1>3 DEF Happened
<1>4. Happened(f)'
  BY <1>1 DEF Happened
<1> QED
  BY <1>2, <1>3, <1>4

\* Without a new fault the faults that happened are those that had.
LEMMA NoFault ==
  ASSUME UNCHANGED faults
  PROVE  \A g : Happened(g)' <=> Happened(g)
BY DEF Happened

-----------------------------------------------------------------------------
(* Types.                                                                  *)

\* The variables have their types at the start.
LEMMA InitTyped ==
  Init => TypeOK
<1> SUFFICES ASSUME Init PROVE TypeOK
  OBVIOUS
<1>1. Pending \in [kind : {"list", "sentinel", "error"},
                   incumbents : Seq(Incumbent)]
      /\ NotFound \in [found : BOOLEAN, pieces : Seq(Piece),
                       nbytes : 0..MaxLog]
  BY ConstantsAssumption DEF Pending, NotFound
<1>2. 0 \in 0..MaxIncumbents /\ 0 \in 0..MaxLog
  BY ConstantsAssumption
<1>3. {exists, done, aborted, complete, doneEvent, incDone} \subseteq BOOLEAN
      /\ unlinked \in BOOLEAN
  BY DEF Init
<1>4. /\ queue \in Seq(Messages) /\ list \in Seq(Incumbent)
      /\ seen \in Seq(Incumbent) /\ logSeen \in Seq(Piece)
      /\ faults \in Seq({"abort", "deletion", "unlink", "lost", "lostlog"})
  BY DEF Init
<1>5. /\ solver = "solving" /\ rpc = "get" /\ mpc = "poll" /\ ipc = "fetch"
      /\ lpc = "test" /\ reply = Pending /\ page = NotFound
      /\ produced = 0 /\ written = 0 /\ loggedbytes = 0
  BY DEF Init
<1> QED
  BY <1>1, <1>2, <1>3, <1>4, <1>5 DEF TypeOK

\* The response to a request is a list, or a mark without incumbents.
LEMMA ReplyType ==
  ASSUME TypeOK
  PROVE  /\ CurrentIncumbents \in [kind : {"list", "sentinel", "error"},
                                   incumbents : Seq(Incumbent)]
         /\ Pending \in [kind : {"list", "sentinel", "error"},
                         incumbents : Seq(Incumbent)]
BY DEF TypeOK, CurrentIncumbents, NoSuchJob, Sentinel, Listed, Pending

\* A page has the pieces from one position to another.
LEMMA PageFacts ==
  ASSUME NEW from \in 0..MaxLog, NEW to \in 0..MaxLog, from <= to
  PROVE  /\ Page(from, to) \in [found : BOOLEAN, pieces : Seq(Piece),
                                nbytes : 0..MaxLog]
         /\ Page(from, to).found /\ Page(from, to).nbytes = to
         /\ Len(Page(from, to).pieces) = to - from
         /\ Follows(Page(from, to).pieces, from)
<1> DEFINE pieces == [i \in 1..(to - from) |-> from + i]
<1>1. to - from \in Nat
  BY ConstantsAssumption
<1>2. pieces \in [1..(to - from) -> Piece]
  BY ConstantsAssumption DEF Piece
<1>3. pieces \in Seq(Piece) /\ Len(pieces) = to - from
  BY <1>1, <1>2
<1>4. Follows(pieces, from)
  BY DEF Follows
<1>5. Page(from, to) = [found |-> TRUE, pieces |-> pieces, nbytes |-> to]
  BY DEF Page
<1> HIDE DEF pieces
<1> QED
  BY <1>3, <1>4, <1>5

\* The steps of the solver process keep the types.
LEMMA SolverTyped ==
  ASSUME TypeOK, SolverStep
  PROVE  TypeOK'
<1> USE DEF serverVars, mainVars, threadVars, fileVars, logVars
<1>1. CASE SendSolution
  <2>1. produced' \in 0..MaxIncumbents /\ queue' \in Seq(Messages)
    <3>1. produced + 1 \in Messages
      BY <1>1, ConstantsAssumption DEF SendSolution, TypeOK, Messages
    <3> QED
      BY <1>1, <3>1 DEF SendSolution, TypeOK, Messages
  <2> QED
    BY <1>1, <2>1 DEF SendSolution, TypeOK
<1>2. CASE WriteLog
  BY <1>2, ConstantsAssumption DEF WriteLog, TypeOK
<1>3. CASE Respond
  <2>1. queue' \in Seq(Messages)
    <3>1. Answer \in Messages
      BY ConstantsAssumption DEF Answer, Messages
    <3> QED
      BY <1>3, <3>1 DEF Respond, TypeOK
  <2> QED
    BY <1>3, <2>1 DEF Respond, TypeOK
<1>4. CASE Kill
  <2>1. queue' \in Seq(Messages)
    BY <1>4, PrefixElements DEF Kill, TypeOK
  <2> QED
    BY <1>4, <2>1 DEF Kill, TypeOK
<1> QED
  BY <1>1, <1>2, <1>3, <1>4 DEF SolverStep

\* The steps of the server keep the types.
LEMMA ServerTyped ==
  ASSUME TypeOK, ServerStep
  PROVE  TypeOK'
<1> USE DEF mainVars, threadVars, fileVars, logVars, serverVars
<1>1. CASE AddIncumbent
  <2>1. queue' \in Seq(Messages) /\ list' \in Seq(Incumbent)
    <3>1. queue' \in Seq(Messages) /\ Head(queue) \in Incumbent
      BY <1>1, ConstantsAssumption DEF AddIncumbent, TypeOK, Messages,
         Incumbent, Answer
    <3> QED
      BY <1>1, <3>1 DEF AddIncumbent, Added, TypeOK
  <2> QED
    BY <1>1, <2>1 DEF AddIncumbent, TypeOK
<1>2. CASE LookUp
  BY <1>2 DEF LookUp, TypeOK
<1>3. CASE SetResult
  <2>1. {exists, done, aborted, complete, doneEvent, incDone}' \subseteq BOOLEAN
    BY <1>3 DEF SetResult, TypeOK
  <2> QED
    BY <1>3, <2>1 DEF SetResult, TypeOK
<1>4. CASE AbortJob
  BY <1>4 DEF AbortJob, Fault, TypeOK
<1>5. CASE DeletedByOther
  <2>1. {exists, done, aborted, complete, doneEvent, incDone}' \subseteq BOOLEAN
    BY <1>5 DEF DeletedByOther, Fault, TypeOK
  <2> QED
    BY <1>5, <2>1 DEF DeletedByOther, Fault, TypeOK
<1>6. CASE LogDeletedByOther
  BY <1>6 DEF LogDeletedByOther, Fault, TypeOK
<1> QED
  BY <1>1, <1>2, <1>3, <1>4, <1>5, <1>6 DEF ServerStep

\* The steps of the thread for incumbents keep the types.
LEMMA ThreadTyped ==
  ASSUME TypeOK, ThreadStep
  PROVE  TypeOK'
<1> USE DEF mainVars, threadVars, fileVars, logVars, serverVars
<1>1. CASE Fetch
  BY <1>1, ReplyType DEF Fetch, TakenFrom, TypeOK
<1>2. CASE LoseResponse
  BY <1>2, ReplyType DEF LoseResponse, Fault, TypeOK
<1>3. CASE Receive
  <2>1. seen' \in Seq(Incumbent) /\ (incDone' \in BOOLEAN)
    BY <1>3, ConcatProperties DEF Receive, TypeOK
  <2> QED
    BY <1>3, <2>1 DEF Receive, TypeOK
<1>4. CASE Test
  BY <1>4, ReplyType DEF Test, TypeOK
<1> QED
  BY <1>1, <1>2, <1>3, <1>4 DEF ThreadStep

\* The steps of the thread for the log keep the types; what it has told is a
\* part of the log, so that the rest is one.
LEMMA LogTyped ==
  ASSUME TypeOK, LogInv, LogStep
  PROVE  TypeOK'
<1> USE DEF mainVars, threadVars, fileVars, logVars, serverVars, LogUnchanged
<1>1. NotFound \in [found : BOOLEAN, pieces : Seq(Piece), nbytes : 0..MaxLog]
  BY ConstantsAssumption DEF NotFound
<1>2. CASE LogTest
  BY <1>2 DEF LogTest, AfterDone, TypeOK
<1>3. CASE LogFetch
  <2>1. page' \in [found : BOOLEAN, pieces : Seq(Piece), nbytes : 0..MaxLog]
    BY <1>1, <1>3, PageFacts DEF LogFetch, SolverLogs, TypeOK, LogInv
  <2> QED
    BY <1>3, <2>1 DEF LogFetch, TypeOK
<1>4. CASE LogReceive
  <2>1. logSeen' \in Seq(Piece) /\ loggedbytes' \in 0..MaxLog
    BY <1>4, ConcatProperties DEF LogReceive, ReadUpTo, TypeOK
  <2> QED
    BY <1>1, <1>4, <2>1 DEF LogReceive, TypeOK
<1>5. CASE LoseLog
  BY <1>1, <1>5 DEF LoseLog, Fault, TypeOK
<1> QED
  BY <1>2, <1>3, <1>4, <1>5 DEF LogStep

\* The steps of the caller's thread keep the types.
LEMMA MainTyped ==
  ASSUME TypeOK, MainStep
  PROVE  TypeOK'
<1> USE DEF mainVars, threadVars, fileVars, logVars, serverVars
<1>1. CASE Poll
  <2>1. complete' \in BOOLEAN
    BY <1>1 DEF Poll, TypeOK
  <2> QED
    BY <1>1, <2>1 DEF Poll, TypeOK
<1>2. CASE PollTimesOut
  BY <1>2 DEF PollTimesOut, TypeOK
<1>3. CASE StopThreads
  BY <1>3 DEF StopThreads, Signalled, TypeOK
<1>4. CASE JoinThread
  BY <1>4 DEF JoinThread, TypeOK
<1>5. CASE DeleteSolution
  <2>1. {exists, done, aborted, complete, doneEvent, incDone}' \subseteq BOOLEAN
    BY <1>5 DEF DeleteSolution, TypeOK
  <2> QED
    BY <1>5, <2>1 DEF DeleteSolution, TypeOK
<1>6. CASE DeleteLog
  <2>1. unlinked' \in BOOLEAN
    BY <1>6 DEF DeleteLog, TypeOK
  <2> QED
    BY <1>6, <2>1 DEF DeleteLog, TypeOK
<1> QED
  BY <1>1, <1>2, <1>3, <1>4, <1>5, <1>6 DEF MainStep

\* Every step keeps the types.
LEMMA NextTyped ==
  ASSUME TypeOK, LogInv, [Next]_vars
  PROVE  TypeOK'
<1>1. CASE UNCHANGED vars
  BY <1>1 DEF vars, TypeOK, mainVars, threadVars, fileVars, logVars,
     serverVars
<1> QED
  BY <1>1, SolverTyped, ServerTyped, ThreadTyped, LogTyped, MainTyped
  DEF Next

-----------------------------------------------------------------------------
(* The other parts: what each of the actors may change.                    *)

\* Most steps are no faults, and a fault that happened has happened for good.
LEMMA FaultSteps ==
  ASSUME TypeOK, [Next]_vars
  PROVE  /\ \A g : Happened(g) => Happened(g)'
         /\ \/ UNCHANGED faults
            \/ AbortJob \/ DeletedByOther \/ LogDeletedByOther
            \/ LoseResponse \/ LoseLog
<1>1. \/ UNCHANGED faults
      \/ AbortJob \/ DeletedByOther \/ LogDeletedByOther
      \/ LoseResponse \/ LoseLog
  BY DEF Next, SolverStep, ServerStep, ThreadStep, MainStep, LogStep, vars,
     SendSolution, WriteLog, Respond, Kill, AddIncumbent, LookUp, SetResult,
     Fetch, Receive, Test, Poll, PollTimesOut, StopThreads, JoinThread,
     DeleteSolution, DeleteLog, LogTest, LogFetch, LogReceive
<1>2. CASE UNCHANGED faults
  BY <1>2, NoFault
<1>3. CASE \E f \in {"abort", "deletion", "unlink", "lost", "lostlog"} :
             Fault(f)
  BY <1>1, <1>3, FaultFacts
<1> QED
  BY <1>1, <1>2, <1>3 DEF AbortJob, DeletedByOther, LogDeletedByOther,
     LoseResponse, LoseLog

\* The caller: where it is, and which of the other two threads have ended.
LEMMA CallerStep ==
  ASSUME Inv, [Next]_vars
  PROVE  CallerInv'
<1> USE DEF Inv, mainVars, threadVars, logVars, serverVars
<1>0. \A g : Happened(g) => Happened(g)'
  BY FaultSteps
<1>1. CASE UNCHANGED <<mpc, complete, doneEvent, ipc, lpc, exists, faults>>
  BY <1>1, NoFault DEF CallerInv
<1>2. CASE AbortJob \/ LogDeletedByOther
  <2>1. UNCHANGED <<mpc, complete, doneEvent, ipc, lpc, exists>>
        /\ (Happened("lost")' <=> Happened("lost"))
    BY <1>2, FaultFacts DEF AbortJob, LogDeletedByOther
  <2> QED
    BY <1>0, <2>1 DEF CallerInv
<1>3. CASE DeletedByOther
  <2>1. UNCHANGED <<mpc, complete, doneEvent, ipc, lpc>>
        /\ (Happened("lost")' <=> Happened("lost"))
        /\ Happened("deletion")'
    BY <1>3, FaultFacts DEF DeletedByOther
  <2> QED
    BY <2>1 DEF CallerInv
<1>4. CASE LoseResponse
  <2>1. UNCHANGED <<mpc, complete, doneEvent, lpc, exists>> /\ ipc' = "ended"
    BY <1>4 DEF LoseResponse
  <2> QED
    BY <1>0, <2>1 DEF CallerInv
<1>5. CASE LoseLog
  <2>1. UNCHANGED <<mpc, complete, doneEvent, ipc, exists>> /\ lpc' = "ended"
        /\ (Happened("lost")' <=> Happened("lost"))
    BY <1>5, FaultFacts DEF LoseLog, LogUnchanged
  <2> QED
    BY <1>0, <2>1 DEF CallerInv
<1>6. CASE Fetch \/ Receive \/ Test
  <2>1. UNCHANGED <<mpc, complete, doneEvent, lpc, exists, faults>>
        /\ ipc # "ended"
    BY <1>6 DEF Fetch, Receive, Test
  <2> QED
    BY <1>0, <2>1, NoFault DEF CallerInv
<1>7. CASE LogTest \/ LogFetch \/ LogReceive
  <2>1. UNCHANGED <<mpc, complete, doneEvent, ipc, exists, faults>>
        /\ lpc # "ended"
    BY <1>7 DEF LogTest, LogFetch, LogReceive, LogUnchanged
  <2> QED
    BY <1>0, <2>1, NoFault DEF CallerInv
<1>8. CASE MainStep
  <2>1. UNCHANGED <<ipc, lpc, faults>>
    BY <1>8 DEF MainStep, Poll, PollTimesOut, StopThreads, JoinThread,
       DeleteSolution, DeleteLog
  <2>2. CASE Poll \/ PollTimesOut \/ StopThreads
    BY <2>1, <2>2, NoFault DEF Poll, PollTimesOut, StopThreads, CallerInv
  <2>3. CASE JoinThread \/ DeleteSolution \/ DeleteLog
    BY <2>1, <2>3, NoFault DEF JoinThread, Joined, DeleteSolution, DeleteLog,
       CallerInv
  <2> QED
    BY <1>8, <2>2, <2>3 DEF MainStep
<1>9. CASE SolverStep \/ AddIncumbent \/ LookUp \/ SetResult \/ UNCHANGED vars
  BY <1>1, <1>9 DEF SolverStep, SendSolution, WriteLog, Respond, Kill,
     AddIncumbent, LookUp, SetResult, vars
<1> QED
  BY <1>2, <1>3, <1>4, <1>5, <1>6, <1>7, <1>8, <1>9
  DEF Next, ServerStep, ThreadStep, LogStep

\* The server: the end of the solver is the last that is heard of it.
LEMMA ServerInvStep ==
  ASSUME Inv, [Next]_vars
  PROVE  ServerInv'
<1> USE DEF Inv, mainVars, threadVars, logVars, serverVars
<1>0. \A g : Happened(g) => Happened(g)'
  BY FaultSteps
<1>9. queue \in Seq(Messages) /\ Len(queue) \in Nat
      /\ DOMAIN queue = 1..Len(queue)
  BY DEF TypeOK
<1>1. CASE UNCHANGED <<queue, rpc, done, aborted, complete, solver>>
  BY <1>0, <1>1 DEF ServerInv
<1>2. CASE SendSolution
  <2>1. /\ solver = "solving" /\ queue' = Append(queue, produced + 1)
        /\ produced + 1 # Answer
        /\ UNCHANGED <<rpc, done, aborted, complete, solver, faults>>
    BY <1>2 DEF SendSolution, Answer, TypeOK
  <2>2. \A i \in DOMAIN queue' : queue'[i] = Answer =>
          \E k \in DOMAIN queue : queue[k] = Answer
    BY <1>9, <2>1, AppendElements, ConstantsAssumption
    DEF Messages, TypeOK
  <2> QED
    BY <2>1, <2>2, NoFault DEF ServerInv
<1>3. CASE Respond
  <2>1. /\ solver = "solving" /\ solver' = "ended"
        /\ UNCHANGED <<rpc, done, aborted, complete, faults>>
    BY <1>3 DEF Respond
  <2> QED
    BY <2>1, NoFault DEF ServerInv
<1>4. CASE Kill
  <2>1. /\ Happened("abort") /\ solver' = "killed"
        /\ UNCHANGED <<rpc, done, aborted, complete, faults>>
    BY <1>4 DEF Kill
  <2> QED
    BY <1>0, <2>1 DEF ServerInv
<1>5. CASE AddIncumbent \/ LookUp
  <2>1. /\ queue # <<>> /\ queue' = Tail(queue) /\ rpc = "get"
        /\ UNCHANGED <<done, aborted, complete, solver, faults>>
        /\ rpc' = "set" => Head(queue) = Answer
    BY <1>5 DEF AddIncumbent, LookUp
  <2>2. /\ \A i \in DOMAIN queue' : queue'[i] = Answer =>
             \E k \in DOMAIN queue : queue[k] = Answer
        /\ rpc' = "set" => \E k \in DOMAIN queue : queue[k] = Answer
    BY <1>9, <2>1, TailElements
  <2>3. rpc' = "set" => queue' = <<>>
    <3>1. rpc' = "set" => Len(queue) = 1
      BY <1>9, <2>1, TailElements DEF ChainInv
    <3> QED
      BY <1>9, <2>1, <3>1, TailElements, EmptySeq
  <2> QED
    BY <2>1, <2>2, <2>3, NoFault DEF ServerInv
<1>6. CASE SetResult
  <2>1. /\ rpc = "set" /\ rpc' = "get" /\ done' = TRUE /\ aborted' = FALSE
        /\ UNCHANGED <<queue, complete, solver, faults>>
    BY <1>6 DEF SetResult
  <2> QED
    BY <2>1, NoFault DEF ServerInv
<1>7. CASE AbortJob
  <2>1. /\ aborted' = TRUE /\ Happened("abort")'
        /\ UNCHANGED <<queue, rpc, complete, solver>>
    BY <1>7, FaultFacts DEF AbortJob
  <2> QED
    BY <2>1 DEF ServerInv
<1>8. CASE Poll
  <2>1. /\ complete' => done /\ ~aborted
        /\ UNCHANGED <<queue, rpc, done, aborted, solver, faults>>
    BY <1>8 DEF Poll, CallerInv
  <2> QED
    BY <2>1, NoFault DEF ServerInv
<1> QED
  BY <1>1, <1>2, <1>3, <1>4, <1>5, <1>6, <1>7, <1>8
  DEF Next, SolverStep, ServerStep, ThreadStep, MainStep, LogStep, vars,
      WriteLog, DeletedByOther, LogDeletedByOther, Fetch, LoseResponse,
      Receive, Test, PollTimesOut, StopThreads, JoinThread, DeleteSolution,
      DeleteLog, LogTest, LogFetch, LogReceive, LoseLog, LogUnchanged

\* The thread for the log has told the callback what is in its pages.
LEMMA LogInvStep ==
  ASSUME Inv, [Next]_vars
  PROVE  LogInv'
<1> USE DEF Inv, mainVars, threadVars, logVars, serverVars, fileVars
<1>0. \A g : Happened(g) => Happened(g)'
  BY FaultSteps
<1>1. CASE UNCHANGED <<written, unlinked, lpc, page, loggedbytes, logSeen,
                       complete, doneEvent>>
  BY <1>0, <1>1 DEF LogInv
<1>2. CASE WriteLog
  <2>1. /\ solver = "solving" /\ written' = written + 1
        /\ UNCHANGED <<unlinked, lpc, page, loggedbytes, logSeen, complete,
                       doneEvent, faults>>
    BY <1>2 DEF WriteLog
  <2>2. ~complete
    BY <2>1 DEF ServerInv
  <2> QED
    BY <2>1, <2>2, NoFault DEF LogInv, TypeOK
<1>3. CASE LogDeletedByOther
  <2>1. /\ Happened("unlink")'
        /\ UNCHANGED <<written, lpc, page, loggedbytes, logSeen, complete,
                       doneEvent>>
    BY <1>3, FaultFacts DEF LogDeletedByOther
  <2> QED
    BY <1>0, <2>1 DEF LogInv
<1>4. CASE LogTest
  <2>1. /\ lpc = "test" /\ lpc' = IF doneEvent THEN "last" ELSE "fetch"
        /\ UNCHANGED <<written, unlinked, page, loggedbytes, logSeen,
                       complete, doneEvent, faults>>
    BY <1>4 DEF LogTest, AfterDone, LogUnchanged
  <2> QED
    BY <2>1, NoFault DEF LogInv
<1>5. CASE LogFetch
  <2>1. /\ \/ lpc = "fetch" /\ lpc' = "receive"
           \/ lpc = "last" /\ lpc' = "lastreceive"
        /\ page' = SolverLogs
        /\ UNCHANGED <<written, unlinked, loggedbytes, logSeen, complete,
                       doneEvent, faults>>
    BY <1>5 DEF LogFetch, LogUnchanged
  <2>2. loggedbytes \in 0..MaxLog /\ written \in 0..MaxLog
        /\ loggedbytes <= written
    BY DEF TypeOK, LogInv
  <2>3. IF written = 0 \/ unlinked THEN page' = NotFound
        ELSE /\ page'.found /\ page'.nbytes = written
             /\ Len(page'.pieces) = written - loggedbytes
             /\ Follows(page'.pieces, loggedbytes)
    BY <2>1, <2>2, PageFacts DEF SolverLogs
  <2>4. ~NotFound.found
    BY DEF NotFound
  <2> HIDE DEF Inv
  <2>5. LogInv
    BY DEF Inv
  <2> QED
    BY <2>1, <2>2, <2>3, <2>4, <2>5, NoFault DEF LogInv
<1>6. CASE LogReceive
  <2>1. /\ \/ lpc = "receive" /\ lpc' = "test"
           \/ lpc = "lastreceive" /\ lpc' = "ended"
        /\ logSeen' = logSeen \o page.pieces
        /\ loggedbytes' = IF page.found THEN page.nbytes ELSE loggedbytes
        /\ page' = NotFound
        /\ UNCHANGED <<written, unlinked, complete, doneEvent, faults>>
    BY <1>6 DEF LogReceive, ReadUpTo, LogUnchanged
  <2>2. /\ logSeen \in Seq(Piece) /\ page.pieces \in Seq(Piece)
        /\ loggedbytes \in Nat /\ written \in Nat /\ page.nbytes \in Nat
        /\ Piece \subseteq Nat
    BY ConstantsAssumption DEF TypeOK, Piece
  <2>3. /\ Len(logSeen') = Len(logSeen) + Len(page.pieces)
        /\ Follows(logSeen', 0)
    <3>1. Follows(page.pieces, 0 + Len(logSeen))
      BY <2>2 DEF LogInv, NotFound, Follows
    <3>2. Follows(logSeen, 0)
      BY DEF LogInv
    <3> QED
      BY <2>1, <2>2, <3>1, <3>2, FollowsConcat
  <2>4. Len(logSeen') = loggedbytes' /\ loggedbytes' <= written
    BY <2>1, <2>2, <2>3 DEF LogInv, NotFound
  <2>5. ~NotFound.found
    BY DEF NotFound
  <2> QED
    BY <2>1, <2>2, <2>3, <2>4, <2>5, NoFault DEF LogInv
<1>7. CASE LoseLog
  <2>1. /\ lpc' = "ended" /\ page' = NotFound /\ Happened("lostlog")'
        /\ UNCHANGED <<written, unlinked, loggedbytes, logSeen, complete,
                       doneEvent>>
    BY <1>7, FaultFacts DEF LoseLog, LogUnchanged
  <2>2. ~NotFound.found
    BY DEF NotFound
  <2> QED
    BY <1>0, <2>1, <2>2 DEF LogInv
<1>8. CASE Poll \/ PollTimesOut \/ StopThreads
  <2>1. /\ UNCHANGED <<written, unlinked, lpc, page, loggedbytes, logSeen,
                       faults>>
        /\ \/ UNCHANGED complete /\ (doneEvent => doneEvent')
           \/ UNCHANGED doneEvent /\ mpc = "poll"
    BY <1>8 DEF Poll, PollTimesOut, StopThreads, Signalled
  <2> QED
    BY <2>1, NoFault DEF LogInv, CallerInv
<1>9. CASE DeleteLog
  <2>1. /\ lpc = "ended"
        /\ UNCHANGED <<written, lpc, page, loggedbytes, logSeen, complete,
                       doneEvent, faults>>
    BY <1>9 DEF DeleteLog, CallerInv
  <2> QED
    BY <2>1, NoFault DEF LogInv
<1> QED
  BY <1>1, <1>2, <1>3, <1>4, <1>5, <1>6, <1>7, <1>8, <1>9
  DEF Next, SolverStep, ServerStep, ThreadStep, MainStep, LogStep, vars,
      SendSolution, Respond, Kill, AddIncumbent, LookUp, SetResult, AbortJob,
      DeletedByOther, Fetch, LoseResponse, Receive, Test, JoinThread,
      DeleteSolution

\* What ends the thread for incumbents.
LEMMA EndInvStep ==
  ASSUME Inv, [Next]_vars
  PROVE  EndInv'
<1> USE DEF Inv, mainVars, threadVars, logVars, serverVars, fileVars
<1>0. \A g : Happened(g) => Happened(g)'
  BY FaultSteps
<1>1. CASE UNCHANGED <<reply, solver, seen, produced>>
  BY <1>0, <1>1 DEF EndInv
<1>2. CASE SendSolution \/ Respond
  <2>1. solver = "solving" /\ UNCHANGED <<reply, seen, faults>>
    BY <1>2 DEF SendSolution, Respond
  <2> QED
    BY <2>1, NoFault DEF EndInv
<1>3. CASE Kill
  <2>1. Happened("abort") /\ UNCHANGED <<reply, faults>>
    BY <1>3 DEF Kill
  <2> QED
    BY <1>0, <2>1, NoFault DEF EndInv
<1>4. CASE LoseResponse \/ (Test /\ reply' # reply)
  <2>1. reply' = Pending
    BY <1>4 DEF LoseResponse, Test
  <2>2. Pending # Sentinel /\ Pending # NoSuchJob
    BY DEF Pending, Sentinel, NoSuchJob
  <2> QED
    BY <2>1, <2>2 DEF EndInv
<1>5. CASE Receive
  <2>1. /\ UNCHANGED <<reply, solver, produced, faults>>
        /\ seen' = seen \o reply.incumbents
    BY <1>5 DEF Receive
  <2>2. reply = Sentinel => seen' = seen
    BY <2>1, ConcatEmptySeq DEF Sentinel, TypeOK
  <2> QED
    BY <2>1, <2>2, NoFault DEF EndInv
<1>6. CASE Fetch
  <2>1. /\ ipc = "fetch" /\ reply' = CurrentIncumbents
        /\ UNCHANGED <<solver, produced, seen, faults>>
    BY <1>6 DEF Fetch
  <2>2. /\ reply' = NoSuchJob => ~exists
        /\ reply' = Sentinel => exists /\ done /\ list = <<>>
    BY <2>1 DEF CurrentIncumbents, NoSuchJob, Sentinel, Listed
  <2>3. ~exists => Happened("deletion")
    BY <2>1 DEF CallerInv
  <2>4. ASSUME exists, done, list = <<>>,
               ~Happened("abort"), ~Happened("lost")
        PROVE  solver = "ended" /\ Len(seen) = produced
    <3>1. /\ queue = <<>> /\ solver # "killed" /\ ~aborted
          /\ solver # "solving"
      BY <2>4 DEF ServerInv
    <3>2. Unread = <<>> /\ ~AnswerQueued
      BY <2>1, <3>1 DEF Unread, AnswerQueued
    <3>3. QueueCount = produced
      BY <2>4, <3>1 DEF ChainInv
    <3>4. QueueCount = Len(seen)
      BY <2>4, <3>1, <3>2 DEF QueueCount, ListCount, ReadCount, TypeOK
    <3> QED
      BY <3>1, <3>3, <3>4 DEF TypeOK
  <2> QED
    BY <2>1, <2>2, <2>3, <2>4, NoFault DEF EndInv
<1> QED
  BY <1>1, <1>2, <1>3, <1>4, <1>5, <1>6
  DEF Next, SolverStep, ServerStep, ThreadStep, MainStep, LogStep, vars,
      WriteLog, AddIncumbent, LookUp, SetResult, AbortJob, DeletedByOther,
      LogDeletedByOther, Test, Poll, PollTimesOut, StopThreads, JoinThread,
      DeleteSolution, DeleteLog, LogTest, LogFetch, LogReceive, LoseLog,
      LogUnchanged

\* The types of what the chain consists of.
LEMMA ChainTypes ==
  ASSUME TypeOK
  PROVE  /\ seen \in Seq(Incumbent) /\ list \in Seq(Incumbent)
         /\ Unread \in Seq(Incumbent) /\ reply.incumbents \in Seq(Incumbent)
         /\ Len(seen) \in Nat /\ Len(Unread) \in Nat /\ Len(list) \in Nat
         /\ queue \in Seq(Messages) /\ Len(queue) \in Nat
         /\ DOMAIN queue = 1..Len(queue) /\ DOMAIN list = 1..Len(list)
         /\ Incumbent \subseteq Nat /\ Messages \subseteq Nat
         /\ produced \in Nat
         /\ ReadCount \in Nat /\ ListCount \in Nat
<1>1. /\ seen \in Seq(Incumbent) /\ list \in Seq(Incumbent)
      /\ reply.incumbents \in Seq(Incumbent) /\ queue \in Seq(Messages)
  BY DEF TypeOK
<1>2. Unread \in Seq(Incumbent)
  BY <1>1 DEF Unread
<1>3. produced \in Nat /\ Incumbent \subseteq Nat /\ Messages \subseteq Nat
  BY ConstantsAssumption DEF TypeOK, Incumbent, Messages
<1> QED
  BY <1>1, <1>2, <1>3 DEF ReadCount, ListCount

\* The answer is in the queue if and only if it is its last message.
LEMMA AnswerLast ==
  ASSUME TypeOK
  PROVE  AnswerQueued <=> Len(queue) > 0 /\ queue[Len(queue)] = Answer
<1>1. queue \in Seq(Messages)
  BY DEF TypeOK
<1>2. queue # <<>> <=> Len(queue) > 0
  BY <1>1, EmptySeq
<1> QED
  BY <1>2 DEF AnswerQueued

\* The same after a step.
LEMMA AnswerLastNext ==
  ASSUME TypeOK'
  PROVE  AnswerQueued' <=> Len(queue') > 0 /\ queue'[Len(queue')] = Answer
<1>1. queue' \in Seq(Messages)
  BY DEF TypeOK
<1>2. queue' # <<>> <=> Len(queue') > 0
  BY <1>1, EmptySeq
<1> QED
  BY <1>2 DEF AnswerQueued

\* The solver's end of the chain: it sends, or is killed.
LEMMA ChainSolver ==
  ASSUME Inv, SolverStep
  PROVE  ChainInv'
<1> USE DEF serverVars, mainVars, threadVars, fileVars, logVars
<1>a. TypeOK /\ TypeOK' /\ ChainInv /\ ServerInv
  BY SolverTyped DEF Inv
<1>b. /\ Len(queue) \in Nat /\ queue \in Seq(Messages) /\ produced \in Nat
      /\ DOMAIN queue = 1..Len(queue) /\ ListCount \in Nat
  BY <1>a, ChainTypes
<1>c. /\ AnswerQueued <=> Len(queue) > 0 /\ queue[Len(queue)] = Answer
      /\ AnswerQueued' <=> Len(queue') > 0 /\ queue'[Len(queue')] = Answer
  BY <1>a, AnswerLast, AnswerLastNext
<1>0. UNCHANGED <<seen, ipc, reply, list, exists, faults>>
  BY DEF SolverStep, SendSolution, WriteLog, Respond, Kill
<1>1. /\ UNCHANGED <<Unread, ReadCount, ListCount>>
      /\ Happened("lost")' <=> Happened("lost")
  BY <1>0, NoFault DEF Unread, ReadCount, ListCount
\* What is left to show of each step.
<1>2. ASSUME \A i \in DOMAIN queue' : queue'[i] = Answer => i = Len(queue'),
             ASSUME exists, ~Happened("lost")
             PROVE  /\ \A i \in DOMAIN queue' :
                         queue'[i] # Answer => queue'[i] = ListCount + i
                    /\ QueueCount' <= produced'
                    /\ solver' # "killed" => QueueCount' = produced'
      PROVE  ChainInv'
  <2>1. Follows(seen, 0)' /\ Follows(Unread, Len(seen))'
    BY <1>a, <1>0, <1>1 DEF ChainInv, Follows
  <2>2. exists /\ ~Happened("lost") => Follows(list, ReadCount)'
    BY <1>a, <1>0, <1>1 DEF ChainInv, Follows
  <2> QED
    BY <1>0, <1>1, <1>2, <2>1, <2>2 DEF ChainInv
<1>3. CASE SendSolution
  <2>1. /\ solver = "solving" /\ queue' = Append(queue, produced + 1)
        /\ produced' = produced + 1 /\ UNCHANGED solver
        /\ produced + 1 \in Messages /\ produced + 1 # Answer
    BY <1>3, <1>a, ConstantsAssumption
    DEF SendSolution, TypeOK, Messages, Answer
  <2>2. \A i \in DOMAIN queue : queue[i] # Answer
    BY <1>a, <2>1 DEF ServerInv
  <2>3. /\ Len(queue') = Len(queue) + 1 /\ DOMAIN queue' = 1..(Len(queue) + 1)
        /\ \A i \in 1..Len(queue) : queue'[i] = queue[i]
        /\ queue'[Len(queue) + 1] = produced + 1
    BY <1>b, <2>1, AppendElements
  <2>4. ~AnswerQueued /\ ~AnswerQueued'
    BY <1>b, <1>c, <2>1, <2>2, <2>3
  <2>5. ASSUME exists, ~Happened("lost")
        PROVE  /\ QueueCount' = produced'
               /\ \A i \in DOMAIN queue' : queue'[i] = ListCount + i
    <3>1. /\ QueueCount = produced /\ QueueCount = ListCount + Len(queue)
          /\ \A i \in DOMAIN queue : queue[i] = ListCount + i
      BY <1>a, <2>1, <2>2, <2>4, <2>5 DEF ChainInv, QueueCount
    <3>2. QueueCount' = ListCount + (Len(queue) + 1)
      BY <1>1, <2>3, <2>4 DEF QueueCount
    <3> QED
      BY <1>b, <2>1, <2>3, <3>1, <3>2
  <2>6. \A i \in DOMAIN queue' : queue'[i] # Answer
    BY <1>b, <2>1, <2>2, <2>3
  <2>7. ASSUME exists, ~Happened("lost")
        PROVE  /\ \A i \in DOMAIN queue' :
                    queue'[i] # Answer => queue'[i] = ListCount + i
               /\ QueueCount' <= produced'
               /\ QueueCount' = produced'
    <3>1. produced' \in Nat
      BY <1>b, <2>1
    <3> QED
      BY <2>5, <2>7, <3>1
  <2> QED
    BY <1>2, <2>6, <2>7
<1>4. CASE WriteLog
  BY <1>a, <1>0, <1>1, <1>4 DEF WriteLog, ChainInv, Follows, QueueCount,
     AnswerQueued
<1>5. CASE Respond
  <2>1. /\ solver = "solving" /\ queue' = Append(queue, Answer)
        /\ solver' = "ended" /\ UNCHANGED produced /\ Answer \in Messages
    BY <1>5, ConstantsAssumption DEF Respond, Messages, Answer
  <2>2. \A i \in DOMAIN queue : queue[i] # Answer
    BY <1>a, <2>1 DEF ServerInv
  <2>3. /\ Len(queue') = Len(queue) + 1 /\ DOMAIN queue' = 1..(Len(queue) + 1)
        /\ \A i \in 1..Len(queue) : queue'[i] = queue[i]
        /\ queue'[Len(queue) + 1] = Answer
    BY <1>b, <2>1, AppendElements
  <2>4. ~AnswerQueued /\ AnswerQueued'
    BY <1>b, <1>c, <2>2, <2>3
  <2>5. QueueCount' = QueueCount
    BY <1>b, <1>1, <2>3, <2>4 DEF QueueCount
  <2>6. \A i \in DOMAIN queue' : queue'[i] = Answer => i = Len(queue')
    BY <1>b, <2>2, <2>3
  <2>7. ASSUME exists, ~Happened("lost")
        PROVE  /\ \A i \in DOMAIN queue' :
                    queue'[i] # Answer => queue'[i] = ListCount + i
               /\ QueueCount' <= produced'
               /\ QueueCount' = produced'
    BY <1>a, <1>b, <2>1, <2>2, <2>3, <2>5, <2>7 DEF ChainInv
  <2> QED
    BY <1>2, <2>6, <2>7
<1>6. CASE Kill
  <2>1. solver' = "killed" /\ UNCHANGED produced
    BY <1>6 DEF Kill
  <2>2. PICK n \in 0..Len(queue) : queue' = SubSeq(queue, 1, n)
    BY <1>6 DEF Kill
  <2>3. /\ Len(queue') = n /\ DOMAIN queue' = 1..n
        /\ \A i \in 1..n : queue'[i] = queue[i]
    BY <1>b, <2>2, PrefixElements
  <2>4. QueueCount' <= QueueCount
    <3>1. CASE n = Len(queue)
      <4>1. AnswerQueued' <=> AnswerQueued
        BY <1>b, <1>c, <2>3, <3>1
      <4> QED
        BY <1>b, <1>1, <2>3, <3>1, <4>1 DEF QueueCount
    <3>2. CASE n # Len(queue)
      <4>1. n \in Nat /\ n <= Len(queue) - 1
        <5> DEFINE l == Len(queue)
        <5>1. l \in Nat /\ n \in 0..l /\ n # l
          BY <1>b, <3>2
        <5> HIDE DEF l
        <5>2. n \in Nat /\ n <= l - 1
          BY <5>1
        <5> QED
          BY <5>2 DEF l
      <4>2. QueueCount' = ListCount + n \/ QueueCount' = ListCount + (n - 1)
        BY <1>1, <2>3 DEF QueueCount
      <4>3. QueueCount = ListCount + Len(queue)
            \/ QueueCount = ListCount + (Len(queue) - 1)
        BY DEF QueueCount
      <4> QED
        BY <1>b, <4>1, <4>2, <4>3
    <3> QED
      BY <3>1, <3>2
  <2>5. QueueCount \in Int /\ QueueCount' \in Int
    BY <1>b, <1>1, <2>3 DEF QueueCount
  <2>6. \A i \in DOMAIN queue' : queue'[i] = Answer => i = Len(queue')
    BY <1>a, <1>b, <2>3 DEF ChainInv
  <2>7. ASSUME exists, ~Happened("lost")
        PROVE  /\ \A i \in DOMAIN queue' :
                    queue'[i] # Answer => queue'[i] = ListCount + i
               /\ QueueCount' <= produced'
    <3>1. QueueCount <= produced
      BY <1>a, <2>7 DEF ChainInv
    <3>2. \A i \in DOMAIN queue :
            queue[i] # Answer => queue[i] = ListCount + i
      BY <1>a, <2>7 DEF ChainInv
    <3> QED
      BY <1>b, <2>1, <2>3, <2>4, <2>5, <3>1, <3>2
  <2> QED
    BY <1>2, <2>1, <2>6, <2>7
<1> QED
  BY <1>3, <1>4, <1>5, <1>6 DEF SolverStep

\* A step at one of the ends of the chain, or beside it.
LEMMA ChainFrame ==
  ASSUME ChainInv, UNCHANGED <<queue, seen, ipc, reply>>,
         Happened("lost") => Happened("lost")',
         exists' => exists /\ UNCHANGED <<list, produced, solver>>
  PROVE  ChainInv'
<1>1. UNCHANGED <<Unread, ReadCount, AnswerQueued>>
  BY DEF Unread, ReadCount, AnswerQueued
<1>2. Follows(seen, 0)' /\ Follows(Unread, Len(seen))'
      /\ \A i \in DOMAIN queue' : queue'[i] = Answer => i = Len(queue')
  BY <1>1 DEF ChainInv, Follows
<1>3. CASE exists /\ exists'
  <2>1. UNCHANGED <<ListCount, QueueCount, list, produced, solver>>
    BY <1>1, <1>3 DEF ListCount, QueueCount
  <2> QED
    BY <1>1, <1>2, <1>3, <2>1 DEF ChainInv, Follows
<1> QED
  BY <1>2, <1>3 DEF ChainInv

\* The results thread: it passes the incumbents on to the list.
LEMMA ChainServer ==
  ASSUME Inv, AddIncumbent \/ LookUp
  PROVE  ChainInv'
<1> USE DEF serverVars, mainVars, threadVars, fileVars, logVars
<1>a. TypeOK /\ TypeOK' /\ ChainInv
  BY ServerTyped DEF Inv, ServerStep
<1>b. /\ Len(queue) \in Nat /\ queue \in Seq(Messages) /\ produced \in Nat
      /\ DOMAIN queue = 1..Len(queue) /\ ListCount \in Nat
      /\ ReadCount \in Nat /\ list \in Seq(Incumbent) /\ Len(list) \in Nat
      /\ DOMAIN list = 1..Len(list)
  BY <1>a, ChainTypes
<1>c. /\ AnswerQueued <=> Len(queue) > 0 /\ queue[Len(queue)] = Answer
      /\ AnswerQueued' <=> Len(queue') > 0 /\ queue'[Len(queue')] = Answer
  BY <1>a, AnswerLast, AnswerLastNext
<1>0. UNCHANGED <<seen, ipc, reply, exists, produced, solver, faults>>
  BY DEF AddIncumbent, LookUp
<1>1. /\ UNCHANGED <<Unread, ReadCount>>
      /\ Happened("lost")' <=> Happened("lost")
  BY <1>0, NoFault DEF Unread, ReadCount
<1>2. Follows(seen, 0)' /\ Follows(Unread, Len(seen))'
  BY <1>a, <1>0, <1>1 DEF ChainInv, Follows
<1>3. /\ queue # <<>> /\ queue' = Tail(queue)
      /\ Head(queue) = queue[1] /\ Len(queue) > 0
      /\ Len(queue') = Len(queue) - 1 /\ DOMAIN queue' = 1..(Len(queue) - 1)
      /\ \A i \in 1..(Len(queue) - 1) : queue'[i] = queue[i + 1]
  <2>1. queue # <<>> /\ queue' = Tail(queue)
    BY DEF AddIncumbent, LookUp
  <2> QED
    BY <1>b, <2>1, TailElements
<1>4. \A i \in DOMAIN queue' : queue'[i] = Answer => i = Len(queue')
  <2> SUFFICES ASSUME NEW i \in 1..(Len(queue) - 1), queue'[i] = Answer
               PROVE  i = Len(queue) - 1
    BY <1>3
  <2>1. queue[i + 1] = Answer /\ i + 1 \in DOMAIN queue
    BY <1>b, <1>3
  <2>2. i + 1 = Len(queue)
    BY <1>a, <2>1 DEF ChainInv
  <2>3. i \in Int
    OBVIOUS
  <2> QED
    BY <2>2, <2>3
<1>5. ASSUME exists, ~Happened("lost")
      PROVE  /\ Follows(list', ReadCount)
             /\ \A i \in DOMAIN queue' :
                  queue'[i] # Answer => queue'[i] = ListCount' + i
             /\ QueueCount' = QueueCount
  <2>1. /\ Follows(list, ReadCount)
        /\ \A i \in DOMAIN queue :
             queue[i] # Answer => queue[i] = ListCount + i
    BY <1>a, <1>5 DEF ChainInv
  <2>2. CASE AddIncumbent
    <3>1. queue[1] # Answer /\ list' = Append(list, queue[1])
      BY <1>3, <1>5, <2>2 DEF AddIncumbent, Added
    <3>2. queue[1] = ListCount + 1
      BY <1>b, <1>3, <2>1, <3>1
    <3>3. queue[1] \in Incumbent
      BY <1>b, <1>3, <3>1, ConstantsAssumption
      DEF Messages, Incumbent, Answer
    <3>4. /\ Len(list') = Len(list) + 1 /\ DOMAIN list' = 1..(Len(list) + 1)
          /\ \A i \in 1..Len(list) : list'[i] = list[i]
          /\ list'[Len(list) + 1] = queue[1]
      BY <1>b, <3>1, <3>3, AppendElements
    <3>5. ListCount = ReadCount + Len(list)
      BY DEF ListCount
    <3>6. Follows(list', ReadCount)
      <4>1. \A i \in 1..Len(list) : list[i] = ReadCount + i
        BY <1>b, <2>1 DEF Follows
      <4>2. ASSUME NEW i \in 1..(Len(list) + 1)
            PROVE  list'[i] = ReadCount + i
        <5>1. CASE i = Len(list) + 1
          BY <1>b, <3>2, <3>4, <3>5, <5>1
        <5>2. CASE i # Len(list) + 1
          <6>1. i \in 1..Len(list)
            BY <1>b, <5>2
          <6> QED
            BY <3>4, <4>1, <6>1
        <5> QED
          BY <5>1, <5>2
      <4> QED
        BY <3>4, <4>2 DEF Follows
    <3>7. ListCount' = ListCount + 1
      BY <1>b, <1>1, <3>4, <3>5 DEF ListCount
    <3>8. AnswerQueued' <=> AnswerQueued
      BY <1>b, <1>c, <1>3, <3>1
    <3>9. QueueCount' = QueueCount
      <4>1. CASE AnswerQueued
        <5>1. /\ QueueCount = ListCount + (Len(queue) - 1)
              /\ QueueCount' = ListCount' + (Len(queue') - 1)
          BY <3>8, <4>1 DEF QueueCount
        <5> QED
          BY <1>b, <1>3, <3>7, <5>1
      <4>2. CASE ~AnswerQueued
        <5>1. /\ QueueCount = ListCount + Len(queue)
              /\ QueueCount' = ListCount' + Len(queue')
          BY <3>8, <4>2 DEF QueueCount
        <5> QED
          BY <1>b, <1>3, <3>7, <5>1
      <4> QED
        BY <4>1, <4>2
    <3>10. ASSUME NEW i \in 1..(Len(queue) - 1), queue'[i] # Answer
           PROVE  queue'[i] = ListCount' + i
      <4>1. queue'[i] = queue[i + 1] /\ i + 1 \in DOMAIN queue
        BY <1>b, <1>3
      <4>2. queue[i + 1] = ListCount + (i + 1)
        BY <2>1, <3>10, <4>1
      <4> QED
        BY <1>b, <3>7, <4>1, <4>2
    <3>11. \A i \in DOMAIN queue' :
             queue'[i] # Answer => queue'[i] = ListCount' + i
      BY <1>3, <3>10
    <3> QED
      BY <3>6, <3>9, <3>11
  <2>3. CASE LookUp
    <3>1. queue[1] = Answer /\ list' = list
      BY <1>3, <2>3 DEF LookUp
    <3>2. Len(queue) = 1
      BY <1>a, <1>b, <1>3, <3>1 DEF ChainInv
    <3>3. AnswerQueued /\ ~AnswerQueued' /\ ListCount' = ListCount
      BY <1>1, <1>c, <1>3, <3>1, <3>2 DEF ListCount
    <3>4. QueueCount' = QueueCount
      BY <1>b, <1>3, <3>2, <3>3 DEF QueueCount
    <3>5. DOMAIN queue' = {}
      BY <1>3, <3>2
    <3> QED
      BY <2>1, <3>1, <3>4, <3>5
  <2> QED
    BY <2>2, <2>3
<1> QED
  BY <1>a, <1>0, <1>1, <1>2, <1>4, <1>5 DEF ChainInv

\* The client's thread: it takes the list, and passes it to the callback.
LEMMA ChainThread ==
  ASSUME Inv, ThreadStep
  PROVE  ChainInv'
<1> USE DEF serverVars, mainVars, threadVars, fileVars, logVars
<1>a. TypeOK /\ ChainInv /\ CallerInv
  BY DEF Inv
<1>b. /\ seen \in Seq(Incumbent) /\ list \in Seq(Incumbent)
      /\ Unread \in Seq(Incumbent) /\ reply.incumbents \in Seq(Incumbent)
      /\ Len(seen) \in Nat /\ Len(Unread) \in Nat /\ Len(list) \in Nat
      /\ Incumbent \subseteq Nat
  BY <1>a, ChainTypes
<1>0. UNCHANGED <<queue, exists, produced, solver>>
  BY DEF ThreadStep, Fetch, LoseResponse, Receive, Test
\* What is left to show of each step.
<1>1. ASSUME Follows(seen, 0)', Follows(Unread, Len(seen))',
             Happened("lost") => Happened("lost")',
             exists /\ ~Happened("lost")' =>
               Follows(list', ReadCount') /\ ListCount' = ListCount
      PROVE  ChainInv'
  <2>1. exists /\ ~Happened("lost")' => QueueCount' = QueueCount
    BY <1>0, <1>1 DEF QueueCount, AnswerQueued
  <2> QED
    BY <1>a, <1>0, <1>1, <2>1 DEF ChainInv
<1>2. CASE Fetch
  <2>1. /\ ipc = "fetch" /\ ipc' = "receive" /\ reply' = CurrentIncumbents
        /\ list' = <<>> /\ UNCHANGED <<seen, faults>>
    BY <1>2 DEF Fetch, TakenFrom
  <2>2. Unread = <<>> /\ Unread' = reply'.incumbents
    BY <2>1 DEF Unread
  <2>3. reply'.incumbents = IF exists THEN list ELSE <<>>
    BY <2>1 DEF CurrentIncumbents, NoSuchJob, Sentinel, Listed
  <2>4. Len(Unread) = 0 /\ ReadCount = Len(seen)
    BY <1>b, <2>2 DEF ReadCount
  <2>5. ~Happened("lost")
    BY <1>a, <2>1 DEF CallerInv
  <2>6. Follows(Unread, Len(seen))'
    <3>1. CASE exists
      BY <1>a, <2>1, <2>2, <2>3, <2>4, <2>5, <3>1 DEF ChainInv, Follows
    <3>2. CASE ~exists
      BY <2>2, <2>3, <3>2 DEF Follows
    <3> QED
      BY <3>1, <3>2
  <2>7. Follows(seen, 0)'
    BY <1>a, <2>1 DEF ChainInv, Follows
  <2>8. exists => Follows(list', ReadCount') /\ ListCount' = ListCount
    <3>1. Follows(list', ReadCount')
      BY <2>1 DEF Follows
    <3>2. exists => ListCount' = ListCount
      BY <1>b, <2>1, <2>2, <2>3, <2>4 DEF ListCount, ReadCount
    <3> QED
      BY <3>1, <3>2
  <2> QED
    BY <1>1, <2>1, <2>6, <2>7, <2>8, NoFault
<1>3. CASE LoseResponse
  <2>1. /\ Happened("lost")' /\ ipc' = "ended" /\ UNCHANGED seen
    BY <1>a, <1>3, FaultFacts DEF LoseResponse
  <2>2. Unread' = <<>>
    BY <2>1 DEF Unread
  <2>3. Follows(seen, 0)' /\ Follows(Unread, Len(seen))'
    BY <1>a, <2>1, <2>2 DEF ChainInv, Follows
  <2> QED
    BY <1>1, <2>1, <2>3
<1>4. CASE Receive
  <2>1. /\ ipc = "receive" /\ ipc' = "test"
        /\ seen' = seen \o reply.incumbents /\ UNCHANGED <<list, faults>>
    BY <1>4 DEF Receive
  <2>2. Unread = reply.incumbents /\ Unread' = <<>>
    BY <2>1 DEF Unread
  <2>3. Follows(seen, 0) /\ Follows(Unread, 0 + Len(seen))
    BY <1>a, <1>b DEF ChainInv
  <2>4. /\ Len(seen') = Len(seen) + Len(Unread) /\ Follows(seen', 0)
        /\ seen' \in Seq(Incumbent)
    BY <1>b, <2>1, <2>2, <2>3, FollowsConcat
  <2>5. Follows(Unread, Len(seen))'
    BY <2>2 DEF Follows
  <2>6. ReadCount' = ReadCount /\ ListCount' = ListCount
    BY <1>b, <2>1, <2>2, <2>4 DEF ReadCount, ListCount
  <2>7. Happened("lost")' <=> Happened("lost")
    BY <2>1, NoFault
  <2>8. exists /\ ~Happened("lost") => Follows(list', ReadCount')
    BY <1>a, <2>1, <2>6 DEF ChainInv
  <2> QED
    BY <1>1, <2>4, <2>5, <2>6, <2>7, <2>8
<1>5. CASE Test
  <2>1. /\ ipc = "test" /\ ipc' \in {"ended", "fetch"}
        /\ UNCHANGED <<seen, list, faults>>
    BY <1>5 DEF Test
  <2>2. Unread = <<>> /\ Unread' = <<>>
    BY <2>1 DEF Unread
  <2>3. ReadCount' = ReadCount /\ ListCount' = ListCount
    BY <2>1, <2>2 DEF ReadCount, ListCount
  <2>4. Happened("lost")' <=> Happened("lost")
    BY <2>1, NoFault
  <2> QED
    BY <1>a, <1>1, <2>1, <2>2, <2>3, <2>4 DEF ChainInv, Follows
<1> QED
  BY <1>2, <1>3, <1>4, <1>5 DEF ThreadStep

\* Every step keeps ChainInv.
LEMMA ChainStep ==
  ASSUME Inv, [Next]_vars
  PROVE  ChainInv'
<1>1. CASE SolverStep
  BY <1>1, ChainSolver
<1>2. CASE AddIncumbent \/ LookUp
  BY <1>2, ChainServer
<1>3. CASE ThreadStep
  BY <1>3, ChainThread
<1>4. CASE SetResult \/ AbortJob \/ DeletedByOther \/ LogDeletedByOther
             \/ LogStep \/ MainStep \/ UNCHANGED vars
  <2>1. /\ UNCHANGED <<queue, seen, ipc, reply>>
        /\ exists' => exists /\ UNCHANGED <<list, produced, solver>>
    BY <1>4 DEF SetResult, AbortJob, DeletedByOther, LogDeletedByOther,
       LogStep, LogTest, LogFetch, LogReceive, LoseLog, LogUnchanged,
       MainStep, Poll, PollTimesOut, StopThreads, JoinThread,
       DeleteSolution, DeleteLog, vars, serverVars, mainVars, threadVars,
       fileVars, logVars
  <2>2. Happened("lost") => Happened("lost")'
    BY FaultSteps DEF Inv
  <2> QED
    BY <2>1, <2>2, ChainFrame DEF Inv
<1> QED
  BY <1>1, <1>2, <1>3, <1>4 DEF Next, ServerStep

-----------------------------------------------------------------------------
(* The theorems.                                                           *)

\* The invariant holds at the start.
LEMMA InitInv ==
  Init => Inv
<1> SUFFICES ASSUME Init PROVE Inv
  OBVIOUS
<1>1. TypeOK
  BY InitTyped
<1>2. /\ seen = <<>> /\ Unread = <<>> /\ list = <<>> /\ queue = <<>>
      /\ ~AnswerQueued /\ produced = 0
      /\ Len(seen) = 0 /\ Len(Unread) = 0 /\ Len(list) = 0 /\ Len(queue) = 0
  BY DEF Init, Unread, AnswerQueued
<1>3. ChainInv
  BY <1>2 DEF ChainInv, Follows, QueueCount, ListCount, ReadCount
<1>4. \A g : ~Happened(g)
  BY DEF Init, Happened
<1>5. ServerInv /\ CallerInv
  BY <1>4 DEF Init, ServerInv, CallerInv
<1>6. EndInv
  BY DEF Init, EndInv, Pending, Sentinel, NoSuchJob
<1>7. LogInv
  BY ConstantsAssumption DEF Init, LogInv, Follows, NotFound
<1> QED
  BY <1>1, <1>3, <1>5, <1>6, <1>7 DEF Inv

\* Every step keeps the invariant: one lemma for each of its parts.
LEMMA NextInv ==
  ASSUME Inv, [Next]_vars
  PROVE  Inv'
<1>1. TypeOK'
  BY NextTyped DEF Inv
<1> QED
  BY <1>1, ChainStep, ServerInvStep, CallerStep, EndInvStep, LogInvStep
  DEF Inv

\* The invariant holds in every behaviour of the client, the server and the
\* solver process, with any number of incumbents and faults.
THEOREM Invariance ==
  Spec => []Inv
BY InitInv, NextInv, PTL DEF Spec

(* Every variable keeps its type.                                          *)
THEOREM TypeCorrect ==
  Spec => []TypeOK
<1>1. Inv => TypeOK
  BY DEF Inv
<1> QED
  BY <1>1, Invariance, PTL

(* No incumbent vanishes, appears twice or overtakes another on its way to *)
(* the callback as long as the job is neither aborted nor removed and no   *)
(* response is lost; and whatever happens, the callbacks are called with   *)
(* an initial part of the incumbents and of the log.                       *)
THEOREM NothingVanishes ==
  Spec => []NoneVanishes
<1> SUFFICES ASSUME Inv PROVE NoneVanishes
  BY Invariance, PTL
<1>a. TypeOK /\ ChainInv
  BY DEF Inv
<1>b. /\ seen \in Seq(Incumbent) /\ list \in Seq(Incumbent)
      /\ Unread \in Seq(Incumbent) /\ queue \in Seq(Messages)
      /\ Len(seen) \in Nat /\ Len(Unread) \in Nat /\ Len(list) \in Nat
      /\ Len(queue) \in Nat /\ DOMAIN queue = 1..Len(queue)
      /\ Incumbent \subseteq Nat /\ Messages \subseteq Nat
  BY <1>a, ChainTypes
<1>1. seen = [i \in 1..Len(seen) |-> i]
  BY <1>a, <1>b, CountsFromOne DEF ChainInv
<1>2. logSeen = [i \in 1..Len(logSeen) |-> i]
  BY CountsFromOne DEF Inv, TypeOK, LogInv
<1>3. ASSUME exists, ~Happened("abort"), ~Happened("lost")
      PROVE  seen \o Unread \o list \o InQueue = [i \in 1..produced |-> i]
  <2>1. /\ Follows(seen, 0) /\ Follows(Unread, 0 + Len(seen))
        /\ Follows(list, ReadCount) /\ QueueCount = produced
        /\ \A i \in DOMAIN queue :
             queue[i] # Answer => queue[i] = ListCount + i
        /\ \A i \in DOMAIN queue : queue[i] = Answer => i = Len(queue)
    BY <1>a, <1>b, <1>3 DEF ChainInv, Inv, ServerInv
  <2>2. /\ seen \o Unread \in Seq(Incumbent)
        /\ Len(seen \o Unread) = ReadCount /\ Follows(seen \o Unread, 0)
    BY <1>b, <2>1, FollowsConcat DEF ReadCount
  <2>3. /\ seen \o Unread \o list \in Seq(Incumbent)
        /\ Len(seen \o Unread \o list) = ListCount
        /\ Follows(seen \o Unread \o list, 0)
    <3>1. Follows(list, 0 + Len(seen \o Unread)) /\ ReadCount \in Nat
      BY <1>b, <2>1, <2>2 DEF ReadCount
    <3> QED
      BY <1>b, <2>2, <3>1, FollowsConcat DEF ListCount
  <2>4. InQueue \in Seq(Messages) /\ Follows(InQueue, ListCount)
        /\ Len(InQueue) = IF AnswerQueued THEN Len(queue) - 1 ELSE Len(queue)
    <3>1. CASE AnswerQueued
      <4>1. Len(queue) > 0
        BY <1>b, <3>1, EmptySeq DEF AnswerQueued
      <4>2. Len(queue) - 1 \in 0..Len(queue)
        BY <1>b, <4>1
      <4>3. /\ InQueue \in Seq(Messages) /\ Len(InQueue) = Len(queue) - 1
            /\ DOMAIN InQueue = 1..(Len(queue) - 1)
            /\ \A i \in 1..(Len(queue) - 1) : InQueue[i] = queue[i]
        BY <1>b, <3>1, <4>2, PrefixElements DEF InQueue
      <4>4. ASSUME NEW i \in 1..(Len(queue) - 1)
            PROVE  queue[i] = ListCount + i
        <5> DEFINE l == Len(queue)
        <5>1. l \in Nat /\ i \in 1..(l - 1)
          BY <1>b, <4>4
        <5> HIDE DEF l
        <5>2. i \in 1..l /\ i # l
          BY <5>1
        <5>3. i \in DOMAIN queue /\ i # Len(queue)
          BY <1>b, <5>2 DEF l
        <5> QED
          BY <2>1, <5>3
      <4> QED
        BY <3>1, <4>3, <4>4 DEF Follows
    <3>2. CASE ~AnswerQueued
      <4>1. InQueue = queue
        BY <3>2 DEF InQueue
      <4>2. ASSUME NEW i \in 1..Len(queue)
            PROVE  queue[i] # Answer
        <5>1. Len(queue) > 0
          BY <1>b, <4>2
        <5> QED
          BY <1>a, <1>b, <2>1, <3>2, <5>1, AnswerLast
      <4> QED
        BY <1>b, <2>1, <3>2, <4>1, <4>2 DEF Follows
    <3> QED
      BY <3>1, <3>2
  <2>5. Follows(InQueue, 0 + Len(seen \o Unread \o list))
    <3>1. ListCount \in Nat
      BY <1>b DEF ListCount, ReadCount
    <3> QED
      BY <2>3, <2>4, <3>1
  <2>6. Incumbent \subseteq Messages
    BY ConstantsAssumption DEF Incumbent, Messages
  <2>7. seen \o Unread \o list \in Seq(Messages)
    BY <2>3, <2>6, SeqMonotonic
  <2>8. /\ seen \o Unread \o list \o InQueue \in Seq(Messages)
        /\ Len(seen \o Unread \o list \o InQueue) = produced
        /\ Follows(seen \o Unread \o list \o InQueue, 0)
    <3>1. /\ seen \o Unread \o list \o InQueue \in Seq(Messages)
          /\ Len(seen \o Unread \o list \o InQueue)
               = Len(seen \o Unread \o list) + Len(InQueue)
          /\ Follows(seen \o Unread \o list \o InQueue, 0)
      BY <1>b, <2>3, <2>4, <2>5, <2>7, FollowsConcat
    <3>2. Len(seen \o Unread \o list) + Len(InQueue) = QueueCount
      BY <2>3, <2>4 DEF QueueCount
    <3> QED
      BY <2>1, <3>1, <3>2
  <2> QED
    BY <2>8, CountsFromOne
<1> QED
  BY <1>1, <1>2, <1>3 DEF NoneVanishes

(* The sentinel keeps its promise: the client that has it has had all      *)
(* incumbents of a job that is not aborted. And a job that does not exist  *)
(* has been deleted by another client.                                     *)
THEOREM EndMarksTrue ==
  Spec => []EndMarksAreTrue
<1>1. Inv => EndMarksAreTrue
  <2> SUFFICES ASSUME Inv PROVE EndMarksAreTrue
    OBVIOUS
  <2>1. seen \in Seq(Incumbent) /\ Follows(seen, 0)
    BY ChainTypes DEF Inv, ChainInv
  <2>2. seen = [i \in 1..Len(seen) |-> i]
    BY <2>1, CountsFromOne
  <2> QED
    BY <2>2 DEF Inv, EndInv, EndMarksAreTrue
<1> QED
  BY <1>1, Invariance, PTL

(* A client that got the answer has seen the whole log.                    *)
THEOREM LogWhole ==
  Spec => []LogIsWhole
<1>1. Inv => LogIsWhole
  <2> SUFFICES ASSUME Inv, complete,
                      mpc \in {"delete", "deletelog", "returned"},
                      ~Happened("unlink"), ~Happened("lostlog")
               PROVE  logSeen = [i \in 1..written |-> i]
    BY DEF LogIsWhole
  <2>1. lpc = "ended"
    BY DEF Inv, CallerInv
  <2>2. Len(logSeen) = written /\ Follows(logSeen, 0)
    BY <2>1 DEF Inv, LogInv
  <2>3. logSeen \in Seq(Piece)
    BY DEF Inv, TypeOK
  <2> QED
    BY <2>2, <2>3, CountsFromOne
<1> QED
  BY <1>1, Invariance, PTL
=============================================================================
