------------------------- MODULE AsyncDescriptorProofs -------------------------
(***************************************************************************)
(* Proofs about AsyncDescriptor, for any set of jobs and any faults.       *)
(***************************************************************************)
EXTENDS AsyncDescriptor, SequenceTheorems, TLAPS

--------------------------------------------------------------------------------
(* Sequences: what push, pop and the end of a job do to performed \o InFlight *)
(* \o queue.                                                                  *)

\* A push extends the whole sequence of jobs at its end.
LEMMA ConcatAppend ==
    ASSUME NEW S, NEW s \in Seq(S), NEW t \in Seq(S), NEW x \in S
    PROVE  s \o Append(t, x) = Append(s \o t, x)
<1>1. /\ Append(t, x) \in Seq(S)
      /\ s \o t \in Seq(S)
      /\ <<x>> \in Seq(S)
  BY AppendProperties, ConcatProperties
<1>2. s \o Append(t, x) = s \o (t \o <<x>>)
  BY AppendIsConcat
<1>3. s \o (t \o <<x>>) = (s \o t) \o <<x>>
  BY <1>1, ConcatAssociative
<1> QED
  BY <1>1, <1>2, <1>3, AppendIsConcat

\* Taking the head of the queue in flight keeps the order.
LEMMA HeadThenTail ==
    ASSUME NEW S, NEW q \in Seq(S), q # <<>>
    PROVE  <<Head(q)>> \o Tail(q) = q
<1>1. /\ Head(q) \in S /\ Tail(q) \in Seq(S)
      /\ Len(Tail(q)) = Len(q) - 1
      /\ \A i \in 1..Len(Tail(q)) : Tail(q)[i] = q[i + 1]
  BY HeadTailProperties
<1>2. <<Head(q)>> \in Seq(S) /\ Len(<<Head(q)>>) = 1 /\ <<Head(q)>>[1] = Head(q)
  BY <1>1
<1>3. Len(q) \in Nat \ {0} /\ Head(q) = q[1]
  BY EmptySeq, LenProperties
<1>4. /\ <<Head(q)>> \o Tail(q) \in Seq(S)
      /\ Len(<<Head(q)>> \o Tail(q)) = Len(q)
      /\ \A i \in 1..Len(q) : (<<Head(q)>> \o Tail(q))[i]
                               = IF i <= 1 THEN Head(q) ELSE Tail(q)[i - 1]
  <2>1. Len(<<Head(q)>>) + Len(Tail(q)) = Len(q)
    BY <1>1, <1>2, <1>3
  <2>2. /\ <<Head(q)>> \o Tail(q) \in Seq(S)
        /\ Len(<<Head(q)>> \o Tail(q)) = Len(q)
        /\ \A i \in 1..Len(q) : (<<Head(q)>> \o Tail(q))[i]
              = IF i <= Len(<<Head(q)>>) THEN <<Head(q)>>[i] ELSE Tail(q)[i - Len(<<Head(q)>>)]
    BY <1>1, <1>2, <2>1, ConcatProperties
  <2> QED
    BY <1>2, <2>2
<1>5. \A i \in 1..Len(q) : (<<Head(q)>> \o Tail(q))[i] = q[i]
  BY <1>1, <1>3, <1>4
<1> QED
  BY <1>4, <1>5, SeqEqual

--------------------------------------------------------------------------------
(* The calls.                                                                 *)

\* The two threads are two.
LEMMA ThreadsDiffer == Main \in Thread /\ Worker \in Thread /\ Main # Worker
  BY ThreadAssumption DEF Main, Worker

\* The two conditions are two.
LEMMA CondsDiffer == not_empty \in Cond /\ empty \in Cond /\ not_empty # empty
  BY CondAssumption DEF not_empty, empty

\* The mutex and the waiters keep their types whatever a call does to them.
LEMMA SyncSteps ==
    ASSUME SyncTypeOK, NEW t \in Thread, NEW c \in Cond
    PROVE  /\ Lock(t) /\ UNCHANGED waiting => SyncTypeOK'
           /\ Unlock(t) /\ (UNCHANGED waiting \/ Signal(c)) => SyncTypeOK'
           /\ WaitOn(t, c) => SyncTypeOK'
           /\ SpuriousWakeup(t, c) => SyncTypeOK'
           /\ UNCHANGED syncVars => SyncTypeOK'
  BY DEF SyncTypeOK, Lock, Unlock, Signal, WaitOn, SpuriousWakeup, syncVars

\* The types hold at the start.
LEMMA TypeInit == Init => TypeOK
<1> SUFFICES ASSUME Init PROVE TypeOK
  OBVIOUS
<1> USE DEF Init
<1>1. SyncTypeOK
  BY DEF SyncInit, SyncTypeOK
<1>2. pc[Main] = "ready" /\ pc[Worker] = "none"
  BY ThreadsDiffer
<1>3. pc \in [Thread -> MainUnlocked \cup WorkerUnlocked]
  BY DEF MainUnlocked, WorkerUnlocked
<1>4. arg \in [Thread -> Job \cup {NoJob}]
  OBVIOUS
<1>5. queue \in Seq(Job) /\ accepted \in Seq(Job) /\ performed \in Seq(Job)
  BY EmptySeq
<1>6. {flush_and_close, worker_started, isStarted, close, fdOpen, destroying} \subseteq BOOLEAN
  OBVIOUS
<1> QED
  BY <1>1, <1>2, <1>3, <1>4, <1>5, <1>6 DEF TypeOK, MainUnlocked, WorkerUnlocked

\* Every step keeps the types.
LEMMA TypeStep == TypeOK /\ ArgInv /\ InFlightInv /\ [Next]_vars => TypeOK'
<1> SUFFICES ASSUME TypeOK, ArgInv, InFlightInv, [Next]_vars
             PROVE  TypeOK'
  OBVIOUS
<1> USE ThreadsDiffer, CondsDiffer, ThreadAssumption
<1> USE DEF TypeOK, ArgInv, MainLocked, MainUnlocked, WorkerLocked, WorkerUnlocked,
            Goto, Abort, LockedCall, descVars, jobVars, runVars
<1>1. ASSUME NEW t \in Thread, Acquire(t)
      PROVE  TypeOK'
  BY <1>1, SyncSteps DEF Acquire
<1>2. ASSUME NEW t \in Thread, Push(t)
      PROVE  TypeOK'
  BY <1>2, SyncSteps, AppendProperties DEF Push
<1>3. CASE SetFlushAndClose
  BY <1>3, SyncSteps DEF SetFlushAndClose
<1>4. CASE SignalNotEmpty
  BY <1>4, SyncSteps DEF SignalNotEmpty
<1>5. CASE WaitEmpty
  BY <1>5, SyncSteps DEF WaitEmpty
<1>6. CASE WaitEmptyReturn
  BY <1>6, SyncSteps DEF WaitEmptyReturn
<1>7. CASE Pop
  BY <1>7, SyncSteps, HeadTailProperties, EmptySeq DEF Pop
<1>8. CASE SignalEmpty
  BY <1>8, SyncSteps DEF SignalEmpty
<1>9. CASE WaitNotEmpty
  BY <1>9, SyncSteps DEF WaitNotEmpty
<1>10. CASE WaitNotEmptyReturn
  BY <1>10, SyncSteps DEF WaitNotEmptyReturn
<1>11. ASSUME NEW t \in Thread, NEW c \in Cond, Wakeup(t, c)
      PROVE  TypeOK'
  BY <1>11, SyncSteps DEF Wakeup
<1>12. CASE Perform
  BY <1>12, SyncSteps DEF Perform
<1>13. CASE PerformFails
  BY <1>13, SyncSteps DEF PerformFails
<1>14. ASSUME NEW j \in Job, HandlerSubmits(j)
      PROVE  TypeOK'
  BY <1>14, SyncSteps DEF HandlerSubmits
<1>15. CASE HandlerReturns
  BY <1>15, SyncSteps, AppendProperties DEF HandlerReturns, InFlightInv
<1>16. ASSUME NEW j \in Job, AsyncOperation(j)
      PROVE  TypeOK'
  BY <1>16, SyncSteps DEF AsyncOperation
<1>17. CASE StartWorker
  BY <1>17, SyncSteps DEF StartWorker
<1>18. CASE Close
  BY <1>18, SyncSteps DEF Close, BeginClose
<1>19. CASE Destroy
  BY <1>19, SyncSteps DEF Destroy, BeginClose
<1>20. CASE WaitForTermination
  BY <1>20, SyncSteps DEF WaitForTermination
<1>21. CASE JoinInvalidHandle
  BY <1>21, SyncSteps DEF JoinInvalidHandle
<1>22. CASE CloseFd
  BY <1>22, SyncSteps DEF CloseFd
<1>23. CASE Delete
  BY <1>23, SyncSteps DEF Delete
<1>24. CASE UNCHANGED vars
  BY <1>24, SyncSteps DEF vars, syncVars
<1>25. QED
  BY <1>1, <1>2, <1>3, <1>4, <1>5, <1>6, <1>7, <1>8, <1>9, <1>10, <1>11, <1>12, <1>13, <1>14, <1>15, <1>16, <1>17, <1>18, <1>19, <1>20, <1>21, <1>22, <1>23, <1>24 DEF Next, WorkerStep, MainStep, Environment

--------------------------------------------------------------------------------
(* FifoOnce: only Push, Pop and HandlerReturns touch the three sequences.     *)

\* A step that moves no job keeps the order of the jobs.
LEMMA FifoUnchanged ==
    ASSUME FifoOnce, UNCHANGED <<performed, current, queue, accepted>>
    PROVE  FifoOnce'
  BY DEF FifoOnce, InFlight

\* A job put at the end of the queue keeps the order.
LEMMA FifoPush ==
    ASSUME TypeOK, ArgInv, FifoOnce, NEW t \in Thread, Push(t)
    PROVE  FifoOnce'
<1> DEFINE front == performed \o InFlight
<1>1. front \in Seq(Job) /\ queue \in Seq(Job) /\ arg[t] \in Job
  <2>1. InFlight \in Seq(Job)
    BY EmptySeq DEF TypeOK, InFlight
  <2> QED
    BY <2>1, ConcatProperties DEF TypeOK, ArgInv, Push
<1>2. /\ queue' = Append(queue, arg[t]) /\ accepted' = Append(accepted, arg[t])
      /\ performed' = performed /\ InFlight' = InFlight
  BY DEF Push, runVars, InFlight
<1>3. front \o Append(queue, arg[t]) = Append(front \o queue, arg[t])
  <2> HIDE DEF front
  <2> QED  BY <1>1, ConcatAppend
<1> QED
  BY <1>2, <1>3 DEF FifoOnce

\* A job taken from the front of the queue keeps the order.
LEMMA FifoPop ==
    ASSUME TypeOK, InFlightInv, FifoOnce, Pop
    PROVE  FifoOnce'
<1>1. /\ pc[Worker] = "pop" /\ current = NoJob
      /\ performed' = performed /\ accepted' = accepted
      /\ performed \in Seq(Job) /\ queue \in Seq(Job)
  BY DEF Pop, InFlightInv, TypeOK
<1>2. performed \o queue = accepted
  BY <1>1, ConcatEmptySeq DEF FifoOnce, InFlight
<1>3. CASE queue = <<>>
  BY <1>1, <1>3 DEF Pop, FifoOnce, InFlight
<1>4. CASE queue # <<>>
  <2>1. /\ Head(queue) \in Job /\ Tail(queue) \in Seq(Job)
        /\ <<Head(queue)>> \in Seq(Job)
    BY <1>1, <1>4, HeadTailProperties
  <2>2. InFlight' = <<Head(queue)>> /\ queue' = Tail(queue)
    BY <1>4, <2>1, JobAssumption DEF Pop, InFlight
  <2>3. (performed \o <<Head(queue)>>) \o Tail(queue) = performed \o (<<Head(queue)>> \o Tail(queue))
    BY <1>1, <2>1, ConcatAssociative
  <2>4. <<Head(queue)>> \o Tail(queue) = queue
    BY <1>1, <1>4, HeadThenTail
  <2> QED
    BY <1>1, <1>2, <2>2, <2>3, <2>4 DEF FifoOnce
<1> QED
  BY <1>3, <1>4

\* A job that is done keeps the order.
LEMMA FifoReturn ==
    ASSUME TypeOK, InFlightInv, FifoOnce, HandlerReturns
    PROVE  FifoOnce'
<1>1. /\ current \in Job /\ InFlight = <<current>> /\ InFlight' = <<>>
      /\ performed' = Append(performed, current) /\ queue' = queue /\ accepted' = accepted
      /\ performed \in Seq(Job) /\ queue \in Seq(Job)
  BY DEF HandlerReturns, InFlightInv, TypeOK, InFlight, jobVars
<1>2. Append(performed, current) = performed \o <<current>> /\ Append(performed, current) \in Seq(Job)
  BY <1>1, AppendIsConcat, AppendProperties
<1>3. Append(performed, current) \o <<>> = performed \o <<current>>
  BY <1>2, ConcatEmptySeq
<1> QED
  BY <1>1, <1>3 DEF FifoOnce

\* Every step keeps the order of the jobs.
LEMMA FifoStep ==
    ASSUME TypeOK, ArgInv, InFlightInv, FifoOnce, [Next]_vars
    PROVE  FifoOnce'
<1>1. ASSUME NEW t \in Thread, Push(t)
      PROVE  FifoOnce'
  BY <1>1, FifoPush
<1>2. CASE Pop
  BY <1>2, FifoPop
<1>3. CASE HandlerReturns
  BY <1>3, FifoReturn
<1>4. CASE UNCHANGED <<performed, current, queue, accepted>>
  BY <1>4, FifoUnchanged
<1>5. Main \in Thread /\ Worker \in Thread
  BY ThreadsDiffer
<1>6. CASE \E t \in Thread : Acquire(t)
  BY <1>4, <1>6 DEF Acquire, jobVars, runVars
<1>7. CASE WorkerStep
  BY <1>1, <1>2, <1>3, <1>4, <1>5, <1>7
  DEF WorkerStep, SignalEmpty, WaitNotEmpty, WaitNotEmptyReturn, Perform, jobVars, runVars
<1>8. CASE MainStep
  BY <1>1, <1>4, <1>5, <1>8
  DEF MainStep, SetFlushAndClose, SignalNotEmpty, WaitEmpty, WaitEmptyReturn, StartWorker,
      WaitForTermination, JoinInvalidHandle, CloseFd, Delete, jobVars, runVars
<1>9. CASE Environment
  BY <1>4, <1>9
  DEF Environment, AsyncOperation, HandlerSubmits, Close, Destroy, PerformFails, Wakeup,
      jobVars, runVars
<1>10. CASE UNCHANGED vars
  BY <1>4, <1>10 DEF vars, jobVars, runVars
<1> QED
  BY <1>6, <1>7, <1>8, <1>9, <1>10 DEF Next

--------------------------------------------------------------------------------
(* Which calls the threads can be in together.                                *)

\* Every step keeps the parts of the invariant about where the threads are.
LEMMA ControlStep == IInv /\ [Next]_vars
    => InFlightInv' /\ ArgInv' /\ FlushInv' /\ ExitInv' /\ StartInv' /\ JoinedInv'
<1> SUFFICES ASSUME IInv, [Next]_vars
             PROVE  InFlightInv' /\ ArgInv' /\ FlushInv' /\ ExitInv' /\ StartInv' /\ JoinedInv'
  OBVIOUS
<1> USE ThreadsDiffer, ThreadAssumption
<1> USE DEF IInv, TypeOK, InFlightInv, ArgInv, FlushInv, ExitInv, StartInv, JoinedInv, Goto
<1> DEFINE Control == InFlightInv' /\ ArgInv' /\ FlushInv' /\ ExitInv' /\ StartInv' /\ JoinedInv'
<1>1. ASSUME NEW t \in Thread, Acquire(t)
      PROVE  Control
  BY <1>1 DEF Acquire, descVars, jobVars, runVars
<1>2. ASSUME NEW t \in Thread, Push(t)
      PROVE  Control
  BY <1>2 DEF Push, descVars, jobVars, runVars
<1>3. CASE SetFlushAndClose
  BY <1>3 DEF SetFlushAndClose, descVars, jobVars, runVars
<1>4. CASE SignalNotEmpty
  BY <1>4 DEF SignalNotEmpty, descVars, jobVars, runVars
<1>5. CASE WaitEmpty
  BY <1>5 DEF WaitEmpty, descVars, jobVars, runVars
<1>6. CASE WaitEmptyReturn
  BY <1>6 DEF WaitEmptyReturn, descVars, jobVars, runVars
<1>7. CASE Pop
  BY <1>7, JobAssumption, HeadTailProperties DEF Pop, descVars, jobVars, runVars
<1>8. CASE SignalEmpty
  BY <1>8 DEF SignalEmpty, descVars, jobVars, runVars
<1>9. CASE WaitNotEmpty
  BY <1>9 DEF WaitNotEmpty, descVars, jobVars, runVars
<1>10. CASE WaitNotEmptyReturn
  BY <1>10 DEF WaitNotEmptyReturn, descVars, jobVars, runVars
<1>11. ASSUME NEW t \in Thread, NEW c \in Cond, Wakeup(t, c)
      PROVE  Control
  BY <1>11 DEF Wakeup, descVars, jobVars, runVars
<1>12. CASE Perform
  BY <1>12 DEF Perform, descVars, jobVars, runVars
<1>13. CASE PerformFails
  <2>1. pc[Main] # "none"
    BY DEF MainLocked, MainUnlocked
  <2>2. pc'[Main] = "aborted" /\ pc'[Worker] = "aborted"
    BY <1>13, <2>1 DEF PerformFails, Abort
  <2>3. Thread = {Main, Worker} /\ UNCHANGED <<arg, descVars, jobVars, runVars>>
    BY <1>13 DEF PerformFails
  <2> QED
    BY <2>2, <2>3 DEF descVars, jobVars, runVars
<1>14. ASSUME NEW j \in Job, HandlerSubmits(j)
      PROVE  Control
  BY <1>14, JobAssumption DEF HandlerSubmits, descVars, jobVars, runVars
<1>15. CASE HandlerReturns
  BY <1>15 DEF HandlerReturns, descVars, jobVars, runVars
<1>16. ASSUME NEW j \in Job, AsyncOperation(j)
      PROVE  Control
  BY <1>16, JobAssumption DEF AsyncOperation, descVars, jobVars, runVars
<1>17. CASE StartWorker
  BY <1>17 DEF StartWorker, descVars, jobVars, runVars
<1>18. CASE Close
  BY <1>18 DEF Close, BeginClose, descVars, jobVars, runVars
<1>19. CASE Destroy
  BY <1>19 DEF Destroy, BeginClose, descVars, jobVars, runVars
<1>20. CASE WaitForTermination
  BY <1>20 DEF WaitForTermination, descVars, jobVars, runVars
<1>21. CASE JoinInvalidHandle
  BY <1>21 DEF JoinInvalidHandle, Abort, descVars, jobVars, runVars
<1>22. CASE CloseFd
  BY <1>22 DEF CloseFd, descVars, jobVars, runVars
<1>23. CASE Delete
  BY <1>23 DEF Delete, descVars, jobVars, runVars
<1>24. CASE UNCHANGED vars
  BY <1>24 DEF vars, descVars, jobVars, runVars
<1>25. QED
  BY <1>1, <1>2, <1>3, <1>4, <1>5, <1>6, <1>7, <1>8, <1>9, <1>10, <1>11, <1>12, <1>13, <1>14, <1>15, <1>16, <1>17, <1>18, <1>19, <1>20, <1>21, <1>22, <1>23, <1>24 DEF Next, WorkerStep, MainStep, Environment

--------------------------------------------------------------------------------
(* The invariants.                                                            *)

\* The invariant holds at the start.
LEMMA InvInit == Init => IInv
<1> SUFFICES ASSUME Init PROVE IInv
  OBVIOUS
<1>1. TypeOK
  BY TypeInit
<1>2. pc[Main] = "ready" /\ pc[Worker] = "none" /\ \A t \in Thread : pc[t] \notin {"start", "push"}
  BY ThreadsDiffer DEF Init
<1>3. FifoOnce
  <2>1. <<>> \o <<>> = <<>> /\ <<>> \in Seq(Job)
    BY ConcatEmptySeq, EmptySeq
  <2> QED
    BY <2>1 DEF Init, FifoOnce, InFlight
<1>4. InFlightInv /\ ArgInv /\ FlushInv /\ ExitInv /\ StartInv /\ JoinedInv
  BY <1>2 DEF Init, InFlightInv, ArgInv, FlushInv, ExitInv, StartInv, JoinedInv
<1> QED
  BY <1>1, <1>3, <1>4 DEF IInv

\* Every step keeps the invariant.
LEMMA InvStep == IInv /\ [Next]_vars => IInv'
<1> SUFFICES ASSUME IInv, [Next]_vars PROVE IInv'
  OBVIOUS
<1>1. TypeOK /\ FifoOnce /\ InFlightInv /\ ArgInv
  BY DEF IInv
<1>2. TypeOK'
  BY <1>1, TypeStep
<1>3. FifoOnce'
  BY <1>1, FifoStep
<1>4. InFlightInv' /\ ArgInv' /\ FlushInv' /\ ExitInv' /\ StartInv' /\ JoinedInv'
  BY ControlStep
<1> QED
  BY <1>2, <1>3, <1>4 DEF IInv

\* IInv holds in every state the descriptor can reach.
THEOREM Invariant == Spec => []IInv
  BY InvInit, InvStep, PTL DEF Spec

\* Every variable keeps its type and the mutex has at most one holder.
THEOREM TypeCorrect == Spec => []TypeOK
<1>1. IInv => TypeOK
  BY DEF IInv
<1> QED
  BY <1>1, Invariant, PTL

\* Worker::run() performs the jobs pushed by the owner and by handlers once each,
\* in the order of the pushes.
THEOREM FifoCorrect == Spec => []FifoOnce
<1>1. IInv => FifoOnce
  BY DEF IInv
<1> QED
  BY <1>1, Invariant, PTL

\* close() gives the descriptor number back only after every accepted job has been
\* performed, whatever interleaving of the two threads and whatever wakeups.
THEOREM FlushCorrect == Spec => []FlushBeforeClose
<1>1. IInv => FlushBeforeClose
  <2> SUFFICES ASSUME IInv, ~fdOpen, pc[Worker] \notin {"none", "aborted"}
               PROVE  performed = accepted
    BY DEF FlushBeforeClose
  <2>1. pc[Worker] = "joined"
    BY DEF IInv, JoinedInv
  <2>2. queue = <<>> /\ current = NoJob
    BY <2>1 DEF IInv, ExitInv, InFlightInv
  <2>3. performed \in Seq(Job) /\ (performed \o <<>>) \o <<>> = accepted
    BY <2>2 DEF IInv, TypeOK, FifoOnce, InFlight
  <2> QED
    BY <2>3, ConcatEmptySeq
<1> QED
  BY <1>1, Invariant, PTL

\* The destructor frees the worker and the queue only after the worker has been
\* joined, and finds isStarted_ reset.
THEOREM FreeCorrect == Spec => []NoUseAfterFree
<1>1. IInv => NoUseAfterFree
  BY ThreadsDiffer DEF IInv, JoinedInv, StartInv, NoUseAfterFree
<1> QED
  BY <1>1, Invariant, PTL

--------------------------------------------------------------------------------
(* A descriptor implements AsyncChannel.                                      *)

\* Nothing is accepted before start() was called.
WorkerInv ==
    /\ pc[Main] = "push" => worker_started
    /\ ~worker_started => accepted = <<>>

\* Whether the worker is missing is settled before the descriptor is closed.
MissingSettled == fdOpen \/ (WorkerMissing' <=> WorkerMissing)

\* Every step keeps what is said of the worker.
LEMMA WorkerInvStep ==
    ASSUME IInv, WorkerInv, [Next]_vars
    PROVE  WorkerInv' /\ MissingSettled
<1> USE ThreadsDiffer, ThreadAssumption DEF WorkerInv, IInv, TypeOK, StartInv, JoinedInv, Goto,
           WorkerMissing, MissingSettled
<1>1. ASSUME NEW t \in Thread, Push(t)
      PROVE  WorkerInv' /\ MissingSettled
  BY <1>1 DEF Push, descVars
<1>2. ASSUME NEW t \in Thread, Acquire(t)
      PROVE  WorkerInv' /\ MissingSettled
  BY <1>2 DEF Acquire, descVars, jobVars
<1>3. ASSUME NEW t \in Thread, NEW c \in Cond, Wakeup(t, c)
      PROVE  WorkerInv' /\ MissingSettled
  BY <1>3 DEF Wakeup, descVars, jobVars
<1>4. CASE Pop \/ SignalEmpty \/ WaitNotEmpty \/ WaitNotEmptyReturn
  BY <1>4 DEF Pop, SignalEmpty, WaitNotEmpty, WaitNotEmptyReturn, descVars, jobVars
<1>5. CASE Perform \/ PerformFails \/ HandlerReturns
  BY <1>5 DEF Perform, PerformFails, HandlerReturns, Abort, descVars, jobVars
<1>6. ASSUME NEW j \in Job, AsyncOperation(j) \/ HandlerSubmits(j)
      PROVE  WorkerInv' /\ MissingSettled
  BY <1>6 DEF AsyncOperation, HandlerSubmits, descVars, jobVars
<1>7. CASE SetFlushAndClose \/ SignalNotEmpty \/ WaitEmpty \/ WaitEmptyReturn
  BY <1>7 DEF SetFlushAndClose, SignalNotEmpty, WaitEmpty, WaitEmptyReturn, descVars, jobVars
<1>8. CASE StartWorker
  BY <1>8 DEF StartWorker, jobVars
<1>9. CASE Close \/ Destroy
  BY <1>9 DEF Close, Destroy, BeginClose, descVars, jobVars
<1>10. CASE WaitForTermination \/ JoinInvalidHandle
  BY <1>10 DEF WaitForTermination, JoinInvalidHandle, Abort, descVars, jobVars
<1>11. CASE CloseFd \/ Delete
  BY <1>11 DEF CloseFd, Delete, descVars, jobVars
<1>12. CASE UNCHANGED vars
  BY <1>12 DEF vars, descVars, jobVars
<1> QED
  BY <1>1, <1>2, <1>3, <1>4, <1>5, <1>6, <1>7, <1>8, <1>9, <1>10, <1>11, <1>12
  DEF Next, WorkerStep, MainStep, Environment

\* A step that leaves the jobs and the descriptor alone is a stutter of the abstract channel.
LEMMA ChannelUnchanged ==
    ASSUME MissingSettled, UNCHANGED <<current, queue, performed, fdOpen>>
    PROVE  UNCHANGED Channel!channelVars
<1>1. (fdOpen \/ WorkerMissing)' = (fdOpen \/ WorkerMissing)
  BY DEF MissingSettled
<1>2. (InFlight \o queue)' = InFlight \o queue
  BY DEF InFlight
<1> QED
  BY <1>1, <1>2 DEF Channel!channelVars

\* A push is a submission.
LEMMA PushSubmits ==
    ASSUME IInv, MissingSettled, NEW t \in Thread, Push(t)
    PROVE  Channel!Submit(arg[t]) /\ arg[t] \in Job
<1>1. fdOpen /\ arg[t] \in Job
  BY ThreadAssumption DEF Push, IInv, JoinedInv, ArgInv
<1>2. InFlight \in Seq(Job) /\ queue \in Seq(Job)
  BY EmptySeq DEF IInv, TypeOK, InFlight
<1>3. InFlight \o Append(queue, arg[t]) = Append(InFlight \o queue, arg[t])
  BY <1>1, <1>2, ConcatAppend
<1>4. /\ queue' = Append(queue, arg[t]) /\ InFlight' = InFlight
      /\ performed' = performed /\ fdOpen' = fdOpen
  BY DEF Push, InFlight, runVars, descVars
<1>5. (fdOpen \/ WorkerMissing) /\ (fdOpen \/ WorkerMissing)' = (fdOpen \/ WorkerMissing)
  BY <1>1, <1>4
<1> QED
  BY <1>1, <1>3, <1>4, <1>5 DEF Channel!Submit

\* A pop moves the head of the queue in flight: the channel does not see it.
LEMMA PopInvisible ==
    ASSUME IInv, MissingSettled, Pop
    PROVE  UNCHANGED Channel!channelVars
<1>1. /\ current = NoJob /\ queue \in Seq(Job)
      /\ performed' = performed /\ fdOpen' = fdOpen
  BY DEF Pop, IInv, InFlightInv, TypeOK, descVars
<1>2. InFlight \o queue = queue
  BY <1>1, ConcatEmptySeq DEF InFlight
<1>3. (fdOpen \/ WorkerMissing)' = (fdOpen \/ WorkerMissing)
  BY <1>1 DEF MissingSettled
<1>4. CASE queue = <<>>
  <2>1. (InFlight \o queue)' = InFlight \o queue
    BY <1>1, <1>4 DEF Pop, InFlight
  <2> QED
    BY <1>1, <1>3, <2>1 DEF Channel!channelVars
<1>5. CASE queue # <<>>
  <2>1. InFlight' = <<Head(queue)>> /\ queue' = Tail(queue)
    BY <1>1, <1>5, HeadTailProperties, JobAssumption DEF Pop, InFlight
  <2>2. <<Head(queue)>> \o Tail(queue) = queue
    BY <1>1, <1>5, HeadThenTail
  <2> QED
    BY <1>1, <1>2, <1>3, <2>1, <2>2 DEF Channel!channelVars
<1> QED
  BY <1>4, <1>5

\* The return of a handler is the completion of the oldest operation.
LEMMA ReturnPerforms ==
    ASSUME IInv, HandlerReturns
    PROVE  Channel!PerformNext
<1>1. /\ current \in Job /\ InFlight = <<current>> /\ InFlight' = <<>>
      /\ queue \in Seq(Job) /\ queue' = queue
      /\ performed' = Append(performed, current) /\ fdOpen' = fdOpen
  BY DEF HandlerReturns, IInv, InFlightInv, TypeOK, InFlight, jobVars, descVars
<1>2. fdOpen
  BY DEF HandlerReturns, IInv, JoinedInv
<1>3. <<current>> \in Seq(Job) /\ Len(<<current>>) = 1 /\ <<current>>[1] = current
  BY <1>1
<1>4. /\ <<current>> \o queue \in Seq(Job)
      /\ Len(<<current>> \o queue) = 1 + Len(queue)
      /\ (<<current>> \o queue)[1] = current
      /\ \A i \in 2..(1 + Len(queue)) : (<<current>> \o queue)[i] = queue[i - 1]
  BY <1>1, <1>3, ConcatProperties, LenProperties
<1>5. <<current>> \o queue # <<>> /\ Head(<<current>> \o queue) = current
  BY <1>1, <1>4, LenProperties
<1>6. Tail(<<current>> \o queue) = queue
  <2> DEFINE tl == Tail(<<current>> \o queue)
  <2>1. /\ tl \in Seq(Job) /\ Len(tl) = Len(queue)
        /\ \A i \in 1..Len(tl) : tl[i] = (<<current>> \o queue)[i + 1]
    BY <1>1, <1>4, <1>5, HeadTailProperties, LenProperties
  <2>2. \A i \in 1..Len(queue) : tl[i] = queue[i]
    <3> HIDE DEF tl
    <3> QED  BY <1>1, <1>4, <2>1, LenProperties
  <2> HIDE DEF tl
  <2>3. tl = queue
    BY <1>1, <2>1, <2>2, SeqEqual
  <2> QED  BY <2>3 DEF tl
<1>7. <<>> \o queue = queue
  BY <1>1, ConcatEmptySeq
<1> QED
  BY <1>1, <1>2, <1>5, <1>6, <1>7 DEF Channel!PerformNext

\* The first ::close() happens when nothing is pending; a second one is invisible.
LEMMA CloseDrains ==
    ASSUME IInv, WorkerInv, MissingSettled, CloseFd
    PROVE  Channel!CloseDrained \/ UNCHANGED Channel!channelVars
<1>1. queue' = queue /\ current' = current /\ performed' = performed /\ fdOpen' = FALSE
  BY DEF CloseFd, jobVars, runVars
<1>2. pc[Worker] \in {"none", "joined"} /\ (WorkerMissing' <=> WorkerMissing)
  BY ThreadsDiffer DEF CloseFd, IInv, TypeOK, JoinedInv, Goto, WorkerMissing
<1>3. InFlight' = InFlight
  BY <1>1 DEF InFlight
<1>4. CASE ~fdOpen \/ WorkerMissing
  <2>1. (fdOpen \/ WorkerMissing)' = (fdOpen \/ WorkerMissing)
    BY <1>1, <1>2, <1>4
  <2> QED
    BY <1>1, <1>3, <2>1 DEF Channel!channelVars
<1>5. CASE fdOpen /\ ~WorkerMissing
  <2>1. queue = <<>> /\ InFlight = <<>>
    <3>1. CASE pc[Worker] = "joined"
      BY <3>1 DEF IInv, ExitInv, InFlightInv, InFlight
    <3>2. CASE pc[Worker] = "none"
      <4>1. accepted = <<>> /\ current = NoJob
        BY <1>5, <3>2 DEF WorkerInv, WorkerMissing, IInv, InFlightInv
      <4>2. performed \in Seq(Job) /\ queue \in Seq(Job) /\ (performed \o <<>>) \o queue = <<>>
        BY <4>1 DEF IInv, TypeOK, FifoOnce, InFlight
      <4>3. performed \o queue = <<>>
        BY <4>2, ConcatEmptySeq
      <4> QED
        BY <4>1, <4>2, <4>3, ConcatEqualIffEmpty DEF InFlight
    <3> QED
      BY <1>2, <3>1, <3>2
  <2>2. InFlight \o queue = <<>>
    BY <2>1, ConcatEmptySeq, EmptySeq
  <2>3. (fdOpen \/ WorkerMissing) = TRUE /\ (fdOpen \/ WorkerMissing)' = FALSE
    BY <1>1, <1>2, <1>5
  <2> QED
    BY <1>1, <1>3, <2>2, <2>3 DEF Channel!CloseDrained
<1> QED
  BY <1>4, <1>5

\* Every step is a step of the abstract channel or a stutter.
LEMMA ChannelStep ==
    ASSUME IInv, WorkerInv, [Next]_vars
    PROVE  [Channel!Next]_(Channel!channelVars)
<1>0. MissingSettled
  BY WorkerInvStep
<1>1. ASSUME NEW t \in Thread, Push(t)
      PROVE  Channel!Next
  BY <1>0, <1>1, PushSubmits DEF Channel!Next
<1>2. CASE Pop
  BY <1>0, <1>2, PopInvisible
<1>3. CASE HandlerReturns
  BY <1>3, ReturnPerforms DEF Channel!Next
<1>4. CASE CloseFd
  BY <1>0, <1>4, CloseDrains DEF Channel!Next
<1>5. CASE UNCHANGED <<current, queue, performed, fdOpen>>
  BY <1>0, <1>5, ChannelUnchanged
<1>6. Main \in Thread /\ Worker \in Thread
  BY ThreadsDiffer
<1>7. CASE \E t \in Thread : Acquire(t)
  BY <1>5, <1>7 DEF Acquire, jobVars, runVars, descVars
<1>8. CASE WorkerStep
  BY <1>1, <1>2, <1>3, <1>5, <1>6, <1>8
  DEF WorkerStep, SignalEmpty, WaitNotEmpty, WaitNotEmptyReturn, Perform, jobVars, runVars, descVars
<1>9. CASE MainStep
  BY <1>1, <1>4, <1>5, <1>6, <1>9
  DEF MainStep, SetFlushAndClose, SignalNotEmpty, WaitEmpty, WaitEmptyReturn, StartWorker,
      WaitForTermination, JoinInvalidHandle, Delete, jobVars, runVars, descVars
<1>10. CASE Environment
  BY <1>5, <1>10
  DEF Environment, AsyncOperation, HandlerSubmits, Close, Destroy, PerformFails, Wakeup,
      jobVars, runVars, descVars
<1>11. CASE UNCHANGED vars
  BY <1>5, <1>11 DEF vars, jobVars, runVars, descVars
<1> QED
  BY <1>7, <1>8, <1>9, <1>10, <1>11 DEF Next

\* What a user sees of asynchronous I/O is an AsyncChannel: in order, one at a time, and
\* closed only when drained, unless pthread_create() failed.
THEOREM Refinement == Spec => ImplementsChannel
<1>1. Init => WorkerInv
  BY ThreadsDiffer DEF Init, WorkerInv
<1>2. Init => Channel!Init
  <2>1. <<>> \o <<>> = <<>>
    BY ConcatEmptySeq, EmptySeq
  <2> QED
    BY <2>1 DEF Init, Channel!Init, InFlight
<1>3. IInv /\ WorkerInv /\ [Next]_vars => WorkerInv'
  BY WorkerInvStep
<1>4. IInv /\ WorkerInv /\ [Next]_vars => [Channel!Next]_(Channel!channelVars)
  BY ChannelStep
<1> QED
  BY <1>1, <1>2, <1>3, <1>4, Invariant, PTL DEF Spec, ImplementsChannel, Channel!Spec
================================================================================
