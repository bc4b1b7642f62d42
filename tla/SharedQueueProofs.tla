--------------------------- MODULE SharedQueueProofs ---------------------------
(***************************************************************************)
(* Proofs about SharedQueue, for any finite set of threads and any         *)
(* elements, and about QueueThreads: a queue whose poppers are started,    *)
(* stopped and joined through an AbstractThread is still a SharedQueue.    *)
(***************************************************************************)
EXTENDS QueueThreads, SequenceTheorems, FiniteSetTheorems, TLAPS

\* The queue has one condition.
LEMMA EmptyIsCond == empty \in Cond /\ \A c \in Cond : c = empty
  BY CondAssumption

\* What a call of the lock and of the condition does.
LEMMA SyncSteps ==
    ASSUME SyncTypeOK, NEW t \in Thread
    PROVE  /\ Lock(t) /\ UNCHANGED waiting => SyncTypeOK'
           /\ Unlock(t) /\ UNCHANGED waiting => SyncTypeOK'
           /\ Signal(empty) /\ UNCHANGED holder => SyncTypeOK'
           /\ WaitOn(t, empty) => SyncTypeOK'
           /\ t \in waiting[empty] /\ UNCHANGED holder
              /\ waiting' = [waiting EXCEPT ![empty] = @ \ {t}] => SyncTypeOK'
           /\ UNCHANGED syncVars => SyncTypeOK'
  BY EmptyIsCond DEF SyncTypeOK, Lock, Unlock, Signal, WaitOn, syncVars

\* pc says which call uses arg: a pushing thread has an element to push.
ArgInv == \A t \in Thread : pc[t] = "push" => arg[t] \in Elem

Inv == TypeOK /\ ArgInv /\ FifoOnce /\ MutexReleased /\ WaitersPop /\ NoLostWakeup

\* The invariant holds at the start.
LEMMA InvInit == Init => Inv
<1> SUFFICES ASSUME Init PROVE Inv
  OBVIOUS
<1>1. TypeOK /\ ArgInv /\ MutexReleased
  BY EmptySeq DEF Init, SyncInit, TypeOK, SyncTypeOK, Calls, ArgInv, MutexReleased
<1>2. waiting[empty] = {}
  BY EmptyIsCond DEF Init, SyncInit
<1>3. FifoOnce
  BY EmptySeq, ConcatEmptySeq DEF Init, FifoOnce
<1> QED
  BY <1>1, <1>2, <1>3 DEF Inv, WaitersPop, NoLostWakeup

\* The sequences keep their types.
LEMMA SeqStep ==
    ASSUME TypeOK, ArgInv, [Next]_vars
    PROVE  queue' \in Seq(Elem) /\ put' \in Seq(Elem) /\ removed' \in Seq(Elem)
<1> DEFINE Goal == queue' \in Seq(Elem) /\ put' \in Seq(Elem) /\ removed' \in Seq(Elem)
<1>1. queue \in Seq(Elem) /\ put \in Seq(Elem) /\ removed \in Seq(Elem)
  BY DEF TypeOK
<1>2. ASSUME NEW t \in Thread, Push(t)
      PROVE  Goal
  BY <1>1, <1>2, AppendProperties DEF Push, ArgInv
<1>3. ASSUME NEW t \in Thread, Pop(t)
      PROVE  Goal
  <2>1. Head(queue) \in Elem /\ Tail(queue) \in Seq(Elem)
    BY <1>1, <1>3, HeadTailProperties DEF Pop
  <2> QED
    BY <1>1, <1>3, <2>1, AppendProperties DEF Pop
<1>4. ASSUME NEW t \in Thread, Clear(t)
      PROVE  Goal
  BY <1>1, <1>4, ConcatProperties, EmptySeq DEF Clear
<1>5. ASSUME NEW t \in Thread,
             \/ Acquire(t) \/ PushSignal(t) \/ PopWaits(t)
             \/ Size(t) \/ Unwind(t) \/ Cancel(t) \/ Wakeup(t)
      PROVE  Goal
  BY <1>1, <1>5 DEF Acquire, PushSignal, PopWaits, Size, Unwind, Cancel, Wakeup
<1>6. ASSUME NEW t \in Thread, Call(t)
      PROVE  Goal
  BY <1>1, <1>6, EmptySeq DEF Call, CallPush
<1>7. CASE UNCHANGED vars
  BY <1>1, <1>7 DEF vars
<1> QED
  BY <1>2, <1>3, <1>4, <1>5, <1>6, <1>7 DEF Next, Body

\* The mutex, the waiters and the calls.
LEMMA ControlStep ==
    ASSUME TypeOK, ArgInv, MutexReleased, WaitersPop, [Next]_vars
    PROVE  /\ SyncTypeOK' /\ pc' \in [Thread -> Calls]
           /\ arg' \in [Thread -> Elem \cup {NoElem}]
           /\ ArgInv' /\ MutexReleased' /\ WaitersPop'
<1> DEFINE Goal == /\ SyncTypeOK' /\ pc' \in [Thread -> Calls]
                   /\ arg' \in [Thread -> Elem \cup {NoElem}]
                   /\ ArgInv' /\ MutexReleased' /\ WaitersPop'
<1>1. /\ SyncTypeOK /\ pc \in [Thread -> Calls] /\ arg \in [Thread -> Elem \cup {NoElem}]
      /\ waiting[empty] \subseteq Thread
  BY EmptyIsCond DEF TypeOK, SyncTypeOK
<1>2. ASSUME NEW t \in Thread, Call(t)
      PROVE  Goal
  <2>1. UNCHANGED <<holder, waiting>> /\ SyncTypeOK'
    BY <1>1, <1>2, SyncSteps DEF Call, syncVars
  <2>2. /\ pc' \in [Thread -> Calls] /\ arg' \in [Thread -> Elem \cup {NoElem}]
        /\ ArgInv'
    BY <1>1, <1>2 DEF Call, CallPush, Goto, Calls, Fresh, ArgInv
  <2>3. MutexReleased' /\ WaitersPop'
    BY <1>1, <1>2, <2>1 DEF Call, CallPush, Goto, MutexReleased, WaitersPop, LockedCalls
  <2> QED
    BY <2>1, <2>2, <2>3
<1>3. ASSUME NEW t \in Thread, Acquire(t)
      PROVE  Goal
  <2>1. /\ SyncTypeOK' /\ UNCHANGED <<pc, arg, waiting>> /\ holder' = {t}
        /\ pc[t] \in LockedCalls /\ t \notin waiting[empty]
    BY <1>1, <1>3, SyncSteps, EmptyIsCond DEF Acquire, Lock, Blocked
  <2> QED
    BY <1>1, <2>1 DEF ArgInv, MutexReleased, WaitersPop
<1>4. ASSUME NEW t \in Thread,
             Push(t) \/ Pop(t) \/ Clear(t) \/ Size(t) \/ Unwind(t)
      PROVE  Goal
  <2>1. /\ Unlock(t) /\ UNCHANGED waiting /\ t \notin waiting[empty]
        /\ \E call \in {"signal", "ready", "terminated"} : pc' = [pc EXCEPT ![t] = call]
        /\ arg' = arg \/ arg' = [arg EXCEPT ![t] = NoElem]
    <3>1. holder = {t}
      BY <1>4 DEF Push, Pop, Clear, Size, Unwind, Unlock
    <3>2. CASE pc[t] # "pop"
      BY <1>4, <3>2 DEF Push, Pop, Clear, Size, Unwind, Goto, WaitersPop
    <3>3. CASE pc[t] = "pop"
      <4>1. Pop(t)
        BY <1>4, <3>3 DEF Push, Clear, Size, Unwind
      <4> QED
        BY <3>1, <4>1 DEF Pop, Goto, WaitersPop
    <3> QED
      BY <3>2, <3>3
  <2>2. SyncTypeOK' /\ holder' = {}
    BY <1>1, <2>1, SyncSteps DEF Unlock
  <2>3. pc' \in [Thread -> Calls] /\ arg' \in [Thread -> Elem \cup {NoElem}] /\ ArgInv'
    BY <1>1, <2>1 DEF Calls, ArgInv
  <2> QED
    BY <1>1, <2>1, <2>2, <2>3 DEF MutexReleased, WaitersPop
<1>5. ASSUME NEW t \in Thread, PushSignal(t)
      PROVE  Goal
  <2>1. SyncTypeOK' /\ waiting'[empty] \subseteq waiting[empty] /\ UNCHANGED <<holder, arg>>
    BY <1>1, <1>5, SyncSteps DEF PushSignal, Signal, SyncTypeOK
  <2> QED
    BY <1>1, <1>5, <2>1 DEF PushSignal, Goto, Calls, ArgInv, MutexReleased, WaitersPop, LockedCalls
<1>6. ASSUME NEW t \in Thread, PopWaits(t)
      PROVE  Goal
  <2>1. SyncTypeOK' /\ UNCHANGED <<pc, arg>> /\ holder' = {} /\ pc[t] = "pop"
    BY <1>1, <1>6, SyncSteps DEF PopWaits, WaitOn, Unlock
  <2>2. waiting'[empty] = waiting[empty] \cup {t}
    BY <1>1, <1>6, EmptyIsCond DEF PopWaits, WaitOn, SyncTypeOK
  <2> QED
    BY <1>1, <2>1, <2>2 DEF ArgInv, MutexReleased, WaitersPop
<1>7. ASSUME NEW t \in Thread, Cancel(t) \/ Wakeup(t)
      PROVE  Goal
  <2>1. /\ t \in waiting[empty] /\ UNCHANGED <<holder, arg>>
        /\ waiting' = [waiting EXCEPT ![empty] = @ \ {t}]
        /\ pc' = pc \/ pc' = [pc EXCEPT ![t] = "unwind"]
    BY <1>7 DEF Cancel, Wakeup, SpuriousWakeup, Goto
  <2>2. SyncTypeOK' /\ waiting'[empty] = waiting[empty] \ {t}
    BY <1>1, <2>1, SyncSteps, EmptyIsCond DEF SyncTypeOK
  <2> QED
    BY <1>1, <2>1, <2>2 DEF Calls, ArgInv, MutexReleased, WaitersPop, LockedCalls
<1>8. CASE UNCHANGED vars
  BY <1>1, <1>8 DEF vars, SyncTypeOK, ArgInv, MutexReleased, WaitersPop
<1> QED
  BY <1>2, <1>3, <1>4, <1>5, <1>6, <1>7, <1>8 DEF Next, Body

--------------------------------------------------------------------------------
(* The two properties.                                                        *)

\* Every step keeps the order of the elements.
LEMMA FifoStep ==
    ASSUME TypeOK, ArgInv, FifoOnce, [Next]_vars
    PROVE  FifoOnce'
<1>1. queue \in Seq(Elem) /\ removed \in Seq(Elem)
  BY DEF TypeOK
<1>2. ASSUME NEW t \in Thread, Push(t)
      PROVE  FifoOnce'
  <2>1. arg[t] \in Elem /\ <<arg[t]>> \in Seq(Elem)
    BY <1>2 DEF Push, ArgInv
  <2>2. removed \o (queue \o <<arg[t]>>) = (removed \o queue) \o <<arg[t]>>
    BY <1>1, <2>1, ConcatAssociative
  <2>3. /\ Append(queue, arg[t]) = queue \o <<arg[t]>>
        /\ Append(put, arg[t]) = put \o <<arg[t]>>
    BY <1>1, <2>1, AppendIsConcat DEF TypeOK
  <2> QED
    BY <1>2, <2>2, <2>3 DEF Push, FifoOnce
<1>3. ASSUME NEW t \in Thread, Pop(t)
      PROVE  FifoOnce'
  <2>1. /\ Head(queue) \in Elem /\ Tail(queue) \in Seq(Elem) /\ <<Head(queue)>> \in Seq(Elem)
        /\ Len(Tail(queue)) = Len(queue) - 1
        /\ \A i \in 1..Len(Tail(queue)) : Tail(queue)[i] = queue[i + 1]
    BY <1>1, <1>3, HeadTailProperties DEF Pop
  <2>2. <<Head(queue)>> \o Tail(queue) = queue
    <3>1. Len(queue) \in Nat \ {0} /\ Head(queue) = queue[1]
      BY <1>1, <1>3, EmptySeq, LenProperties DEF Pop
    <3>2. /\ <<Head(queue)>> \o Tail(queue) \in Seq(Elem)
          /\ Len(<<Head(queue)>> \o Tail(queue)) = 1 + Len(Tail(queue))
          /\ \A i \in 1..(1 + Len(Tail(queue))) : (<<Head(queue)>> \o Tail(queue))[i]
                = IF i <= 1 THEN Head(queue) ELSE Tail(queue)[i - 1]
      BY <2>1, ConcatProperties
    <3>3. \A i \in 1..Len(queue) : (<<Head(queue)>> \o Tail(queue))[i] = queue[i]
      BY <2>1, <3>1, <3>2
    <3>4. Len(<<Head(queue)>> \o Tail(queue)) = Len(queue)
      BY <2>1, <3>1, <3>2
    <3> QED
      BY <1>1, <3>2, <3>3, <3>4, SeqEqual
  <2>3. (removed \o <<Head(queue)>>) \o Tail(queue) = removed \o (<<Head(queue)>> \o Tail(queue))
    BY <1>1, <2>1, ConcatAssociative
  <2>4. Append(removed, Head(queue)) = removed \o <<Head(queue)>>
    BY <1>1, <2>1, AppendIsConcat
  <2> QED
    BY <1>3, <2>2, <2>3, <2>4 DEF Pop, FifoOnce
<1>4. ASSUME NEW t \in Thread, Clear(t)
      PROVE  FifoOnce'
  BY <1>1, <1>4, ConcatProperties, ConcatEmptySeq DEF Clear, FifoOnce
<1>5. ASSUME NEW t \in Thread,
             \/ Acquire(t) \/ PushSignal(t) \/ PopWaits(t)
             \/ Size(t) \/ Unwind(t) \/ Cancel(t) \/ Wakeup(t)
      PROVE  FifoOnce'
  BY <1>5 DEF FifoOnce, Acquire, PushSignal, PopWaits, Size, Unwind, Cancel, Wakeup
<1>6. ASSUME NEW t \in Thread, Call(t)
      PROVE  FifoOnce'
  <2>1. queue' = queue
    BY <1>6 DEF Call
  <2>2. CASE UNCHANGED <<put, removed>>
    BY <2>1, <2>2 DEF FifoOnce
  <2>3. CASE put' = queue /\ removed' = <<>>
    BY <1>1, <2>1, <2>3, ConcatEmptySeq DEF FifoOnce
  <2> QED
    BY <1>6, <2>2, <2>3 DEF Call, CallPush
<1>7. CASE UNCHANGED vars
  BY <1>7 DEF FifoOnce, vars
<1> QED
  BY <1>2, <1>3, <1>4, <1>5, <1>6, <1>7 DEF Next, Body

\* The threads about to take or to announce an element are finitely many.
LEMMA ServingFinite == IsFiniteSet(Serving) /\ Cardinality(Serving) \in Nat
  BY ThreadFinite, FS_Subset, FS_CardinalityType DEF Serving

\* What one step does to the threads that serve the queue, for each kind of step.
LEMMA WakeupStep ==
    ASSUME TypeOK, TypeOK', ArgInv, WaitersPop, NoLostWakeup, [Next]_vars
    PROVE  NoLostWakeup'
<1> SUFFICES ASSUME waiting'[empty] # {}
             PROVE  Len(queue') <= Cardinality(Serving')
  BY DEF NoLostWakeup
<1>1. /\ IsFiniteSet(Serving) /\ Cardinality(Serving) \in Nat /\ Serving' \subseteq Thread
      /\ Len(queue) \in Nat /\ Len(queue') \in Nat
      /\ pc \in [Thread -> Calls] /\ waiting[empty] \subseteq Thread
  <2>1. queue \in Seq(Elem) /\ queue' \in Seq(Elem) /\ pc \in [Thread -> Calls]
    BY DEF TypeOK
  <2>2. waiting[empty] \subseteq Thread
    BY EmptyIsCond DEF TypeOK, SyncTypeOK
  <2>3. Serving' \subseteq Thread
    BY DEF Serving
  <2> QED
    BY <2>1, <2>2, <2>3, ServingFinite, LenProperties
<1>2. IsFiniteSet(Serving') /\ Cardinality(Serving') \in Nat
  BY <1>1, ThreadFinite, FS_Subset, FS_CardinalityType
<1>3. CASE waiting[empty] # {} /\ queue' = queue /\ Serving \subseteq Serving'
  BY <1>1, <1>2, <1>3, FS_Subset DEF NoLostWakeup
<1>4. ASSUME NEW t \in Thread, Push(t)
      PROVE  Len(queue') <= Cardinality(Serving')
  <2>1. /\ pc' = [pc EXCEPT ![t] = "signal"] /\ pc[t] = "push" /\ UNCHANGED waiting
        /\ queue' = Append(queue, arg[t]) /\ arg[t] \in Elem
    BY <1>4 DEF Push, Goto, ArgInv
  <2>2. Serving' = Serving \cup {t} /\ t \notin Serving
    BY <1>1, <2>1 DEF Serving
  <2>3. Len(queue') = Len(queue) + 1
    BY <2>1, AppendProperties DEF TypeOK
  <2>4. Cardinality(Serving') = Cardinality(Serving) + 1
    BY <1>1, <2>2, FS_AddElement
  <2> QED
    BY <1>1, <2>1, <2>3, <2>4 DEF NoLostWakeup
<1>5. ASSUME NEW t \in Thread, Pop(t)
      PROVE  Len(queue') <= Cardinality(Serving')
  <2>1. /\ pc' = [pc EXCEPT ![t] = "ready"] /\ pc[t] = "pop" /\ UNCHANGED waiting
        /\ queue' = Tail(queue) /\ queue # <<>> /\ t \notin waiting[empty]
    BY <1>5 DEF Pop, Goto, Unlock, WaitersPop
  <2>2. Serving' = Serving \ {t} /\ t \in Serving
    BY <1>1, <2>1 DEF Serving
  <2>3. Len(queue') = Len(queue) - 1
    BY <2>1, HeadTailProperties DEF TypeOK
  <2>4. Cardinality(Serving') = Cardinality(Serving) - 1
    BY <1>1, <2>2, FS_RemoveElement
  <2> QED
    BY <1>1, <1>2, <2>1, <2>3, <2>4 DEF NoLostWakeup
<1>6. ASSUME NEW t \in Thread, PushSignal(t)
      PROVE  Len(queue') <= Cardinality(Serving')
  <2>1. /\ pc' = [pc EXCEPT ![t] = "ready"] /\ pc[t] = "signal" /\ queue' = queue
        /\ Signal(empty)
    BY <1>6 DEF PushSignal, Goto
  <2>2. PICK w \in waiting[empty] : waiting' = [waiting EXCEPT ![empty] = @ \ {w}]
    BY <2>1 DEF Signal
  <2>3. waiting'[empty] = waiting[empty] \ {w} /\ pc[w] = "pop" /\ w \in Thread /\ w # t
    BY <1>1, <2>1, <2>2, EmptyIsCond DEF TypeOK, SyncTypeOK, WaitersPop
  <2>4. Serving' = (Serving \ {t}) \cup {w} /\ t \in Serving /\ w \notin Serving
    BY <1>1, <2>1, <2>3 DEF Serving
  <2>5. /\ IsFiniteSet(Serving \ {t})
        /\ Cardinality(Serving \ {t}) = Cardinality(Serving) - 1
    BY <1>1, <2>4, FS_RemoveElement
  <2>6. Cardinality((Serving \ {t}) \cup {w}) = Cardinality(Serving \ {t}) + 1
    <3>1. w \notin Serving \ {t}
      BY <2>4
    <3> QED
      BY <2>5, <3>1, FS_AddElement
  <2>7. Cardinality(Serving') = Cardinality(Serving)
    BY <1>1, <2>4, <2>5, <2>6
  <2> QED
    BY <1>1, <2>1, <2>2, <2>7 DEF NoLostWakeup
<1>7. ASSUME NEW t \in Thread, PopWaits(t) \/ Clear(t)
      PROVE  Len(queue') <= Cardinality(Serving')
  <2>1. queue' = <<>>
    BY <1>7 DEF PopWaits, Clear
  <2> QED
    BY <1>2, <2>1
<1>8. ASSUME NEW t \in Thread, Call(t) \/ Acquire(t) \/ Size(t) \/ Unwind(t)
      PROVE  Len(queue') <= Cardinality(Serving')
  <2>1. /\ UNCHANGED <<queue, waiting>>
        /\ pc' = pc \/ \E call \in Calls : pc' = [pc EXCEPT ![t] = call] /\ pc[t] \notin {"signal", "pop"}
    BY <1>8 DEF Call, CallPush, Acquire, Size, Unwind, Goto, Calls, syncVars
  <2>2. Serving \subseteq Serving'
    BY <1>1, <2>1 DEF Serving
  <2> QED
    BY <1>3, <2>1, <2>2
<1>9. ASSUME NEW t \in Thread, Cancel(t) \/ Wakeup(t)
      PROVE  Len(queue') <= Cardinality(Serving')
  <2>1. /\ queue' = queue /\ t \in waiting[empty]
        /\ waiting' = [waiting EXCEPT ![empty] = @ \ {t}]
        /\ pc' = pc \/ pc' = [pc EXCEPT ![t] = "unwind"]
    BY <1>9 DEF Cancel, Wakeup, SpuriousWakeup, Goto
  <2>2. waiting'[empty] = waiting[empty] \ {t} /\ pc[t] = "pop"
    BY <2>1, EmptyIsCond DEF TypeOK, SyncTypeOK, WaitersPop
  <2>3. Serving \subseteq Serving'
    BY <1>1, <2>1, <2>2 DEF Serving
  <2> QED
    BY <1>3, <2>1, <2>3
<1>10. CASE UNCHANGED vars
  <2>1. Serving' = Serving
    BY <1>10 DEF vars, Serving
  <2> QED
    BY <1>3, <1>10, <2>1 DEF vars
<1> QED
  BY <1>4, <1>5, <1>6, <1>7, <1>8, <1>9, <1>10 DEF Next, Body

\* Every step keeps the invariant.
LEMMA InvStep == Inv /\ [Next]_vars => Inv'
<1> SUFFICES ASSUME Inv, [Next]_vars PROVE Inv'
  OBVIOUS
<1>1. TypeOK'
  BY SeqStep, ControlStep DEF Inv, TypeOK
<1>2. ArgInv' /\ MutexReleased' /\ WaitersPop'
  BY ControlStep DEF Inv
<1>3. FifoOnce'
  BY FifoStep DEF Inv
<1>4. NoLostWakeup'
  BY <1>1, WakeupStep DEF Inv
<1> QED
  BY <1>1, <1>2, <1>3, <1>4 DEF Inv

\* The invariant holds in every reachable state.
LEMMA Invariant == Spec => []Inv
  BY InvInit, InvStep, PTL DEF Spec

\* Every variable keeps its type and the mutex has at most one holder.
THEOREM TypeCorrect == Spec => []TypeOK
<1>1. Inv => TypeOK
  BY DEF Inv
<1> QED
  BY <1>1, Invariant, PTL

\* PosixSharedQueue hands out each element once, in the order of the pushes.
THEOREM FifoCorrect == Spec => []FifoOnce
<1>1. Inv => FifoOnce
  BY DEF Inv
<1> QED
  BY <1>1, Invariant, PTL

\* For any number of threads, signalling outside the mutex loses no wakeup.
THEOREM WakeupsCorrect == Spec => []NoLostWakeup
<1>1. Inv => NoLostWakeup
  BY DEF Inv
<1> QED
  BY <1>1, Invariant, PTL

\* A thread that has returned, or was cancelled inside pop(), does not hold the
\* mutex.
THEOREM MutexCorrect == Spec => []MutexReleased
<1>1. Inv => MutexReleased
  BY DEF Inv
<1> QED
  BY <1>1, Invariant, PTL

--------------------------------------------------------------------------------
(* The composition with AbstractThread.                                      *)

\* Producers and threads of the object are different users of the queue.
LEMMA UsersAreThreads ==
    /\ Producer \subseteq Thread
    /\ T!PThread \subseteq Thread
    /\ \A t \in Producer, i \in T!PThread : t # i
  BY UserAssumption

\* Whatever the clients and the threads of the object do, the queue sees one of its own
\* calls, or nothing.
LEMMA QueueStepOnly == [QTNext]_allVars => [Next]_vars
<1> SUFFICES ASSUME [QTNext]_allVars PROVE [Next]_vars
  OBVIOUS
<1>1. ASSUME NEW c \in Client, ClientStep(c)
      PROVE  UNCHANGED vars
  BY <1>1 DEF ClientStep
<1>2. ASSUME NEW t \in Producer, ProducerCalls(t)
      PROVE  Next
  <2>1. t \in Thread /\ Call(t)
    BY <1>2, UsersAreThreads DEF ProducerCalls
  <2> QED
    BY <2>1 DEF Next
<1>3. ASSUME NEW t \in Thread, QueueStep(t)
      PROVE  Next
  <2>1. Acquire(t) \/ Body(t) \/ Wakeup(t)
    BY <1>3 DEF QueueStep
  <2> QED
    BY <2>1 DEF Next
<1>4. ASSUME NEW i \in T!PThread, RunBegins(i) \/ RunEnds(i)
      PROVE  UNCHANGED vars
  BY <1>4 DEF RunBegins, RunEnds
<1>5. ASSUME NEW i \in T!PThread, PopsAgain(i) \/ StoppedInPop(i)
      PROVE  Next
  <2>1. i \in Thread /\ (Call(i) \/ Cancel(i))
    BY <1>5, UsersAreThreads DEF PopsAgain, StoppedInPop
  <2> QED
    BY <2>1 DEF Next
<1>6. CASE UNCHANGED allVars
  BY <1>6 DEF allVars
<1> QED
  BY <1>1, <1>2, <1>3, <1>4, <1>5, <1>6 DEF QTNext

\* A queue that the threads of an AbstractThread serve is a SharedQueue: what holds for any
\* threads that are cancelled at any wait holds for threads that stop() cancels.
THEOREM ComposedQueue == QTSpec => Spec
<1>1. QTInit => Init
  BY DEF QTInit
<1> QED
  BY <1>1, QueueStepOnly, PTL DEF QTSpec, Spec

\* No element stays behind a blocked thread of the object, however often it is stopped and
\* started.
THEOREM ComposedWakeups == QTSpec => []NoLostWakeup
  BY ComposedQueue, WakeupsCorrect, PTL

\* A thread that has ended has left its last call on the queue.
EndedInv ==
    /\ thread \in [T!PThread -> T!ThreadStates]
    /\ \A i \in T!PThread :
        thread[i] \in {"ended", "joined"} => pc[i] \in {"ready", "terminated"}

\* No thread of the object has ended at the start.
LEMMA EndedInit == QTInit => EndedInv
  BY DEF QTInit, EndedInv, T!Init, T!ThreadStates

\* The clients create threads and join those that have ended.
LEMMA ClientKeepsEnded ==
    ASSUME EndedInv, NEW c \in Client, ClientStep(c)
    PROVE  EndedInv'
<1>1. UNCHANGED pc
  BY DEF ClientStep, vars
<1>2. CASE UNCHANGED thread
  BY <1>1, <1>2 DEF EndedInv
<1>3. CASE T!Create(c)
  <2>1. \/ UNCHANGED thread
        \/ \E i \in T!PThread : thread' = [thread EXCEPT ![i] = "created"]
    BY <1>3 DEF T!Create
  <2> QED
    BY <1>1, <2>1 DEF EndedInv, T!ThreadStates
<1>4. CASE T!Join(c)
  <2>1. thread[handle] = "ended" /\ thread' = [thread EXCEPT ![handle] = "joined"]
    BY <1>4 DEF T!Join
  <2> QED
    BY <1>1, <2>1 DEF EndedInv, T!ThreadStates
<1> QED
  BY <1>2, <1>3, <1>4 DEF ClientStep, T!Start, T!Stop, T!Wait, T!Destroy, T!ClientStep,
     T!CancelThread, T!WaitReturns

\* Every step keeps EndedInv.
LEMMA EndedStep == Inv /\ EndedInv /\ [QTNext]_allVars => EndedInv'
<1> SUFFICES ASSUME Inv, EndedInv, [QTNext]_allVars PROVE EndedInv'
  OBVIOUS
<1> DEFINE Left(i) == pc[i] \in {"ready", "terminated"}
<1>1. /\ pc \in [Thread -> Calls]
      /\ \A t \in waiting[empty] : pc[t] = "pop"
  BY DEF Inv, TypeOK, WaitersPop
<1>2. ASSUME NEW c \in Client, ClientStep(c)
      PROVE  EndedInv'
  BY <1>2, ClientKeepsEnded
<1>3. ASSUME NEW t \in Producer, ProducerCalls(t)
      PROVE  EndedInv'
  <2>1. UNCHANGED thread /\ \E call \in {"pop", "clear", "size", "push"} : Goto(t, call)
    BY <1>3 DEF ProducerCalls, Call, CallPush, threadVars
  <2> QED
    BY <1>1, <2>1, UsersAreThreads DEF EndedInv, Goto
<1>4. ASSUME NEW t \in Thread, QueueStep(t)
      PROVE  EndedInv'
  <2>1. UNCHANGED thread
    BY <1>4 DEF QueueStep, threadVars
  <2>2. CASE UNCHANGED pc
    BY <2>1, <2>2 DEF EndedInv
  <2>3. CASE Body(t)
    <3>1. UNCHANGED pc \/ (~Left(t) /\ \E call \in {"ready", "signal", "terminated"} : Goto(t, call))
      BY <2>3 DEF Body, Push, PushSignal, PopWaits, Pop, Clear, Size, Unwind
    <3> QED
      BY <1>1, <2>1, <2>2, <3>1, UsersAreThreads DEF EndedInv, Goto
  <2> QED
    BY <1>4, <2>2, <2>3 DEF QueueStep, Acquire, Wakeup
<1>5. ASSUME NEW i \in T!PThread, RunBegins(i)
      PROVE  EndedInv'
  <2>1. UNCHANGED pc /\ thread' = [thread EXCEPT ![i] = "running"]
    BY <1>5 DEF RunBegins, T!Run, vars
  <2> QED
    BY <2>1 DEF EndedInv, T!ThreadStates
<1>6. ASSUME NEW i \in T!PThread, PopsAgain(i)
      PROVE  EndedInv'
  <2>1. UNCHANGED thread /\ thread[i] = "running" /\ \E call \in {"pop", "clear", "size", "push"} : Goto(i, call)
    BY <1>6 DEF PopsAgain, Call, CallPush, threadVars
  <2> QED
    BY <1>1, <2>1, UsersAreThreads DEF EndedInv, Goto
<1>7. ASSUME NEW i \in T!PThread, StoppedInPop(i)
      PROVE  EndedInv'
  <2>1. UNCHANGED thread /\ pc[i] = "pop" /\ Goto(i, "unwind")
    BY <1>1, <1>7 DEF StoppedInPop, Cancel, threadVars
  <2> QED
    BY <1>1, <2>1, UsersAreThreads DEF EndedInv, Goto
<1>8. ASSUME NEW i \in T!PThread, RunEnds(i)
      PROVE  EndedInv'
  <2>1. Left(i) /\ UNCHANGED pc /\ thread' = [thread EXCEPT ![i] = "ended"]
    BY <1>8 DEF RunEnds, T!End, vars
  <2> QED
    BY <2>1 DEF EndedInv, T!ThreadStates
<1>9. CASE UNCHANGED allVars
  BY <1>9 DEF allVars, vars, threadVars, EndedInv
<1> QED
  BY <1>2, <1>3, <1>4, <1>5, <1>6, <1>7, <1>8, <1>9 DEF QTNext

\* For any number of clients, producers and threads, a thread that waitForTermination() has
\* joined is in no call of the queue, waits in none and has not taken its mutex along.
THEOREM JoinedCorrect == QTSpec => []JoinedThreadsLeft
<1>1. Inv /\ EndedInv => JoinedThreadsLeft
  BY UsersAreThreads DEF Inv, EndedInv, JoinedThreadsLeft, WaitersPop, MutexReleased, LockedCalls
<1>2. QTSpec => []Inv
  BY ComposedQueue, Invariant, PTL
<1> QED
  BY <1>1, <1>2, EndedInit, EndedStep, PTL DEF QTSpec
================================================================================
