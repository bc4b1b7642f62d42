----------------------- MODULE PrioritySharedQueueProofs -----------------------
(***************************************************************************)
(* Proofs about PrioritySharedQueue, for any finite set of threads, any    *)
(* finite set of priorities and any elements.                              *)
(***************************************************************************)
EXTENDS PrioritySharedQueue, SequenceTheorems, FiniteSetTheorems, WellFoundedInduction, TLAPS

\* The queue has one condition.
LEMMA EmptyIsCond == empty \in Cond /\ \A c \in Cond : c = empty
  BY CondAssumption

\* What a call of the lock and of the condition does.
LEMMA SyncSteps ==
    ASSUME SyncTypeOK, NEW t \in Thread
    PROVE  /\ Lock(t) /\ UNCHANGED waiting => SyncTypeOK'
           /\ Unlock(t) /\ UNCHANGED waiting => SyncTypeOK'
           /\ Signal(empty) /\ UNCHANGED holder => SyncTypeOK'
           /\ WaitOn(t, empty) => SyncTypeOK'
           /\ SpuriousWakeup(t, empty) => SyncTypeOK'
           /\ UNCHANGED syncVars => SyncTypeOK'
  BY EmptyIsCond DEF SyncTypeOK, Lock, Unlock, Signal, WaitOn, SpuriousWakeup, syncVars

\* The front of one sequence moved to the end of another leaves their concatenation.
LEMMA FrontMoves ==
    ASSUME NEW r \in Seq(Elem), NEW s \in Seq(Elem), s # <<>>
    PROVE  Append(r, Head(s)) \o Tail(s) = r \o s
<1>1. /\ Head(s) \in Elem /\ Tail(s) \in Seq(Elem) /\ <<Head(s)>> \in Seq(Elem)
      /\ Len(Tail(s)) = Len(s) - 1
      /\ \A k \in 1..Len(Tail(s)) : Tail(s)[k] = s[k + 1]
  BY HeadTailProperties
<1>2. <<Head(s)>> \o Tail(s) = s
  <2>1. Len(s) \in Nat \ {0} /\ Head(s) = s[1]
    BY EmptySeq, LenProperties
  <2>2. /\ <<Head(s)>> \o Tail(s) \in Seq(Elem)
        /\ Len(<<Head(s)>> \o Tail(s)) = 1 + Len(Tail(s))
        /\ \A k \in 1..(1 + Len(Tail(s))) : (<<Head(s)>> \o Tail(s))[k]
              = IF k <= 1 THEN Head(s) ELSE Tail(s)[k - 1]
    BY <1>1, ConcatProperties
  <2>3. \A k \in 1..Len(s) : (<<Head(s)>> \o Tail(s))[k] = s[k]
    BY <1>1, <2>1, <2>2
  <2>4. Len(<<Head(s)>> \o Tail(s)) = Len(s)
    BY <1>1, <2>1, <2>2
  <2> QED
    BY <2>2, <2>3, <2>4, SeqEqual
<1>3. (r \o <<Head(s)>>) \o Tail(s) = r \o (<<Head(s)>> \o Tail(s))
  BY <1>1, ConcatAssociative
<1>4. Append(r, Head(s)) = r \o <<Head(s)>>
  BY <1>1, AppendIsConcat
<1> QED
  BY <1>2, <1>3, <1>4

\* An element added to the second of two sequences is added to their concatenation.
LEMMA BackGrows ==
    ASSUME NEW r \in Seq(Elem), NEW s \in Seq(Elem), NEW e \in Elem
    PROVE  r \o Append(s, e) = Append(r \o s, e)
<1>1. <<e>> \in Seq(Elem) /\ r \o s \in Seq(Elem)
  BY ConcatProperties
<1>2. r \o (s \o <<e>>) = (r \o s) \o <<e>>
  BY <1>1, ConcatAssociative
<1>3. Append(s, e) = s \o <<e>> /\ Append(r \o s, e) = (r \o s) \o <<e>>
  BY <1>1, AppendIsConcat
<1> QED
  BY <1>2, <1>3

\* A set of natural numbers that is not empty has a least one.
LEMMA LeastNatural ==
    ASSUME NEW S \in SUBSET Nat, S # {}
    PROVE  \E m \in S : \A n \in S : m <= n
<1> DEFINE T == {0..n : n \in S}
<1>1. T \subseteq FiniteSubsetsOf(Nat) /\ T # {}
  <2>1. ASSUME NEW n \in S
        PROVE  0..n \in SUBSET Nat /\ IsFiniteSet(0..n)
    <3>1. n \in Nat /\ 0 \in Int /\ n \in Int
      OBVIOUS
    <3> QED
      BY <3>1, FS_Interval
  <2> QED
    BY <2>1 DEF FiniteSubsetsOf
<1>2. IsWellFoundedOn(StrictSubsetOrdering(Nat), FiniteSubsetsOf(Nat))
  BY FS_StrictSubsetOrderingWellFounded
<1> HIDE DEF T
<1>3. PICK x \in T : \A y \in T : ~(<<y, x>> \in StrictSubsetOrdering(Nat))
  BY <1>1, <1>2, WFMin
<1>4. PICK m \in S : x = 0..m
  BY DEF T
<1>5. ASSUME NEW n \in S, n < m
      PROVE  FALSE
  <2>1. 0..n \in T /\ 0..n \subseteq 0..m /\ m \in 0..m /\ m \notin 0..n
    <3>1. m \in Nat /\ n \in Nat
      OBVIOUS
    <3>2. 0..n \subseteq 0..m /\ m \in 0..m /\ m \notin 0..n
      BY <1>5, <3>1
    <3> QED
      BY <3>2 DEF T
  <2>2. <<0..n, x>> \in StrictSubsetOrdering(Nat)
    <3>1. 0..n \in SUBSET Nat /\ x \in SUBSET Nat /\ 0..n \subseteq x /\ 0..n # x
      BY <1>4, <2>1
    <3> QED
      BY <3>1 DEF StrictSubsetOrdering
  <2> QED
    BY <1>3, <2>1, <2>2
<1> QED
  <2>1. \A n \in S : n \in Nat /\ m \in Nat /\ ~(n < m)
    BY <1>5
  <2> QED
    BY <2>1

--------------------------------------------------------------------------------
(* The inductive invariant.                                                  *)

\* A pushing thread has an element to push.
ArgInv == \A t \in Thread : pc[t] = "push" => elem[t] \in Elem

\* A thread is blocked only inside pop() and without the mutex.
WaitersPop == \A t \in waiting[empty] : pc[t] = "pop" /\ holder # {t}

SizeInv == IsFiniteSet(Stored) /\ SizeAgrees

Inv == TypeOK /\ ArgInv /\ WaitersPop /\ SizeInv /\ FifoOnce /\ NoLostWakeup

\* The invariant holds at the start.
LEMMA InvInit == Init => Inv
<1> SUFFICES ASSUME Init PROVE Inv
  OBVIOUS
<1>1. queues = [p \in {} |-> <<>>] /\ DOMAIN queues = {}
  BY DEF Init
<1>2. TypeOK /\ ArgInv
  <2>1. SyncTypeOK
    BY DEF Init, SyncInit, SyncTypeOK
  <2>2. queues \in [DOMAIN queues -> Seq(Elem)]
    BY <1>1
  <2>3. <<>> \in Seq(Elem)
    BY EmptySeq
  <2> QED
    BY <1>1, <2>1, <2>2, <2>3 DEF Init, TypeOK, Calls, ArgInv
<1>3. waiting[empty] = {}
  BY EmptyIsCond DEF Init, SyncInit
<1>4. FifoOnce
  BY <1>1 DEF Init, FifoOnce, HasQueue
<1>5. SizeInv
  <2>1. Stored = {}
    BY <1>1 DEF Stored
  <2> QED
    BY <2>1, FS_EmptySet DEF Init, SizeInv, SizeAgrees
<1> QED
  BY <1>2, <1>3, <1>4, <1>5 DEF Inv, WaitersPop, NoLostWakeup

\* The steps that leave the elements alone.
Idle(t) ==
    \/ Call(t) \/ Acquire(t) \/ PushDropped(t) \/ PushSignal(t) \/ PopWaits(t)
    \/ Size(t) \/ Wakeup(t)

\* The steps that move no element.
LEMMA IdleSteps ==
    ASSUME NEW t \in Thread, Idle(t)
    PROVE  UNCHANGED <<queues, globalSize, put, removed>>
  BY DEF Idle, Call, Acquire, PushDropped, PushSignal, PopWaits, Size, Wakeup, history

\* A step moves no element, or is one of the four that do.
LEMMA NextSteps ==
    ASSUME [Next]_vars
    PROVE  \/ UNCHANGED vars
           \/ \E t \in Thread : Idle(t) \/ AddQueue(t) \/ Push(t) \/ Pop(t) \/ Clear(t)
  BY DEF Next, Idle

\* pop() serves the queue of one priority.
LEMMA PopServes ==
    ASSUME TypeOK, NEW t \in Thread, Pop(t)
    PROVE  \E p \in DOMAIN queues :
               /\ FirstNonEmpty(p) /\ p \in Prio /\ queues[p] \in Seq(Elem) /\ queues[p] # <<>>
               /\ queues' = [queues EXCEPT ![p] = Tail(queues[p])]
               /\ removed' = [removed EXCEPT ![p] = Append(removed[p], Head(queues[p]))]
<1>1. PICK p \in DOMAIN queues :
          /\ FirstNonEmpty(p)
          /\ queues' = [queues EXCEPT ![p] = Tail(queues[p])]
          /\ removed' = [removed EXCEPT ![p] = Append(removed[p], Head(queues[p]))]
  BY DEF Pop
<1> QED
  BY <1>1 DEF TypeOK, FirstNonEmpty

\* The queues and the histories keep their types.
LEMMA DataStep ==
    ASSUME TypeOK, ArgInv, [Next]_vars
    PROVE  /\ DOMAIN queues' \subseteq Prio /\ queues' \in [DOMAIN queues' -> Seq(Elem)]
           /\ globalSize' \in Nat
           /\ put' \in [Prio -> Seq(Elem)] /\ removed' \in [Prio -> Seq(Elem)]
<1> DEFINE Goal == /\ DOMAIN queues' \subseteq Prio /\ queues' \in [DOMAIN queues' -> Seq(Elem)]
                   /\ globalSize' \in Nat
                   /\ put' \in [Prio -> Seq(Elem)] /\ removed' \in [Prio -> Seq(Elem)]
<1>1. /\ DOMAIN queues \subseteq Prio /\ queues \in [DOMAIN queues -> Seq(Elem)]
      /\ globalSize \in Nat /\ prio \in [Thread -> Prio]
      /\ put \in [Prio -> Seq(Elem)] /\ removed \in [Prio -> Seq(Elem)]
  BY DEF TypeOK
<1>2. ASSUME NEW t \in Thread, AddQueue(t)
      PROVE  Goal
  <2>1. /\ queues' = [p \in DOMAIN queues \cup {prio[t]} |-> IF HasQueue(p) THEN queues[p] ELSE <<>>]
        /\ UNCHANGED <<globalSize, put, removed>>
    BY <1>2 DEF AddQueue
  <2>2. \A p \in DOMAIN queues' : queues'[p] \in Seq(Elem)
    BY <1>1, <2>1, EmptySeq DEF HasQueue
  <2> QED
    BY <1>1, <2>1, <2>2
<1>3. ASSUME NEW t \in Thread, Push(t)
      PROVE  Goal
  <2>1. /\ prio[t] \in DOMAIN queues /\ prio[t] \in Prio /\ elem[t] \in Elem
        /\ queues' = [queues EXCEPT ![prio[t]] = Append(queues[prio[t]], elem[t])]
        /\ put' = [put EXCEPT ![prio[t]] = Append(put[prio[t]], elem[t])]
        /\ globalSize' = globalSize + 1 /\ removed' = removed
    BY <1>1, <1>3 DEF Push, ArgInv, HasQueue
  <2>2. /\ Append(queues[prio[t]], elem[t]) \in Seq(Elem)
        /\ Append(put[prio[t]], elem[t]) \in Seq(Elem)
    BY <1>1, <2>1, AppendProperties
  <2> QED
    BY <1>1, <2>1, <2>2
<1>4. ASSUME NEW t \in Thread, Pop(t)
      PROVE  Goal
  <2>1. PICK p \in DOMAIN queues :
            /\ p \in Prio /\ queues[p] \in Seq(Elem) /\ queues[p] # <<>>
            /\ queues' = [queues EXCEPT ![p] = Tail(queues[p])]
            /\ removed' = [removed EXCEPT ![p] = Append(removed[p], Head(queues[p]))]
    BY <1>4, PopServes
  <2>2. Tail(queues[p]) \in Seq(Elem) /\ Append(removed[p], Head(queues[p])) \in Seq(Elem)
    BY <1>1, <2>1, HeadTailProperties, AppendProperties
  <2>3. globalSize' = globalSize - 1 /\ globalSize # 0 /\ put' = put
    BY <1>4 DEF Pop
  <2> QED
    BY <1>1, <2>1, <2>2, <2>3
<1>5. ASSUME NEW t \in Thread, Clear(t)
      PROVE  Goal
  <2>1. /\ removed' = [p \in Prio |-> IF HasQueue(p) THEN removed[p] \o queues[p] ELSE removed[p]]
        /\ queues' = [p \in {} |-> <<>>] /\ globalSize' = 0 /\ put' = put
    BY <1>5 DEF Clear
  <2>2. \A p \in Prio : removed'[p] \in Seq(Elem)
    BY <1>1, <2>1, ConcatProperties DEF HasQueue
  <2> QED
    BY <1>1, <2>1, <2>2
<1>6. ASSUME NEW t \in Thread, Idle(t)
      PROVE  Goal
  BY <1>1, <1>6, IdleSteps
<1>7. CASE UNCHANGED vars
  BY <1>1, <1>7 DEF vars, history
<1> QED
  BY <1>2, <1>3, <1>4, <1>5, <1>6, <1>7, NextSteps

\* The mutex, the waiters and the calls.
LEMMA ControlStep ==
    ASSUME TypeOK, ArgInv, WaitersPop, [Next]_vars
    PROVE  /\ SyncTypeOK' /\ pc' \in [Thread -> Calls]
           /\ elem' \in [Thread -> Elem \cup {NoElem}] /\ prio' \in [Thread -> Prio]
           /\ added' \subseteq Prio /\ dropped' \subseteq Elem
           /\ ArgInv' /\ WaitersPop'
<1> DEFINE Args == /\ pc' \in [Thread -> Calls]
                   /\ elem' \in [Thread -> Elem \cup {NoElem}] /\ prio' \in [Thread -> Prio]
                   /\ added' \subseteq Prio /\ dropped' \subseteq Elem /\ ArgInv'
           Goal == SyncTypeOK' /\ WaitersPop' /\ Args
<1>1. /\ SyncTypeOK /\ pc \in [Thread -> Calls]
      /\ elem \in [Thread -> Elem \cup {NoElem}] /\ prio \in [Thread -> Prio]
      /\ added \subseteq Prio /\ dropped \subseteq Elem
      /\ waiting[empty] \subseteq Thread
  BY EmptyIsCond DEF TypeOK, SyncTypeOK
<1>2. ASSUME NEW t \in Thread, Call(t)
      PROVE  Goal
  <2>1. UNCHANGED <<holder, waiting>> /\ SyncTypeOK' /\ pc[t] = "ready"
    BY <1>1, <1>2, SyncSteps DEF Call, syncVars
  <2>2. Args
    BY <1>1, <1>2 DEF Call, Goto, Calls, Fresh, ArgInv, args, history
  <2>3. WaitersPop'
    BY <1>1, <1>2, <2>1 DEF Call, Goto, WaitersPop
  <2> QED
    BY <2>1, <2>2, <2>3
<1>3. ASSUME NEW t \in Thread, Acquire(t)
      PROVE  Goal
  <2>1. /\ SyncTypeOK' /\ UNCHANGED <<pc, elem, prio, waiting, added, dropped>>
        /\ holder' = {t} /\ t \notin waiting[empty]
    BY <1>1, <1>3, SyncSteps, EmptyIsCond DEF Acquire, Lock, Blocked, args, history
  <2> QED
    BY <1>1, <2>1 DEF ArgInv, WaitersPop
<1>4. ASSUME NEW t \in Thread,
             AddQueue(t) \/ Push(t) \/ PushDropped(t) \/ Pop(t) \/ Clear(t) \/ Size(t)
      PROVE  Goal
  <2>1. /\ Unlock(t) /\ UNCHANGED <<waiting, prio>>
        /\ pc' = [pc EXCEPT ![t] = "ready"] \/ pc' = [pc EXCEPT ![t] = "signal"]
        /\ elem' = elem \/ elem' = [elem EXCEPT ![t] = NoElem]
        /\ added' = added \/ added' = added \cup {prio[t]}
        /\ dropped' = dropped \/ (pc[t] = "push" /\ dropped' = dropped \cup {elem[t]})
    BY <1>4 DEF AddQueue, Push, PushDropped, Pop, Clear, Size, Goto, args, history
  <2>2. SyncTypeOK' /\ holder' = {} /\ holder = {t}
    BY <1>1, <2>1, SyncSteps DEF Unlock
  <2>3. pc' \in [Thread -> Calls] /\ elem' \in [Thread -> Elem \cup {NoElem}] /\ ArgInv'
    BY <1>1, <2>1 DEF Calls, ArgInv
  <2>4. prio' \in [Thread -> Prio] /\ added' \subseteq Prio /\ dropped' \subseteq Elem
    BY <1>1, <2>1 DEF ArgInv
  <2>5. WaitersPop'
    BY <1>1, <2>1, <2>2 DEF WaitersPop
  <2> QED
    BY <2>2, <2>3, <2>4, <2>5
<1>5. ASSUME NEW t \in Thread, PushSignal(t)
      PROVE  Goal
  <2>1. /\ SyncTypeOK' /\ waiting'[empty] \subseteq waiting[empty]
        /\ UNCHANGED <<holder, elem, prio, added, dropped>>
        /\ pc[t] = "signal" /\ pc' = [pc EXCEPT ![t] = "ready"]
    BY <1>1, <1>5, SyncSteps DEF PushSignal, Signal, SyncTypeOK, Goto, args, history
  <2> QED
    BY <1>1, <2>1 DEF Calls, ArgInv, WaitersPop
<1>6. ASSUME NEW t \in Thread, PopWaits(t)
      PROVE  Goal
  <2>1. /\ SyncTypeOK' /\ UNCHANGED <<pc, elem, prio, added, dropped>>
        /\ holder' = {} /\ pc[t] = "pop"
    BY <1>1, <1>6, SyncSteps DEF PopWaits, WaitOn, Unlock, args, history
  <2>2. waiting'[empty] = waiting[empty] \cup {t}
    BY <1>1, <1>6, EmptyIsCond DEF PopWaits, WaitOn, SyncTypeOK
  <2> QED
    BY <1>1, <2>1, <2>2 DEF ArgInv, WaitersPop
<1>7. ASSUME NEW t \in Thread, Wakeup(t)
      PROVE  Goal
  <2>1. SyncTypeOK' /\ UNCHANGED <<holder, pc, elem, prio, added, dropped>>
    BY <1>1, <1>7, SyncSteps DEF Wakeup, SpuriousWakeup, args, history
  <2>2. waiting'[empty] \subseteq waiting[empty]
    BY <1>1, <1>7, EmptyIsCond DEF Wakeup, SpuriousWakeup, SyncTypeOK
  <2> QED
    BY <1>1, <2>1, <2>2 DEF ArgInv, WaitersPop
<1>8. CASE UNCHANGED vars
  BY <1>1, <1>8 DEF vars, args, history, SyncTypeOK, ArgInv, WaitersPop
<1> QED
  BY <1>2, <1>3, <1>4, <1>5, <1>6, <1>7, <1>8 DEF Next

--------------------------------------------------------------------------------
(* The properties.                                                           *)

\* The places of the stored elements.
LEMMA StoredPlaces == \A x : x \in Stored <=> \E p \in DOMAIN queues : \E k \in 1..Len(queues[p]) : x = <<p, k>>
  BY DEF Stored

\* The places of the stored elements after a step.
LEMMA StoredPlacesNext ==
    \A x : x \in Stored' <=> \E p \in DOMAIN queues' : \E k \in 1..Len(queues'[p]) : x = <<p, k>>
  BY DEF Stored

\* One element more in the queue of one priority is one place more.
LEMMA StoredGrows ==
    ASSUME TypeOK, NEW p \in DOMAIN queues, NEW e \in Elem,
           queues' = [queues EXCEPT ![p] = Append(queues[p], e)]
    PROVE  /\ Stored' = Stored \cup {<<p, Len(queues[p]) + 1>>}
           /\ <<p, Len(queues[p]) + 1>> \notin Stored
<1>1. queues[p] \in Seq(Elem) /\ Len(queues[p]) \in Nat
  BY LenProperties DEF TypeOK
<1>2. Len(queues'[p]) = Len(queues[p]) + 1
  BY <1>1, AppendProperties DEF TypeOK
<1>3. DOMAIN queues' = DOMAIN queues /\ \A q \in DOMAIN queues : q # p => queues'[q] = queues[q]
  OBVIOUS
<1>4. 1..(Len(queues[p]) + 1) = (1..Len(queues[p])) \cup {Len(queues[p]) + 1}
  BY <1>1
<1>5. \A x : x \in Stored' <=> x \in Stored \/ x = <<p, Len(queues[p]) + 1>>
  BY <1>2, <1>3, <1>4, StoredPlaces, StoredPlacesNext
<1>6. <<p, Len(queues[p]) + 1>> \notin Stored
  BY <1>1, StoredPlaces
<1> QED
  BY <1>5, <1>6

\* One element less is one place less.
LEMMA StoredShrinks ==
    ASSUME TypeOK, NEW p \in DOMAIN queues, queues[p] # <<>>,
           queues' = [queues EXCEPT ![p] = Tail(queues[p])]
    PROVE  Stored' = Stored \ {<<p, Len(queues[p])>>} /\ <<p, Len(queues[p])>> \in Stored
<1>1. queues[p] \in Seq(Elem) /\ Len(queues[p]) \in Nat \ {0}
  BY EmptySeq DEF TypeOK
<1>2. Len(queues'[p]) = Len(queues[p]) - 1
  BY <1>1, HeadTailProperties
<1>3. DOMAIN queues' = DOMAIN queues /\ \A q \in DOMAIN queues : q # p => queues'[q] = queues[q]
  OBVIOUS
<1>4. /\ 1..(Len(queues[p]) - 1) = (1..Len(queues[p])) \ {Len(queues[p])}
      /\ Len(queues[p]) \in 1..Len(queues[p])
  BY <1>1
<1>5. \A x : x \in Stored' <=> x \in Stored /\ x # <<p, Len(queues[p])>>
  BY <1>2, <1>3, <1>4, StoredPlaces, StoredPlacesNext
<1>6. <<p, Len(queues[p])>> \in Stored
  BY <1>4, StoredPlaces
<1> QED
  BY <1>5, <1>6

\* Every step keeps globalSize the number of stored elements.
LEMMA SizeStep ==
    ASSUME TypeOK, ArgInv, SizeInv, [Next]_vars
    PROVE  SizeInv'
<1>1. /\ globalSize \in Nat /\ IsFiniteSet(Stored) /\ globalSize = Cardinality(Stored)
      /\ DOMAIN queues \subseteq Prio /\ queues \in [DOMAIN queues -> Seq(Elem)]
  BY DEF TypeOK, SizeInv, SizeAgrees
<1>2. ASSUME NEW t \in Thread, AddQueue(t)
      PROVE  SizeInv'
  <2>1. /\ queues' = [p \in DOMAIN queues \cup {prio[t]} |-> IF HasQueue(p) THEN queues[p] ELSE <<>>]
        /\ globalSize' = globalSize
    BY <1>2 DEF AddQueue
  <2>2. \A p \in DOMAIN queues' : queues'[p] = IF p \in DOMAIN queues THEN queues[p] ELSE <<>>
    BY <2>1 DEF HasQueue
  <2>3. DOMAIN queues' = DOMAIN queues \cup {prio[t]} /\ Len(<<>>) = 0 /\ 1..0 = {}
    BY <2>1, EmptySeq
  <2>4. \A x : x \in Stored' <=> x \in Stored
    BY <2>2, <2>3, StoredPlaces, StoredPlacesNext
  <2>5. Stored' = Stored
    BY <2>4
  <2> QED
    BY <1>1, <2>1, <2>5 DEF SizeInv, SizeAgrees
<1>3. ASSUME NEW t \in Thread, Push(t)
      PROVE  SizeInv'
  <2> DEFINE p == prio[t]
  <2>1. /\ p \in DOMAIN queues /\ elem[t] \in Elem
        /\ queues' = [queues EXCEPT ![p] = Append(queues[p], elem[t])]
        /\ globalSize' = globalSize + 1
    BY <1>3 DEF Push, ArgInv, HasQueue
  <2> HIDE DEF p
  <2>2. PICK x : Stored' = Stored \cup {x} /\ x \notin Stored
    BY <2>1, StoredGrows
  <2>3. IsFiniteSet(Stored') /\ Cardinality(Stored') = Cardinality(Stored) + 1
    BY <1>1, <2>2, FS_AddElement
  <2> QED
    BY <1>1, <2>1, <2>3 DEF SizeInv, SizeAgrees
<1>4. ASSUME NEW t \in Thread, Pop(t)
      PROVE  SizeInv'
  <2>1. PICK p \in DOMAIN queues :
            /\ queues[p] # <<>>
            /\ queues' = [queues EXCEPT ![p] = Tail(queues[p])]
    BY <1>4, PopServes
  <2>2. PICK x : Stored' = Stored \ {x} /\ x \in Stored
    BY <2>1, StoredShrinks
  <2>3. IsFiniteSet(Stored') /\ Cardinality(Stored') = Cardinality(Stored) - 1
    BY <1>1, <2>2, FS_RemoveElement
  <2>4. globalSize' = globalSize - 1
    BY <1>4 DEF Pop
  <2> QED
    BY <1>1, <2>3, <2>4 DEF SizeInv, SizeAgrees
<1>5. ASSUME NEW t \in Thread, Clear(t)
      PROVE  SizeInv'
  <2>1. DOMAIN queues' = {} /\ globalSize' = 0
    BY <1>5 DEF Clear
  <2>2. Stored' = {}
    BY <2>1, StoredPlacesNext
  <2> QED
    BY <2>1, <2>2, FS_EmptySet DEF SizeInv, SizeAgrees
<1>6. CASE UNCHANGED <<queues, globalSize>>
  BY <1>1, <1>6 DEF SizeInv, SizeAgrees, Stored
<1>7. ASSUME NEW t \in Thread, Idle(t)
      PROVE  SizeInv'
  BY <1>6, <1>7, IdleSteps
<1>8. CASE UNCHANGED vars
  BY <1>6, <1>8 DEF vars
<1> QED
  BY <1>2, <1>3, <1>4, <1>5, <1>7, <1>8, NextSteps

\* Every step keeps the order of the elements of a priority.
LEMMA FifoStep ==
    ASSUME TypeOK, ArgInv, FifoOnce, [Next]_vars
    PROVE  FifoOnce'
<1>1. /\ DOMAIN queues \subseteq Prio /\ queues \in [DOMAIN queues -> Seq(Elem)]
      /\ put \in [Prio -> Seq(Elem)] /\ removed \in [Prio -> Seq(Elem)]
  BY DEF TypeOK
<1>2. ASSUME NEW t \in Thread, AddQueue(t)
      PROVE  FifoOnce'
  <2>1. /\ queues' = [p \in DOMAIN queues \cup {prio[t]} |-> IF HasQueue(p) THEN queues[p] ELSE <<>>]
        /\ UNCHANGED <<put, removed>>
    BY <1>2 DEF AddQueue
  <2>2. /\ DOMAIN queues' = DOMAIN queues \cup {prio[t]}
        /\ \A p \in DOMAIN queues' : queues'[p] = IF p \in DOMAIN queues THEN queues[p] ELSE <<>>
    BY <2>1 DEF HasQueue
  <2>3. \A p \in Prio : removed[p] \o <<>> = removed[p]
    BY <1>1, ConcatEmptySeq
  <2> QED
    BY <2>1, <2>2, <2>3 DEF FifoOnce, HasQueue
<1>3. ASSUME NEW t \in Thread, Push(t)
      PROVE  FifoOnce'
  <2> DEFINE p == prio[t]
  <2>1. /\ p \in DOMAIN queues /\ p \in Prio /\ elem[t] \in Elem
        /\ queues' = [queues EXCEPT ![p] = Append(queues[p], elem[t])]
        /\ put' = [put EXCEPT ![p] = Append(put[p], elem[t])]
        /\ removed' = removed
    BY <1>1, <1>3 DEF Push, ArgInv, HasQueue
  <2> HIDE DEF p
  <2>2. removed[p] \o Append(queues[p], elem[t]) = Append(removed[p] \o queues[p], elem[t])
    BY <1>1, <2>1, BackGrows
  <2>3. put[p] = removed[p] \o queues[p]
    BY <2>1 DEF FifoOnce, HasQueue
  <2> QED
    BY <1>1, <2>1, <2>2, <2>3 DEF FifoOnce, HasQueue
<1>4. ASSUME NEW t \in Thread, Pop(t)
      PROVE  FifoOnce'
  <2>1. PICK p \in DOMAIN queues :
            /\ p \in Prio /\ queues[p] \in Seq(Elem) /\ queues[p] # <<>>
            /\ queues' = [queues EXCEPT ![p] = Tail(queues[p])]
            /\ removed' = [removed EXCEPT ![p] = Append(removed[p], Head(queues[p]))]
    BY <1>4, PopServes
  <2>2. Append(removed[p], Head(queues[p])) \o Tail(queues[p]) = removed[p] \o queues[p]
    BY <1>1, <2>1, FrontMoves
  <2>3. put' = put /\ put[p] = removed[p] \o queues[p]
    BY <1>4, <2>1 DEF Pop, FifoOnce, HasQueue
  <2> QED
    BY <1>1, <2>1, <2>2, <2>3 DEF FifoOnce, HasQueue
<1>5. ASSUME NEW t \in Thread, Clear(t)
      PROVE  FifoOnce'
  <2>1. /\ removed' = [p \in Prio |-> IF HasQueue(p) THEN removed[p] \o queues[p] ELSE removed[p]]
        /\ DOMAIN queues' = {} /\ put' = put
    BY <1>5 DEF Clear
  <2> QED
    BY <2>1 DEF FifoOnce, HasQueue
<1>6. CASE UNCHANGED <<queues, put, removed>>
  BY <1>6 DEF FifoOnce, HasQueue
<1>7. ASSUME NEW t \in Thread, Idle(t)
      PROVE  FifoOnce'
  BY <1>6, <1>7, IdleSteps
<1>8. CASE UNCHANGED vars
  BY <1>6, <1>8 DEF vars, history
<1> QED
  BY <1>2, <1>3, <1>4, <1>5, <1>7, <1>8, NextSteps

\* The threads about to take or to announce an element are finitely many.
LEMMA ServingFinite == IsFiniteSet(Serving) /\ Cardinality(Serving) \in Nat
  BY ThreadFinite, FS_Subset, FS_CardinalityType DEF Serving

\* What one step does to the threads that serve the queues, for each kind of step.
LEMMA WakeupStep ==
    ASSUME TypeOK, TypeOK', WaitersPop, NoLostWakeup, [Next]_vars
    PROVE  NoLostWakeup'
<1> SUFFICES ASSUME waiting'[empty] # {}
             PROVE  globalSize' <= Cardinality(Serving')
  BY DEF NoLostWakeup
<1>1. /\ IsFiniteSet(Serving) /\ Cardinality(Serving) \in Nat
      /\ globalSize \in Nat /\ globalSize' \in Nat
      /\ pc \in [Thread -> Calls] /\ waiting[empty] \subseteq Thread
  BY ServingFinite, EmptyIsCond DEF TypeOK, SyncTypeOK
<1>2. IsFiniteSet(Serving') /\ Cardinality(Serving') \in Nat
  <2>1. Serving' \subseteq Thread
    BY DEF Serving
  <2> QED
    BY <2>1, ThreadFinite, FS_Subset, FS_CardinalityType
<1>3. CASE waiting[empty] # {} /\ globalSize' = globalSize /\ Serving \subseteq Serving'
  BY <1>1, <1>2, <1>3, FS_Subset DEF NoLostWakeup
<1>4. ASSUME NEW t \in Thread, Push(t)
      PROVE  globalSize' <= Cardinality(Serving')
  <2>1. /\ pc' = [pc EXCEPT ![t] = "signal"] /\ pc[t] = "push" /\ UNCHANGED waiting
        /\ globalSize' = globalSize + 1
    BY <1>4 DEF Push, Goto
  <2>2. Serving' = Serving \cup {t} /\ t \notin Serving
    BY <1>1, <2>1 DEF Serving
  <2>3. Cardinality(Serving') = Cardinality(Serving) + 1
    BY <1>1, <2>2, FS_AddElement
  <2> QED
    BY <1>1, <2>1, <2>3 DEF NoLostWakeup
<1>5. ASSUME NEW t \in Thread, Pop(t)
      PROVE  globalSize' <= Cardinality(Serving')
  <2>1. /\ pc' = [pc EXCEPT ![t] = "ready"] /\ pc[t] = "pop" /\ UNCHANGED waiting
        /\ globalSize' = globalSize - 1 /\ t \notin waiting[empty]
    BY <1>5 DEF Pop, Goto, Unlock, WaitersPop
  <2>2. Serving' = Serving \ {t} /\ t \in Serving
    BY <1>1, <2>1 DEF Serving
  <2>3. Cardinality(Serving') = Cardinality(Serving) - 1
    BY <1>1, <2>2, FS_RemoveElement
  <2> QED
    BY <1>1, <2>1, <2>3 DEF NoLostWakeup
<1>6. ASSUME NEW t \in Thread, PushSignal(t)
      PROVE  globalSize' <= Cardinality(Serving')
  <2>1. /\ pc' = [pc EXCEPT ![t] = "ready"] /\ pc[t] = "signal" /\ globalSize' = globalSize
        /\ Signal(empty)
    BY <1>6 DEF PushSignal, Goto
  <2>2. PICK w \in waiting[empty] : waiting' = [waiting EXCEPT ![empty] = @ \ {w}]
    BY <2>1 DEF Signal
  <2>3. waiting'[empty] = waiting[empty] \ {w} /\ pc[w] = "pop" /\ w \in Thread /\ w # t
    BY <1>1, <2>1, <2>2, EmptyIsCond DEF TypeOK, SyncTypeOK, WaitersPop
  <2>4. Serving' = (Serving \ {t}) \cup {w} /\ t \in Serving /\ w \notin Serving
    BY <1>1, <2>1, <2>3 DEF Serving
  <2>5. /\ IsFiniteSet(Serving \ {t})
        /\ Cardinality(Serving \ {t}) = Cardinality(Serving) - 1
    BY <1>1, <2>4, FS_RemoveElement
  <2>6. Cardinality((Serving \ {t}) \cup {w}) = Cardinality(Serving \ {t}) + 1
    <3>1. w \notin Serving \ {t}
      BY <2>4
    <3> QED
      BY <2>5, <3>1, FS_AddElement
  <2>7. Cardinality(Serving') = Cardinality(Serving)
    BY <1>1, <2>4, <2>5, <2>6
  <2> QED
    BY <1>1, <2>1, <2>2, <2>7 DEF NoLostWakeup
<1>7. ASSUME NEW t \in Thread, PopWaits(t) \/ Clear(t)
      PROVE  globalSize' <= Cardinality(Serving')
  <2>1. globalSize' = 0
    BY <1>7 DEF PopWaits, Clear
  <2> QED
    BY <1>2, <2>1
<1>8. ASSUME NEW t \in Thread, Call(t) \/ Acquire(t) \/ AddQueue(t) \/ PushDropped(t) \/ Size(t)
      PROVE  globalSize' <= Cardinality(Serving')
  <2>1. /\ UNCHANGED <<globalSize, waiting>>
        /\ pc' = pc \/ \E call \in Calls : pc' = [pc EXCEPT ![t] = call] /\ pc[t] \notin {"signal", "pop"}
    BY <1>8 DEF Call, Acquire, AddQueue, PushDropped, Size, Goto, Calls, syncVars
  <2>2. Serving \subseteq Serving'
    BY <1>1, <2>1 DEF Serving
  <2> QED
    BY <1>3, <2>1, <2>2
<1>9. ASSUME NEW t \in Thread, Wakeup(t)
      PROVE  globalSize' <= Cardinality(Serving')
  <2>1. UNCHANGED <<globalSize, pc>> /\ t \in waiting[empty]
    BY <1>9 DEF Wakeup, SpuriousWakeup
  <2>2. waiting'[empty] \subseteq waiting[empty]
    BY <1>9, EmptyIsCond DEF Wakeup, SpuriousWakeup, TypeOK, SyncTypeOK
  <2>3. Serving \subseteq Serving'
    BY <2>1, <2>2 DEF Serving
  <2> QED
    BY <1>3, <2>1, <2>3
<1>10. CASE UNCHANGED vars
  <2>1. Serving' = Serving
    BY <1>10 DEF vars, Serving
  <2> QED
    BY <1>3, <1>10, <2>1 DEF vars
<1> QED
  BY <1>4, <1>5, <1>6, <1>7, <1>8, <1>9, <1>10 DEF Next

\* Every step keeps the invariant.
LEMMA InvStep == Inv /\ [Next]_vars => Inv'
<1> SUFFICES ASSUME Inv, [Next]_vars PROVE Inv'
  OBVIOUS
<1>1. TypeOK /\ ArgInv /\ WaitersPop /\ SizeInv /\ FifoOnce /\ NoLostWakeup
  BY DEF Inv
<1>2. TypeOK' /\ ArgInv' /\ WaitersPop'
  BY <1>1, DataStep, ControlStep DEF TypeOK
<1>3. SizeInv' /\ FifoOnce'
  BY <1>1, SizeStep, FifoStep
<1>4. NoLostWakeup'
  BY <1>1, <1>2, WakeupStep
<1> QED
  BY <1>2, <1>3, <1>4 DEF Inv

\* The invariant holds in every reachable state.
LEMMA Invariant == Spec => []Inv
  BY InvInit, InvStep, PTL DEF Spec

\* Every variable keeps its type: the map has queues of the program's priorities only, and
\* the mutex has at most one holder.
THEOREM TypeCorrect == Spec => []TypeOK
<1>1. Inv => TypeOK
  BY DEF Inv
<1> QED
  BY <1>1, Invariant, PTL

\* For any priorities and any threads, globalSize_ counts the elements of all the queues.
THEOREM SizeCorrect == Spec => []SizeAgrees
<1>1. Inv => SizeAgrees
  BY DEF Inv, SizeInv
<1> QED
  BY <1>1, Invariant, PTL

\* Every element of a priority leaves once and in the order of the pushes, across clear().
THEOREM FifoCorrect == Spec => []FifoOnce
<1>1. Inv => FifoOnce
  BY DEF Inv
<1> QED
  BY <1>1, Invariant, PTL

\* For any number of threads, signalling outside the mutex loses no wakeup.
THEOREM WakeupsCorrect == Spec => []NoLostWakeup
<1>1. Inv => NoLostWakeup
  BY DEF Inv
<1> QED
  BY <1>1, Invariant, PTL

\* The loop of pop() over the map: when globalSize_ is not 0 it finds a queue to serve, so
\* that the assert(false) behind it is not reached.
PopFindsQueue == globalSize # 0 => \E p \in DOMAIN queues : FirstNonEmpty(p)

\* For any priorities, a thread that leaves the wait of pop() has an element to return.
THEOREM PopCorrect == Spec => []PopFindsQueue
<1>1. ASSUME TypeOK, SizeInv, globalSize # 0
      PROVE  \E p \in DOMAIN queues : FirstNonEmpty(p)
  <2> DEFINE S == {p \in DOMAIN queues : queues[p] # <<>>}
  <2>1. Stored # {}
    BY <1>1, FS_EmptySet DEF SizeInv, SizeAgrees
  <2>2. PICK p \in DOMAIN queues : \E k \in 1..Len(queues[p]) : TRUE
    BY <2>1, StoredPlaces
  <2>3. queues[p] # <<>>
    <3>1. Len(<<>>) = 0 /\ 1..0 = {}
      BY EmptySeq
    <3> QED
      BY <2>2, <3>1
  <2>4. S \in SUBSET Nat /\ S # {}
    BY <1>1, <2>3, PrioAssumption DEF TypeOK
  <2>5. PICK m \in S : \A n \in S : m <= n
    BY <2>4, LeastNatural
  <2>6. ASSUME NEW q \in DOMAIN queues, q < m
        PROVE  queues[q] = <<>>
    <3>1. q \notin S
      <4>1. SUFFICES ASSUME q \in S PROVE FALSE
        OBVIOUS
      <4>2. m \in Nat /\ q \in Nat /\ m <= q
        BY <2>4, <2>5, <4>1
      <4> QED
        BY <2>6, <4>2
    <3> QED
      BY <3>1
  <2> QED
    BY <2>5, <2>6 DEF FirstNonEmpty, HasQueue
<1>2. Inv => PopFindsQueue
  BY <1>1 DEF Inv, PopFindsQueue
<1> QED
  BY <1>2, Invariant, PTL
================================================================================
