------------------------------ MODULE SharedQueue ------------------------------
(***************************************************************************)
(* PosixSharedQueue: a FIFO queue used by any number of threads.           *)
(*                                                                         *)
(* push() appends under the mutex but signals after it has released it;    *)
(* pop() waits in a loop.  A thread blocked in pop() may be cancelled      *)
(* (AbstractThread::stop()): pthread_cond_wait() takes the mutex back and  *)
(* the stack is unwound, which runs ~PthreadMutexLocker().                 *)
(*                                                                         *)
(* An element is in the queue or in a push() once at a time, so that the   *)
(* histories tell elements apart.  One that has left may be pushed again,  *)
(* so that a program may go on pushing for ever: the histories start again *)
(* at such a push().                                                       *)
(***************************************************************************)
EXTENDS PosixSync, Sequences, SequencesExt, FiniteSets

CONSTANTS
    Elem,     \* the elements the program pushes
    NoElem

empty == "empty_"

ASSUME ThreadFinite  == IsFiniteSet(Thread)
ASSUME CondAssumption == Cond = {empty}
ASSUME ElemAssumption == NoElem \notin Elem

VARIABLES
    pc,       \* the call each thread is in
    arg,      \* arg[t]: the argument of t's push()
    queue,    \* queue_
    put,      \* history: elements in the order they were queued,
    removed   \* and in the order they left, by pop() or clear(), since it started

vars == <<holder, waiting, pc, arg, queue, put, removed>>

\* "unwind": cancelled in pthread_cond_wait(), the mutex still to be released.
Calls == {"ready", "push", "signal", "pop", "clear", "size", "unwind", "terminated"}

\* Calls that begin with the mutex; a popper comes back to it after each wait.
LockedCalls == {"push", "pop", "clear", "size", "unwind"}

Init ==
    /\ SyncInit
    /\ pc = [t \in Thread |-> "ready"]
    /\ arg = [t \in Thread |-> NoElem]
    /\ queue = <<>>
    /\ put = <<>>
    /\ removed = <<>>

Goto(t, call) == pc' = [pc EXCEPT ![t] = call]

Fresh == Elem \ (ToSet(queue) \cup {arg[t] : t \in Thread})

\* To push an element that has left starts the histories again.
CallPush(t, e) ==
    /\ Goto(t, "push")
    /\ arg' = [arg EXCEPT ![t] = e]
    /\ \/ e \notin ToSet(removed) /\ UNCHANGED <<put, removed>>
       \/ e \in ToSet(removed) /\ put' = queue /\ removed' = <<>>

\* A thread of the program calls one of the methods.
Call(t) ==
    /\ pc[t] = "ready"
    /\ \/ \E call \in {"pop", "clear", "size"} : Goto(t, call) /\ UNCHANGED <<arg, put, removed>>
       \/ \E e \in Fresh : CallPush(t, e)
    /\ UNCHANGED <<syncVars, queue>>

Acquire(t) ==
    /\ pc[t] \in LockedCalls
    /\ Lock(t)
    /\ UNCHANGED <<waiting, pc, arg, queue, put, removed>>

\* Mutant of Push: only the push that makes the queue non-empty signals.
Push_SignalsWhenEmpty(t) ==
    /\ pc[t] = "push"
    /\ Unlock(t)
    /\ queue' = Append(queue, arg[t])
    /\ put' = Append(put, arg[t])
    /\ arg' = [arg EXCEPT ![t] = NoElem]
    /\ Goto(t, IF queue = <<>> THEN "signal" ELSE "ready")
    /\ UNCHANGED <<waiting, removed>>

\* push() up to the end of its locked block.
Push(t) ==
    /\ pc[t] = "push"
    /\ Unlock(t)
    /\ queue' = Append(queue, arg[t])
    /\ put' = Append(put, arg[t])
    /\ arg' = [arg EXCEPT ![t] = NoElem]
    /\ Goto(t, "signal")
    /\ UNCHANGED <<waiting, removed>>

\* Mutant of PushSignal: nobody is woken.
PushSignal_Silent(t) ==
    /\ pc[t] = "signal"
    /\ Goto(t, "ready")
    /\ UNCHANGED <<syncVars, arg, queue, put, removed>>

\* pthread_cond_signal() at the end of push(), without the mutex.
PushSignal(t) ==
    /\ pc[t] = "signal"
    /\ Signal(empty)
    /\ Goto(t, "ready")
    /\ UNCHANGED <<holder, arg, queue, put, removed>>

\* pop() finds the queue empty: the loop waits and tests again.
PopWaits(t) ==
    /\ pc[t] = "pop"
    /\ queue = <<>>
    /\ WaitOn(t, empty)
    /\ UNCHANGED <<pc, arg, queue, put, removed>>

\* Mutant of Pop: the front is returned and left in the queue.
Pop_KeepsFront(t) ==
    /\ pc[t] = "pop"
    /\ queue # <<>>
    /\ Unlock(t)
    /\ removed' = Append(removed, Head(queue))
    /\ Goto(t, "ready")
    /\ UNCHANGED <<waiting, arg, queue, put>>

Pop(t) ==
    /\ pc[t] = "pop"
    /\ queue # <<>>
    /\ Unlock(t)
    /\ removed' = Append(removed, Head(queue))
    /\ queue' = Tail(queue)
    /\ Goto(t, "ready")
    /\ UNCHANGED <<waiting, arg, put>>

Clear(t) ==
    /\ pc[t] = "clear"
    /\ Unlock(t)
    /\ removed' = removed \o queue
    /\ queue' = <<>>
    /\ Goto(t, "ready")
    /\ UNCHANGED <<waiting, arg, put>>

Size(t) ==
    /\ pc[t] = "size"
    /\ Unlock(t)
    /\ Goto(t, "ready")
    /\ UNCHANGED <<waiting, arg, queue, put, removed>>

\* pthread_cancel() of a thread in pthread_cond_wait(); it consumes no signal.
Cancel(t) ==
    /\ t \in waiting[empty]
    /\ waiting' = [waiting EXCEPT ![empty] = @ \ {t}]
    /\ Goto(t, "unwind")
    /\ UNCHANGED <<holder, arg, queue, put, removed>>

\* ~PthreadMutexLocker() while the cancelled thread's stack is unwound.
Unwind(t) ==
    /\ pc[t] = "unwind"
    /\ Unlock(t)
    /\ Goto(t, "terminated")
    /\ UNCHANGED <<waiting, arg, queue, put, removed>>

Wakeup(t) ==
    /\ SpuriousWakeup(t, empty)
    /\ UNCHANGED <<pc, arg, queue, put, removed>>

Body(t) ==
    \/ Push(t) \/ PushSignal(t) \/ PopWaits(t) \/ Pop(t) \/ Clear(t) \/ Size(t) \/ Unwind(t)

Next == \E t \in Thread : Call(t) \/ Acquire(t) \/ Body(t) \/ Cancel(t) \/ Wakeup(t)

Spec == Init /\ [][Next]_vars

\* A thread inside a call is scheduled, and obtains a mutex that keeps being
\* released; that a thread makes a call or is cancelled is up to the program.
Fairness == \A t \in Thread : SF_vars(Acquire(t)) /\ WF_vars(Body(t))

FairSpec == Spec /\ Fairness

--------------------------------------------------------------------------------
TypeOK ==
    /\ SyncTypeOK
    /\ pc \in [Thread -> Calls]
    /\ arg \in [Thread -> Elem \cup {NoElem}]
    /\ queue \in Seq(Elem)
    /\ put \in Seq(Elem)
    /\ removed \in Seq(Elem)

\* Elements leave in the order in which they were queued, each of them once,
\* whichever threads call pop() and clear().
FifoOnce == removed \o queue = put

\* Threads that will look at the queue, or wake a thread that will.
Serving == {t \in Thread : pc[t] = "signal" \/ (pc[t] = "pop" /\ t \notin waiting[empty])}

\* Although push() signals outside the mutex, whenever a popper is blocked there
\* are as many threads about to take or to announce an element as there are
\* elements: no element is stuck behind a blocked popper.
NoLostWakeup == waiting[empty] # {} => Len(queue) <= Cardinality(Serving)

\* Only a thread inside a locked call, or unwinding one, holds the mutex: no
\* returned, signalling or terminated thread keeps it.
MutexReleased == \A t \in Thread : holder = {t} => pc[t] \in LockedCalls

\* No element stays in the queue beside a pop() that goes on: whatever is pushed after
\* it, it leaves, or every popper has returned or was cancelled.
PoppersServed ==
    \A e \in Elem :
        (e \in ToSet(queue) /\ \E t \in Thread : pc[t] = "pop")
        ~> (e \notin ToSet(queue) \/ \A t \in Thread : pc[t] # "pop")

\* A thread is blocked only inside pop() and without the mutex: NoLostWakeup needs
\* it to be inductive.
WaitersPop == \A t \in waiting[empty] : pc[t] = "pop" /\ holder # {t}
================================================================================
