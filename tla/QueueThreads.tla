------------------------------ MODULE QueueThreads ------------------------------
(***************************************************************************)
(* A PosixSharedQueue served by the threads of an AbstractThread object:   *)
(* run() calls pop() again and again, as a program's worker thread does,   *)
(* producers push and clear, and clients start, stop, wait for and destroy *)
(* the object, in any order: start() after stop() gives the object a       *)
(* second thread while the first one unwinds.                              *)
(*                                                                         *)
(* SharedQueue lets any popper be cancelled and AbstractThread lets any    *)
(* thread end.  Here both are one event: stop() asks, the thread reaches   *)
(* the cancellation point of pthread_cond_wait(), the destructor of the    *)
(* locker runs, the thread ends and waitForTermination() may return.       *)
(***************************************************************************)
EXTENDS SharedQueue, Naturals

CONSTANTS
    Client,      \* threads that start, stop, wait for and destroy the object
    Producer,    \* threads that push, clear and ask for the size
    MaxThreads   \* bound on the threads the object starts

VARIABLES callOf, isStarted, handle, thread, cancelled, owed, destroyed

T == INSTANCE AbstractThread WITH pc <- callOf, Disciplined <- FALSE

ASSUME UserAssumption ==
    /\ Thread = Producer \cup T!PThread
    /\ Producer \cap T!PThread = {}

threadVars == <<callOf, isStarted, handle, thread, cancelled, owed, destroyed>>
allVars == <<vars, threadVars>>

QTInit == Init /\ T!Init

ClientStep(c) ==
    /\ T!Start(c) \/ T!Stop(c) \/ T!Wait(c) \/ T!Destroy(c) \/ T!ClientStep(c)
    /\ UNCHANGED vars

ProducerCalls(t) ==
    /\ Call(t)
    /\ pc'[t] # "pop"
    /\ UNCHANGED threadVars

\* A call on the queue goes on.
QueueStep(t) ==
    /\ Acquire(t) \/ Body(t) \/ Wakeup(t)
    /\ UNCHANGED threadVars

RunBegins(i) == T!Run(i) /\ UNCHANGED vars

\* run() calls pop() once more.
PopsAgain(i) ==
    /\ thread[i] = "running"
    /\ Call(i)
    /\ pc'[i] = "pop"
    /\ UNCHANGED threadVars

\* Mutant of StoppedInPop: cancellation is enabled only where run() has not begun.
StoppedInPop_NotInRun(i) ==
    /\ i \in cancelled
    /\ thread[i] = "created"
    /\ Cancel(i)
    /\ UNCHANGED threadVars

\* A thread that stop() or the destructor has cancelled acts on it in pop().
StoppedInPop(i) ==
    /\ i \in cancelled
    /\ Cancel(i)
    /\ UNCHANGED threadVars

\* Mutant of RunEnds: the thread is taken for ended while it still unwinds.
RunEnds_Unwinding(i) ==
    /\ pc[i] \in {"unwind", "ready"}
    /\ T!End(i)
    /\ UNCHANGED vars

\* The stack is unwound, or run() returns by itself between two calls.
RunEnds(i) ==
    /\ pc[i] \in {"terminated", "ready"}
    /\ T!End(i)
    /\ UNCHANGED vars

QTNext ==
    \/ \E c \in Client : ClientStep(c)
    \/ \E t \in Producer : ProducerCalls(t)
    \/ \E t \in Thread : QueueStep(t)
    \/ \E i \in T!PThread : RunBegins(i) \/ PopsAgain(i) \/ StoppedInPop(i) \/ RunEnds(i)

QTSpec == QTInit /\ [][QTNext]_allVars

\* Threads inside a call are scheduled, also in that of an AbstractThread; run() keeps
\* calling pop(), and a cancelled thread in pthread_cond_wait() acts on it.  Nothing
\* says that a cancelled thread ends: that is what the run has to show.
QTFairness ==
    /\ \A t \in Thread : SF_allVars(Acquire(t) /\ UNCHANGED threadVars)
    /\ \A t \in Thread : WF_allVars(Body(t) /\ UNCHANGED threadVars)
    /\ \A c \in Client : WF_allVars(T!ClientStep(c) /\ UNCHANGED vars)
    /\ \A i \in T!PThread :
        /\ WF_allVars(RunBegins(i)) /\ WF_allVars(PopsAgain(i))
        /\ SF_allVars(StoppedInPop(i))
        /\ WF_allVars(pc[i] = "terminated" /\ RunEnds(i))

QTFairSpec == QTSpec /\ QTFairness

--------------------------------------------------------------------------------
\* A thread that waitForTermination() has joined has left the queue altogether: it is
\* in no call, blocked nowhere, and the mutex is not its own.
JoinedThreadsLeft ==
    \A i \in T!PThread :
        thread[i] = "joined" =>
            pc[i] \in {"ready", "terminated"} /\ i \notin waiting[empty] /\ holder # {i}

\* The join of a stopped thread returns, whatever the clients and another thread of the
\* object do to the queue.
StoppedIsJoined ==
    \A c \in Client : (callOf[c] = "join" /\ handle \in cancelled) ~> callOf[c] # "join"

\* Once the producers have stopped pushing, waitForTermination() for a thread that was
\* stopped returns although pop() never does again: elements still queued are served
\* first, then the thread is cancelled in its wait, even if it was woken meanwhile.  The
\* premise is needed: pop() on a queue that is not empty calls nothing that can be
\* cancelled, so that a stopped thread serves pushes for ever if they do not end.
StoppedPopperJoined == <>[](\A t \in Producer : pc[t] # "push") => StoppedIsJoined
================================================================================
