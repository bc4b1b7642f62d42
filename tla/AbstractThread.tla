----------------------------- MODULE AbstractThread -----------------------------
(***************************************************************************)
(* One AbstractThread object and the POSIX threads its start() creates.    *)
(* Clients call start(), stop(), waitForTermination() and the destructor;  *)
(* a client is preempted between the test or assignment of isStarted_ and  *)
(* the pthread call next to it.                                            *)
(*                                                                         *)
(* waitForTermination() is called once per started thread (a second        *)
(* pthread_join() is undefined), and the destructor while nobody is in a   *)
(* call, also for a thread that runs or was stopped and never joined.      *)
(* With Disciplined the clients start() again only after                   *)
(* waitForTermination() has returned for the thread started before, and    *)
(* while nobody else is in a call, as the example of the class comment     *)
(* does.  stop() may be called at any time, also while another client      *)
(* waits.                                                                  *)
(***************************************************************************)
EXTENDS Naturals, FiniteSets

CONSTANTS
    Client,
    MaxThreads,   \* bound on the calls of pthread_create()
    Disciplined

ASSUME MaxThreadsAssumption == MaxThreads \in Nat \ {0}
ASSUME DisciplineAssumption == Disciplined \in BOOLEAN

None == 0
PThread == 1..MaxThreads

VARIABLES
    pc,          \* the call each client is in
    isStarted,   \* isStarted_
    handle,      \* handle_: the last thread created
    thread,      \* the life of each POSIX thread
    cancelled,   \* threads that pthread_cancel() was called for
    owed,        \* history: waitForTermination() has not returned since start()
    destroyed    \* the object's destructor has returned

vars == <<pc, isStarted, handle, thread, cancelled, owed, destroyed>>

\* "created": in Execute(), before run(); "running": in run().
ThreadStates == {"absent", "created", "running", "ended", "joined"}

Calls == {"ready", "create", "cancel", "join", "joined", "delete", "crashed"}

Init ==
    /\ pc = [c \in Client |-> "ready"]
    /\ isStarted = FALSE
    /\ handle = None
    /\ thread = [i \in PThread |-> "absent"]
    /\ cancelled = {}
    /\ owed = FALSE
    /\ destroyed = FALSE

Goto(c, call) == pc' = [pc EXCEPT ![c] = call]

\* A client may make a call on the object.
Free(c) == pc[c] = "ready" /\ ~destroyed /\ \A d \in Client : pc[d] # "delete"

Alive(i) == thread[i] \in {"created", "running"}

\* Nobody is in a call and no thread is left to wait for, as far as the clients know.
Quiescent == ~owed /\ \A c \in Client : pc[c] = "ready"

--------------------------------------------------------------------------------
(* The clients.                                                              *)

\* start(): does nothing when isStarted_ is set.
Start(c) ==
    /\ Free(c)
    /\ Disciplined => Quiescent
    /\ ~isStarted
    /\ \E i \in PThread : thread[i] = "absent"
    /\ Goto(c, "create")
    /\ UNCHANGED <<isStarted, handle, thread, cancelled, owed, destroyed>>

\* pthread_create() and, when it succeeds, isStarted_ = true.
Create(c) ==
    /\ pc[c] = "create"
    /\ Goto(c, "ready")
    /\ \/ \E i \in PThread :
            /\ thread[i] = "absent" /\ \A k \in 1..(i - 1) : thread[k] # "absent"
            /\ thread' = [thread EXCEPT ![i] = "created"]
            /\ handle' = i
            /\ isStarted' = TRUE
            /\ owed' = TRUE
       \/ UNCHANGED <<thread, handle, isStarted, owed>>
    /\ UNCHANGED <<cancelled, destroyed>>

\* stop(): returns at once when isStarted_ is not set.
Stop(c) ==
    /\ Free(c)
    /\ isStarted
    /\ isStarted' = FALSE
    /\ Goto(c, "cancel")
    /\ UNCHANGED <<handle, thread, cancelled, owed, destroyed>>

\* pthread_cancel(handle_), in stop() or in the destructor; the handle of a thread
\* that was joined meanwhile is invalid.
CancelThread(c) ==
    /\ pc[c] \in {"cancel", "delete"}
    /\ IF Alive(handle) THEN cancelled' = cancelled \cup {handle} ELSE UNCHANGED cancelled
    /\ \/ Goto(c, "ready")
       \/ thread[handle] = "joined" /\ Goto(c, "crashed")
    /\ destroyed' = (destroyed \/ pc[c] = "delete")
    /\ UNCHANGED <<isStarted, handle, thread, owed>>

\* waitForTermination() for a thread that nobody else waits for.
Wait(c) ==
    /\ Free(c)
    /\ owed
    /\ \A d \in Client : pc[d] \notin {"create", "join", "joined"}
    /\ Goto(c, "join")
    /\ UNCHANGED <<isStarted, handle, thread, cancelled, owed, destroyed>>

\* Mutant of Join: pthread_join() does not wait.
Join_NoWait(c) ==
    /\ pc[c] = "join"
    /\ Goto(c, "joined")
    /\ UNCHANGED <<isStarted, handle, thread, cancelled, owed, destroyed>>

\* pthread_join(handle_) returns 0.
Join(c) ==
    /\ pc[c] = "join"
    /\ thread[handle] = "ended"
    /\ thread' = [thread EXCEPT ![handle] = "joined"]
    /\ Goto(c, "joined")
    /\ UNCHANGED <<isStarted, handle, cancelled, owed, destroyed>>

\* Mutant of WaitReturns: the flag is not reset.
WaitReturns_KeepsFlag(c) ==
    /\ pc[c] = "joined"
    /\ owed' = FALSE
    /\ Goto(c, "ready")
    /\ UNCHANGED <<isStarted, handle, thread, cancelled, destroyed>>

\* isStarted_ = false after the join.
WaitReturns(c) ==
    /\ pc[c] = "joined"
    /\ isStarted' = FALSE
    /\ owed' = FALSE
    /\ Goto(c, "ready")
    /\ UNCHANGED <<handle, thread, cancelled, destroyed>>

\* Mutant of Destroy: the flag is reset and the thread is not cancelled.
Destroy_NoCancel(c) ==
    /\ Free(c)
    /\ \A d \in Client : pc[d] = "ready"
    /\ isStarted' = FALSE
    /\ destroyed' = TRUE
    /\ UNCHANGED <<pc, handle, thread, cancelled, owed>>

\* ~AbstractThread(): stops a thread whose flag is set and does not wait for it.
Destroy(c) ==
    /\ Free(c)
    /\ \A d \in Client : pc[d] = "ready"
    /\ IF isStarted
       THEN isStarted' = FALSE /\ Goto(c, "delete") /\ UNCHANGED destroyed
       ELSE destroyed' = TRUE /\ UNCHANGED <<isStarted, pc>>
    /\ UNCHANGED <<handle, thread, cancelled, owed>>

--------------------------------------------------------------------------------
(* The threads.                                                              *)

\* Execute() enables cancellation and calls run().
Run(i) ==
    /\ thread[i] = "created"
    /\ thread' = [thread EXCEPT ![i] = "running"]
    /\ UNCHANGED <<pc, isStarted, handle, cancelled, owed, destroyed>>

\* Mutant of End: Execute() disables cancellation.
End_Uncancellable(i) ==
    /\ thread[i] = "running"
    /\ i \notin cancelled
    /\ thread' = [thread EXCEPT ![i] = "ended"]
    /\ UNCHANGED <<pc, isStarted, handle, cancelled, owed, destroyed>>

\* run() returns, or a cancelled thread reaches a cancellation point in it.
End(i) ==
    /\ thread[i] = "running"
    /\ thread' = [thread EXCEPT ![i] = "ended"]
    /\ UNCHANGED <<pc, isStarted, handle, cancelled, owed, destroyed>>

ClientStep(c) == Create(c) \/ CancelThread(c) \/ Join(c) \/ WaitReturns(c)

Next ==
    \/ \E c \in Client : Start(c) \/ Stop(c) \/ Wait(c) \/ Destroy(c) \/ ClientStep(c)
    \/ \E i \in PThread : Run(i) \/ End(i)

Spec == Init /\ [][Next]_vars

\* Threads are scheduled; a cancelled thread reaches a cancellation point.  A run()
\* that nobody cancels may last for ever.
Fairness ==
    /\ \A c \in Client : WF_vars(ClientStep(c))
    /\ \A i \in PThread : WF_vars(Run(i)) /\ WF_vars(i \in cancelled /\ End(i))

FairSpec == Spec /\ Fairness

--------------------------------------------------------------------------------
TypeOK ==
    /\ pc \in [Client -> Calls]
    /\ isStarted \in BOOLEAN
    /\ handle \in PThread \cup {None}
    /\ thread \in [PThread -> ThreadStates]
    /\ cancelled \subseteq PThread
    /\ owed \in BOOLEAN
    /\ destroyed \in BOOLEAN
    /\ \A c \in Client : pc[c] \in {"cancel", "delete", "join"} => handle # None

\* run() is never executed by two threads of one object at a time.  stop() "stops
\* the running thread" and start() "if the thread is already started does nothing";
\* without Disciplined, start() after stop() breaks it.
OneRun == \A i, k \in PThread : Alive(i) /\ Alive(k) => i = k

\* "In case the thread is running, it stops the thread": a thread that is left when the
\* destructor has returned was cancelled, by it or by a stop(), although it tests only a
\* flag that any client resets before it cancels.  Without Disciplined a stop() that is
\* overtaken by a start() cancels the new thread in place of its own.
LeftMeansStopped == destroyed => \A i \in PThread : Alive(i) => i \in cancelled

\* A set flag never outlives its thread: when no client is in a call, isStarted_
\* means that handle_ is a thread that can still be stopped and joined.
StartedHasThread ==
    (isStarted /\ \A c \in Client : pc[c] = "ready") =>
        handle # None /\ thread[handle] \in {"created", "running", "ended"}

\* One client at a time creates a thread or waits for it.
CallInv ==
    /\ \A c, d \in Client : c # d =>
        /\ pc[c] = "create" => pc[d] = "ready"
        /\ pc[c] \in {"join", "joined"} => pc[d] \notin {"join", "joined"}
    /\ \A c \in Client :
        /\ pc[c] = "create" => ~owed /\ ~destroyed
        /\ pc[c] \in {"join", "joined"} => owed
        /\ pc[c] = "joined" => thread[handle] = "joined"
        /\ pc[c] = "delete" => owed /\ ~isStarted /\ \A d \in Client : d # c => pc[d] = "ready"

\* The thread that is owed a waitForTermination() is the only one not joined.
OwedInv ==
    /\ isStarted => owed
    /\ ~owed => \A i \in PThread : thread[i] \in {"absent", "joined"}
    /\ owed =>
        /\ handle # None
        /\ thread[handle] \in {"created", "running", "ended"} \/ \E c \in Client : pc[c] = "joined"
        /\ \A i \in PThread : i # handle => thread[i] \in {"absent", "joined"}
    /\ destroyed => ~isStarted /\ \A c \in Client : pc[c] = "ready"

\* A thread that runs without the flag was cancelled, or is about to be.
CancelInv ==
    \A i \in PThread :
        Alive(i) => isStarted \/ i \in cancelled \/ \E c \in Client : pc[c] \in {"cancel", "delete"}

\* The inductive invariant of disciplined clients.
IInv == TypeOK /\ CallInv /\ OwedInv /\ CancelInv

\* A wait for a thread that somebody stops comes to an end.
StoppedWaitReturns ==
    \A c \in Client : (pc[c] = "join" /\ handle \in cancelled) ~> pc[c] # "join"

--------------------------------------------------------------------------------
(* What a comment says and the code does not do.                             *)

\* run() is a method of the object, and the destructor "stops the thread": no thread is
\* in run(), or about to enter it, when the destructor has returned.  It only asks the
\* thread to stop, and a stop() before it does no more.
NoRunAfterDestroy == destroyed => \A i \in PThread : ~Alive(i)

\* isStarted_ says "if the thread is running".
IsStartedMeansRunning ==
    (\A c \in Client : pc[c] = "ready") =>
        (isStarted <=> \E i \in PThread : Alive(i))
================================================================================
