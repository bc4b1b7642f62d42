------------------------------- MODULE PosixSync -------------------------------
(***************************************************************************)
(* PosixMutex and PosixCondition: one mutex and the condition variables    *)
(* used with it.  The components that synchronise with them extend this    *)
(* module and conjoin its operators with what they do to their own state.  *)
(*                                                                         *)
(* The classes only wrap pthread_mutex_* and pthread_cond_*; the operators *)
(* say what those calls promise.  A thread that calls wait() leaves the    *)
(* mutex and joins the condition's waiters in one step; once it is taken   *)
(* out of the waiters it must acquire the mutex again before it goes on.   *)
(***************************************************************************)
CONSTANTS
    Thread,   \* the threads that use the mutex
    Cond      \* the condition variables

VARIABLES
    holder,   \* {} when the mutex is free, {t} when t has locked it
    waiting   \* waiting[c]: the threads blocked on the condition c

syncVars == <<holder, waiting>>

SyncTypeOK ==
    /\ holder \in {{}} \cup {{t} : t \in Thread}
    /\ waiting \in [Cond -> SUBSET Thread]

SyncInit ==
    /\ holder = {}
    /\ waiting = [c \in Cond |-> {}]

Blocked(t) == \E c \in Cond : t \in waiting[c]

\* PosixMutex::lock(), and the lock that wait() takes again before it returns.
Lock(t) ==
    /\ holder = {}
    /\ ~Blocked(t)
    /\ holder' = {t}

\* PosixMutex::unlock().
Unlock(t) ==
    /\ holder = {t}
    /\ holder' = {}

\* PosixCondition::wait(): the mutex is released and the thread blocks atomically.
WaitOn(t, c) ==
    /\ Unlock(t)
    /\ waiting' = [waiting EXCEPT ![c] = @ \cup {t}]

\* PosixCondition::signal(): takes one waiter out; nothing is remembered when
\* there is none.
Signal(c) ==
    \/ waiting[c] = {} /\ UNCHANGED waiting
    \/ \E t \in waiting[c] : waiting' = [waiting EXCEPT ![c] = @ \ {t}]

\* POSIX lets a wait return although nobody signalled the condition.
SpuriousWakeup(t, c) ==
    /\ t \in waiting[c]
    /\ waiting' = [waiting EXCEPT ![c] = @ \ {t}]
    /\ UNCHANGED holder
================================================================================
