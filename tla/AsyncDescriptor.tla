---------------------------- MODULE AsyncDescriptor ----------------------------
(***************************************************************************)
(* Asynchronous I/O of one PosixDescriptor: the thread that owns the       *)
(* descriptor calls async_read()/async_write(), close() and the            *)
(* destructor; the Worker thread pops jobs from the shared_queue, performs *)
(* them and calls their handlers, which may submit further jobs.           *)
(*                                                                         *)
(* pc[t] names the call thread t is in.  A call that takes the mutex has   *)
(* two steps: Acquire(t), common to all of them, and then its body, which  *)
(* needs holder = {t} and ends with the unlock.  A body touches only state *)
(* the mutex protects, so it is one step.                                  *)
(*                                                                         *)
(* A job is one heap-allocated struct job: what it reads or writes and how *)
(* much is left out.  The owner makes no asynchronous call once it has     *)
(* called close() ("there is no method to re-open the descriptor").        *)
(***************************************************************************)
EXTENDS PosixSync, Sequences, SequencesExt

CONSTANTS
    Job,      \* the jobs the program may submit, each of them once
    NoJob,    \* the null pointer
    Faults    \* the faults that may happen: "start", "io"

Main   == "main"
Worker == "worker"

not_empty == "cond_not_empty_"
empty     == "cond_empty_"

ASSUME ThreadAssumption == Thread = {Main, Worker}
ASSUME CondAssumption   == Cond = {not_empty, empty}
ASSUME JobAssumption    == NoJob \notin Job
ASSUME FaultAssumption  == Faults \subseteq {"start", "io"}

VARIABLES
    pc,               \* the call each thread is in
    arg,              \* arg[t]: the job t is about to push
    queue,            \* shared_queue::queue_
    flush_and_close,  \* shared_queue::flush_and_close_
    worker_started,   \* PosixDescriptor::worker_started_
    isStarted,        \* AbstractThread::isStarted_ of the worker
    close,            \* run()'s local variable close
    current,          \* run()'s local variable j
    fdOpen,           \* the descriptor number has not been closed
    destroying,       \* the owner is in (or past) ~PosixDescriptor()
    accepted,         \* history: jobs in the order they were pushed
    performed         \* history: jobs in the order their handlers returned

descVars == <<worker_started, isStarted, fdOpen, destroying>>
jobVars  == <<queue, flush_and_close, accepted>>
runVars  == <<close, current, performed>>
vars     == <<holder, waiting, pc, arg, descVars, jobVars, runVars>>

--------------------------------------------------------------------------------
(* Calls, by the thread that makes them.                                     *)

\* The owner outside any call: it may submit, close or destroy.
MainLocked   == {"push", "set_flush_and_close", "signal_not_empty", "wait_empty",
                 "wait_empty_return"}
MainUnlocked == {"ready", "start", "waitForTermination", "close_fd", "closed",
                 "delete", "destroyed"}
WorkerLocked == {"pop", "push", "signal_empty", "wait_not_empty",
                 "wait_not_empty_return"}
WorkerUnlocked == {"none", "perform", "handler", "exited", "joined"}

\* The calls that begin by locking shared_queue::lock_ (or end a wait()).
LockedCall(t) == IF t = Main THEN MainLocked ELSE WorkerLocked

WorkerCreated == pc[Worker] # "none"

\* No thread has been pushing it, and it was never pushed.
Fresh == Job \ ({arg[t] : t \in Thread} \cup ToSet(accepted))

Init ==
    /\ SyncInit
    /\ pc = [t \in Thread |-> IF t = Main THEN "ready" ELSE "none"]
    /\ arg = [t \in Thread |-> NoJob]
    /\ queue = <<>>
    /\ flush_and_close = FALSE
    /\ worker_started = FALSE
    /\ isStarted = FALSE
    /\ close = FALSE
    /\ current = NoJob
    /\ fdOpen = TRUE
    /\ destroying = FALSE
    /\ accepted = <<>>
    /\ performed = <<>>

Goto(t, call) == pc' = [pc EXCEPT ![t] = call]

\* An uncaught exception or an invalid pthread_t ends the whole process.
Abort == pc' = [t \in Thread |-> IF pc[t] = "none" THEN "none" ELSE "aborted"]

Acquire(t) ==
    /\ pc[t] \in LockedCall(t)
    /\ Lock(t)
    /\ UNCHANGED <<waiting, pc, arg, descVars, jobVars, runVars>>

--------------------------------------------------------------------------------
(* shared_queue                                                              *)

\* Mutant of Push: the job goes to the front.
Push_AtFront(t) ==
    /\ pc[t] = "push"
    /\ Unlock(t)
    /\ queue' = <<arg[t]>> \o queue
    /\ Signal(not_empty)
    /\ accepted' = Append(accepted, arg[t])
    /\ arg' = [arg EXCEPT ![t] = NoJob]
    /\ Goto(t, IF t = Main THEN "ready" ELSE "handler")
    /\ UNCHANGED <<flush_and_close, descVars, runVars>>

Push(t) ==
    /\ pc[t] = "push"
    /\ Unlock(t)
    /\ queue' = Append(queue, arg[t])
    /\ Signal(not_empty)
    /\ accepted' = Append(accepted, arg[t])
    /\ arg' = [arg EXCEPT ![t] = NoJob]
    /\ Goto(t, IF t = Main THEN "ready" ELSE "handler")
    /\ UNCHANGED <<flush_and_close, descVars, runVars>>


SetFlushAndClose ==
    /\ pc[Main] = "set_flush_and_close"
    /\ Unlock(Main)
    /\ flush_and_close' = TRUE
    /\ Goto(Main, "signal_not_empty")
    /\ UNCHANGED <<waiting, arg, queue, accepted, descVars, runVars>>

SignalNotEmpty ==
    /\ pc[Main] = "signal_not_empty"
    /\ Unlock(Main)
    /\ Signal(not_empty)
    /\ Goto(Main, "wait_empty")
    /\ UNCHANGED <<arg, descVars, jobVars, runVars>>

\* Waits once: there is no predicate that is tested before or after.
WaitEmpty ==
    /\ pc[Main] = "wait_empty"
    /\ WaitOn(Main, empty)
    /\ Goto(Main, "wait_empty_return")
    /\ UNCHANGED <<arg, descVars, jobVars, runVars>>

\* Mutant of WaitEmptyReturn: close() does not join the worker.
WaitEmptyReturn_NoJoin ==
    /\ pc[Main] = "wait_empty_return"
    /\ Unlock(Main)
    /\ Goto(Main, "close_fd")
    /\ UNCHANGED <<waiting, arg, descVars, jobVars, runVars>>

WaitEmptyReturn ==
    /\ pc[Main] = "wait_empty_return"
    /\ Unlock(Main)
    /\ Goto(Main, "waitForTermination")
    /\ UNCHANGED <<waiting, arg, descVars, jobVars, runVars>>

\* Mutant of Pop: flush_and_close_ is tested before the queue.
Pop_CloseFirst ==
    LET none == queue = <<>> \/ flush_and_close IN
    /\ pc[Worker] = "pop"
    /\ Unlock(Worker)
    /\ current' = IF none THEN NoJob ELSE Head(queue)
    /\ queue' = IF none THEN queue ELSE Tail(queue)
    /\ IF queue' = <<>> THEN Signal(empty) ELSE UNCHANGED waiting
    /\ close' = flush_and_close
    /\ Goto(Worker, IF none THEN "signal_empty" ELSE "perform")
    /\ UNCHANGED <<arg, flush_and_close, accepted, performed, descVars>>

\* pop() and run()'s test of its result.
Pop ==
    /\ pc[Worker] = "pop"
    /\ Unlock(Worker)
    /\ current' = IF queue = <<>> THEN NoJob ELSE Head(queue)
    /\ queue' = IF queue = <<>> THEN <<>> ELSE Tail(queue)
    /\ IF queue' = <<>> THEN Signal(empty) ELSE UNCHANGED waiting
    /\ close' = flush_and_close
    /\ Goto(Worker, IF queue = <<>> THEN "signal_empty" ELSE "perform")
    /\ UNCHANGED <<arg, flush_and_close, accepted, performed, descVars>>

\* signal_empty() and run()'s test of close, the value the last pop() read.
SignalEmpty ==
    /\ pc[Worker] = "signal_empty"
    /\ Unlock(Worker)
    /\ Signal(empty)
    /\ Goto(Worker, IF close THEN "exited" ELSE "wait_not_empty")
    /\ UNCHANGED <<arg, descVars, jobVars, runVars>>

\* Waits once: neither the queue nor flush_and_close is tested again.
WaitNotEmpty ==
    /\ pc[Worker] = "wait_not_empty"
    /\ WaitOn(Worker, not_empty)
    /\ Goto(Worker, "wait_not_empty_return")
    /\ UNCHANGED <<arg, descVars, jobVars, runVars>>

WaitNotEmptyReturn ==
    /\ pc[Worker] = "wait_not_empty_return"
    /\ Unlock(Worker)
    /\ Goto(Worker, "pop")
    /\ UNCHANGED <<waiting, arg, descVars, jobVars, runVars>>

Wakeup(t, c) ==
    /\ pc[t] # "aborted"
    /\ SpuriousWakeup(t, c)
    /\ UNCHANGED <<pc, arg, descVars, jobVars, runVars>>

--------------------------------------------------------------------------------
(* The worker outside the shared queue.                                      *)

\* do_read() or do_write(): blocks until the transfer is over.
Perform ==
    /\ pc[Worker] = "perform"
    /\ Goto(Worker, "handler")
    /\ UNCHANGED <<syncVars, arg, descVars, jobVars, runVars>>

\* ::read() or ::write() failed: do_read()/do_write() throw and nothing in the
\* worker's thread catches the exception.
PerformFails ==
    /\ "io" \in Faults
    /\ pc[Worker] = "perform"
    /\ Abort
    /\ UNCHANGED <<syncVars, arg, descVars, jobVars, runVars>>

\* The handler calls async_read() or async_write() on the same descriptor.
HandlerSubmits(j) ==
    /\ pc[Worker] = "handler"
    /\ j \in Fresh
    /\ arg' = [arg EXCEPT ![Worker] = j]
    /\ Goto(Worker, "push")
    /\ UNCHANGED <<syncVars, descVars, jobVars, runVars>>

\* Mutant of HandlerReturns: the worker waits after each job.
HandlerReturns_Waits ==
    /\ pc[Worker] = "handler"
    /\ performed' = Append(performed, current)
    /\ current' = NoJob
    /\ Goto(Worker, "wait_not_empty")
    /\ UNCHANGED <<syncVars, arg, close, descVars, jobVars>>

\* The handler returns and run() deletes the job.
HandlerReturns ==
    /\ pc[Worker] = "handler"
    /\ performed' = Append(performed, current)
    /\ current' = NoJob
    /\ Goto(Worker, "pop")
    /\ UNCHANGED <<syncVars, arg, close, descVars, jobVars>>

--------------------------------------------------------------------------------
(* The owner outside the shared queue.                                       *)

\* async_read() or async_write(): worker_started_ decides, not the thread.
AsyncOperation(j) ==
    /\ pc[Main] = "ready"
    /\ j \in Fresh
    /\ arg' = [arg EXCEPT ![Main] = j]
    /\ Goto(Main, IF worker_started THEN "push" ELSE "start")
    /\ UNCHANGED <<syncVars, descVars, jobVars, runVars>>

\* worker_->start(), whose result is dropped, and worker_started_ = true.
StartWorker ==
    /\ pc[Main] = "start"
    /\ worker_started' = TRUE
    /\ \/ /\ isStarted' = TRUE
          /\ pc' = [pc EXCEPT ![Main] = "push", ![Worker] = "pop"]
       \/ /\ "start" \in Faults
          /\ Goto(Main, "push")
          /\ UNCHANGED isStarted
    /\ UNCHANGED <<syncVars, arg, fdOpen, destroying, jobVars, runVars>>

\* close() up to its first call.
BeginClose == Goto(Main, IF worker_started THEN "set_flush_and_close" ELSE "close_fd")

Close ==
    /\ pc[Main] = "ready"
    /\ BeginClose
    /\ UNCHANGED <<syncVars, arg, descVars, jobVars, runVars>>

\* ~PosixDescriptor() calls close(), whether or not the owner did before.
Destroy ==
    /\ pc[Main] \in {"ready", "closed"}
    /\ destroying' = TRUE
    /\ BeginClose
    /\ UNCHANGED <<syncVars, arg, worker_started, isStarted, fdOpen, jobVars, runVars>>

\* Mutant of WaitForTermination: does not wait for the worker to exit.
WaitForTermination_NoWait ==
    /\ pc[Main] = "waitForTermination"
    /\ isStarted' = FALSE
    /\ Goto(Main, "close_fd")
    /\ UNCHANGED <<syncVars, arg, worker_started, fdOpen, destroying, jobVars, runVars>>

\* worker_->waitForTermination() on a thread that was created and not yet joined.
WaitForTermination ==
    /\ pc[Main] = "waitForTermination"
    /\ pc[Worker] = "exited"
    /\ isStarted' = FALSE
    /\ pc' = [pc EXCEPT ![Main] = "close_fd", ![Worker] = "joined"]
    /\ UNCHANGED <<syncVars, arg, worker_started, fdOpen, destroying, jobVars, runVars>>

\* pthread_join() on a handle that is not a joinable thread (start() failed, or
\* it was joined by an earlier close()) is undefined: it fails or it crashes.
JoinInvalidHandle ==
    /\ pc[Main] = "waitForTermination"
    /\ pc[Worker] \in {"none", "joined"}
    /\ Goto(Main, "close_fd") \/ Abort
    /\ UNCHANGED <<syncVars, arg, descVars, jobVars, runVars>>

\* ::close(fd_).
CloseFd ==
    /\ pc[Main] = "close_fd"
    /\ fdOpen' = FALSE
    /\ Goto(Main, IF destroying THEN "delete" ELSE "closed")
    /\ UNCHANGED <<syncVars, arg, worker_started, isStarted, destroying, jobVars, runVars>>

\* delete(worker_); delete(queue_).
Delete ==
    /\ pc[Main] = "delete"
    /\ Goto(Main, "destroyed")
    /\ UNCHANGED <<syncVars, arg, descVars, jobVars, runVars>>

--------------------------------------------------------------------------------
WorkerStep ==
    \/ Push(Worker) \/ Pop \/ SignalEmpty \/ WaitNotEmpty \/ WaitNotEmptyReturn
    \/ Perform \/ HandlerReturns

MainStep ==
    \/ Push(Main) \/ SetFlushAndClose \/ SignalNotEmpty \/ WaitEmpty \/ WaitEmptyReturn
    \/ StartWorker \/ WaitForTermination \/ JoinInvalidHandle \/ CloseFd \/ Delete

\* What the program and the operating system choose to do.
Environment ==
    \/ \E j \in Job : AsyncOperation(j) \/ HandlerSubmits(j)
    \/ Close \/ Destroy
    \/ PerformFails
    \/ \E t \in Thread, c \in Cond : Wakeup(t, c)

Next ==
    \/ \E t \in Thread : Acquire(t)
    \/ WorkerStep
    \/ MainStep
    \/ Environment

Spec == Init /\ [][Next]_vars

\* Threads are scheduled, a transfer ends, and a thread that keeps finding the
\* mutex free obtains it.  Spurious wakeups and the program's calls are not fair.
Fairness ==
    /\ \A t \in Thread : SF_vars(Acquire(t))
    /\ WF_vars(WorkerStep)
    /\ WF_vars(MainStep)

FairSpec == Spec /\ Fairness

--------------------------------------------------------------------------------
(* Properties.                                                               *)

TypeOK ==
    /\ SyncTypeOK
    /\ pc \in [Thread -> MainLocked \cup MainUnlocked \cup WorkerLocked
                            \cup WorkerUnlocked \cup {"aborted"}]
    /\ pc[Main] \in MainLocked \cup MainUnlocked \cup {"aborted"}
    /\ pc[Worker] \in WorkerLocked \cup WorkerUnlocked \cup {"aborted"}
    /\ arg \in [Thread -> Job \cup {NoJob}]
    /\ queue \in Seq(Job)
    /\ current \in Job \cup {NoJob}
    /\ accepted \in Seq(Job)
    /\ performed \in Seq(Job)
    /\ {flush_and_close, worker_started, isStarted, close, fdOpen, destroying} \subseteq BOOLEAN

\* The job the worker has popped and not finished.
InFlight == IF current = NoJob THEN <<>> ELSE <<current>>

\* Every job that was pushed is performed once, in the order of the pushes, by
\* whichever thread it was pushed: shared_queue::push(), pop() and Worker::run().
FifoOnce == performed \o InFlight \o queue = accepted

\* close() flushes: once the worker runs, the descriptor number is given back to
\* the system only when every job accepted so far has been performed, those a
\* handler submitted during the close included.
FlushBeforeClose ==
    ~fdOpen /\ pc[Worker] \notin {"none", "aborted"} => performed = accepted

\* ~PosixDescriptor() frees the worker object and the shared queue only when no
\* thread runs on them any more, and never has to cancel the worker.
NoUseAfterFree ==
    pc[Main] \in {"delete", "destroyed"} => pc[Worker] \in {"none", "joined"} /\ ~isStarted

\* A worker that is not about to block takes every job that is in its queue.
BusyWorkerDrains ==
    \A j \in Job :
        /\ j \in ToSet(queue)
        /\ pc[Worker] \in {"pop", "perform", "handler", "push", "wait_not_empty_return"}
        /\ ~Blocked(Worker)
        ~> j \in ToSet(performed) \/ pc[Worker] = "aborted"


--------------------------------------------------------------------------------
(* The inductive invariant: why the three safety properties hold although    *)
(* close() may return from wait_empty() at any time.                         *)

\* j is set exactly while run() is between pop() and delete j.
InFlightInv ==
    pc[Worker] # "aborted" =>
        (current # NoJob <=> pc[Worker] \in {"perform", "handler", "push"})

\* A thread that is about to push has a job to push.
ArgInv == \A t \in Thread : pc[t] \in {"start", "push"} => arg[t] \in Job

\* Once flush_and_close_ is set the owner submits nothing.
FlushInv == flush_and_close => pc[Main] \notin {"ready", "start", "push"}

\* The worker exits on an empty queue, knowing that the descriptor is closing.
ExitInv ==
    /\ close => flush_and_close
    /\ pc[Worker] = "signal_empty" /\ close => queue = <<>>
    /\ pc[Worker] \in {"exited", "joined"} => queue = <<>> /\ flush_and_close

\* There is no worker thread before start(), and isStarted_ says that there is
\* one that has not been joined.
StartInv ==
    /\ ~worker_started => pc[Worker] \in {"none", "aborted"}
    /\ pc[Main] = "start" => ~worker_started
    /\ pc[Main] # "aborted" /\ isStarted => pc[Worker] \notin {"none", "joined"}

\* What the owner does after the join, it does without a worker.
JoinedInv ==
    /\ ~fdOpen => pc[Main] \notin {"ready", "start", "push"}
    /\ ~fdOpen \/ pc[Main] \in {"close_fd", "closed", "delete", "destroyed"}
          => pc[Worker] \in {"none", "joined", "aborted"}
    /\ pc[Main] = "aborted" => pc[Worker] \in {"none", "aborted"}
    /\ pc[Worker] = "aborted" => pc[Main] = "aborted"

IInv ==
    /\ TypeOK
    /\ FifoOnce
    /\ InFlightInv /\ ArgInv /\ FlushInv /\ ExitInv /\ StartInv /\ JoinedInv

--------------------------------------------------------------------------------
\* start() failed: async_read() and async_write() queue operations for nobody.
WorkerMissing == worker_started /\ pc[Worker] = "none"

\* An asynchronous descriptor is an AsyncChannel whose pending operations are the job in
\* flight and then the queue.  A channel without a worker performs nothing and is never
\* closed: its ::close() is not the one that was promised.
Channel == INSTANCE AsyncChannel
    WITH Op <- Job, pending <- InFlight \o queue, done <- performed,
         open <- fdOpen \/ WorkerMissing

ImplementsChannel == Channel!Spec

--------------------------------------------------------------------------------
(* What the comments of PosixDescriptor.hpp say and the code does not do.    *)

\* "This method is used by the worker to wait until there are new operations in
\* the queue": a worker blocked in wait_not_empty() has an empty queue.
WaitsOnlyWhileEmpty == Worker \in waiting[not_empty] => queue = <<>>

\* close() "signals the worker that it must not block on wait anymore; then it
\* unblocks the worker": after signal_not_empty() the worker is not blocked.
CloseUnblocksWorker ==
    pc[Main] \in {"wait_empty", "wait_empty_return", "waitForTermination"}
    => Worker \notin waiting[not_empty]

\* wait_empty() lets the owner "wait until the queue is empty": an owner does not
\* stay there when the queue is empty and the worker has exited.
EmptyQueueReleasesOwner ==
    (Main \in waiting[empty] /\ queue = <<>> /\ pc[Worker] = "exited")
    ~> Main \notin waiting[empty]

\* The destructor "closes the file descriptor and deallocates queue_ and
\* worker_": it ends, also when the owner has called close() before.
DestructorEndsAfterClose ==
    (destroying /\ ~fdOpen) ~> pc[Main] \in {"destroyed", "aborted"}

\* worker_started_ says "if the worker thread has been already started".
WorkerStartedMeansThread == worker_started => pc[Worker] # "none"
================================================================================
