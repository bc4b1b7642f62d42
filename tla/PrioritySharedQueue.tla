-------------------------- MODULE PrioritySharedQueue --------------------------
(***************************************************************************)
(* PosixPrioritySharedQueue: one FIFO queue per priority that was added;   *)
(* pop() serves the lowest key first (std::map order).                     *)
(*                                                                         *)
(* push() and pop() count the elements in globalSize_, which is what pop() *)
(* waits for.  A push() with a priority that has no queue does nothing,    *)
(* and clear() forgets the priorities with their elements.                 *)
(***************************************************************************)
EXTENDS PosixSync, Naturals, Sequences, SequencesExt, FiniteSets

CONSTANTS
    Prio,     \* the priorities the program uses
    Elem,     \* the elements it pushes, each of them once
    NoElem

empty == "empty_"

ASSUME ThreadFinite   == IsFiniteSet(Thread)
ASSUME CondAssumption == Cond = {empty}
ASSUME PrioAssumption == Prio \subseteq Nat /\ IsFiniteSet(Prio)
ASSUME ElemAssumption == NoElem \notin Elem

VARIABLES
    pc,          \* the call each thread is in
    elem,        \* elem[t], prio[t]: the arguments of t's push() or addQueue()
    prio,
    queues,      \* queues_: a function from the priorities that have a queue
    globalSize,  \* globalSize_
    put,         \* history: put[p], elements queued with priority p, in order
    removed,     \* history: removed[p], those that left, in order
    added,       \* history: the priorities addQueue() was called with
    dropped      \* history: elements whose push() found no queue

args    == <<elem, prio>>
history == <<put, removed, added, dropped>>
vars    == <<holder, waiting, pc, args, queues, globalSize, history>>

Calls == {"ready", "addQueue", "push", "signal", "pop", "clear", "size"}

LockedCalls == {"addQueue", "push", "pop", "clear", "size"}

HasQueue(p) == p \in DOMAIN queues

\* The map's iterator starts at the smallest key.
FirstNonEmpty(p) ==
    /\ HasQueue(p)
    /\ queues[p] # <<>>
    /\ \A q \in DOMAIN queues : q < p => queues[q] = <<>>

Init ==
    /\ SyncInit
    /\ pc = [t \in Thread |-> "ready"]
    /\ elem = [t \in Thread |-> NoElem]
    /\ prio \in [Thread -> Prio]
    /\ queues = [p \in {} |-> <<>>]
    /\ globalSize = 0
    /\ put = [p \in Prio |-> <<>>]
    /\ removed = [p \in Prio |-> <<>>]
    /\ added = {}
    /\ dropped = {}

Goto(t, call) == pc' = [pc EXCEPT ![t] = call]

Fresh == Elem \ (UNION {ToSet(put[p]) : p \in Prio} \cup dropped \cup {elem[t] : t \in Thread})

\* A thread of the program calls one of the methods.
Call(t) ==
    /\ pc[t] = "ready"
    /\ \/ \E call \in {"pop", "clear", "size"} : Goto(t, call) /\ UNCHANGED args
       \/ \E p \in Prio : /\ Goto(t, "addQueue")
                          /\ prio' = [prio EXCEPT ![t] = p]
                          /\ UNCHANGED elem
       \/ \E p \in Prio, e \in Fresh : /\ Goto(t, "push")
                                       /\ prio' = [prio EXCEPT ![t] = p]
                                       /\ elem' = [elem EXCEPT ![t] = e]
    /\ UNCHANGED <<syncVars, queues, globalSize, history>>

Acquire(t) ==
    /\ pc[t] \in LockedCalls
    /\ Lock(t)
    /\ UNCHANGED <<waiting, pc, args, queues, globalSize, history>>

\* Mutant of AddQueue: the priority's queue is replaced.
AddQueue_Replaces(t) ==
    /\ pc[t] = "addQueue"
    /\ Unlock(t)
    /\ queues' = [p \in DOMAIN queues \cup {prio[t]} |-> IF p = prio[t] THEN <<>> ELSE queues[p]]
    /\ added' = added \cup {prio[t]}
    /\ Goto(t, "ready")
    /\ UNCHANGED <<waiting, args, globalSize, put, removed, dropped>>

\* A priority that has a queue keeps it.
AddQueue(t) ==
    /\ pc[t] = "addQueue"
    /\ Unlock(t)
    /\ queues' = [p \in DOMAIN queues \cup {prio[t]} |-> IF HasQueue(p) THEN queues[p] ELSE <<>>]
    /\ added' = added \cup {prio[t]}
    /\ Goto(t, "ready")
    /\ UNCHANGED <<waiting, args, globalSize, put, removed, dropped>>

\* Mutant of Push: only the push that makes the size non-zero signals.
Push_SignalsWhenEmpty(t) ==
    /\ pc[t] = "push"
    /\ HasQueue(prio[t])
    /\ Unlock(t)
    /\ queues' = [queues EXCEPT ![prio[t]] = Append(@, elem[t])]
    /\ globalSize' = globalSize + 1
    /\ put' = [put EXCEPT ![prio[t]] = Append(@, elem[t])]
    /\ elem' = [elem EXCEPT ![t] = NoElem]
    /\ Goto(t, IF globalSize = 0 THEN "signal" ELSE "ready")
    /\ UNCHANGED <<waiting, prio, removed, added, dropped>>

Push(t) ==
    /\ pc[t] = "push"
    /\ HasQueue(prio[t])
    /\ Unlock(t)
    /\ queues' = [queues EXCEPT ![prio[t]] = Append(@, elem[t])]
    /\ globalSize' = globalSize + 1
    /\ put' = [put EXCEPT ![prio[t]] = Append(@, elem[t])]
    /\ elem' = [elem EXCEPT ![t] = NoElem]
    /\ Goto(t, "signal")
    /\ UNCHANGED <<waiting, prio, removed, added, dropped>>

\* push() with a priority that has no queue: the element is not stored.
PushDropped(t) ==
    /\ pc[t] = "push"
    /\ ~HasQueue(prio[t])
    /\ Unlock(t)
    /\ dropped' = dropped \cup {elem[t]}
    /\ elem' = [elem EXCEPT ![t] = NoElem]
    /\ Goto(t, "ready")
    /\ UNCHANGED <<waiting, prio, queues, globalSize, put, removed, added>>

\* pthread_cond_signal() after push() has released the mutex.
PushSignal(t) ==
    /\ pc[t] = "signal"
    /\ Signal(empty)
    /\ Goto(t, "ready")
    /\ UNCHANGED <<holder, args, queues, globalSize, history>>

PopWaits(t) ==
    /\ pc[t] = "pop"
    /\ globalSize = 0
    /\ WaitOn(t, empty)
    /\ UNCHANGED <<pc, args, queues, globalSize, history>>

\* Mutant of Pop: the front is returned and left in its queue.
Pop_KeepsFront(t) ==
    /\ pc[t] = "pop"
    /\ globalSize # 0
    /\ Unlock(t)
    /\ \E p \in DOMAIN queues :
        /\ FirstNonEmpty(p)
        /\ removed' = [removed EXCEPT ![p] = Append(@, Head(queues[p]))]
    /\ globalSize' = globalSize - 1
    /\ Goto(t, "ready")
    /\ UNCHANGED <<waiting, args, queues, put, added, dropped>>

\* pop() with globalSize_ # 0.  A thread that found all queues empty would fail
\* assert(false); by SizeAgrees none does.
Pop(t) ==
    /\ pc[t] = "pop"
    /\ globalSize # 0
    /\ Unlock(t)
    /\ \E p \in DOMAIN queues :
        /\ FirstNonEmpty(p)
        /\ queues' = [queues EXCEPT ![p] = Tail(@)]
        /\ removed' = [removed EXCEPT ![p] = Append(@, Head(queues[p]))]
    /\ globalSize' = globalSize - 1
    /\ Goto(t, "ready")
    /\ UNCHANGED <<waiting, args, put, added, dropped>>

\* The whole map is swapped with an empty one.
Clear(t) ==
    /\ pc[t] = "clear"
    /\ Unlock(t)
    /\ removed' = [p \in Prio |-> IF HasQueue(p) THEN removed[p] \o queues[p] ELSE removed[p]]
    /\ queues' = [p \in {} |-> <<>>]
    /\ globalSize' = 0
    /\ Goto(t, "ready")
    /\ UNCHANGED <<waiting, args, put, added, dropped>>

Size(t) ==
    /\ pc[t] = "size"
    /\ Unlock(t)
    /\ Goto(t, "ready")
    /\ UNCHANGED <<waiting, args, queues, globalSize, history>>

Wakeup(t) ==
    /\ SpuriousWakeup(t, empty)
    /\ UNCHANGED <<pc, args, queues, globalSize, history>>

Next == \E t \in Thread :
    \/ Call(t) \/ Acquire(t) \/ Wakeup(t)
    \/ AddQueue(t) \/ Push(t) \/ PushDropped(t) \/ PushSignal(t)
    \/ PopWaits(t) \/ Pop(t) \/ Clear(t) \/ Size(t)

Spec == Init /\ [][Next]_vars

--------------------------------------------------------------------------------
TypeOK ==
    /\ SyncTypeOK
    /\ pc \in [Thread -> Calls]
    /\ elem \in [Thread -> Elem \cup {NoElem}]
    /\ prio \in [Thread -> Prio]
    /\ DOMAIN queues \subseteq Prio
    /\ queues \in [DOMAIN queues -> Seq(Elem)]
    /\ globalSize \in Nat
    /\ put \in [Prio -> Seq(Elem)]
    /\ removed \in [Prio -> Seq(Elem)]
    /\ added \subseteq Prio
    /\ dropped \subseteq Elem

\* The places that hold an element.
Stored == UNION {{p} \X (1..Len(queues[p])) : p \in DOMAIN queues}

\* globalSize_, which push(), pop() and clear() maintain beside the queues, is
\* the number of elements in all of them: a popper that does not wait finds a queue to
\* serve, and assert(false) at the end of pop() is unreachable.
SizeAgrees == globalSize = Cardinality(Stored)

\* Every element of one priority leaves once, in the order in which it was queued,
\* across clear() and a later addQueue() of the same priority.
FifoOnce ==
    \A p \in Prio : put[p] = IF HasQueue(p) THEN removed[p] \o queues[p] ELSE removed[p]

Serving == {t \in Thread : pc[t] = "signal" \/ (pc[t] = "pop" /\ t \notin waiting[empty])}

\* No element is stuck behind a blocked popper (see SharedQueue).
NoLostWakeup == waiting[empty] # {} => globalSize <= Cardinality(Serving)

--------------------------------------------------------------------------------
\* push() "inserts a new element in the queue" and clear() "empties the queue":
\* a push with a priority for which addQueue() has returned stores its element.
AddedPriorityStores == [][dropped' # dropped => \A t \in Thread : holder = {t} => prio[t] \notin added]_vars
================================================================================
