--------------------------- MODULE DescriptorsMonitor ---------------------------
(***************************************************************************)
(* DescriptorsMonitor and the AbstractDescriptorReaders registered with    *)
(* it, in one thread: the program calls wait() in a loop, and the handlers *)
(* that wait() calls (dataAvailable()) register and unregister             *)
(* descriptors while wait() iterates over a copy of the registrations.     *)
(*                                                                         *)
(* A registration is a block on the heap; new returns any free block, also *)
(* one that an old pointer still refers to.  A descriptor is its number.   *)
(***************************************************************************)
EXTENDS Integers, Sequences, SequencesExt, FiniteSets

CONSTANTS
    Descriptor,    \* the numbers of the descriptors the program opens
    Reader,
    Block          \* bound on the registrations at one time

ASSUME DescriptorAssumption == Descriptor \subseteq Nat /\ Descriptor # {}
ASSUME ReaderAssumption     == Reader # {}

VARIABLES
    descriptorSet,      \* descriptorSet_
    highestDescriptor,  \* highestDescriptor_
    descriptors,        \* descriptors_: a sequence of blocks
    heap,               \* what each block holds: a descriptor and a reader
    allocated,          \* the blocks that are not free
    open,               \* descriptors that were not closed
    readable,           \* descriptors that have data
    pc,                 \* where the program is: outside wait() or in a part of it
    fd,                 \* wait()'s set, which select() reduces to the ready ones
    checkedDescriptors, \* wait()'s copy of descriptors_
    i,                  \* wait()'s iterator into the copy
    disturbed           \* history: since wait() began, a handler has unregistered a
                        \* descriptor that is not the one it was called for

monitor == <<descriptorSet, highestDescriptor, descriptors, heap, allocated>>
files   == <<open, readable>>
local   == <<fd, checkedDescriptors, i>>
vars    == <<monitor, files, pc, local, disturbed>>

Registration == [descriptor : Descriptor, reader : Reader]

Init ==
    /\ descriptorSet = {}
    /\ highestDescriptor = 0
    /\ descriptors = <<>>
    /\ heap = [b \in Block |-> CHOOSE garbage \in Registration : TRUE]
    /\ allocated = {}
    /\ open = Descriptor
    /\ readable = {}
    /\ pc = "program"
    /\ fd = {}
    /\ checkedDescriptors = <<>>
    /\ i = 1
    /\ disturbed = FALSE

\* The block, and the registration in it, that wait() looks at.
Current == checkedDescriptors[i]
CurrentDescriptor == heap[Current].descriptor

--------------------------------------------------------------------------------
(* Registration, from the program or from a handler.                         *)

\* Mutant of StartMonitoring: highestDescriptor_ is left alone.
StartMonitoring_LowHighest(r, n) ==
    /\ pc \in {"program", "handler"}
    /\ n \in open /\ n \notin descriptorSet
    /\ \E b \in Block \ allocated :
        /\ heap' = [heap EXCEPT ![b] = [descriptor |-> n, reader |-> r]]
        /\ allocated' = allocated \cup {b}
        /\ descriptors' = Append(descriptors, b)
    /\ descriptorSet' = descriptorSet \cup {n}
    /\ UNCHANGED <<highestDescriptor, files, pc, local, disturbed>>

\* startMonitoringDescriptor(): refuses a descriptor that is monitored.
StartMonitoring(r, n) ==
    /\ pc \in {"program", "handler"}
    /\ n \in open /\ n \notin descriptorSet
    /\ \E b \in Block \ allocated :
        /\ heap' = [heap EXCEPT ![b] = [descriptor |-> n, reader |-> r]]
        /\ allocated' = allocated \cup {b}
        /\ descriptors' = Append(descriptors, b)
    /\ descriptorSet' = descriptorSet \cup {n}
    /\ highestDescriptor' = IF highestDescriptor < n THEN n ELSE highestDescriptor
    /\ UNCHANGED <<files, pc, local, disturbed>>

\* The program may call stopMonitorDescriptor() at any time, in a handler for any descriptor.
StopCalled(n) ==
    /\ pc \in {"program", "handler"}
    /\ disturbed' = (disturbed \/ (pc = "handler" /\ n # CurrentDescriptor))

\* Mutant of StopMonitoring: the registration is freed and stays in the vector.
StopMonitoring_KeepsPointer(n) ==
    /\ StopCalled(n)
    /\ n \in descriptorSet
    /\ \E k \in DOMAIN descriptors :
        /\ heap[descriptors[k]].descriptor = n
        /\ \A m \in 1..(k - 1) : heap[descriptors[m]].descriptor # n
        /\ allocated' = allocated \ {descriptors[k]}
    /\ descriptorSet' = descriptorSet \ {n}
    /\ UNCHANGED <<highestDescriptor, descriptors, heap, files, pc, local>>

\* stopMonitoringDescriptor(): the first registration with this number is deleted.
StopMonitoring(n) ==
    /\ StopCalled(n)
    /\ n \in descriptorSet
    /\ \E k \in DOMAIN descriptors :
        /\ heap[descriptors[k]].descriptor = n
        /\ \A m \in 1..(k - 1) : heap[descriptors[m]].descriptor # n
        /\ allocated' = allocated \ {descriptors[k]}
        /\ descriptors' = RemoveAt(descriptors, k)
    /\ descriptorSet' = descriptorSet \ {n}
    /\ UNCHANGED <<highestDescriptor, heap, files, pc, local>>

--------------------------------------------------------------------------------
(* wait().                                                                   *)

\* The set and the vector are copied and select() is called.
Wait ==
    /\ pc = "program"
    /\ fd' = descriptorSet
    /\ checkedDescriptors' = descriptors
    /\ pc' = "select"
    /\ UNCHANGED <<monitor, files, i, disturbed>>

\* wait() returns; its local variables are gone.
LeaveWait ==
    /\ pc' = "program"
    /\ fd' = {}
    /\ checkedDescriptors' = <<>>
    /\ i' = 1
    /\ disturbed' = FALSE
    /\ UNCHANGED <<monitor, files>>

\* The part of the set that select() looks at.
Watched == {n \in fd : n < highestDescriptor + 1}

\* Mutant of SelectReturns: the readiness of the descriptors is not used.
SelectReturns_All ==
    /\ pc = "select"
    /\ Watched \subseteq open
    /\ Watched \cap readable # {}
    /\ i' = 1
    /\ pc' = "notify"
    /\ UNCHANGED <<monitor, files, fd, checkedDescriptors, disturbed>>

SelectReturns ==
    /\ pc = "select"
    /\ Watched \subseteq open
    /\ Watched \cap readable # {}
    /\ fd' = Watched \cap readable
    /\ i' = 1
    /\ pc' = "notify"
    /\ UNCHANGED <<monitor, files, checkedDescriptors, disturbed>>

\* A closed descriptor in the set: wait() returns false.
SelectFails ==
    /\ pc = "select"
    /\ ~(Watched \subseteq open)
    /\ LeaveWait

\* A signal handler ran while select() was blocked (EINTR): wait() returns false.
SelectInterrupted ==
    /\ pc = "select"
    /\ Watched \subseteq open
    /\ Watched \cap readable = {}
    /\ LeaveWait

\* The test of one registration; using a freed one is undefined: the block may hold
\* anything, so that the program crashes or goes on with any registration in it.
Notify ==
    /\ pc = "notify"
    /\ i <= Len(checkedDescriptors)
    /\ IF Current \in allocated THEN UNCHANGED heap
       ELSE \E registration \in Registration : heap' = [heap EXCEPT ![Current] = registration]
    /\ \/ /\ heap'[Current].descriptor \in fd
          /\ pc' = "handler"
          /\ UNCHANGED i
       \/ /\ heap'[Current].descriptor \notin fd
          /\ i' = i + 1
          /\ UNCHANGED pc
       \/ /\ Current \notin allocated
          /\ pc' = "crashed"
          /\ UNCHANGED i
    /\ UNCHANGED <<descriptorSet, highestDescriptor, descriptors, allocated, files,
                   fd, checkedDescriptors, disturbed>>

WaitReturns ==
    /\ pc = "notify"
    /\ i > Len(checkedDescriptors)
    /\ LeaveWait

\* dataAvailable() reads what there is to read of its descriptor.
HandlerReads ==
    /\ pc = "handler"
    /\ readable' = readable \ {CurrentDescriptor}
    /\ UNCHANGED <<monitor, open, pc, local, disturbed>>

\* dataAvailable() returns.
HandlerReturns ==
    /\ pc = "handler"
    /\ i' = i + 1
    /\ pc' = "notify"
    /\ UNCHANGED <<monitor, files, fd, checkedDescriptors, disturbed>>

--------------------------------------------------------------------------------
(* The descriptors.                                                          *)

DataArrives(n) ==
    /\ n \in open
    /\ readable' = readable \cup {n}
    /\ UNCHANGED <<monitor, open, pc, local, disturbed>>

\* The program closes a descriptor, monitored or not.
Close(n) ==
    /\ pc = "program"
    /\ open' = open \ {n}
    /\ readable' = readable \ {n}
    /\ UNCHANGED <<monitor, pc, local, disturbed>>

\* ~DescriptorsMonitor(): deletes the registrations that are in the vector.
Destroy ==
    /\ pc = "program"
    /\ allocated' = allocated \ ToSet(descriptors)
    /\ descriptors' = <<>>
    /\ descriptorSet' = {}
    /\ pc' = "destroyed"
    /\ UNCHANGED <<highestDescriptor, heap, files, local, disturbed>>

WaitStep == SelectReturns \/ SelectFails \/ Notify \/ WaitReturns \/ HandlerReturns

Next ==
    \/ \E n \in Descriptor, r \in Reader : StartMonitoring(r, n)
    \/ \E n \in Descriptor : StopMonitoring(n) \/ DataArrives(n) \/ Close(n)
    \/ Wait \/ WaitStep \/ SelectInterrupted \/ HandlerReads \/ Destroy

Spec == Init /\ [][Next]_vars

\* The program calls wait() again and again, also when it returned false, and handlers
\* return; nothing is assumed of signals.
Fairness == WF_vars(Wait) /\ WF_vars(WaitStep)

FairSpec == Spec /\ Fairness

--------------------------------------------------------------------------------
TypeOK ==
    /\ descriptorSet \subseteq Descriptor
    /\ highestDescriptor \in Nat
    /\ descriptors \in Seq(Block)
    /\ heap \in [Block -> Registration]
    /\ allocated \subseteq Block
    /\ open \subseteq Descriptor
    /\ readable \subseteq open
    /\ pc \in {"program", "select", "notify", "handler", "crashed", "destroyed"}
    /\ fd \subseteq Descriptor
    /\ checkedDescriptors \in Seq(Block)
    /\ i \in Nat \ {0}
    /\ disturbed \in BOOLEAN
    /\ pc \in {"notify", "handler"} => i <= Len(checkedDescriptors) + 1

\* "One descriptor can be monitored by at most one receiver", and descriptors_ and
\* descriptorSet_, which start and stop change separately, name the same descriptors:
\* the vector holds one live registration of each number in the set, so that the destructor,
\* which goes through the vector, deletes all of them.
VectorAgrees ==
    /\ ToSet(descriptors) = allocated
    /\ {heap[b].descriptor : b \in allocated} = descriptorSet
    /\ Cardinality(descriptorSet) = Len(descriptors)

\* The registration that wait() is to look at exists.
CurrentExists == pc = "notify" /\ i <= Len(checkedDescriptors) => Current \in allocated

\* wait() follows no pointer to a deleted registration, although it iterates over a copy
\* of the vector while handlers register descriptors and unregister their own.
NoDanglingRegistration == ~disturbed => CurrentExists

\* A reader is called for a descriptor that is monitored at that moment and that had data
\* when select() returned and, since no other handler reads it, still has: its read() does
\* not block.
CalledOnlyWhenReadable ==
    [][pc = "notify" /\ pc' = "handler" /\ ~disturbed => CurrentDescriptor' \in readable \cap descriptorSet]_vars

\* A monitored descriptor that has data is announced to its reader, as long as it stays
\* monitored, no monitored descriptor is closed and wait() does not crash: the range given
\* to select() covers it and every iteration reaches it, however often signals interrupt
\* select().
DataAnnounced ==
    \A n \in Descriptor :
        n \in readable \cap descriptorSet ~>
            \/ n \notin readable \cap descriptorSet
            \/ ~(descriptorSet \subseteq open)
            \/ pc = "handler" /\ CurrentDescriptor = n
            \/ pc = "crashed"

--------------------------------------------------------------------------------
(* What comments say and the code does not do.                               *)

\* wait() copies the vector because a handler "can call startMonitoringDescriptor()",
\* which "messes up things", and a handler has stopMonitorDescriptor() as well: the copy
\* keeps the iteration valid whatever handlers do.
CopyKeepsIterationValid == CurrentExists
================================================================================
