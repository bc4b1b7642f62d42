---------------------------- MODULE DescriptorProofs ----------------------------
(***************************************************************************)
(* Proofs about descriptors, for any number of objects, of descriptor      *)
(* numbers and of threads.                                                 *)
(*                                                                         *)
(* DescriptorLifetimes: which object owns and closes which number.         *)
(*                                                                         *)
(* StreamTransfer: what the synchronous calls of several threads on the    *)
(* two ends of a stream do with every byte.  A step of a call moves        *)
(* nothing, puts a writer's next bytes behind those in the stream, or      *)
(* moves the oldest bytes of the stream to what one reader holds.          *)
(***************************************************************************)
EXTENDS DescriptorLifetimes, StreamTransfer, SequenceTheorems, FiniteSetTheorems,
        WellFoundedInduction, TLAPS

--------------------------------------------------------------------------------
(* The numbers of descriptors.                                               *)

\* The owners of files that are no object of the program, and the value of a failed open().
LEMMA OwnersDiffer == None \notin Object /\ Stdin \notin Object /\ Stdin # None /\ Error \notin Fd
  BY ObjectAssumption DEF Error, Fd

\* No step changes what the program may do.
LEMMA ProgramKept ==
    ASSUME [Next]_vars
    PROVE  program' = program
  BY DEF Next, vars, Construct, Obtain, FileDescriptor, FifoDescriptor,
         StreamSocketClientDescriptor, DgramSocketClientDescriptor,
         DgramSocketServerDescriptor, StreamSocketServer, StreamSocketServerDescriptor,
         OpenFails, SetupSucceeds, SetupFails, CopyFrom, Assign, Pipe, Close, Destroy,
         DerivedDtor, LastClose

\* What is fixed by the program stays what it is.
LEMMA UseKept ==
    ASSUME program' = program
    PROVE  /\ Classes' = Classes /\ FailingSetup' = FailingSetup
           /\ Interleaved' = Interleaved /\ SafeUse' = SafeUse
  BY DEF Classes, FailingSetup, ExplicitClose, Interleaved, SafeUse

\* The program uses classes of the library only.
LEMMA ClassesKnown ==
    ASSUME TypeOK
    PROVE  Classes \subseteq AllClasses
  BY ProgramAssumption DEF TypeOK, Use, Classes

\* The part of the invariant that no use of the library can break.
BaseInv == TypeOK /\ NumberInv

\* BaseInv holds at the start.
LEMMA BaseInit == Init => BaseInv
  BY OwnersDiffer DEF Init, BaseInv, TypeOK, NumberInv, Owner, AllClasses, Phases

\* What CloseNumber does to the owners.
LEMMA CloseEffect ==
    ASSUME TypeOK, NEW o \in Object, CloseNumber(o)
    PROVE  /\ owner' \in [Fd -> Owner]
           /\ victims' \subseteq Owner \ {None}
           /\ \A n \in Fd : n # fd[o] => owner'[n] = owner[n]
           /\ fd[o] \in Fd => owner'[fd[o]] = None
           /\ (fd[o] \in Fd => owner[fd[o]] \in {o, None}) => victims' = victims
<1>1. owner \in [Fd -> Owner] /\ victims \subseteq Owner \ {None} /\ None \in Owner
  BY DEF TypeOK, Owner
<1>2. CASE fd[o] \in Fd
  BY <1>1, <1>2 DEF CloseNumber, Owner
<1>3. CASE fd[o] \notin Fd
  BY <1>1, <1>3 DEF CloseNumber
<1> QED
  BY <1>2, <1>3

\* What a constructor that obtains a number does.
LEMMA ObtainEffect ==
    ASSUME TypeOK, NEW o \in Object, NEW c, NEW n \in Fd, NEW phase, Obtain(o, c, n, phase)
    PROVE  /\ owner[n] = None /\ pc[o] = "none" /\ c \in Classes
           /\ owner' \in [Fd -> Owner] /\ owner'[n] = o
           /\ \A m \in Fd : m # n => owner'[m] = owner[m]
           /\ fd' = [fd EXCEPT ![o] = n]
           /\ class' = [class EXCEPT ![o] = c]
           /\ pc' = [pc EXCEPT ![o] = phase]
           /\ victims' = victims
           /\ program' = program
  BY ClassesKnown DEF TypeOK, Obtain, Lowest, Goto, Owner

\* The constructors of one number, as one kind of step.
LEMMA ConstructEffect ==
    ASSUME NEW o \in Object, Construct(o)
    PROVE  \E c \in AllClasses, n \in Fd, phase \in {"setup", "live", "unwind"} :
                Obtain(o, c, n, phase)
  BY DEF Construct, FileDescriptor, FifoDescriptor, StreamSocketClientDescriptor,
         DgramSocketClientDescriptor, DgramSocketServerDescriptor, StreamSocketServer,
         StreamSocketServerDescriptor, AllClasses

\* A number the kernel gives to a constructor keeps BaseInv.
LEMMA ObtainBase ==
    ASSUME BaseInv, NEW o \in Object, NEW c \in AllClasses, NEW n \in Fd,
           NEW phase \in {"setup", "live", "unwind"}, Obtain(o, c, n, phase)
    PROVE  BaseInv'
<1>0. TypeOK /\ NumberInv
  BY DEF BaseInv
<1>1. /\ owner[n] = None /\ pc[o] = "none" /\ c \in Classes
      /\ owner' \in [Fd -> Owner] /\ owner'[n] = o
      /\ \A m \in Fd : m # n => owner'[m] = owner[m]
      /\ fd' = [fd EXCEPT ![o] = n]
      /\ class' = [class EXCEPT ![o] = c]
      /\ pc' = [pc EXCEPT ![o] = phase]
      /\ victims' = victims /\ program' = program
  BY <1>0, ObtainEffect
<1>2. TypeOK'
  BY <1>0, <1>1 DEF TypeOK, Phases
<1>3. NumberInv'
  <2>1. ASSUME NEW m \in Fd, owner'[m] \in Object, m # n
        PROVE  owner'[m] # o
    BY <1>0, <1>1, <2>1 DEF NumberInv
  <2> QED
    BY <1>0, <1>1, <2>1 DEF NumberInv, TypeOK
<1> QED
  BY <1>2, <1>3 DEF BaseInv

\* The two numbers of a Pipe keep BaseInv.
LEMMA PipeBase ==
    ASSUME BaseInv, NEW r \in Object, NEW w \in Object, Pipe(r, w)
    PROVE  BaseInv'
<1>1. PICK n \in Fd, m \in Fd :
        /\ n # m /\ owner[n] = None /\ owner[m] = None
        /\ owner' = [owner EXCEPT ![n] = r, ![m] = w]
        /\ fd' = [fd EXCEPT ![r] = n, ![w] = m]
  BY DEF Pipe, Lowest, Fd
<1>2. /\ TypeOK /\ NumberInv
      /\ r # w /\ pc[r] = "none" /\ pc[w] = "none"
      /\ class' = [class EXCEPT ![r] = "Pipe", ![w] = "Pipe"]
      /\ pc' = [pc EXCEPT ![r] = "live", ![w] = "live"]
      /\ victims' = victims /\ program' = program
  BY DEF Pipe, BaseInv
<1>3. TypeOK'
  BY <1>1, <1>2 DEF TypeOK, Owner, AllClasses, Phases
<1>4. NumberInv'
  BY <1>1, <1>2 DEF NumberInv, TypeOK
<1> QED
  BY <1>3, <1>4 DEF BaseInv

\* A step that closes o's number and takes o to another phase.
LEMMA CloseBase ==
    ASSUME BaseInv, NEW o \in Object, CloseNumber(o), UNCHANGED <<program, fd, class>>,
           NEW phase \in {"unwind", "gone", "last_close"},
           pc[o] # "none", pc' = pc \/ pc' = [pc EXCEPT ![o] = phase]
    PROVE  BaseInv'
<1>1. TypeOK /\ NumberInv
  BY DEF BaseInv
<1>2. TypeOK'
  BY <1>1, CloseEffect DEF TypeOK, Phases
<1>3. NumberInv'
  <2>1. ASSUME NEW n \in Fd, owner'[n] \in Object
        PROVE  n # fd[o] /\ owner'[n] = owner[n] /\ owner[n] # o
    BY <1>1, <2>1, CloseEffect, OwnersDiffer DEF NumberInv
  <2> QED
    BY <1>1, <2>1 DEF NumberInv, TypeOK
<1> QED
  BY <1>2, <1>3 DEF BaseInv

\* Every step keeps BaseInv.
LEMMA BaseStep == BaseInv /\ [Next]_vars => BaseInv'
<1> SUFFICES ASSUME BaseInv, [Next]_vars PROVE BaseInv'
  OBVIOUS
<1>1. TypeOK /\ NumberInv /\ program' = program /\ Classes \subseteq AllClasses
  BY ProgramKept, ClassesKnown DEF BaseInv
<1>2. ASSUME NEW o \in Object, Construct(o)
      PROVE  BaseInv'
  BY <1>2, ConstructEffect, ObtainBase
<1>3. ASSUME NEW o \in Object, NEW c \in Classes, OpenFails(o, c)
      PROVE  BaseInv'
  BY <1>1, <1>3 DEF OpenFails, Goto, BaseInv, TypeOK, NumberInv, Phases
<1>4. ASSUME NEW o \in Object, SetupSucceeds(o) \/ Destroy(o)
      PROVE  BaseInv'
  BY <1>1, <1>4 DEF SetupSucceeds, Destroy, Goto, BaseInv, TypeOK, NumberInv, Phases
<1>5. ASSUME NEW o \in Object, SetupFails(o) \/ Close(o) \/ DerivedDtor(o) \/ LastClose(o)
      PROVE  BaseInv'
  <2>1. /\ CloseNumber(o) /\ UNCHANGED <<program, fd, class>> /\ pc[o] # "none"
        /\ pc' = pc \/ \E phase \in {"unwind", "gone", "last_close"} : pc' = [pc EXCEPT ![o] = phase]
    BY <1>5 DEF SetupFails, Close, DerivedDtor, LastClose, Goto
  <2> QED
    BY <2>1, CloseBase
<1>6. ASSUME NEW o \in Object, NEW p \in Object, CopyFrom(o, p)
      PROVE  BaseInv'
  BY <1>6, ObtainBase DEF CopyFrom, AllClasses
<1>7. ASSUME NEW o \in Object, NEW p \in Object, Assign(o, p)
      PROVE  BaseInv'
  BY <1>1, <1>7 DEF Assign, Assignable, Copyable, BaseInv, TypeOK, NumberInv, Owner
<1>8. ASSUME NEW o \in Object, NEW p \in Object, Pipe(o, p)
      PROVE  BaseInv'
  BY <1>8, PipeBase
<1>9. CASE UNCHANGED vars
  BY <1>1, <1>9 DEF vars, BaseInv, TypeOK, NumberInv
<1> QED
  BY <1>2, <1>3, <1>4, <1>5, <1>6, <1>7, <1>8, <1>9 DEF Next

\* BaseInv holds in every reachable state.
LEMMA BaseInvariant == Spec => []BaseInv
  BY BaseInit, BaseStep, PTL DEF Spec

\* Every variable keeps its type, and an object in use has a number.
THEOREM TypeCorrect == Spec => []TypeOK
<1>1. BaseInv => TypeOK
  BY DEF BaseInv
<1> QED
  BY <1>1, BaseInvariant, PTL

\* However the program uses the library, no number outlives its object.
THEOREM LeakFree == Spec => []NoLeak
<1>1. BaseInv => NoLeak
  BY DEF BaseInv, NumberInv, NoLeak
<1> QED
  BY <1>1, BaseInvariant, PTL
--------------------------------------------------------------------------------
(* The invariant of safe uses.                                               *)

\* The invariant that a safe program keeps, and what it adds to BaseInv.
NoVictims == victims = {}

Rest == NoVictims /\ OwnInv /\ OneAtATime /\ ClassInv

SafeInv == BaseInv /\ Rest

\* Closing a number that is one's own, or free, leaves the others theirs.
LEMMA CloseOwns ==
    ASSUME SafeInv, NEW o \in Object, CloseNumber(o), fd' = fd, program' = program,
           fd[o] \in Fd => owner[fd[o]] \in {o, None},
           NEW p \in Object, p # o, pc'[p] = pc[p]
    PROVE  Owns(p)'
<1>1. TypeOK /\ Owns(p) /\ None \notin Object
  BY OwnersDiffer DEF SafeInv, Rest, BaseInv, OwnInv
<1>2. CASE fd[p] \in Fd /\ owner[fd[p]] = p
  <2>1. fd[p] # fd[o]
    BY <1>1, <1>2
  <2>2. owner'[fd[p]] = p
    BY <1>1, <1>2, <2>1, CloseEffect
  <2> QED
    BY <1>1, <1>2, <2>2, OwnersDiffer, UseKept DEF Owns
<1>3. CASE fd[p] \in Fd /\ owner[fd[p]] = None
  <2>1. owner'[fd[p]] = None
    BY <1>1, <1>3, CloseEffect
  <2> QED
    BY <1>1, <1>3, <2>1, OwnersDiffer, UseKept DEF Owns
<1>4. CASE fd[p] \notin Fd \/ owner[fd[p]] \notin {p, None}
  BY <1>1, <1>4 DEF Owns, TypeOK
<1> QED
  BY <1>2, <1>3, <1>4

\* A number that was free belongs to no object that still has to close it.
LEMMA ObtainOwns ==
    ASSUME SafeInv, NEW o \in Object, Turn(o), program' = program, NEW p \in Object, p # o,
           pc'[p] = pc[p], fd'[p] = fd[p],
           \A m \in Fd : owner'[m] = owner[m] \/ owner[m] = None
    PROVE  Owns(p)'
<1>1. TypeOK /\ Owns(p) /\ None \notin Object
  BY OwnersDiffer DEF SafeInv, Rest, BaseInv, OwnInv
<1>2. CASE fd[p] \in Fd /\ owner'[fd[p]] = owner[fd[p]]
  BY <1>1, <1>2, OwnersDiffer, UseKept DEF Owns
<1>3. CASE fd[p] \in Fd /\ owner[fd[p]] = None
  <2>1. pc[p] \in {"last_close", "unwind"} => ~Interleaved
    BY <1>1, <1>3 DEF Owns
  <2>2. pc[p] \notin {"last_close", "unwind"}
    BY <2>1 DEF Turn, Idle
  <2> QED
    BY <1>1, <1>3, <2>2, OwnersDiffer, UseKept DEF Owns
<1>4. CASE fd[p] \notin Fd
  BY <1>1, <1>4 DEF Owns, TypeOK
<1> QED
  BY <1>2, <1>3, <1>4

\* The phases of a step in which only o moves, and o had the turn.
LEMMA TurnKept ==
    ASSUME SafeInv, program' = program,
           NEW o \in Object, \A p \in Object : p # o => pc'[p] = pc[p],
           Turn(o) \/ pc[o] \notin Idle
    PROVE  OneAtATime'
  BY UseKept DEF SafeInv, Rest, BaseInv, OneAtATime, Turn, Idle

\* A number the kernel gives to a constructor keeps the rest of SafeInv.
LEMMA ObtainSafe ==
    ASSUME SafeInv, NEW o \in Object, NEW c \in AllClasses, NEW n \in Fd,
           NEW phase \in {"setup", "live", "unwind"}, Obtain(o, c, n, phase)
    PROVE  Rest'
<1>1. TypeOK /\ NoVictims /\ ClassInv
  BY DEF SafeInv, Rest, BaseInv
<1>2. /\ owner[n] = None /\ pc[o] = "none" /\ c \in Classes
      /\ owner' \in [Fd -> Owner] /\ owner'[n] = o
      /\ \A m \in Fd : m # n => owner'[m] = owner[m]
      /\ fd' = [fd EXCEPT ![o] = n]
      /\ class' = [class EXCEPT ![o] = c]
      /\ pc' = [pc EXCEPT ![o] = phase]
      /\ victims' = victims /\ program' = program
  BY <1>1, ObtainEffect
<1>9. Turn(o)
  BY DEF Obtain
<1>3. /\ pc'[o] = phase /\ fd'[o] = n /\ class'[o] = c
      /\ \A p \in Object : p # o => pc'[p] = pc[p] /\ fd'[p] = fd[p] /\ class'[p] = class[p]
  BY <1>1, <1>2 DEF TypeOK
<1>4. Owns(o)'
  BY <1>2, <1>3 DEF Owns
<1>5. ASSUME NEW p \in Object, p # o
      PROVE  Owns(p)'
  BY <1>2, <1>3, <1>5, <1>9, ObtainOwns
<1>6. OneAtATime'
  BY <1>2, <1>3, <1>9, TurnKept
<1>7. ClassInv' /\ NoVictims'
  BY <1>1, <1>2, <1>3, UseKept DEF ClassInv, NoVictims
<1> QED
  BY <1>4, <1>5, <1>6, <1>7 DEF Rest, OwnInv

\* The two numbers of a Pipe keep the rest of SafeInv.
LEMMA PipeSafe ==
    ASSUME SafeInv, NEW r \in Object, NEW w \in Object, Pipe(r, w)
    PROVE  Rest'
<1>1. TypeOK /\ NoVictims /\ ClassInv
  BY DEF SafeInv, Rest, BaseInv
<1>2. PICK n \in Fd, m \in Fd :
        /\ n # m /\ owner[n] = None /\ owner[m] = None
        /\ owner' = [owner EXCEPT ![n] = r, ![m] = w]
        /\ fd' = [fd EXCEPT ![r] = n, ![w] = m]
  BY DEF Pipe, Lowest, Fd
<1>3. /\ r # w /\ Turn(r) /\ Turn(w) /\ "Pipe" \in Classes /\ victims' = victims /\ program' = program
      /\ class' = [class EXCEPT ![r] = "Pipe", ![w] = "Pipe"]
      /\ pc' = [pc EXCEPT ![r] = "live", ![w] = "live"]
  BY DEF Pipe
<1>4. /\ \A k \in Fd : owner'[k] = owner[k] \/ owner[k] = None
      /\ owner'[n] = r /\ owner'[m] = w /\ fd'[r] = n /\ fd'[w] = m
      /\ pc'[r] = "live" /\ pc'[w] = "live" /\ class'[r] = "Pipe" /\ class'[w] = "Pipe"
      /\ \A p \in Object \ {r, w} : pc'[p] = pc[p] /\ fd'[p] = fd[p] /\ class'[p] = class[p]
  BY <1>1, <1>2, <1>3 DEF TypeOK
<1>5. Owns(r)' /\ Owns(w)'
  BY <1>4 DEF Owns
<1>6. ASSUME NEW p \in Object \ {r, w}
      PROVE  Owns(p)'
  BY <1>3, <1>4, <1>6, ObtainOwns
<1>7. OneAtATime'
  BY <1>3, <1>4, UseKept DEF OneAtATime, Turn, Idle
<1>8. ClassInv'
  <2> SUFFICES ASSUME NEW p \in Object
               PROVE  /\ pc'[p] = "derived_dtor" => class'[p] = "DgramSocketServerDescriptor"
                      /\ pc'[p] # "none" => class'[p] \in Classes
    BY <1>3, UseKept DEF ClassInv
  <2>1. CASE p \in {r, w}
    BY <1>3, <1>4, <2>1
  <2>2. CASE p \notin {r, w}
    BY <1>1, <1>4, <2>2 DEF ClassInv
  <2> QED
    BY <2>1, <2>2
<1>9. NoVictims'
  BY <1>1, <1>3 DEF NoVictims
<1> QED
  BY <1>5, <1>6, <1>7, <1>8, <1>9 DEF Rest, OwnInv

\* A close of one's own number, or of a free one.
LEMMA CloseSafe ==
    ASSUME SafeInv, NEW o \in Object, CloseNumber(o), UNCHANGED <<program, fd, class>>,
           pc[o] \in {"setup", "derived_dtor", "last_close", "unwind"},
           NEW phase \in {"unwind", "gone", "last_close"}, pc' = [pc EXCEPT ![o] = phase],
           phase # "gone" => ~Interleaved
    PROVE  Rest'
<1>1. TypeOK /\ NoVictims /\ ClassInv /\ Owns(o)
  BY DEF SafeInv, Rest, BaseInv, OwnInv
<1>2. fd[o] \in Fd => owner[fd[o]] \in {o, None}
  BY <1>1 DEF Owns, TypeOK
<1>3. /\ pc'[o] = phase
      /\ \A p \in Object : p # o => pc'[p] = pc[p]
  BY <1>1 DEF TypeOK
<1>4. victims' = victims /\ (fd[o] \in Fd => owner'[fd[o]] = None)
  BY <1>1, <1>2, CloseEffect
<1>5. Owns(o)'
  BY <1>3, <1>4, UseKept DEF Owns
<1>6. ASSUME NEW p \in Object, p # o
      PROVE  Owns(p)'
  BY <1>2, <1>3, <1>6, CloseOwns
<1>7. OneAtATime'
  BY <1>3, TurnKept DEF Idle
<1>8. ClassInv'
  <2>1. class' = class /\ pc[o] # "none"
    OBVIOUS
  <2> QED
    BY <1>1, <1>3, <2>1, UseKept DEF ClassInv
<1>9. NoVictims'
  BY <1>1, <1>4 DEF NoVictims
<1> QED
  BY <1>5, <1>6, <1>7, <1>8, <1>9 DEF Rest, OwnInv

\* Under SafeUse every step keeps the ownership.
LEMMA SafeStep ==
    ASSUME SafeUse, SafeInv, [Next]_vars
    PROVE  SafeInv'
<1>1. BaseInv /\ TypeOK /\ NoVictims /\ OwnInv /\ OneAtATime /\ ClassInv
  BY DEF SafeInv, Rest, BaseInv
<1>0. program' = program /\ Classes' = Classes /\ Interleaved' = Interleaved
  BY ProgramKept, UseKept
<1>2. BaseInv'
  BY <1>1, BaseStep
<1>3. ASSUME NEW o \in Object, Construct(o)
      PROVE  Rest'
  BY <1>3, ConstructEffect, ObtainSafe
<1>4. ASSUME NEW o \in Object, NEW c \in Classes, OpenFails(o, c)
      PROVE  Rest'
  <2>1. /\ pc[o] = "none" /\ fd[o] = Error /\ Turn(o) /\ UNCHANGED <<owner, fd, victims>>
        /\ pc'[o] \in {"gone", "unwind"} /\ class'[o] = c
        /\ \A p \in Object : p # o => pc'[p] = pc[p] /\ class'[p] = class[p]
    BY <1>1, <1>4 DEF OpenFails, Goto, TypeOK, OwnInv, Owns
  <2>2. OwnInv'
    BY <1>0, <1>1, <2>1, OwnersDiffer DEF OwnInv, Owns
  <2>3. OneAtATime'
    BY <1>0, <2>1, TurnKept
  <2> QED
    BY <1>0, <1>1, <2>1, <2>2, <2>3 DEF Rest, ClassInv, NoVictims
<1>5. ASSUME NEW o \in Object, SetupSucceeds(o) \/ Destroy(o)
      PROVE  Rest'
  <2>1. /\ UNCHANGED <<owner, fd, class, victims>>
        /\ pc[o] \in {"setup", "live"}
        /\ \A p \in Object : p # o => pc'[p] = pc[p]
    BY <1>1, <1>5 DEF SetupSucceeds, Destroy, Goto, TypeOK
  <2>2. /\ pc'[o] \in {"live", "last_close", "derived_dtor"}
        /\ pc'[o] = "derived_dtor" => class[o] = "DgramSocketServerDescriptor"
    BY <1>1, <1>5 DEF SetupSucceeds, Destroy, Goto, TypeOK
  <2>3. Turn(o) \/ pc[o] \notin Idle
    BY <1>5 DEF SetupSucceeds, Destroy, Idle
  <2>4. OwnInv'
    <3>1. owner[fd[o]] = o
      BY <1>1, <2>1 DEF OwnInv, Owns
    <3> QED
      BY <1>0, <1>1, <2>1, <2>2, <3>1 DEF OwnInv, Owns
  <2>5. OneAtATime'
    BY <1>0, <2>1, <2>3, TurnKept
  <2> QED
    BY <1>0, <1>1, <2>1, <2>2, <2>4, <2>5 DEF Rest, ClassInv, NoVictims
<1>6. ASSUME NEW o \in Object, SetupFails(o)
      PROVE  Rest'
  <2>1. \E phase \in {"unwind", "gone"} :
            /\ pc' = [pc EXCEPT ![o] = phase]
            /\ phase # "gone" => ~Interleaved
    BY <1>6 DEF SetupFails, Goto, SafeUse
  <2> QED
    BY <1>6, <2>1, CloseSafe DEF SetupFails
<1>7. ASSUME NEW o \in Object, DerivedDtor(o)
      PROVE  Rest'
  <2>1. ~Interleaved
    BY <1>1, <1>7 DEF DerivedDtor, ClassInv, SafeUse
  <2> QED
    BY <1>7, <2>1, CloseSafe DEF DerivedDtor, Goto
<1>8. ASSUME NEW o \in Object, LastClose(o)
      PROVE  Rest'
  BY <1>8, CloseSafe DEF LastClose, Goto
<1>9. ASSUME NEW o \in Object, NEW p \in Object, CopyFrom(o, p)
      PROVE  Rest'
  BY <1>9, ObtainSafe DEF CopyFrom, AllClasses
<1>10. ASSUME NEW o \in Object, NEW p \in Object, Assign(o, p)
       PROVE  Rest'
  <2>1. owner[fd[o]] = o /\ fd[o] \in Fd
    BY <1>1, <1>10 DEF Assign, Assignable, Copyable, OwnInv, Owns, TypeOK
  <2>2. owner' = owner /\ victims' = victims /\ UNCHANGED <<fd, class, pc>>
    BY <1>1, <1>10, <2>1 DEF Assign, TypeOK
  <2> QED
    BY <1>0, <1>1, <2>2 DEF Rest, NoVictims, OwnInv, Owns, OneAtATime, ClassInv
<1>11. ASSUME NEW o \in Object, NEW p \in Object, Pipe(o, p)
       PROVE  Rest'
  BY <1>11, PipeSafe
<1>12. ASSUME NEW o \in Object, Close(o)
       PROVE  Rest'
  BY <1>12 DEF Close, SafeUse
<1>13. CASE UNCHANGED vars
  <2>1. Rest'
    BY <1>0, <1>1, <1>13 DEF vars, Rest, NoVictims, OwnInv, Owns, OneAtATime, ClassInv
  <2> QED
    BY <1>2, <2>1 DEF SafeInv, Rest, BaseInv
<1>14. CASE Next
  <2>1. Rest'
    BY <1>3, <1>4, <1>5, <1>6, <1>7, <1>8, <1>9, <1>10, <1>11, <1>12, <1>14 DEF Next
  <2> QED
    BY <1>2, <2>1 DEF SafeInv, Rest, BaseInv
<1> QED
  BY <1>13, <1>14

\* The strengthened invariant, from which the next two theorems follow: what it says of
\* safe programs is kept because the program stays the same.
THEOREM Invariant == Spec => []IInv
<1>1. Init => IInv
  <2> SUFFICES ASSUME Init PROVE IInv
    OBVIOUS
  <2>1. TypeOK /\ NumberInv
    BY BaseInit DEF BaseInv
  <2> QED
    BY <2>1 DEF Init, IInv, NoForeignClose, OwnInv, Owns, OneAtATime, ClassInv, Idle
<1>2. IInv /\ [Next]_vars => IInv'
  <2> SUFFICES ASSUME IInv, [Next]_vars PROVE IInv'
    OBVIOUS
  <2>1. BaseInv'
    BY BaseStep DEF IInv, BaseInv
  <2>2. SafeUse' = SafeUse
    BY ProgramKept, UseKept
  <2>3. CASE SafeUse
    <3>1. SafeInv'
      BY <2>3, SafeStep DEF IInv, SafeInv, Rest, BaseInv, NoForeignClose, NoVictims
    <3> QED
      BY <3>1 DEF IInv, SafeInv, Rest, BaseInv, NoForeignClose, NoVictims
  <2>4. CASE ~SafeUse
    BY <2>1, <2>2, <2>4 DEF IInv, BaseInv, NoForeignClose
  <2> QED
    BY <2>3, <2>4
<1> QED
  BY <1>1, <1>2, PTL DEF Spec

\* In a safe use no file is closed by an object that does not own it.
THEOREM ForeignCloseFree == Spec => []NoForeignClose
<1>1. IInv => NoForeignClose
  BY DEF IInv
<1> QED
  BY <1>1, Invariant, PTL

\* In a safe use a live object reads and writes its own file.
THEOREM OwnershipCorrect == Spec => []LiveOwnsItsNumber
<1>1. IInv => LiveOwnsItsNumber
  BY DEF IInv, TypeOK, OwnInv, Owns, LiveOwnsItsNumber
<1> QED
  BY <1>1, Invariant, PTL

--------------------------------------------------------------------------------
(* The bytes of a stream: sequences of bytes.                                *)

\* A set of natural numbers that is not empty has a least one.
LEMMA LeastNatural ==
    ASSUME NEW S \in SUBSET Nat, S # {}
    PROVE  \E m \in S : \A n \in S : m <= n
<1> DEFINE T == {0..n : n \in S}
<1>1. T \subseteq FiniteSubsetsOf(Nat) /\ T # {}
  <2>1. ASSUME NEW n \in S
        PROVE  0..n \in SUBSET Nat /\ IsFiniteSet(0..n)
    <3>1. n \in Nat /\ 0 \in Int /\ n \in Int
      OBVIOUS
    <3> QED
      BY <3>1, FS_Interval
  <2> QED
    BY <2>1 DEF FiniteSubsetsOf
<1>2. IsWellFoundedOn(StrictSubsetOrdering(Nat), FiniteSubsetsOf(Nat))
  BY FS_StrictSubsetOrderingWellFounded
<1> HIDE DEF T
<1>3. PICK x \in T : \A y \in T : ~(<<y, x>> \in StrictSubsetOrdering(Nat))
  BY <1>1, <1>2, WFMin
<1>4. PICK m \in S : x = 0..m
  BY DEF T
<1>5. ASSUME NEW n \in S, n < m
      PROVE  FALSE
  <2>1. 0..n \in T /\ 0..n \subseteq 0..m /\ m \in 0..m /\ m \notin 0..n
    <3>1. m \in Nat /\ n \in Nat
      OBVIOUS
    <3>2. 0..n \subseteq 0..m /\ m \in 0..m /\ m \notin 0..n
      BY <1>5, <3>1
    <3> QED
      BY <3>2 DEF T
  <2>2. <<0..n, x>> \in StrictSubsetOrdering(Nat)
    <3>1. 0..n \in SUBSET Nat /\ x \in SUBSET Nat /\ 0..n \subseteq x /\ 0..n # x
      BY <1>4, <2>1
    <3> QED
      BY <3>1 DEF StrictSubsetOrdering
  <2> QED
    BY <1>3, <2>1, <2>2
<1> QED
  <2>1. \A n \in S : n \in Nat /\ m \in Nat /\ ~(n < m)
    BY <1>5
  <2> QED
    BY <2>1

\* Bytes, without the bound on their number.
Bytes == Writer \X Nat

\* A byte is a writer and a number.
LEMMA ByteParts == \A b \in Bytes : b[1] \in Writer /\ b[2] \in Nat /\ b = <<b[1], b[2]>>
  BY DEF Bytes

\* The numbers of a writer in a sequence are those at its indices.
LEMMA NumbersIff ==
    ASSUME NEW s \in Seq(Bytes), NEW w \in Writer, NEW n
    PROVE  n \in Numbers(w, s) <=> \E i \in 1..Len(s) : s[i] = <<w, n>>
<1>1. \A b \in Bytes : b = <<b[1], b[2]>> /\ b # Empty /\ b[2] \in Nat /\ b[1] \in Writer
  <2>1. \A u \in Writer, m \in Nat : <<u, m>> # <<>>
    BY Len(<<1, 2>>) = 2
  <2> QED
    BY <2>1 DEF Bytes, Empty
<1>2. DOMAIN s = 1..Len(s) /\ \A i \in 1..Len(s) : s[i] \in Bytes
  BY ElementOfSeq, LenProperties
<1>3. ASSUME n \in Numbers(w, s)
      PROVE  \E i \in 1..Len(s) : s[i] = <<w, n>>
  <2>1. PICK b \in ToSet(s) : b[1] = w /\ n = b[2]
    BY <1>3 DEF Numbers
  <2>2. PICK i \in 1..Len(s) : b = s[i]
    BY <1>2 DEF ToSet
  <2> QED
    BY <1>1, <1>2, <2>1, <2>2
<1>4. ASSUME NEW i \in 1..Len(s), s[i] = <<w, n>>
      PROVE  n \in Numbers(w, s)
  <2>1. s[i] \in ToSet(s) /\ s[i] # Empty /\ s[i][1] = w /\ s[i][2] = n
    BY <1>1, <1>2, <1>4 DEF ToSet
  <2> QED
    BY <2>1 DEF Numbers
<1> QED
  BY <1>3, <1>4

\* An empty sequence holds no byte.
LEMMA NumbersEmpty == \A w \in Writer : Numbers(w, << >>) = {}
<1>1. ToSet(<< >>) = {}
  BY EmptySeq DEF ToSet
<1> QED
  BY <1>1 DEF Numbers

\* An index of a sequence made of two parts is in the first part or in the second.
LEMMA SplitIndex ==
    \A m, n \in Nat : \A i \in 1..(m + n) : i \in 1..m \/ \E j \in 1..n : i = m + j
<1> SUFFICES ASSUME NEW m \in Nat, NEW n \in Nat, NEW i \in 1..(m + n)
             PROVE  i \in 1..m \/ \E j \in 1..n : i = m + j
  OBVIOUS
<1>1. CASE i <= m
  BY <1>1
<1>2. CASE ~(i <= m)
  <2>1. i - m \in 1..n /\ i = m + (i - m)
    BY <1>2
  <2> QED
    BY <2>1
<1> QED
  BY <1>1, <1>2

\* The numbers of a writer in two sequences are those of both.
LEMMA NumbersConcat ==
    ASSUME NEW s \in Seq(Bytes), NEW t \in Seq(Bytes), NEW w \in Writer
    PROVE  Numbers(w, s \o t) = Numbers(w, s) \cup Numbers(w, t)
<1> DEFINE st == s \o t
<1>1. /\ st \in Seq(Bytes) /\ Len(st) = Len(s) + Len(t) /\ Len(s) \in Nat /\ Len(t) \in Nat
      /\ \A i \in 1..Len(s) : st[i] = s[i]
      /\ \A i \in 1..Len(t) : st[Len(s) + i] = t[i]
  BY ConcatProperties, LenProperties
<1>2. \A i \in 1..Len(st) : i \in 1..Len(s) \/ \E j \in 1..Len(t) : i = Len(s) + j
  <2>1. Len(s) \in Nat /\ Len(t) \in Nat
    BY <1>1
  <2>2. \A i \in 1..(Len(s) + Len(t)) : i \in 1..Len(s) \/ \E j \in 1..Len(t) : i = Len(s) + j
    BY <2>1, SplitIndex
  <2> QED
    BY <1>1, <2>2
<1> HIDE DEF st
<1>3. ASSUME NEW n
      PROVE  n \in Numbers(w, st) <=> n \in Numbers(w, s) \/ n \in Numbers(w, t)
  <2>1. /\ n \in Numbers(w, st) <=> \E i \in 1..Len(st) : st[i] = <<w, n>>
        /\ n \in Numbers(w, s) <=> \E i \in 1..Len(s) : s[i] = <<w, n>>
        /\ n \in Numbers(w, t) <=> \E i \in 1..Len(t) : t[i] = <<w, n>>
    BY <1>1, NumbersIff
  <2>2. /\ \A i \in 1..Len(s) : i \in 1..Len(st)
        /\ \A i \in 1..Len(t) : Len(s) + i \in 1..Len(st)
    BY <1>1
  <2> QED
    BY <1>1, <1>2, <2>1, <2>2
<1> QED
  BY <1>3 DEF st

\* Two sequences are in order one behind the other when the bytes of the second are later.
LEMMA ConcatInOrder ==
    ASSUME NEW s \in Seq(Bytes), NEW t \in Seq(Bytes)
    PROVE  InOrder(s \o t) <=>
             /\ InOrder(s) /\ InOrder(t)
             /\ \A i \in 1..Len(s), k \in 1..Len(t) : s[i][1] = t[k][1] => s[i][2] < t[k][2]
<1> DEFINE st == s \o t
           Later == \A i \in 1..Len(s), k \in 1..Len(t) : s[i][1] = t[k][1] => s[i][2] < t[k][2]
<1>1. /\ st \in Seq(Bytes) /\ Len(st) = Len(s) + Len(t) /\ Len(s) \in Nat /\ Len(t) \in Nat
      /\ DOMAIN st = 1..Len(st) /\ DOMAIN s = 1..Len(s) /\ DOMAIN t = 1..Len(t)
      /\ \A i \in 1..Len(s) : st[i] = s[i]
      /\ \A i \in 1..Len(t) : st[Len(s) + i] = t[i]
  BY ConcatProperties, LenProperties
<1>2. \A i \in 1..Len(st) : i \in 1..Len(s) \/ \E j \in 1..Len(t) : i = Len(s) + j
  <2>1. Len(s) \in Nat /\ Len(t) \in Nat
    BY <1>1
  <2>2. \A i \in 1..(Len(s) + Len(t)) : i \in 1..Len(s) \/ \E j \in 1..Len(t) : i = Len(s) + j
    BY <2>1, SplitIndex
  <2> QED
    BY <1>1, <2>2
<1>3. /\ \A i \in 1..Len(s) : i \in 1..Len(st) /\ i <= Len(s)
      /\ \A i \in 1..Len(t) : Len(s) + i \in 1..Len(st)
      /\ \A i \in 1..Len(s), j \in 1..Len(t) : i < Len(s) + j
      /\ \A i, j \in 1..Len(t) : Len(s) + i < Len(s) + j <=> i < j
  BY <1>1
<1> HIDE DEF st
<1>4. ASSUME InOrder(st)
      PROVE  InOrder(s) /\ InOrder(t) /\ Later
  <2>1. \A i, k \in 1..Len(st) : i < k /\ st[i][1] = st[k][1] => st[i][2] < st[k][2]
    BY <1>1, <1>4 DEF InOrder
  <2>2. InOrder(s)
    BY <1>1, <1>3, <2>1 DEF InOrder
  <2>3. InOrder(t)
    <3> SUFFICES ASSUME NEW i \in 1..Len(t), NEW k \in 1..Len(t), i < k, t[i][1] = t[k][1]
                 PROVE  t[i][2] < t[k][2]
      BY <1>1 DEF InOrder
    <3>1. /\ Len(s) + i \in 1..Len(st) /\ Len(s) + k \in 1..Len(st) /\ Len(s) + i < Len(s) + k
          /\ st[Len(s) + i] = t[i] /\ st[Len(s) + k] = t[k]
      BY <1>1, <1>3
    <3> QED
      BY <2>1, <3>1
  <2>4. Later
    BY <1>1, <1>3, <2>1
  <2> QED
    BY <2>2, <2>3, <2>4
<1>5. ASSUME InOrder(s), InOrder(t), Later
      PROVE  InOrder(st)
  <2> SUFFICES ASSUME NEW i \in 1..Len(st), NEW k \in 1..Len(st), i < k, st[i][1] = st[k][1]
               PROVE  st[i][2] < st[k][2]
    BY <1>1 DEF InOrder
  <2>1. CASE i \in 1..Len(s) /\ k \in 1..Len(s)
    BY <1>1, <1>5, <2>1 DEF InOrder
  <2>2. CASE i \in 1..Len(s) /\ \E j \in 1..Len(t) : k = Len(s) + j
    BY <1>1, <1>5, <2>2
  <2>3. CASE (\E j \in 1..Len(t) : i = Len(s) + j) /\ k \in 1..Len(s)
    BY <1>3, <2>3, <1>1
  <2>4. ASSUME NEW j \in 1..Len(t), i = Len(s) + j, NEW l \in 1..Len(t), k = Len(s) + l
        PROVE  st[i][2] < st[k][2]
    <3>1. j < l /\ st[i] = t[j] /\ st[k] = t[l]
      BY <1>1, <1>3, <2>4
    <3>2. t[j][1] = t[l][1]
      BY <3>1
    <3>3. t[j][2] < t[l][2]
      BY <1>1, <1>5, <3>1, <3>2 DEF InOrder
    <3> QED
      BY <3>1, <3>3
  <2> QED
    BY <1>2, <2>1, <2>2, <2>3, <2>4
<1> QED
  BY <1>4, <1>5 DEF st

Splits(low, middle, high, A, B) == A = low + 1 .. middle /\ B = middle + 1 .. high

\* Two sets that make up an interval, one before the other, are intervals.
LEMMA IntervalParts ==
    ASSUME NEW low \in Nat, NEW high \in Nat, NEW A \in SUBSET Nat, NEW B \in SUBSET Nat,
           low <= high, A \cup B = low + 1 .. high, \A i \in A, k \in B : i < k
    PROVE  \E middle \in low..high : Splits(low, middle, high, A, B)
<1>1. \A n : n \in A \cup B <=> n \in Nat /\ low + 1 <= n /\ n <= high
  OBVIOUS
<1>2. CASE B = {}
  <2>1. A = low + 1 .. high /\ B = high + 1 .. high /\ high \in low..high
    BY <1>2
  <2> QED
    BY <2>1 DEF Splits
<1>3. CASE B # {}
  <2>2. PICK m \in B : \A b \in B : m <= b
    BY <1>3, LeastNatural
  <2>3. m \in Nat /\ low + 1 <= m /\ m <= high /\ m - 1 \in low..high /\ (m - 1) + 1 = m
    BY <1>1, <2>2
  <2>4. \A n : n \in A <=> n \in low + 1 .. (m - 1)
    <3>1. ASSUME NEW n \in A
          PROVE  n \in low + 1 .. (m - 1)
      BY <1>1, <2>2, <2>3
    <3>2. ASSUME NEW n \in low + 1 .. (m - 1)
          PROVE  n \in A
      <4>1. n \in A \cup B /\ ~(m <= n)
        BY <1>1, <2>3
      <4> QED
        BY <2>2, <4>1
    <3> QED
      BY <3>1, <3>2
  <2>5. \A n : n \in B <=> n \in m .. high
    <3>1. ASSUME NEW n \in B
          PROVE  n \in m .. high
      BY <1>1, <2>2, <2>3
    <3>2. ASSUME NEW n \in m .. high
          PROVE  n \in B
      <4>1. n \in A \cup B /\ ~(n < m)
        BY <1>1, <2>3
      <4> QED
        BY <2>2, <4>1
    <3> QED
      BY <3>1, <3>2
  <2>6. Splits(low, m - 1, high, A, B)
    BY <2>3, <2>4, <2>5 DEF Splits
  <2> QED
    BY <2>3, <2>6
<1> QED
  BY <1>2, <1>3

--------------------------------------------------------------------------------
(* What moves through a stream.                                              *)

\* OnceInOrder as a statement about what the readers hold, what the stream holds, and how
\* many bytes each writer has sent.
Once(held, str, sent) ==
    /\ \A r \in Reader : InOrder(held[r])
    /\ InOrder(str)
    /\ \A w \in Writer :
        /\ \E before \in 0..sent[w] :
            /\ Numbers(w, str) = before + 1 .. sent[w]
            /\ UNION {Numbers(w, held[r]) : r \in Reader} = 1..before
        /\ \A r, q \in Reader : r # q => Numbers(w, held[r]) \cap Numbers(w, held[q]) = {}

\* A writer's next bytes go behind those in the stream.
LEMMA SendKeepsOnce ==
    ASSUME NEW held \in [Reader -> Seq(Bytes)], NEW str \in Seq(Bytes), NEW sent \in [Writer -> Nat],
           Once(held, str, sent), NEW w \in Writer, NEW k \in Nat
    PROVE  LET new == [i \in 1..k |-> <<w, sent[w] + i>>] IN
           /\ new \in Seq(Bytes) /\ Len(new) = k
           /\ Once(held, str \o new, [sent EXCEPT ![w] = @ + k])
<1> DEFINE new == [i \in 1..k |-> <<w, sent[w] + i>>]
           now == [sent EXCEPT ![w] = @ + k]
<1>1. new \in Seq(Bytes) /\ Len(new) = k /\ \A i \in 1..k : new[i] = <<w, sent[w] + i>>
  <2>1. new \in [1..k -> Bytes]
    BY DEF Bytes
  <2> QED
    BY <2>1
<1>2. now \in [Writer -> Nat] /\ now[w] = sent[w] + k /\ \A v \in Writer \ {w} : now[v] = sent[v]
  OBVIOUS
<1> HIDE DEF new, now
<1>3. Numbers(w, new) = sent[w] + 1 .. now[w] /\ \A v \in Writer \ {w} : Numbers(v, new) = {}
  <2>1. ASSUME NEW v \in Writer, NEW n
        PROVE  n \in Numbers(v, new) <=> \E i \in 1..k : <<w, sent[w] + i>> = <<v, n>>
    BY <1>1, NumbersIff
  <2>2. \A n : n \in Numbers(w, new) <=> \E i \in 1..k : n = sent[w] + i
    BY <2>1
  <2>3. sent[w] \in Nat
    OBVIOUS
  <2>4. \A n : n \in sent[w] + 1 .. sent[w] + k <=> \E i \in 1..k : n = sent[w] + i
    <3>1. \A n \in sent[w] + 1 .. sent[w] + k : n - sent[w] \in 1..k /\ n = sent[w] + (n - sent[w])
      BY <2>3
    <3>2. \A i \in 1..k : sent[w] + i \in sent[w] + 1 .. sent[w] + k
      BY <2>3
    <3> QED
      BY <3>1, <3>2
  <2>5. Numbers(w, new) = sent[w] + 1 .. now[w]
    BY <1>2, <2>2, <2>4
  <2>6. \A v \in Writer \ {w} : Numbers(v, new) = {}
    BY <2>1
  <2> QED
    BY <2>5, <2>6
<1>4. \A v \in Writer : Numbers(v, str \o new) = Numbers(v, str) \cup Numbers(v, new)
  BY <1>1, NumbersConcat
<1>5. InOrder(str \o new)
  <2>1. InOrder(new)
    BY <1>1 DEF InOrder
  <2>2. ASSUME NEW i \in 1..Len(str), NEW j \in 1..k, str[i][1] = w
        PROVE  str[i][2] < sent[w] + j
    <3>1. str[i] \in Bytes
      BY ElementOfSeq
    <3>2. str[i] = <<w, str[i][2]>>
      BY <2>2, <3>1 DEF Bytes
    <3>3. str[i][2] \in Numbers(w, str)
      BY <3>2, NumbersIff
    <3>4. str[i][2] \in Nat /\ str[i][2] <= sent[w] /\ sent[w] \in Nat
      BY <3>1, <3>3 DEF Once, Bytes
    <3> QED
      BY <3>4
  <2>3. \A i \in 1..Len(str), j \in 1..Len(new) : str[i][1] = new[j][1] => str[i][2] < new[j][2]
    BY <1>1, <2>2
  <2>4. InOrder(str)
    BY DEF Once
  <2> QED
    BY <1>1, <2>1, <2>3, <2>4, ConcatInOrder
<1>6. ASSUME NEW v \in Writer
      PROVE  \E before \in 0..now[v] :
                /\ Numbers(v, str \o new) = before + 1 .. now[v]
                /\ UNION {Numbers(v, held[r]) : r \in Reader} = 1..before
  <2>1. PICK before \in 0..sent[v] : /\ Numbers(v, str) = before + 1 .. sent[v]
                                     /\ UNION {Numbers(v, held[r]) : r \in Reader} = 1..before
    BY DEF Once
  <2>2. before \in 0..now[v] /\ Numbers(v, str \o new) = before + 1 .. now[v]
    <3>1. CASE v = w
      <4>1. sent[w] \in Nat /\ before \in 0..sent[w] /\ now[w] = sent[w] + k
        BY <1>2, <2>1, <3>1
      <4>2. Numbers(w, str \o new) = (before + 1 .. sent[w]) \cup (sent[w] + 1 .. sent[w] + k)
        BY <1>3, <1>4, <2>1, <3>1, <4>1
      <4>3. \A m, n \in Nat : m <= n => (m + 1 .. n) \cup (n + 1 .. n + k) = m + 1 .. n + k
        OBVIOUS
      <4>4. before \in Nat /\ before <= sent[w] /\ before \in 0..now[w]
        BY <4>1
      <4> QED
        BY <3>1, <4>1, <4>2, <4>3, <4>4
    <3>2. CASE v # w
      BY <1>2, <1>3, <1>4, <2>1, <3>2
    <3> QED
      BY <3>1, <3>2
  <2> QED
    BY <2>1, <2>2
<1>7. Once(held, str \o new, now)
  BY <1>5, <1>6 DEF Once
<1> QED
  BY <1>1, <1>7 DEF new, now

\* A reader takes over the oldest bytes of the stream.
LEMMA ReceiveKeepsOnce ==
    ASSUME NEW held \in [Reader -> Seq(Bytes)], NEW str \in Seq(Bytes), NEW sent \in [Writer -> Nat],
           Once(held, str, sent), NEW r \in Reader, NEW a \in Seq(Bytes), NEW b \in Seq(Bytes), str = a \o b
    PROVE  Once([held EXCEPT ![r] = @ \o a], b, sent)
<1> DEFINE now == [held EXCEPT ![r] = @ \o a]
<1>1. now[r] = held[r] \o a /\ \A q \in Reader \ {r} : now[q] = held[q]
  OBVIOUS
<1>2. /\ \A q \in Reader : held[q] \in Seq(Bytes) /\ InOrder(held[q])
      /\ InOrder(a) /\ InOrder(b)
      /\ \A i \in 1..Len(a), j \in 1..Len(b) : a[i][1] = b[j][1] => a[i][2] < b[j][2]
  BY ConcatInOrder DEF Once
<1>3. \A w \in Writer : /\ Numbers(w, str) = Numbers(w, a) \cup Numbers(w, b)
                        /\ Numbers(w, now[r]) = Numbers(w, held[r]) \cup Numbers(w, a)
  BY <1>1, <1>2, NumbersConcat
<1> HIDE DEF now
<1>4. ASSUME NEW w \in Writer, NEW m \in Numbers(w, a), NEW n \in Numbers(w, b)
      PROVE  m < n
  <2>1. PICK i \in 1..Len(a) : a[i] = <<w, m>>
    BY NumbersIff
  <2>2. PICK j \in 1..Len(b) : b[j] = <<w, n>>
    BY NumbersIff
  <2>3. a[i][1] = b[j][1] /\ a[i][2] = m /\ b[j][2] = n
    BY <2>1, <2>2
  <2> QED
    BY <1>2, <2>3
<1>5. ASSUME NEW w \in Writer
      PROVE  /\ \E before \in 0..sent[w] :
                /\ Numbers(w, b) = before + 1 .. sent[w]
                /\ UNION {Numbers(w, now[q]) : q \in Reader} = 1..before
             /\ \A p, q \in Reader : p # q => Numbers(w, now[p]) \cap Numbers(w, now[q]) = {}
             /\ \A n \in Numbers(w, held[r]), m \in Numbers(w, a) : n < m
  <2>1. PICK old \in 0..sent[w] : /\ Numbers(w, str) = old + 1 .. sent[w]
                                  /\ UNION {Numbers(w, held[q]) : q \in Reader} = 1..old
    BY DEF Once
  <2>2. old \in Nat /\ sent[w] \in Nat /\ old <= sent[w]
    BY <2>1
  <2>3. PICK before \in old .. sent[w] : /\ Numbers(w, a) = old + 1 .. before
                                         /\ Numbers(w, b) = before + 1 .. sent[w]
    <3> DEFINE A == Numbers(w, a)
               B == Numbers(w, b)
               high == sent[w]
    <3>1. A \cup B = old + 1 .. high /\ \A m \in A, n \in B : m < n
      BY <1>3, <1>4, <2>1
    <3>2. old \in Nat /\ high \in Nat /\ old <= high /\ A \in SUBSET Nat /\ B \in SUBSET Nat
      BY <2>2, <3>1
    <3> HIDE DEF A, B, high
    <3>3. \E before \in old..high : Splits(old, before, high, A, B)
      BY <3>1, <3>2, IntervalParts
    <3> QED
      BY <3>3 DEF A, B, high, Splits
  <2>4. UNION {Numbers(w, now[q]) : q \in Reader} = 1..before
    <3>1. UNION {Numbers(w, now[q]) : q \in Reader} = (UNION {Numbers(w, held[q]) : q \in Reader}) \cup Numbers(w, a)
      BY <1>1, <1>3
    <3>2. (1..old) \cup (old + 1 .. before) = 1..before
      BY <2>2, <2>3
    <3> QED
      BY <2>1, <2>3, <3>1, <3>2
  <2>5. before \in 0..sent[w]
    BY <2>2, <2>3
  <2>6. \A q \in Reader : \A n \in Numbers(w, held[q]), m \in Numbers(w, a) : n < m
    <3>1. \A q \in Reader : \A n \in Numbers(w, held[q]) : n \in 1..old
      BY <2>1
    <3>2. \A n \in 1..old, m \in old + 1 .. before : n < m
      BY <2>2, <2>3
    <3> QED
      BY <2>3, <3>1, <3>2
  <2>7. ASSUME NEW p \in Reader, NEW q \in Reader, p # q, NEW n \in Numbers(w, now[p]), n \in Numbers(w, now[q])
        PROVE  FALSE
    <3>1. \A m \in Numbers(w, a) : ~(m < m)
      BY <2>2, <2>3
    <3>2. ~(n \in Numbers(w, held[p]) /\ n \in Numbers(w, held[q]))
      BY <2>7 DEF Once
    <3> QED
      BY <1>1, <1>3, <2>6, <2>7, <3>1, <3>2
  <2>8. \A p, q \in Reader : p # q => Numbers(w, now[p]) \cap Numbers(w, now[q]) = {}
    BY <2>7
  <2> QED
    BY <2>3, <2>4, <2>5, <2>6, <2>8
<1>6. InOrder(now[r])
  <2>1. ASSUME NEW i \in 1..Len(held[r]), NEW j \in 1..Len(a), held[r][i][1] = a[j][1]
        PROVE  held[r][i][2] < a[j][2]
    <3>1. held[r][i] \in Bytes /\ a[j] \in Bytes
      BY <1>2, ElementOfSeq
    <3> DEFINE w == a[j][1]
    <3>2. w \in Writer /\ held[r][i] = <<w, held[r][i][2]>> /\ a[j] = <<w, a[j][2]>>
      BY <2>1, <3>1, ByteParts
    <3> HIDE DEF w
    <3>3. held[r][i][2] \in Numbers(w, held[r]) /\ a[j][2] \in Numbers(w, a)
      BY <1>2, <3>2, NumbersIff
    <3> QED
      BY <1>5, <3>2, <3>3
  <2> QED
    BY <1>1, <1>2, <2>1, ConcatInOrder
<1>7. \A q \in Reader : InOrder(now[q])
  BY <1>1, <1>2, <1>6
<1> QED
  BY <1>2, <1>5, <1>7 DEF Once, now

--------------------------------------------------------------------------------
(* The calls.                                                                *)

\* The types, for which the bound on the number of bytes is not needed; the part of a buffer
\* that a call has filled holds bytes.
StreamTypes ==
    /\ stream \in Seq(Bytes)
    /\ call \in [Thread -> {"ready", "read", "write", "threw"}]
    /\ size \in [Thread -> 0..MaxSize]
    /\ remaining \in [Thread -> 0..MaxSize]
    /\ \A t \in Thread : remaining[t] <= size[t] /\ (call[t] = "ready" => size[t] = 0 /\ remaining[t] = 0)
    /\ buffer \in [Reader -> [1..MaxSize -> Bytes \cup {Empty}]]
    /\ \A r \in Reader : \A i \in 1..Transferred(r) : buffer[r][i] \in Bytes
    /\ reported \in [Writer -> Nat]
    /\ log \in [Reader -> Seq(Bytes)]

AllHeld == [r \in Reader |-> Held(r)]
AllSent == [w \in Writer |-> Sent(w)]

\* The inductive invariant.
StreamInv == StreamTypes /\ Once(AllHeld, stream, AllSent)

\* A thread is a writer or a reader, and not both.
LEMMA ThreadFacts ==
    /\ MaxSize \in Nat /\ Writer \subseteq Thread /\ Reader \subseteq Thread
    /\ \A w \in Writer, r \in Reader : w # r
  BY ThreadAssumption, SizeAssumption DEF Thread

\* What a call has transferred is what it was asked for less what remains.
LEMMA TransferredFacts ==
    ASSUME StreamTypes, NEW t \in Thread
    PROVE  /\ size[t] \in Nat /\ remaining[t] \in Nat /\ Transferred(t) \in 0..MaxSize
           /\ Transferred(t) + remaining[t] = size[t] /\ size[t] <= MaxSize
           /\ call[t] = "ready" => Transferred(t) = 0
  BY ThreadFacts DEF StreamTypes, Transferred

\* The filled part of a buffer is a sequence of bytes.
LEMMA FilledPart ==
    ASSUME StreamTypes, NEW r \in Reader
    PROVE  LET part == SubSeq(buffer[r], 1, Transferred(r)) IN
           /\ part \in Seq(Bytes) /\ Len(part) = Transferred(r)
           /\ \A i \in 1..Transferred(r) : part[i] = buffer[r][i]
           /\ Held(r) = log[r] \o part /\ Held(r) \in Seq(Bytes)
<1> DEFINE n == Transferred(r)
           part == SubSeq(buffer[r], 1, n)
<1>1. n \in Nat /\ 1 \in Int /\ n \in Int
  BY TransferredFacts, ThreadFacts
<1>2. \A i \in 1..n : buffer[r][i] \in Bytes
  BY DEF StreamTypes
<1> HIDE DEF n
<1>3. /\ part \in Seq(Bytes) /\ Len(part) = (IF 1 <= n THEN n - 1 + 1 ELSE 0)
      /\ \A i \in 1 .. n - 1 + 1 : part[i] = buffer[r][1 + i - 1]
  BY <1>1, <1>2, SubSeqProperties
<1>4. Len(part) = n /\ \A i \in 1..n : part[i] = buffer[r][i]
  <2>1. n - 1 + 1 = n /\ \A i \in 1..n : 1 + i - 1 = i
    BY <1>1
  <2> QED
    BY <1>1, <1>3, <2>1
<1>5. log[r] \in Seq(Bytes)
  BY DEF StreamTypes
<1> QED
  BY <1>3, <1>4, <1>5, ConcatProperties DEF Held, n

\* What every reader holds and every writer has sent has its type.
LEMMA AllTypes ==
    ASSUME StreamTypes
    PROVE  AllHeld \in [Reader -> Seq(Bytes)] /\ AllSent \in [Writer -> Nat]
<1>1. \A r \in Reader : Held(r) \in Seq(Bytes)
  BY FilledPart
<1>2. \A w \in Writer : Sent(w) \in Nat
  BY ThreadFacts, TransferredFacts DEF StreamTypes, Sent
<1> QED
  BY <1>1, <1>2 DEF AllHeld, AllSent

\* Beginning and ending a call, closing the write end and an exception move no byte.
Still == UNCHANGED <<stream, AllHeld, AllSent>>

\* A step that changes neither the stream nor what is transferred moves no byte.
LEMMA StillStep ==
    ASSUME StreamTypes,
           \A t \in Thread : Transferred(t)' = Transferred(t),
           UNCHANGED <<stream, buffer, reported, log>>
    PROVE  Still
<1>1. \A r \in Reader : Held(r)' = Held(r)
  BY ThreadFacts DEF Held
<1>2. \A w \in Writer : Sent(w)' = Sent(w)
  BY ThreadFacts DEF Sent
<1> QED
  BY <1>1, <1>2 DEF Still, AllHeld, AllSent

\* A call that begins moves no byte.
LEMMA BeginStep ==
    ASSUME StreamTypes, NEW t \in Thread, NEW n \in 1..MaxSize, NEW place \in {"read", "write"},
           Begin(t, place, n), UNCHANGED <<stream, buffer, reported, log>>
    PROVE  StreamTypes' /\ Still
<1>1. /\ call' = [call EXCEPT ![t] = place] /\ size' = [size EXCEPT ![t] = n]
      /\ remaining' = [remaining EXCEPT ![t] = n] /\ n \in 0..MaxSize /\ n - n = 0
      /\ Transferred(t) = 0
  BY TransferredFacts, ThreadFacts DEF Begin, Enter
<1>2. \A u \in Thread : Transferred(u)' = Transferred(u)
  BY <1>1 DEF StreamTypes, Transferred
<1>3. /\ call' \in [Thread -> {"ready", "read", "write", "threw"}]
      /\ size' \in [Thread -> 0..MaxSize] /\ remaining' \in [Thread -> 0..MaxSize]
      /\ \A u \in Thread : remaining'[u] <= size'[u] /\ (call'[u] = "ready" => size'[u] = 0 /\ remaining'[u] = 0)
  BY <1>1 DEF StreamTypes
<1>4. StreamTypes'
  BY <1>2, <1>3, ThreadFacts DEF StreamTypes
<1> QED
  BY <1>2, <1>4, StillStep

\* A call that throws moves no byte.
LEMMA ThrowStep ==
    ASSUME StreamTypes, NEW t \in Thread, Throws(t)
    PROVE  StreamTypes' /\ Still
<1>1. call' = [call EXCEPT ![t] = "threw"] /\ UNCHANGED <<stream, size, remaining, buffer, reported, log>>
  BY DEF Throws, Enter
<1>2. \A u \in Thread : Transferred(u)' = Transferred(u)
  BY <1>1 DEF Transferred
<1>3. StreamTypes'
  BY <1>1, <1>2, ThreadFacts DEF StreamTypes
<1> QED
  BY <1>1, <1>2, <1>3, StillStep

\* A call that returns has its locals reset, and those of other threads are left alone.
LEMMA ReturnStep ==
    ASSUME StreamTypes, NEW t \in Thread, Return(t)
    PROVE  /\ call' \in [Thread -> {"ready", "read", "write", "threw"}]
           /\ size' \in [Thread -> 0..MaxSize] /\ remaining' \in [Thread -> 0..MaxSize]
           /\ \A u \in Thread : remaining'[u] <= size'[u] /\ (call'[u] = "ready" => size'[u] = 0 /\ remaining'[u] = 0)
           /\ Transferred(t)' = 0 /\ \A u \in Thread \ {t} : Transferred(u)' = Transferred(u)
<1>1. /\ call' = [call EXCEPT ![t] = "ready"] /\ size' = [size EXCEPT ![t] = 0]
      /\ remaining' = [remaining EXCEPT ![t] = 0] /\ 0 \in 0..MaxSize
  BY ThreadFacts DEF Return, Enter
<1> QED
  BY <1>1 DEF StreamTypes, Transferred

\* A write() that comes back moves no byte.
LEMMA WrittenStep ==
    ASSUME StreamTypes, NEW w \in Writer, Written(w)
    PROVE  StreamTypes' /\ Still
<1>1. /\ Return(w) /\ reported' = [reported EXCEPT ![w] = @ + Transferred(w)]
      /\ UNCHANGED <<stream, buffer, log>> /\ w \in Thread
  BY ThreadFacts DEF Written
<1>2. /\ Transferred(w)' = 0 /\ Transferred(w) \in Nat
      /\ \A u \in Thread \ {w} : Transferred(u)' = Transferred(u)
  BY <1>1, ReturnStep, TransferredFacts, ThreadFacts
<1>3. reported' \in [Writer -> Nat]
  BY <1>1, <1>2 DEF StreamTypes
<1>4. \A r \in Reader : Transferred(r)' = Transferred(r)
  BY <1>2, ThreadFacts
<1>5. \A r \in Reader : \A i \in 1..Transferred(r)' : buffer'[r][i] \in Bytes
  BY <1>1, <1>4 DEF StreamTypes
<1>6. StreamTypes'
  BY <1>1, <1>3, <1>5, ReturnStep DEF StreamTypes
<1>7. \A r \in Reader : Held(r)' = Held(r)
  BY <1>1, <1>4 DEF Held
<1>8. \A v \in Writer : Sent(v)' = Sent(v)
  <2>1. Sent(w)' = Sent(w)
    <3>1. reported[w] \in Nat /\ reported'[w] = reported[w] + Transferred(w)
      BY <1>1 DEF StreamTypes
    <3> QED
      BY <1>2, <3>1 DEF Sent
  <2>2. \A v \in Writer \ {w} : Sent(v)' = Sent(v)
    BY <1>1, <1>2, ThreadFacts DEF Sent, StreamTypes
  <2> QED
    BY <2>1, <2>2
<1> QED
  BY <1>1, <1>6, <1>7, <1>8 DEF Still, AllHeld, AllSent

\* A read() that comes back passes its bytes on to the log: they stay with the reader.
LEMMA ReadDoneStep ==
    ASSUME StreamTypes, NEW r \in Reader, ReadDone(r)
    PROVE  StreamTypes' /\ Still
<1> DEFINE part == SubSeq(buffer[r], 1, Transferred(r))
<1>1. /\ Return(r) /\ log' = [log EXCEPT ![r] = @ \o part] /\ buffer' = [buffer EXCEPT ![r] = Free]
      /\ UNCHANGED <<stream, reported>> /\ r \in Thread
  BY ThreadFacts DEF ReadDone
<1>2. /\ Transferred(r)' = 0
      /\ \A u \in Thread \ {r} : Transferred(u)' = Transferred(u)
  BY <1>1, ReturnStep
<1>3. part \in Seq(Bytes) /\ Held(r) = log[r] \o part /\ Held(r) \in Seq(Bytes)
  BY FilledPart
<1> HIDE DEF part
<1>4. /\ log' \in [Reader -> Seq(Bytes)] /\ log'[r] = Held(r)
      /\ \A q \in Reader \ {r} : log'[q] = log[q] /\ buffer'[q] = buffer[q] /\ Transferred(q)' = Transferred(q)
  BY <1>1, <1>2, <1>3, ThreadFacts DEF StreamTypes
<1>5. buffer' \in [Reader -> [1..MaxSize -> Bytes \cup {Empty}]]
  <2>1. Free \in [1..MaxSize -> Bytes \cup {Empty}]
    BY DEF Free
  <2> QED
    BY <1>1, <2>1 DEF StreamTypes
<1>6. \A q \in Reader : \A i \in 1..Transferred(q)' : buffer'[q][i] \in Bytes
  <2>1. \A i \in 1..Transferred(r)' : FALSE
    BY <1>2
  <2>2. \A q \in Reader \ {r} : \A i \in 1..Transferred(q)' : buffer'[q][i] \in Bytes
    BY <1>4 DEF StreamTypes
  <2> QED
    BY <2>1, <2>2
<1>7. StreamTypes'
  BY <1>1, <1>4, <1>5, <1>6, ReturnStep DEF StreamTypes
<1>8. \A q \in Reader : Held(q)' = Held(q)
  <2>1. Held(r)' = Held(r)
    <3>1. SubSeq(buffer'[r], 1, Transferred(r)') = << >>
      BY <1>2, SubSeqEmpty
    <3> QED
      BY <1>3, <1>4, <3>1, ConcatEmptySeq DEF Held
  <2>2. \A q \in Reader \ {r} : Held(q)' = Held(q)
    BY <1>4 DEF Held
  <2> QED
    BY <2>1, <2>2
<1>9. \A v \in Writer : Sent(v)' = Sent(v)
  BY <1>1, <1>2, ThreadFacts DEF Sent
<1> QED
  BY <1>1, <1>7, <1>8, <1>9 DEF Still, AllHeld, AllSent

\* ::write() appends the writer's next bytes.
LEMMA WriteSomeStep ==
    ASSUME StreamTypes, NEW w \in Writer, WriteSome(w)
    PROVE  /\ StreamTypes' /\ AllHeld' = AllHeld
           /\ \E k \in Nat : /\ stream' = stream \o [i \in 1..k |-> <<w, AllSent[w] + i>>]
                            /\ AllSent' = [AllSent EXCEPT ![w] = @ + k]
<1>1. PICK k \in 1..remaining[w] :
        /\ stream' = stream \o [i \in 1..k |-> <<w, reported[w] + Transferred(w) + i>>]
        /\ remaining' = [remaining EXCEPT ![w] = @ - k]
        /\ UNCHANGED <<writeEnd, call, size, buffer, reported, log>> /\ call[w] = "write"
  BY DEF WriteSome
<1>2. w \in Thread /\ k \in Nat /\ k <= remaining[w] /\ remaining[w] \in 0..MaxSize /\ MaxSize \in Nat
  BY <1>1, ThreadFacts DEF StreamTypes
<1>3. /\ remaining' \in [Thread -> 0..MaxSize] /\ remaining'[w] = remaining[w] - k
      /\ \A u \in Thread \ {w} : remaining'[u] = remaining[u]
  BY <1>1, <1>2 DEF StreamTypes
<1>4. /\ Transferred(w)' = Transferred(w) + k /\ Transferred(w) \in Nat /\ Sent(w) \in Nat
      /\ \A u \in Thread \ {w} : Transferred(u)' = Transferred(u)
  <2>1. size[w] \in Nat /\ remaining[w] \in Nat /\ Transferred(w) \in Nat /\ reported[w] \in Nat
    BY <1>2, TransferredFacts DEF StreamTypes
  <2>2. Transferred(w)' = Transferred(w) + k
    BY <1>1, <1>2, <1>3, <2>1 DEF Transferred
  <2>3. \A u \in Thread \ {w} : Transferred(u)' = Transferred(u)
    BY <1>1, <1>3 DEF Transferred
  <2> QED
    BY <2>1, <2>2, <2>3 DEF Sent
<1>5. /\ AllSent[w] = Sent(w) /\ Sent(w) = reported[w] + Transferred(w)
      /\ Sent(w)' = Sent(w) + k /\ \A v \in Writer \ {w} : Sent(v)' = Sent(v)
  <2>1. AllSent[w] = Sent(w) /\ Sent(w) = reported[w] + Transferred(w) /\ reported[w] \in Nat
    BY DEF AllSent, Sent, StreamTypes
  <2>2. Sent(w)' = reported[w] + (Transferred(w) + k)
    BY <1>1, <1>4 DEF Sent
  <2>3. \A v \in Writer \ {w} : Sent(v)' = Sent(v)
    BY <1>1, <1>4, ThreadFacts DEF Sent
  <2> QED
    BY <1>2, <1>4, <2>1, <2>2, <2>3
<1>6. AllSent' = [AllSent EXCEPT ![w] = @ + k]
  BY <1>5 DEF AllSent
<1>7. \A r \in Reader : Held(r)' = Held(r)
  BY <1>1, <1>4, ThreadFacts DEF Held
<1>8. stream' = stream \o [i \in 1..k |-> <<w, AllSent[w] + i>>]
  BY <1>1, <1>5
<1>9. stream' \in Seq(Bytes)
  <2>1. \A i \in 1..k : <<w, AllSent[w] + i>> \in Bytes
    BY <1>2, <1>4, <1>5 DEF Bytes
  <2>2. [i \in 1..k |-> <<w, AllSent[w] + i>>] \in Seq(Bytes)
    <3>1. [i \in 1..k |-> <<w, AllSent[w] + i>>] \in [1..k -> Bytes]
      BY <2>1
    <3> QED
      BY <1>2, <3>1
  <2> QED
    BY <1>8, <2>2, ConcatProperties DEF StreamTypes
<1>10. StreamTypes'
  <2>1. \A u \in Thread : remaining'[u] <= size[u] /\ (call[u] = "ready" => size[u] = 0 /\ remaining'[u] = 0)
    <3>1. remaining'[w] <= size[w] /\ call[w] # "ready"
      BY <1>1, <1>2, <1>3, TransferredFacts
    <3> QED
      BY <1>3, <3>1 DEF StreamTypes
  <2>2. \A r \in Reader : \A i \in 1..Transferred(r)' : buffer[r][i] \in Bytes
    BY <1>4, ThreadFacts DEF StreamTypes
  <2> QED
    BY <1>1, <1>3, <1>9, <2>1, <2>2 DEF StreamTypes
<1> QED
  BY <1>2, <1>6, <1>7, <1>8, <1>10 DEF AllHeld

\* ::read() moves the oldest bytes of the stream to the end of what the reader holds.
LEMMA ReadSomeStep ==
    ASSUME StreamTypes, NEW r \in Reader, ReadSome(r)
    PROVE  /\ StreamTypes' /\ AllSent' = AllSent
           /\ \E a \in Seq(Bytes) : stream = a \o stream' /\ AllHeld' = [AllHeld EXCEPT ![r] = @ \o a]
<1>1. PICK k \in 1..remaining[r] :
        /\ Fill(r, Transferred(r), k)
        /\ remaining' = [remaining EXCEPT ![r] = @ - k]
        /\ UNCHANGED <<writeEnd, call, size, reported, log>> /\ call[r] = "read"
  BY DEF ReadSome
<1> DEFINE a == SubSeq(stream, 1, k)
           n == Transferred(r)
<1>2. /\ r \in Thread /\ k \in Nat /\ k <= remaining[r] /\ remaining[r] \in 0..MaxSize /\ MaxSize \in Nat
      /\ n \in Nat /\ n + k <= MaxSize /\ size[r] \in Nat
  BY <1>1, ThreadFacts, TransferredFacts DEF StreamTypes
<1>3. /\ remaining' \in [Thread -> 0..MaxSize] /\ remaining'[r] = remaining[r] - k
      /\ \A u \in Thread \ {r} : remaining'[u] = remaining[u]
  BY <1>1, <1>2 DEF StreamTypes
<1>4. /\ Transferred(r)' = n + k
      /\ \A u \in Thread \ {r} : Transferred(u)' = Transferred(u)
  BY <1>1, <1>2, <1>3 DEF Transferred
<1>5. /\ stream \in Seq(Bytes) /\ Len(stream) \in Nat /\ k <= Len(stream)
      /\ stream' = SubSeq(stream, k + 1, Len(stream))
      /\ buffer' = [buffer EXCEPT ![r] =
            [i \in 1..MaxSize |-> IF i \in n + 1 .. n + k THEN stream[i - n] ELSE @[i]]]
  BY <1>1, LenProperties DEF Fill, StreamTypes
<1> HIDE DEF n
<1>6. /\ a \in Seq(Bytes) /\ Len(a) = k /\ \A i \in 1..k : a[i] = stream[i]
      /\ stream' \in Seq(Bytes) /\ stream = a \o stream'
  <2>1. \A i \in 1..Len(stream) : stream[i] \in Bytes
    BY <1>5, ElementOfSeq
  <2>2. /\ a \in Seq(Bytes) /\ Len(a) = (IF 1 <= k THEN k - 1 + 1 ELSE 0)
        /\ \A i \in 1 .. k - 1 + 1 : a[i] = stream[1 + i - 1]
    <3>1. \A i \in 1..k : stream[i] \in Bytes
      BY <1>2, <1>5, <2>1
    <3>2. 1 \in Int /\ k \in Int
      BY <1>2
    <3> QED
      BY <3>1, <3>2, SubSeqProperties
  <2>3. Len(a) = k /\ \A i \in 1..k : a[i] = stream[i]
    <3>1. k - 1 + 1 = k /\ \A i \in 1..k : 1 + i - 1 = i
      BY <1>2
    <3> QED
      BY <1>2, <2>2, <3>1
  <2>4. stream' \in Seq(Bytes)
    <3>1. \A i \in k + 1 .. Len(stream) : stream[i] \in Bytes
      BY <1>2, <1>5, <2>1
    <3>2. k + 1 \in Int /\ Len(stream) \in Int
      BY <1>2, <1>5
    <3> QED
      BY <1>5, <3>1, <3>2, SubSeqProperties
  <2>5. stream = a \o stream'
    <3>1. SubSeq(stream, 1, k) \o SubSeq(stream, k + 1, Len(stream)) = SubSeq(stream, 1, Len(stream))
      BY <1>2, <1>5, ConcatAdjacentSubSeq
    <3>2. SubSeq(stream, 1, Len(stream)) = stream
      BY <1>5, SubSeqFull
    <3> QED
      BY <1>5, <3>1, <3>2
  <2> QED
    BY <2>2, <2>3, <2>4, <2>5
<1> HIDE DEF a
<1>7. /\ buffer' \in [Reader -> [1..MaxSize -> Bytes \cup {Empty}]]
      /\ \A i \in 1..n : buffer'[r][i] = buffer[r][i]
      /\ \A i \in 1..k : buffer'[r][n + i] = a[i]
      /\ \A q \in Reader \ {r} : buffer'[q] = buffer[q]
  <2> DEFINE new == [i \in 1..MaxSize |-> IF i \in n + 1 .. n + k THEN stream[i - n] ELSE buffer[r][i]]
  <2>1. \A i \in n + 1 .. n + k : i - n \in 1..k /\ stream[i - n] = a[i - n] /\ a[i - n] \in Bytes
    <3>1. \A i \in n + 1 .. n + k : i - n \in 1..k
      BY <1>2
    <3>2. \A i \in 1..k : a[i] \in Bytes
      BY <1>6, ElementOfSeq
    <3> QED
      BY <1>6, <3>1, <3>2
  <2>2. new \in [1..MaxSize -> Bytes \cup {Empty}]
    <3>1. buffer[r] \in [1..MaxSize -> Bytes \cup {Empty}]
      BY DEF StreamTypes
    <3> QED
      BY <2>1, <3>1
  <2>3. \A i \in 1..n : new[i] = buffer[r][i]
    <3>1. \A i \in 1..n : i \in 1..MaxSize /\ i \notin n + 1 .. n + k
      BY <1>2
    <3> QED
      BY <3>1
  <2>4. \A i \in 1..k : new[n + i] = a[i]
    <3>1. \A i \in 1..k : n + i \in 1..MaxSize /\ n + i \in n + 1 .. n + k /\ (n + i) - n = i
      BY <1>2
    <3> QED
      BY <1>6, <3>1
  <2>5. buffer' = [buffer EXCEPT ![r] = new]
    BY <1>5
  <2> HIDE DEF new
  <2>6. buffer'[r] = new /\ \A q \in Reader \ {r} : buffer'[q] = buffer[q]
    BY <2>5 DEF StreamTypes
  <2>7. buffer' \in [Reader -> [1..MaxSize -> Bytes \cup {Empty}]]
    BY <2>2, <2>5 DEF StreamTypes
  <2> QED
    BY <2>3, <2>4, <2>6, <2>7
<1>8. \A q \in Reader : \A i \in 1..Transferred(q)' : buffer'[q][i] \in Bytes
  <2>1. \A i \in 1..(n + k) : buffer'[r][i] \in Bytes
    <3>1. \A i \in 1..(n + k) : i \in 1..n \/ (i - n \in 1..k /\ i = n + (i - n))
      BY <1>2
    <3>2. \A i \in 1..n : buffer'[r][i] \in Bytes
      BY <1>7 DEF StreamTypes, n
    <3>3. \A i \in 1..k : buffer'[r][n + i] \in Bytes
      BY <1>6, <1>7, ElementOfSeq
    <3> QED
      BY <3>1, <3>2, <3>3
  <2>2. \A q \in Reader \ {r} : \A i \in 1..Transferred(q)' : buffer'[q][i] \in Bytes
    BY <1>4, <1>7, ThreadFacts DEF StreamTypes
  <2> QED
    BY <1>4, <2>1, <2>2
<1>9. StreamTypes'
  <2>1. \A u \in Thread : remaining'[u] <= size[u] /\ (call[u] = "ready" => size[u] = 0 /\ remaining'[u] = 0)
    <3>1. remaining'[r] <= size[r] /\ call[r] # "ready"
      BY <1>1, <1>2, <1>3, TransferredFacts
    <3> QED
      BY <1>3, <3>1 DEF StreamTypes
  <2> QED
    BY <1>1, <1>3, <1>6, <1>7, <1>8, <2>1 DEF StreamTypes
<1>10. Held(r)' = Held(r) \o a
  <2> DEFINE part == SubSeq(buffer[r], 1, Transferred(r))
             next == SubSeq(buffer'[r], 1, Transferred(r)')
  <2>1. /\ part \in Seq(Bytes) /\ Len(part) = n /\ \A i \in 1..n : part[i] = buffer[r][i]
        /\ Held(r) = log[r] \o part
    BY FilledPart DEF n
  <2>2. /\ next \in Seq(Bytes) /\ Len(next) = n + k /\ \A i \in 1..(n + k) : next[i] = buffer'[r][i]
    <3> DEFINE total == n + k
    <3>1. \A i \in 1..total : buffer'[r][i] \in Bytes
      BY <1>4, <1>8
    <3>2. total \in Nat /\ 1 \in Int /\ total \in Int
      BY <1>2
    <3>3. Transferred(r)' = total
      BY <1>4
    <3> HIDE DEF total
    <3>4. /\ next \in Seq(Bytes) /\ Len(next) = (IF 1 <= total THEN total - 1 + 1 ELSE 0)
          /\ \A i \in 1 .. total - 1 + 1 : next[i] = buffer'[r][1 + i - 1]
      BY <3>1, <3>2, <3>3, SubSeqProperties
    <3>5. total - 1 + 1 = total /\ \A i \in 1..total : 1 + i - 1 = i
      BY <3>2
    <3> HIDE DEF next
    <3>6. Len(next) = total /\ \A i \in 1..total : next[i] = buffer'[r][i]
      BY <3>2, <3>4, <3>5
    <3> QED
      BY <3>4, <3>6 DEF total
  <2>3. Held(r)' = log[r] \o next
    BY <1>1 DEF Held
  <2> HIDE DEF part, next
  <2>4. next = part \o a
    <3>1. /\ part \o a \in Seq(Bytes) /\ Len(part \o a) = n + k
          /\ \A i \in 1..(n + k) : (part \o a)[i] = IF i <= n THEN part[i] ELSE a[i - n]
      BY <1>6, <2>1, ConcatProperties
    <3>2. ASSUME NEW i \in 1..(n + k)
          PROVE  next[i] = (part \o a)[i]
      <4>1. CASE i <= n
        <5>1. i \in 1..n
          BY <1>2, <4>1
        <5> QED
          BY <1>7, <2>1, <2>2, <3>1, <4>1, <5>1
      <4>2. CASE ~(i <= n)
        <5>1. i - n \in 1..k /\ n + (i - n) = i
          BY <1>2, <4>2
        <5>2. buffer'[r][i] = a[i - n]
          BY <1>7, <5>1
        <5> QED
          BY <2>2, <3>1, <4>2, <5>2
      <4> QED
        BY <4>1, <4>2
    <3> QED
      BY <2>2, <3>1, <3>2, SeqEqual
  <2> QED
    <3>1. \A s, t, u \in Seq(Bytes) : (s \o t) \o u = s \o (t \o u)
      BY ConcatAssociative
    <3>2. log[r] \in Seq(Bytes) /\ part \in Seq(Bytes) /\ a \in Seq(Bytes)
      BY <1>6, <2>1 DEF StreamTypes
    <3>3. log[r] \o (part \o a) = (log[r] \o part) \o a
      BY <3>1, <3>2, Zenon
    <3> QED
      BY <2>1, <2>3, <2>4, <3>3, Zenon
<1>11. \A q \in Reader \ {r} : Held(q)' = Held(q)
  BY <1>1, <1>4, <1>7, ThreadFacts DEF Held
<1>12. AllHeld' = [AllHeld EXCEPT ![r] = @ \o a]
  BY <1>10, <1>11 DEF AllHeld
<1>13. \A w \in Writer : Sent(w)' = Sent(w)
  BY <1>1, <1>4, ThreadFacts DEF Sent
<1> QED
  BY <1>6, <1>9, <1>12, <1>13 DEF AllSent

--------------------------------------------------------------------------------
(* The invariant.                                                            *)

\* The invariant holds at the start.
LEMMA StreamInitInv == StreamInit => StreamInv
<1> SUFFICES ASSUME StreamInit PROVE StreamInv
  OBVIOUS
<1>1. StreamTypes
  <2>1. Free \in [1..MaxSize -> Bytes \cup {Empty}] /\ 0 \in 0..MaxSize /\ 0 - 0 = 0
    BY ThreadFacts DEF Free
  <2>2. \A r \in Reader : Transferred(r) = 0
    BY <2>1, ThreadFacts DEF StreamInit, Transferred
  <2>3. \A r \in Reader : \A i \in 1..Transferred(r) : buffer[r][i] \in Bytes
    BY <2>2
  <2> QED
    BY <2>1, <2>3, EmptySeq DEF StreamInit, StreamTypes
<1>2. \A r \in Reader : Held(r) = << >>
  <2>1. \A r \in Reader : SubSeq(buffer[r], 1, 0) = << >>
    BY SubSeqEmpty
  <2>2. \A r \in Reader : Transferred(r) = 0 /\ log[r] = << >>
    BY ThreadFacts DEF StreamInit, Transferred
  <2>3. << >> \o << >> = << >>
    BY EmptySeq, ConcatEmptySeq
  <2> QED
    BY <2>1, <2>2, <2>3 DEF Held
<1>3. \A w \in Writer : Sent(w) = 0
  BY ThreadFacts DEF StreamInit, Transferred, Sent
<1>4. InOrder(<< >>) /\ \A w \in Writer : Numbers(w, << >>) = {}
  <2>1. DOMAIN << >> = {}
    BY EmptySeq
  <2> QED
    BY <2>1, NumbersEmpty DEF InOrder
<1>5. AllHeld = [r \in Reader |-> << >>] /\ AllSent = [w \in Writer |-> 0] /\ stream = << >>
  BY <1>2, <1>3 DEF AllHeld, AllSent, StreamInit
<1>6. ASSUME NEW w \in Writer
      PROVE  \E before \in 0..AllSent[w] :
                /\ Numbers(w, stream) = before + 1 .. AllSent[w]
                /\ UNION {Numbers(w, AllHeld[r]) : r \in Reader} = 1..before
  <2>1. Numbers(w, stream) = 0 + 1 .. AllSent[w] /\ 0 \in 0..AllSent[w]
    BY <1>4, <1>5
  <2>2. UNION {Numbers(w, AllHeld[r]) : r \in Reader} = 1..0
    BY <1>4, <1>5
  <2> QED
    BY <2>1, <2>2
<1>7. Once(AllHeld, stream, AllSent)
  BY <1>4, <1>5, <1>6 DEF Once
<1> QED
  BY <1>1, <1>7 DEF StreamInv

\* Every step keeps the invariant.
LEMMA StreamStep ==
    ASSUME StreamInv, [StreamNext]_streamVars
    PROVE  StreamInv'
<1>1. /\ StreamTypes /\ Once(AllHeld, stream, AllSent) /\ stream \in Seq(Bytes)
      /\ AllHeld \in [Reader -> Seq(Bytes)] /\ AllSent \in [Writer -> Nat]
  BY AllTypes DEF StreamInv, StreamTypes
<1>2. ASSUME StreamTypes', Still
      PROVE  StreamInv'
  BY <1>1, <1>2 DEF StreamInv, Still
<1>3. ASSUME NEW w \in Writer, CallWrite(w)
      PROVE  StreamInv'
  <2>1. PICK n \in 1..MaxSize : Begin(w, "write", n) /\ UNCHANGED <<stream, buffer, reported, log>>
    BY <1>3 DEF CallWrite
  <2> QED
    BY <1>1, <1>2, <2>1, BeginStep, ThreadFacts
<1>4. ASSUME NEW w \in Writer, WriteSome(w)
      PROVE  StreamInv'
  <2>1. PICK k \in Nat : /\ stream' = stream \o [i \in 1..k |-> <<w, AllSent[w] + i>>]
                         /\ AllSent' = [AllSent EXCEPT ![w] = @ + k]
                         /\ StreamTypes' /\ AllHeld' = AllHeld
    BY <1>1, <1>4, WriteSomeStep
  <2>2. Once(AllHeld', stream', AllSent')
    BY <1>1, <2>1, SendKeepsOnce
  <2> QED
    BY <2>1, <2>2 DEF StreamInv
<1>5. ASSUME NEW w \in Writer, Written(w)
      PROVE  StreamInv'
  BY <1>1, <1>2, <1>5, WrittenStep
<1>6. ASSUME NEW w \in Writer, CloseWriteEnd(w)
      PROVE  StreamInv'
  <2>1. UNCHANGED <<stream, call, size, remaining, buffer, reported, log>>
    BY <1>6 DEF CloseWriteEnd
  <2>2. \A t \in Thread : Transferred(t)' = Transferred(t)
    BY <2>1 DEF Transferred
  <2>3. StreamTypes'
    BY <1>1, <2>1, <2>2, ThreadFacts DEF StreamTypes
  <2> QED
    BY <1>1, <1>2, <2>1, <2>2, <2>3, StillStep
<1>7. ASSUME NEW r \in Reader, CallRead(r)
      PROVE  StreamInv'
  <2>1. PICK n \in 1..MaxSize : Begin(r, "read", n) /\ UNCHANGED <<stream, buffer, reported, log>>
    BY <1>7 DEF CallRead
  <2> QED
    BY <1>1, <1>2, <2>1, BeginStep, ThreadFacts
<1>8. ASSUME NEW r \in Reader, ReadSome(r)
      PROVE  StreamInv'
  <2>1. PICK a \in Seq(Bytes) : /\ stream = a \o stream' /\ AllHeld' = [AllHeld EXCEPT ![r] = @ \o a]
                                /\ StreamTypes' /\ AllSent' = AllSent
    BY <1>1, <1>8, ReadSomeStep
  <2>2. stream' \in Seq(Bytes)
    BY <2>1 DEF StreamTypes
  <2>3. Once(AllHeld', stream', AllSent')
    BY <1>1, <2>1, <2>2, ReceiveKeepsOnce
  <2> QED
    BY <2>1, <2>3 DEF StreamInv
<1>9. ASSUME NEW r \in Reader, ReadDone(r)
      PROVE  StreamInv'
  BY <1>1, <1>2, <1>9, ReadDoneStep
<1>10. ASSUME NEW t \in Thread, Throws(t)
       PROVE  StreamInv'
  BY <1>1, <1>2, <1>10, ThrowStep
<1>11. CASE UNCHANGED streamVars
  <2>1. UNCHANGED <<stream, call, size, remaining, buffer, reported, log>>
    BY <1>11 DEF streamVars
  <2>2. \A t \in Thread : Transferred(t)' = Transferred(t)
    BY <2>1 DEF Transferred
  <2>3. StreamTypes'
    BY <1>1, <2>1, <2>2, ThreadFacts DEF StreamTypes
  <2> QED
    BY <1>1, <1>2, <2>1, <2>2, <2>3, StillStep
<1> QED
  BY <1>3, <1>4, <1>5, <1>6, <1>7, <1>8, <1>9, <1>10, <1>11
  DEF StreamNext, WriteStep, ReadStep, WriteReturns, WriteStops, ReadReturns, ReadEndOfFile

\* The strengthened invariant: the types of the calls' locals, and the statement about the
\* bytes in terms of what is held, stored and sent.
THEOREM StreamInvariant == StreamSpec => []StreamInv
<1>1. StreamInv /\ [StreamNext]_streamVars => StreamInv'
  BY StreamStep
<1> QED
  BY <1>1, StreamInitInv, PTL DEF StreamSpec

\* For any number of writers and readers, any sizes and any capacity, every byte that a
\* write() counted is once in the stream or in the hands of one reader, in its writer's order.
THEOREM OnceCorrect == StreamSpec => []OnceInOrder
<1>1. StreamInv => OnceInOrder
  <2> SUFFICES ASSUME StreamInv PROVE OnceInOrder
    OBVIOUS
  <2>1. \A r \in Reader : AllHeld[r] = Held(r) /\ Held(r) \in Seq(Bytes)
    BY FilledPart DEF StreamInv, AllHeld
  <2>2. \A w \in Writer : AllSent[w] = Sent(w)
    BY DEF AllSent
  <2>3. \A s \in Seq(Bytes) : Empty \notin ToSet(s)
    <3>1. \A s \in Seq(Bytes) : ToSet(s) \subseteq Bytes
      BY ElementOfSeq, LenProperties DEF ToSet
    <3>2. Empty \notin Bytes
      <4>1. \A u \in Writer, n \in Nat : Len(<<u, n>>) = 2
        OBVIOUS
      <4>2. Len(<< >>) = 0
        BY EmptySeq
      <4> QED
        BY <4>1, <4>2 DEF Bytes, Empty
    <3> QED
      BY <3>1, <3>2
  <2>4. /\ InOrder(stream) /\ \A r \in Reader : InOrder(Held(r))
        /\ \A w \in Writer : \A r, q \in Reader : r # q => Numbers(w, Held(r)) \cap Numbers(w, Held(q)) = {}
    BY <2>1 DEF StreamInv, Once
  <2>5. ASSUME NEW w \in Writer
        PROVE  \E before \in 0..Sent(w) :
                  /\ Numbers(w, stream) = before + 1 .. Sent(w)
                  /\ UNION {Numbers(w, Held(r)) : r \in Reader} = 1..before
    <3>1. PICK before \in 0..Sent(w) :
             /\ Numbers(w, stream) = before + 1 .. Sent(w)
             /\ UNION {Numbers(w, AllHeld[r]) : r \in Reader} = 1..before
      BY <2>2 DEF StreamInv, Once
    <3>2. UNION {Numbers(w, AllHeld[r]) : r \in Reader} = UNION {Numbers(w, Held(r)) : r \in Reader}
      BY <2>1
    <3> QED
      BY <3>1, <3>2
  <2> QED
    BY <2>1, <2>3, <2>4, <2>5 DEF OnceInOrder
<1> QED
  BY <1>1, StreamInvariant, PTL

\* A read() that returns less than it was asked for says that all data is over.
THEOREM ShortCorrect == StreamSpec => ShortOnlyAtEnd
<1> DEFINE Done(r) == call[r] = "read" /\ call'[r] = "ready" /\ remaining[r] > 0
           Over == writeEnd = {} /\ \A w \in Writer : 1..Sent(w) \subseteq
                      UNION {Numbers(w, Held(q)) : q \in Reader}
<1>1. ASSUME StreamInv, OnceInOrder, [StreamNext]_streamVars, NEW r \in Reader, Done(r)
      PROVE  Over
  <2>1. StreamTypes /\ r \in Thread /\ r \notin Writer
    BY <1>1, ThreadFacts DEF StreamInv
  <2>2. ReadEndOfFile(r)
    <3>1. ASSUME NEW w \in Writer, CallWrite(w)
          PROVE  FALSE
      BY <1>1, <2>1, <3>1 DEF CallWrite, Begin, Enter, StreamTypes
    <3>2. ASSUME NEW w \in Writer, WriteSome(w) \/ CloseWriteEnd(w)
          PROVE  FALSE
      BY <1>1, <3>2 DEF WriteSome, CloseWriteEnd
    <3>3. ASSUME NEW w \in Writer, Written(w)
          PROVE  FALSE
      BY <1>1, <2>1, <3>3 DEF Written, Return, Enter, StreamTypes
    <3>4. ASSUME NEW q \in Reader, CallRead(q)
          PROVE  FALSE
      BY <1>1, <2>1, <3>4 DEF CallRead, Begin, Enter, StreamTypes
    <3>5. ASSUME NEW q \in Reader, ReadSome(q)
          PROVE  FALSE
      BY <1>1, <3>5 DEF ReadSome
    <3>6. ASSUME NEW q \in Reader, ReadDone(q)
          PROVE  q = r
      BY <1>1, <2>1, <3>6 DEF ReadDone, Return, Enter, StreamTypes
    <3>7. ASSUME NEW t \in Thread, Throws(t)
          PROVE  FALSE
      BY <1>1, <2>1, <3>7 DEF Throws, Enter, StreamTypes
    <3>8. ~UNCHANGED streamVars
      BY <1>1 DEF streamVars
    <3>9. ~ReadReturns(r)
      <4>1. remaining[r] # 0
        BY <1>1, <2>1, TransferredFacts
      <4> QED
        BY <4>1 DEF ReadReturns
    <3> QED
      BY <1>1, <3>1, <3>2, <3>3, <3>4, <3>5, <3>6, <3>7, <3>8, <3>9
      DEF StreamNext, WriteStep, ReadStep, WriteReturns, WriteStops, ReadReturns, ReadEndOfFile
  <2>3. stream = << >> /\ writeEnd = {}
    BY <2>2 DEF ReadEndOfFile
  <2>4. ASSUME NEW w \in Writer
        PROVE  1..Sent(w) \subseteq UNION {Numbers(w, Held(q)) : q \in Reader}
    <3>1. PICK before \in 0..Sent(w) :
             /\ Numbers(w, stream) = before + 1 .. Sent(w)
             /\ UNION {Numbers(w, Held(q)) : q \in Reader} = 1..before
      BY <1>1 DEF OnceInOrder
    <3>2. Numbers(w, stream) = {}
      BY <2>3, NumbersEmpty
    <3>3. Sent(w) \in Nat
      BY <2>1, AllTypes DEF AllSent
    <3>4. before = Sent(w)
      <4>1. ~(before < Sent(w))
        <5>1. before < Sent(w) => Sent(w) \in before + 1 .. Sent(w)
          BY <3>1, <3>3
        <5> QED
          BY <3>1, <3>2, <5>1
      <4> QED
        BY <3>1, <3>3, <4>1
    <3> QED
      BY <3>1, <3>4
  <2> QED
    BY <2>3, <2>4
<1>2. StreamInv /\ OnceInOrder /\ [StreamNext]_streamVars =>
        [\A r \in Reader : Done(r) => Over]_streamVars
  BY <1>1
<1> QED
  BY <1>2, StreamInvariant, OnceCorrect, PTL DEF StreamSpec, ShortOnlyAtEnd
================================================================================
