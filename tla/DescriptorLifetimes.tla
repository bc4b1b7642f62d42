-------------------------- MODULE DescriptorLifetimes --------------------------
(***************************************************************************)
(* Which object closes which descriptor number.  Every descriptor class    *)
(* keeps the number the kernel gave it in fd_ and closes that number in    *)
(* its destructor; the kernel gives a freed number to the next open().     *)
(* Closing a number twice therefore closes somebody else's file.           *)
(*                                                                         *)
(* Actions are single system calls.  In an interleaved program objects     *)
(* belong to different threads, and a constructor or destructor may be     *)
(* preempted between two of its calls.  The flush of an asynchronous descriptor,     *)
(* which precedes ::close(fd_) in PosixDescriptor::close(), is the subject *)
(* of AsyncDescriptor.                                                     *)
(***************************************************************************)
EXTENDS Integers, FiniteSets

CONSTANTS
    Object,         \* descriptor objects; each lives once
    None,           \* a free number
    Stdin,          \* the file that number 0 may refer to when the program starts
    MaxFd,          \* bound on the numbers of the process
    Programs        \* the kinds of programs that use the library

AllClasses == {
    "FileDescriptor", "FifoDescriptor", "StreamSocketClientDescriptor",
    "DgramSocketClientDescriptor", "DgramSocketServerDescriptor", "StreamSocketServer",
    "StreamSocketServerDescriptor", "PosixDescriptor", "Pipe" }

ASSUME ObjectAssumption == None \notin Object /\ Stdin \notin Object /\ Stdin # None
ASSUME MaxFdAssumption  == MaxFd \in Nat

\* What a program does with the library: the classes it uses, those of them whose
\* connect(), bind() or listen() may fail, whether it calls close() on objects that it
\* destroys later, and whether objects belong to different threads.
Use == [classes : SUBSET AllClasses, failingSetup : SUBSET AllClasses,
        explicitClose : BOOLEAN, interleaved : BOOLEAN]

ASSUME ProgramAssumption == Programs \subseteq Use

Fd == 0..MaxFd
Error == -1

VARIABLES
    program,  \* the program that runs
    owner,    \* owner[n]: the object whose file number n refers to
    fd,       \* fd_ of each object
    class,    \* the class each object was constructed with
    pc,       \* the life of each object
    victims   \* history: those whose file was closed by another object

vars == <<program, owner, fd, class, pc, victims>>

Classes       == program.classes
FailingSetup  == program.failingSetup
ExplicitClose == program.explicitClose
Interleaved   == program.interleaved

\* "unwind": the constructor threw and ~PosixDescriptor() is still to run.
Phases == {"none", "setup", "live", "derived_dtor", "last_close", "unwind", "gone"}

Init ==
    /\ program \in Programs
    /\ \E file \in {None, Stdin} : owner = [n \in Fd |-> IF n = 0 THEN file ELSE None]
    /\ fd = [o \in Object |-> Error]
    /\ class = [o \in Object |-> "PosixDescriptor"]
    /\ pc = [o \in Object |-> "none"]
    /\ victims = {}

Goto(o, phase) == pc' = [pc EXCEPT ![o] = phase]

\* Not inside a constructor or destructor.
Idle == {"none", "live", "gone"}

\* In a program with one thread a constructor or destructor runs to its end.
Turn(o) == Interleaved \/ \A p \in Object \ {o} : pc[p] \in Idle

\* open(), socket(), accept(), dup() and pipe() return the lowest free number.
Lowest(n) == owner[n] = None /\ \A m \in Fd : m < n => owner[m] # None

\* ::close(fd_): closes whatever file the number refers to now.
CloseNumber(o) ==
    IF fd[o] \in Fd
    THEN /\ owner' = [owner EXCEPT ![fd[o]] = None]
         /\ victims' = victims \cup ({owner[fd[o]]} \ {o, None})
    ELSE UNCHANGED <<owner, victims>>

--------------------------------------------------------------------------------
(* Constructors.                                                             *)

\* A constructor of class c obtains number n and goes on with the given phase.
Obtain(o, c, n, phase) ==
    /\ c \in Classes
    /\ pc[o] = "none"
    /\ Turn(o)
    /\ Lowest(n)
    /\ owner' = [owner EXCEPT ![n] = o]
    /\ fd' = [fd EXCEPT ![o] = n]
    /\ class' = [class EXCEPT ![o] = c]
    /\ Goto(o, phase)
    /\ UNCHANGED <<program, victims>>

\* The first system call of a constructor fails: it throws with fd_ < 0.
\* StreamSocketServer has no base class and PosixDescriptor's own constructor has no
\* object to destroy.
OpenFails(o, c) ==
    /\ c \in Classes \ {"Pipe"}
    /\ pc[o] = "none"
    /\ Turn(o)
    /\ class' = [class EXCEPT ![o] = c]
    /\ Goto(o, IF c \in {"StreamSocketServer", "PosixDescriptor"} THEN "gone" ELSE "unwind")
    /\ UNCHANGED <<program, owner, fd, victims>>

\* open() followed by the test fd_ <= 0.
FileDescriptor(o) ==
    \E n \in Fd : Obtain(o, "FileDescriptor", n, IF n <= 0 THEN "unwind" ELSE "live")

FifoDescriptor(o) ==
    \E n \in Fd : Obtain(o, "FifoDescriptor", n, IF n <= 0 THEN "unwind" ELSE "live")

\* socket(); connect() comes next.
StreamSocketClientDescriptor(o) ==
    \E n \in Fd : Obtain(o, "StreamSocketClientDescriptor", n, "setup")

DgramSocketClientDescriptor(o) ==
    \E n \in Fd : Obtain(o, "DgramSocketClientDescriptor", n, "setup")

\* socket(); bind() comes next.
DgramSocketServerDescriptor(o) ==
    \E n \in Fd : Obtain(o, "DgramSocketServerDescriptor", n, "setup")

\* socket(); bind() and listen() come next.
StreamSocketServer(o) ==
    \E n \in Fd : Obtain(o, "StreamSocketServer", n, "setup")

\* accept() on a StreamSocketServer.
StreamSocketServerDescriptor(o) ==
    /\ \E s \in Object : pc[s] = "live" /\ class[s] = "StreamSocketServer"
    /\ \E n \in Fd : Obtain(o, "StreamSocketServerDescriptor", n, "live")

\* connect(), or bind() and listen(), succeed.
SetupSucceeds(o) ==
    /\ pc[o] = "setup"
    /\ Goto(o, "live")
    /\ UNCHANGED <<program, owner, fd, class, victims>>

\* Mutant of SetupFails: the error path does not close the socket.
SetupFails_KeepsOpen(o) ==
    /\ pc[o] = "setup"
    /\ class[o] \in FailingSetup
    /\ Goto(o, IF class[o] = "StreamSocketServer" THEN "gone" ELSE "unwind")
    /\ UNCHANGED <<program, owner, victims, fd, class>>

\* connect(), bind() or listen() fails: ::close(fd_), then throw.
SetupFails(o) ==
    /\ pc[o] = "setup"
    /\ class[o] \in FailingSetup
    /\ CloseNumber(o)
    /\ Goto(o, IF class[o] = "StreamSocketServer" THEN "gone" ELSE "unwind")
    /\ UNCHANGED <<program, fd, class>>

\* Any PosixDescriptor may be copied as one, a DgramSocketServerDescriptor by slicing.
Copyable(o) == pc[o] = "live" /\ class[o] # "StreamSocketServer"

\* The two socket servers cannot be assigned to.
Assignable(o) == Copyable(o) /\ class[o] # "DgramSocketServerDescriptor"

\* Mutant of CopyFrom: the number is copied without dup().
CopyFrom_SharesNumber(o, source) ==
    /\ "PosixDescriptor" \in Classes
    /\ Copyable(source)
    /\ pc[o] = "none"
    /\ Turn(o)
    /\ fd' = [fd EXCEPT ![o] = fd[source]]
    /\ class' = [class EXCEPT ![o] = "PosixDescriptor"]
    /\ Goto(o, "live")
    /\ UNCHANGED <<program, owner, victims>>

\* The copy constructor: dup() of the number the source keeps in fd_.
CopyFrom(o, source) ==
    /\ Copyable(source)
    /\ owner[fd[source]] # None
    /\ \E n \in Fd : Obtain(o, "PosixDescriptor", n, "live")

\* operator=: dup2() closes what the target's number refers to.
Assign(o, source) ==
    /\ "PosixDescriptor" \in Classes
    /\ Assignable(o) /\ Copyable(source)
    /\ Turn(o)
    /\ owner[fd[source]] # None /\ fd[source] # fd[o]
    /\ owner' = [owner EXCEPT ![fd[o]] = o]
    /\ victims' = victims \cup ({owner[fd[o]]} \ {o, None})
    /\ UNCHANGED <<program, fd, class, pc>>

\* pipe() gives two numbers at once, kept by two descriptors.
Pipe(r, w) ==
    /\ "Pipe" \in Classes
    /\ r # w /\ pc[r] = "none" /\ pc[w] = "none"
    /\ Turn(r) /\ Turn(w)
    /\ \E n, m \in Fd :
        /\ Lowest(n)
        /\ n < m /\ owner[m] = None /\ \A k \in Fd : n < k /\ k < m => owner[k] # None
        /\ owner' = [owner EXCEPT ![n] = r, ![m] = w]
        /\ fd' = [fd EXCEPT ![r] = n, ![w] = m]
    /\ class' = [class EXCEPT ![r] = "Pipe", ![w] = "Pipe"]
    /\ pc' = [pc EXCEPT ![r] = "live", ![w] = "live"]
    /\ UNCHANGED <<program, victims>>

--------------------------------------------------------------------------------
(* close() and destructors.                                                  *)

\* The program calls close() on an object; fd_ keeps its value.
Close(o) ==
    /\ ExplicitClose
    /\ pc[o] = "live"
    /\ Turn(o)
    /\ CloseNumber(o)
    /\ UNCHANGED <<program, fd, class, pc>>

\* The program destroys an object.
Destroy(o) ==
    /\ pc[o] = "live"
    /\ Turn(o)
    /\ Goto(o, IF class[o] = "DgramSocketServerDescriptor" THEN "derived_dtor" ELSE "last_close")
    /\ UNCHANGED <<program, owner, fd, class, victims>>

\* ~DgramSocketServerDescriptor() closes before its base class does.
DerivedDtor(o) ==
    /\ pc[o] = "derived_dtor"
    /\ CloseNumber(o)
    /\ Goto(o, "last_close")
    /\ UNCHANGED <<program, fd, class>>

\* ~PosixDescriptor() or ~StreamSocketServer().
LastClose(o) ==
    /\ pc[o] \in {"last_close", "unwind"}
    /\ CloseNumber(o)
    /\ Goto(o, "gone")
    /\ UNCHANGED <<program, fd, class>>

Construct(o) ==
    \/ FileDescriptor(o) \/ FifoDescriptor(o)
    \/ StreamSocketClientDescriptor(o) \/ DgramSocketClientDescriptor(o)
    \/ DgramSocketServerDescriptor(o) \/ StreamSocketServer(o)
    \/ StreamSocketServerDescriptor(o)

Next == \E o \in Object :
    \/ Construct(o)
    \/ \E c \in Classes : OpenFails(o, c)
    \/ SetupSucceeds(o) \/ SetupFails(o)
    \/ \E p \in Object : CopyFrom(o, p) \/ Assign(o, p) \/ Pipe(o, p)
    \/ Close(o) \/ Destroy(o) \/ DerivedDtor(o) \/ LastClose(o)

Spec == Init /\ [][Next]_vars

--------------------------------------------------------------------------------
Owner == Object \cup {None, Stdin}

TypeOK ==
    /\ program \in Programs
    /\ owner \in [Fd -> Owner]
    /\ fd \in [Object -> Fd \cup {Error}]
    /\ class \in [Object -> AllClasses]
    /\ pc \in [Object -> Phases]
    /\ victims \subseteq Owner \ {None}
    /\ \A o \in Object : pc[o] \in {"setup", "live", "derived_dtor"} => fd[o] \in Fd

\* The programs for which the library is safe: they leave close() to the destructors and
\* have one thread, or use no class that closes its number twice.
SafeUse ==
    /\ ~ExplicitClose
    /\ ~Interleaved \/ ("DgramSocketServerDescriptor" \notin Classes
                        /\ FailingSetup \subseteq {"StreamSocketServer"})

\* No constructor, destructor or assignment closes a file that belongs to another object,
\* or to the program, although two classes close their number twice.
NoForeignClose == SafeUse => victims = {}

\* A live object's number refers to its own file: no read() or write() goes to the
\* file of another object.
LiveOwnsItsNumber ==
    SafeUse => \A o \in Object : pc[o] = "live" => fd[o] \in Fd /\ owner[fd[o]] = o

\* No number stays open for an object that is gone, however it went.
NoLeak == \A n \in Fd : owner[n] \in Object => pc[owner[n]] # "gone"

\* An object's file can only be reached through the number in its fd_.
NumberInv ==
    \A n \in Fd : owner[n] \in Object =>
        fd[owner[n]] = n /\ pc[owner[n]] \notin {"none", "gone"}

\* An object that will close its number owns it, unless it has closed it already and no
\* other thread can have taken it.
Owns(o) ==
    /\ pc[o] \in {"setup", "live", "derived_dtor"} => owner[fd[o]] = o
    /\ pc[o] \in {"last_close", "unwind"} /\ fd[o] \in Fd =>
            owner[fd[o]] = o \/ (owner[fd[o]] = None /\ ~Interleaved)
    /\ pc[o] = "none" => fd[o] = Error

OwnInv == \A o \in Object : Owns(o)

\* What the single-threaded use of the library keeps: at most one object is in a
\* constructor or destructor.
OneAtATime ==
    ~Interleaved => \A o, p \in Object :
        o # p => pc[o] \in Idle \/ pc[p] \in Idle

\* Every class that reaches a DerivedDtor or a failing setup is one the program uses.
ClassInv == \A o \in Object :
    /\ pc[o] = "derived_dtor" => class[o] = "DgramSocketServerDescriptor"
    /\ pc[o] # "none" => class[o] \in Classes

\* The inductive invariant.
IInv ==
    /\ TypeOK /\ NumberInv /\ NoForeignClose
    /\ SafeUse => OwnInv /\ OneAtATime /\ ClassInv

--------------------------------------------------------------------------------
(* What comments say and the code does not do.                               *)

\* A descriptor "is closed by the destructor", or explicitly by the program: whatever the
\* program does, an object closes its own number and no other object's.
ClosesOnlyItsOwn == victims = {}

\* "@exception runtime_error if the ::open() returns an error": a file or fifo whose
\* open() succeeded is not refused.
ThrowsOnlyOnError ==
    \A o \in Object : pc[o] = "unwind" /\ class[o] \in {"FileDescriptor", "FifoDescriptor"}
        => fd[o] = Error
================================================================================
