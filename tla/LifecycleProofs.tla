----------------------------- MODULE LifecycleProofs -----------------------------
(***************************************************************************)
(* Proofs about the two things that objects of the library start, stop and *)
(* wait for: the thread of an AbstractThread whose clients start() again   *)
(* only after a waitForTermination(), for any number of clients and of     *)
(* threads; and the processes of any number of Process objects, copied by  *)
(* fork() in any way: what every copy of an object says is true of the     *)
(* process it was made for, until the kernel gives its pid out again, and  *)
(* which objects keep the kernel from it.                                  *)
(***************************************************************************)
EXTENDS AbstractThread, Process, TLAPS

--------------------------------------------------------------------------------
(* The thread of an AbstractThread.                                          *)

\* The invariant of the thread holds at the start.
LEMMA InvInit == Init => IInv
  BY DisciplineAssumption
  DEF Init, IInv, TypeOK, CallInv, OwedInv, CancelInv, Alive, Calls, ThreadStates, None

\* Every variable keeps its type, and a call on handle_ finds it set.
LEMMA TypeStep ==
    ASSUME Disciplined, IInv, [Next]_vars
    PROVE  TypeOK'
<1> USE DEF Calls, ThreadStates, Goto
<1>1. TypeOK /\ OwedInv /\ CallInv
  BY DEF IInv
<1>2. ASSUME NEW c \in Client, Create(c)
      PROVE  TypeOK'
  <2>1. pc' = [pc EXCEPT ![c] = "ready"] /\ UNCHANGED <<cancelled, destroyed>>
    BY <1>2 DEF Create
  <2>2. CASE UNCHANGED <<thread, handle, isStarted, owed>>
    BY <1>1, <2>1, <2>2 DEF TypeOK
  <2>3. ASSUME NEW i \in PThread, thread' = [thread EXCEPT ![i] = "created"], handle' = i,
               isStarted' = TRUE, owed' = TRUE
        PROVE  TypeOK'
    <3>1. i # None
      BY DEF None, PThread
    <3> QED
      BY <1>1, <2>1, <2>3, <3>1 DEF TypeOK
  <2> QED
    BY <1>2, <2>2, <2>3 DEF Create
<1>3. ASSUME NEW c \in Client, Start(c) \/ Stop(c) \/ Wait(c) \/ Destroy(c)
      PROVE  TypeOK'
  BY <1>1, <1>3 DEF TypeOK, OwedInv, Start, Stop, Wait, Destroy
<1>4. ASSUME NEW c \in Client, CancelThread(c)
      PROVE  TypeOK'
  BY <1>1, <1>4 DEF TypeOK, CancelThread, None
<1>5. ASSUME NEW c \in Client, Join(c) \/ WaitReturns(c)
      PROVE  TypeOK'
  BY <1>1, <1>5 DEF TypeOK, Join, WaitReturns
<1>6. ASSUME NEW i \in PThread, Run(i) \/ End(i)
      PROVE  TypeOK'
  BY <1>1, <1>6 DEF TypeOK, Run, End
<1>7. CASE UNCHANGED vars
  BY <1>1, <1>7 DEF TypeOK, vars
<1> QED
  BY <1>2, <1>3, <1>4, <1>5, <1>6, <1>7 DEF Next, ClientStep

\* At most one client creates or waits, and only it settles what is owed.
LEMMA OwedStep ==
    ASSUME Disciplined, IInv, [Next]_vars
    PROVE  CallInv' /\ OwedInv'
<1>1. TypeOK /\ OwedInv /\ CallInv /\ TypeOK'
  BY TypeStep DEF IInv
<1>2. ASSUME NEW c \in Client, Start(c)
      PROVE  CallInv' /\ OwedInv'
  BY <1>1, <1>2 DEF TypeOK, CallInv, OwedInv, Start, Goto, Free, Quiescent
<1>3. ASSUME NEW c \in Client, Create(c)
      PROVE  CallInv' /\ OwedInv'
  <2>1. /\ ~owed /\ ~destroyed /\ ~isStarted
        /\ \A d \in Client : d # c => pc[d] = "ready"
        /\ \A i \in PThread : thread[i] \in {"absent", "joined"}
        /\ pc' = [pc EXCEPT ![c] = "ready"]
    BY <1>1, <1>3 DEF CallInv, OwedInv, Create, Goto
  <2>2. /\ \A d \in Client : pc'[d] = "ready"
        /\ ~destroyed'
    BY <1>1, <1>3, <2>1 DEF TypeOK, Create
  <2>3. CallInv'
    BY <2>2 DEF CallInv
  <2>4. CASE UNCHANGED <<thread, handle, isStarted, owed>>
    BY <1>1, <2>1, <2>2, <2>3, <2>4 DEF OwedInv, TypeOK
  <2>5. ASSUME NEW i \in PThread, thread' = [thread EXCEPT ![i] = "created"], handle' = i, owed'
        PROVE  OwedInv'
    <3>1. thread'[i] = "created" /\ \A k \in PThread : k # i => thread'[k] = thread[k]
      BY <1>1, <2>5 DEF TypeOK
    <3>2. i # None
      BY DEF None, PThread
    <3> QED
      BY <2>1, <2>2, <2>5, <3>1, <3>2 DEF OwedInv
  <2> QED
    BY <1>3, <2>3, <2>4, <2>5 DEF Create
<1>4. ASSUME NEW c \in Client, Stop(c)
      PROVE  CallInv' /\ OwedInv'
  BY <1>1, <1>4 DEF TypeOK, CallInv, OwedInv, Stop, Goto, Free
<1>5. ASSUME NEW c \in Client, CancelThread(c)
      PROVE  CallInv' /\ OwedInv'
  <2>1. UNCHANGED <<isStarted, handle, thread, owed>> /\ pc[c] \in {"cancel", "delete"} /\ ~destroyed
    BY <1>1, <1>5 DEF CancelThread, OwedInv
  <2>2. PICK call \in {"ready", "crashed"} : pc' = [pc EXCEPT ![c] = call]
    BY <1>5 DEF CancelThread, Goto
  <2>3. CallInv'
    BY <1>1, <2>1, <2>2 DEF TypeOK, CallInv
  <2>4. CASE pc[c] = "cancel"
    <3>1. ~destroyed'
      BY <1>5, <2>1, <2>4 DEF CancelThread
    <3>2. \A d \in Client : pc[d] = "joined" => pc'[d] = "joined"
      BY <1>1, <2>2, <2>4 DEF TypeOK
    <3> QED
      BY <1>1, <2>1, <2>3, <3>1, <3>2 DEF OwedInv
  <2>5. CASE pc[c] = "delete"
    <3>1. owed /\ ~isStarted /\ \A d \in Client : d # c => pc[d] = "ready"
      BY <1>1, <2>5 DEF CallInv
    <3>2. \A d \in Client : pc[d] # "joined"
      BY <2>5, <3>1
    <3>3. thread[handle] \in {"created", "running", "ended"}
      BY <1>1, <3>1, <3>2 DEF OwedInv
    <3>4. pc' = [pc EXCEPT ![c] = "ready"]
      BY <1>5, <3>3 DEF CancelThread, Goto
    <3>5. \A d \in Client : pc'[d] = "ready"
      BY <1>1, <3>1, <3>4 DEF TypeOK
    <3> QED
      BY <1>1, <2>1, <2>3, <3>1, <3>3, <3>5 DEF OwedInv
  <2> QED
    BY <2>1, <2>3, <2>4, <2>5
<1>6. ASSUME NEW c \in Client, Wait(c)
      PROVE  CallInv' /\ OwedInv'
  BY <1>1, <1>6 DEF TypeOK, CallInv, OwedInv, Wait, Goto, Free
<1>7. ASSUME NEW c \in Client, Join(c)
      PROVE  CallInv' /\ OwedInv'
  <2>1. /\ owed /\ ~destroyed /\ handle \in PThread /\ UNCHANGED <<isStarted, handle, owed, destroyed>>
        /\ \A d \in Client : pc[d] \notin {"create", "delete"}
        /\ \A d \in Client : d # c => pc[d] \notin {"join", "joined"}
    BY <1>1, <1>7 DEF TypeOK, CallInv, OwedInv, Join
  <2>2. /\ pc'[c] = "joined" /\ \A d \in Client : d # c => pc'[d] = pc[d]
        /\ thread'[handle] = "joined" /\ \A i \in PThread : i # handle => thread'[i] = thread[i]
    BY <1>1, <1>7, <2>1 DEF TypeOK, Join, Goto
  <2>3. CallInv'
    BY <1>1, <2>1, <2>2 DEF CallInv
  <2>4. OwedInv'
    BY <1>1, <2>1, <2>2 DEF OwedInv
  <2> QED
    BY <2>3, <2>4
<1>8. ASSUME NEW c \in Client, WaitReturns(c)
      PROVE  CallInv' /\ OwedInv'
  <2>1. /\ owed /\ ~owed' /\ ~isStarted' /\ ~destroyed /\ thread[handle] = "joined"
        /\ UNCHANGED <<handle, thread, destroyed>>
        /\ \A d \in Client : pc[d] \notin {"create", "delete"}
        /\ \A d \in Client : d # c => pc[d] \notin {"join", "joined"}
    BY <1>1, <1>8 DEF TypeOK, CallInv, OwedInv, WaitReturns
  <2>2. pc'[c] = "ready" /\ \A d \in Client : d # c => pc'[d] = pc[d]
    BY <1>1, <1>8 DEF TypeOK, WaitReturns, Goto
  <2>3. CallInv'
    BY <1>1, <2>1, <2>2 DEF CallInv
  <2>4. OwedInv'
    BY <1>1, <2>1, <2>2 DEF OwedInv
  <2> QED
    BY <2>3, <2>4
<1>9. ASSUME NEW c \in Client, Destroy(c)
      PROVE  CallInv' /\ OwedInv'
  BY <1>1, <1>9 DEF TypeOK, CallInv, OwedInv, Destroy, Goto, Free
<1>10. ASSUME NEW i \in PThread, Run(i) \/ End(i)
       PROVE  CallInv' /\ OwedInv'
  <2>1. /\ thread[i] \in {"created", "running"}
        /\ \E state \in {"running", "ended"} : thread' = [thread EXCEPT ![i] = state]
        /\ UNCHANGED <<pc, isStarted, handle, cancelled, owed, destroyed>>
    BY <1>10 DEF Run, End
  <2>2. owed /\ i = handle
    BY <1>1, <2>1 DEF OwedInv
  <2> QED
    BY <1>1, <2>1, <2>2 DEF TypeOK, CallInv, OwedInv
<1>11. CASE UNCHANGED vars
  BY <1>1, <1>11 DEF IInv, CallInv, OwedInv, vars
<1> QED
  BY <1>1, <1>2, <1>3, <1>4, <1>5, <1>6, <1>7, <1>8, <1>9, <1>10, <1>11 DEF Next, ClientStep

\* The flag is reset by a client that cancels the thread before it is in no call again, or
\* that has joined it.
LEMMA CancelStep ==
    ASSUME Disciplined, IInv, [Next]_vars
    PROVE  CancelInv'
<1>1. TypeOK /\ OwedInv /\ CallInv /\ CancelInv
  BY DEF IInv
<1>2. ASSUME UNCHANGED <<thread, isStarted, cancelled>>,
             \A c \in Client : pc[c] \in {"cancel", "delete"} => pc'[c] = pc[c]
      PROVE  CancelInv'
  BY <1>1, <1>2 DEF CancelInv, Alive
<1>3. ASSUME NEW c \in Client, Start(c) \/ Wait(c)
      PROVE  CancelInv'
  <2>1. UNCHANGED <<thread, isStarted, cancelled>> /\ pc[c] = "ready" /\ \E call \in Calls : Goto(c, call)
    BY <1>3 DEF Start, Wait, Free, Calls
  <2> QED
    BY <1>1, <1>2, <2>1 DEF TypeOK, Goto
<1>4. ASSUME NEW c \in Client, Create(c)
      PROVE  CancelInv'
  <2>1. pc[c] = "create" /\ pc' = [pc EXCEPT ![c] = "ready"] /\ UNCHANGED cancelled
    BY <1>4 DEF Create, Goto
  <2>2. CASE UNCHANGED <<thread, isStarted>>
    BY <1>1, <1>2, <2>1, <2>2 DEF TypeOK
  <2>3. CASE isStarted' = TRUE
    BY <2>3 DEF CancelInv
  <2> QED
    BY <1>4, <2>2, <2>3 DEF Create
<1>5. ASSUME NEW c \in Client, Stop(c)
      PROVE  CancelInv'
  <2>1. pc'[c] = "cancel"
    BY <1>1, <1>5 DEF Stop, Goto, TypeOK
  <2> QED
    BY <2>1 DEF CancelInv
<1>6. ASSUME NEW c \in Client, CancelThread(c)
      PROVE  CancelInv'
  <2>1. ASSUME NEW i \in PThread, Alive(i)'
        PROVE  i \in cancelled'
    <3>1. Alive(i) /\ UNCHANGED thread
      BY <1>6, <2>1 DEF CancelThread, Alive
    <3>2. i = handle
      BY <1>1, <3>1 DEF OwedInv, Alive
    <3> QED
      BY <1>6, <3>1, <3>2 DEF CancelThread
  <2> QED
    BY <2>1 DEF CancelInv
<1>7. ASSUME NEW c \in Client, Join(c)
      PROVE  CancelInv'
  <2>1. /\ pc[c] = "join" /\ pc' = [pc EXCEPT ![c] = "joined"] /\ UNCHANGED <<isStarted, cancelled>>
        /\ \A i \in PThread : Alive(i)' => Alive(i)
    BY <1>1, <1>7 DEF Join, Goto, Alive, TypeOK
  <2> QED
    BY <1>1, <2>1 DEF CancelInv, TypeOK
<1>8. ASSUME NEW c \in Client, WaitReturns(c)
      PROVE  CancelInv'
  <2>1. thread' = thread /\ \A i \in PThread : thread[i] \in {"absent", "joined"}
    BY <1>1, <1>8 DEF WaitReturns, CallInv, OwedInv
  <2> QED
    BY <2>1 DEF CancelInv, Alive
<1>9. ASSUME NEW c \in Client, Destroy(c)
      PROVE  CancelInv'
  <2>1. UNCHANGED <<thread, cancelled>> /\ \A d \in Client : pc[d] = "ready"
    BY <1>9 DEF Destroy
  <2>2. CASE isStarted
    <3>1. pc'[c] = "delete"
      BY <1>1, <1>9, <2>2 DEF Destroy, Goto, TypeOK
    <3> QED
      BY <3>1 DEF CancelInv
  <2>3. CASE ~isStarted
    <3>1. UNCHANGED <<isStarted, pc>>
      BY <1>9, <2>3 DEF Destroy
    <3> QED
      BY <1>2, <2>1, <3>1
  <2> QED
    BY <2>2, <2>3
<1>10. ASSUME NEW i \in PThread, Run(i) \/ End(i)
       PROVE  CancelInv'
  <2>1. UNCHANGED <<pc, isStarted, cancelled>> /\ \A k \in PThread : Alive(k)' => Alive(k)
    BY <1>1, <1>10 DEF Run, End, Alive, TypeOK
  <2> QED
    BY <1>1, <2>1 DEF CancelInv
<1>11. CASE UNCHANGED vars
  BY <1>2, <1>11 DEF vars
<1> QED
  BY <1>3, <1>4, <1>5, <1>6, <1>7, <1>8, <1>9, <1>10, <1>11 DEF Next, ClientStep

\* Every step keeps the invariant.
LEMMA InvStep ==
    ASSUME Disciplined, IInv, [Next]_vars
    PROVE  IInv'
  BY TypeStep, OwedStep, CancelStep DEF IInv

\* The strengthened invariant, from which the theorems follow.
THEOREM Invariant ==
    ASSUME Disciplined
    PROVE  Spec => []IInv
<1>1. IInv /\ [Next]_vars => IInv'
  BY InvStep
<1> QED
  BY <1>1, InvInit, PTL DEF Spec

\* No two threads of one object are in run(), however many clients stop() it.
THEOREM OneRunCorrect ==
    ASSUME Disciplined
    PROVE  Spec => []OneRun
<1>1. IInv => OneRun
  BY DEF IInv, OwedInv, OneRun, Alive
<1> QED
  BY <1>1, Invariant, PTL

\* A thread that the destructor leaves behind, whoever called stop() and whether or not it was
\* waited for, has been asked to end.
THEOREM DestroyCorrect ==
    ASSUME Disciplined
    PROVE  Spec => []LeftMeansStopped
<1>1. IInv => LeftMeansStopped
  BY DEF IInv, OwedInv, CancelInv, LeftMeansStopped
<1> QED
  BY <1>1, Invariant, PTL

\* isStarted_ never promises a thread that was joined.
THEOREM FlagCorrect ==
    ASSUME Disciplined
    PROVE  Spec => []StartedHasThread
<1>1. IInv => StartedHasThread
  BY DEF IInv, OwedInv, StartedHasThread
<1> QED
  BY <1>1, Invariant, PTL

--------------------------------------------------------------------------------
(* The processes of Process objects.                                         *)

\* The types, without what ProcessTypeOK says of parents; a process that waits to be reaped has
\* ended in one of the two ways.
Types ==
    /\ memory \in [Pid -> [Object -> Objects]]
    /\ life \in [Pid -> Lives]
    /\ parent \in [Pid -> Pid \cup {Nobody}]
    /\ mine \in [Pid -> Object \cup {Nobody}]
    /\ used \subseteq Pid
    /\ fate \in [Pid -> {"none", "alive"} \cup Ends]
    /\ recycled \subseteq used
    /\ own \in [Pid -> SUBSET Object]
    /\ careless \subseteq Pid
    /\ \A k \in Pid : life[k] = "zombie" => fate[k] \in Ends

\* Only pids that were given out are in use, and only processes of the program reap.
LifeInv ==
    /\ \A k \in Pid : life[k] # "free" => k \in used
    /\ \A k \in Pid : parent[k] # Nobody /\ life[k] # "free" => Living(parent[k])

\* Wherever fork() has copied it to, an object that was constructed has the pid of the
\* process it was made for, until the pid is given out again.
OwnPid ==
    \A k \in Pid, o \in Object :
        memory[k][o].made =>
            /\ memory[k][o].pid \in used
            /\ memory[k][o].pid \notin recycled => mine[memory[k][o].pid] = o

\* A status is that of a process which is gone, so that no step can change it.
Reaped ==
    \A k \in Pid, o \in Object :
        memory[k][o].status # "zero" =>
            /\ memory[k][o].made
            /\ memory[k][o].pid \notin recycled =>
                 life[memory[k][o].pid] = "free" /\ memory[k][o].status = fate[memory[k][o].pid]

\* The pid of o is in use, by the process that o was made for: k itself, or a child that only
\* k can reap.
Kept(k, o) ==
    LET pid == memory[k][o].pid IN
    /\ mine[pid] = o
    /\ life[pid] # "free"
    /\ IF memory[k][o].isChild THEN pid = k ELSE parent[pid] = k

Guarded(k, o) == Living(k) /\ memory[k][o].made /\ Unreaped(k, o)

\* An object of its own that a careful process has not reaped keeps its pid; a process of
\* another program is nobody's object.
KeptInv ==
    /\ \A k \in Pid, o \in Object : Guarded(k, o) => Kept(k, o)
    /\ \A k \in Pid : life[k] = "other" => mine[k] = Nobody

\* The lives of the processes that the program started and that have not ended.
Running == {"function", "execvp", "program", "image"}

\* Nobody is neither a process nor an object.
LEMMA NobodyFacts == Nobody \notin Pid /\ Nobody \notin Object /\ Root \in Pid
  BY NobodyAssumption

\* What the types say of one object in the memory of one process.
LEMMA TypeFacts ==
    ASSUME Types, NEW k \in Pid, NEW o \in Object
    PROVE  /\ memory[k] \in [Object -> Objects] /\ memory[k][o] \in Objects
           /\ memory[k][o].pid \in Pid \cup {Nobody}
           /\ memory[k][o].status \in {"zero"} \cup Ends
           /\ memory[k][o].made \in BOOLEAN
  BY DEF Types, Objects

\* New objects have no status; the one that fork() fills in is an object.
LEMMA NewObjects ==
    /\ NoMemory \in [Object -> Objects]
    /\ \A o \in Object : NoMemory[o].status = "zero" /\ ~NoMemory[o].made
    /\ \A c \in Pid, isChild \in BOOLEAN : Made(c, isChild) \in Objects
  BY DEF NoMemory, Unmade, Made, Objects

\* The invariant of the processes holds at the start.
LEMMA ProcessInitTypes == ProcessInit => Types /\ LifeInv
<1> SUFFICES ASSUME ProcessInit PROVE Types /\ LifeInv
  OBVIOUS
<1>1. memory \in [Pid -> [Object -> Objects]]
  BY NewObjects DEF ProcessInit
<1>2. Types
  BY <1>1, NobodyFacts DEF ProcessInit, Types, Lives
<1> QED
  BY <1>2 DEF ProcessInit, LifeInv

--------------------------------------------------------------------------------
(* What the operators of Process do.                                         *)

\* A constructor leaves the object in its process and in the new one, whose memory is a
\* copy for the rest.
Forked(k, c, o) ==
    /\ memory' \in [Pid -> [Object -> Objects]]
    /\ memory'[k][o] = Made(c, FALSE) /\ memory'[c][o] = Made(c, TRUE)
    /\ \A p \in Object \ {o} : memory'[k][p] = memory[k][p] /\ memory'[c][p] = memory[k][p]
    /\ \A j \in Pid \ {k, c} : memory'[j] = memory[j]

\* What fork() copies.
LEMMA ForkMemory ==
    ASSUME Types, NEW k \in Pid, NEW c \in Pid, k # c, NEW o \in Object,
           memory' = [memory EXCEPT ![k][o] = Made(c, FALSE),
                                    ![c] = [memory[k] EXCEPT ![o] = Made(c, TRUE)]]
    PROVE  Forked(k, c, o)
<1>1. /\ memory'[k] = [memory[k] EXCEPT ![o] = Made(c, FALSE)]
      /\ memory'[c] = [memory[k] EXCEPT ![o] = Made(c, TRUE)]
      /\ \A j \in Pid \ {k, c} : memory'[j] = memory[j]
      /\ DOMAIN memory' = Pid /\ memory' = [j \in Pid |-> memory'[j]]
  BY DEF Types
<1>2. memory[k] \in [Object -> Objects] /\ Made(c, FALSE) \in Objects /\ Made(c, TRUE) \in Objects
  BY NewObjects DEF Types
<1>3. memory'[k] \in [Object -> Objects] /\ memory'[c] \in [Object -> Objects]
  BY <1>1, <1>2
<1>4. memory' \in [Pid -> [Object -> Objects]]
  BY <1>1, <1>3 DEF Types
<1>5. /\ memory'[k][o] = Made(c, FALSE) /\ memory'[c][o] = Made(c, TRUE)
      /\ \A p \in Object \ {o} : memory'[k][p] = memory[k][p] /\ memory'[c][p] = memory[k][p]
  BY <1>1, <1>2
<1> QED
  BY <1>1, <1>4, <1>5 DEF Forked

\* waitpid() changes the status of one object, and only when it reaps.
LEMMA WaitMemory ==
    ASSUME Types, NEW k \in Pid, NEW o \in Object, WaitPid(k, o, memory[k][o].pid)
    PROVE  /\ memory' \in [Pid -> [Object -> Objects]]
           /\ \A j \in Pid, p \in Object :
                /\ memory'[j][p].pid = memory[j][p].pid /\ memory'[j][p].made = memory[j][p].made
                /\ memory'[j][p].isChild = memory[j][p].isChild
                /\ j # k \/ p # o => memory'[j][p].status = memory[j][p].status
           /\ \/ memory'[k][o].status = memory[k][o].status /\ UNCHANGED life
              \/ LET c == memory[k][o].pid IN
                 /\ c \in Pid /\ life[c] = "zombie" /\ parent[c] = k
                 /\ life' = [life EXCEPT ![c] = "free"]
                 /\ memory'[k][o].status = fate[c]
<1> DEFINE c == memory[k][o].pid
<1>1. c \in Pid \cup {Nobody} /\ memory[k][o] \in Objects
  BY TypeFacts
<1>2. CASE c # Nobody /\ life[c] = "zombie" /\ parent[c] = k
  <2>1. /\ memory' = [memory EXCEPT ![k][o].status = fate[c], ![k][o].running = FALSE]
        /\ life' = [life EXCEPT ![c] = "free"]
    BY <1>2 DEF WaitPid
  <2>2. c \in Pid /\ fate[c] \in Ends
    BY <1>1, <1>2 DEF Types
  <2> HIDE DEF c
  <2> DEFINE new == [memory[k][o] EXCEPT !.status = fate[c], !.running = FALSE]
  <2>3. /\ new \in Objects /\ new.status = fate[c]
        /\ new.pid = memory[k][o].pid /\ new.made = memory[k][o].made
        /\ new.isChild = memory[k][o].isChild
    BY <1>1, <2>2 DEF Objects
  <2>4. memory' = [memory EXCEPT ![k] = [memory[k] EXCEPT ![o] = new]]
    BY <2>1 DEF Types
  <2> HIDE DEF new
  <2>5. /\ memory' \in [Pid -> [Object -> Objects]] /\ memory'[k][o] = new
        /\ \A j \in Pid, p \in Object : j # k \/ p # o => memory'[j][p] = memory[j][p]
    BY <2>3, <2>4 DEF Types
  <2> QED
    BY <1>2, <2>1, <2>2, <2>3, <2>5 DEF c
<1>3. CASE ~(c # Nobody /\ life[c] = "zombie" /\ parent[c] = k)
  <2>1. memory' = [memory EXCEPT ![k][o].running = FALSE] /\ UNCHANGED life
    BY <1>3 DEF WaitPid
  <2> HIDE DEF c
  <2> DEFINE new == [memory[k][o] EXCEPT !.running = FALSE]
  <2>2. /\ new \in Objects /\ new.status = memory[k][o].status
        /\ new.pid = memory[k][o].pid /\ new.made = memory[k][o].made
        /\ new.isChild = memory[k][o].isChild
    BY <1>1 DEF Objects
  <2>3. memory' = [memory EXCEPT ![k] = [memory[k] EXCEPT ![o] = new]]
    BY <2>1 DEF Types
  <2> HIDE DEF new
  <2>4. /\ memory' \in [Pid -> [Object -> Objects]] /\ memory'[k][o] = new
        /\ \A j \in Pid, p \in Object : j # k \/ p # o => memory'[j][p] = memory[j][p]
    BY <2>2, <2>3 DEF Types
  <2> QED
    BY <2>1, <2>2, <2>4
<1> QED
  BY <1>2, <1>3

\* The end of processes loses their memory, and leaves the others and the dead as they are.
LEMMA EndEffect ==
    ASSUME Types, LifeInv, NEW S \in SUBSET Pid, \A c \in S : Living(c),
           NEW how \in Ends, EndAll(S, how)
    PROVE  /\ memory' \in [Pid -> [Object -> Objects]]
           /\ \A k \in Pid : memory'[k] = NoMemory \/ memory'[k] = memory[k]
           /\ life' \in [Pid -> Lives] /\ fate' \in [Pid -> {"none", "alive"} \cup Ends]
           /\ parent' \in [Pid -> Pid \cup {Nobody}]
           /\ \A k \in Pid : /\ life'[k] # "free" => life[k] # "free"
                             /\ life[k] = "free" => fate'[k] = fate[k]
                             /\ life'[k] = "zombie" => fate'[k] \in Ends
                             /\ parent'[k] # Nobody /\ life'[k] # "free" => life'[parent'[k]] \in Running
<1>1. memory' \in [Pid -> [Object -> Objects]]
  BY NewObjects DEF EndAll, Types
<1>2. \A k \in Pid : memory'[k] = NoMemory \/ memory'[k] = memory[k]
  BY DEF EndAll, Types
<1>3. fate' \in [Pid -> {"none", "alive"} \cup Ends] /\ parent' \in [Pid -> Pid \cup {Nobody}]
  BY DEF EndAll, Types
<1>4. \A k \in Pid :
        life'[k] = CASE k \in S -> IF parent[k] \in S \cup {Nobody} THEN "free" ELSE "zombie"
                     [] life[k] = "zombie" /\ parent[k] \in S -> "free"
                     [] OTHER -> life[k]
  BY DEF EndAll
<1>5. \A k \in Pid : /\ k \in S => life'[k] \in {"free", "zombie"} /\ life[k] # "free"
                     /\ k \notin S => life'[k] \in {"free", life[k]}
                     /\ k \notin S /\ Living(k) => life'[k] = life[k]
  BY <1>4 DEF Living
<1>6. life' \in [Pid -> Lives]
  <2>1. life' = [k \in Pid |-> life'[k]]
    BY DEF EndAll
  <2>2. \A k \in Pid : life'[k] \in Lives
    BY <1>5 DEF Types, Lives
  <2> QED
    BY <2>1, <2>2
<1>7. \A k \in Pid : fate'[k] = (IF k \in S THEN how ELSE fate[k])
                     /\ parent'[k] = (IF parent[k] \in S THEN Nobody ELSE parent[k])
  BY DEF EndAll
<1>8. ASSUME NEW k \in Pid, parent'[k] # Nobody, life'[k] # "free"
      PROVE  life'[parent'[k]] \in Running
  <2>1. parent'[k] = parent[k] /\ parent[k] \notin S /\ parent[k] \in Pid
    BY <1>7, <1>8 DEF Types
  <2>2. life[k] # "free" /\ Living(parent[k])
    BY <1>5, <1>8, <2>1 DEF LifeInv
  <2>3. life'[parent[k]] = life[parent[k]]
    BY <1>5, <2>1, <2>2
  <2> QED
    BY <2>1, <2>2, <2>3 DEF Living, Running
<1> QED
  BY <1>1, <1>2, <1>3, <1>5, <1>6, <1>7, <1>8 DEF Types

\* A signal ends processes that were alive, or none.
LEMMA SignalEffect ==
    ASSUME Types, NEW k \in Pid, NEW o \in Object, SendSignal(k, o)
    PROVE  \/ UNCHANGED <<memory, life, parent, fate>>
           \/ \E S \in SUBSET Pid : (\A c \in S : Living(c)) /\ EndAll(S, "signaled")
<1> DEFINE targets == IF memory[k][o].pid = Nobody THEN Pid ELSE {memory[k][o].pid}
           S == {c \in targets : Living(c)}
<1>1. S \in SUBSET Pid /\ \A c \in S : Living(c)
  BY TypeFacts
<1>2. UNCHANGED <<memory, life, parent, fate>> \/ EndAll(S, "signaled")
  BY DEF SendSignal
<1> QED
  BY <1>1, <1>2

--------------------------------------------------------------------------------
(* The steps of the processes.                                               *)

\* Every step keeps the types, whether or not pids are given out again.
LEMMA ProcessStep ==
    ASSUME Types, LifeInv, [ProcessNext]_processVars
    PROVE  Types' /\ LifeInv'
<1> USE DEF Lives
<1>1. ASSUME NEW k \in Pid, NEW o \in Object, CreateProcess(k, o)
      PROVE  Types' /\ LifeInv'
  <2>1. PICK c \in Pid, where \in {"function", "execvp"} :
          /\ GivenOut(c)
          /\ memory' = [memory EXCEPT ![k][o] = Made(c, FALSE),
                                      ![c] = [memory[k] EXCEPT ![o] = Made(c, TRUE)]]
          /\ life' = [life EXCEPT ![c] = where]
          /\ parent' = [parent EXCEPT ![c] = k]
          /\ mine' = [mine EXCEPT ![c] = o]
          /\ own' = [own EXCEPT ![k] = @ \cup {o}, ![c] = {o}]
          /\ fate' = [fate EXCEPT ![c] = "alive"]
    BY <1>1 DEF CreateProcess
  <2>2. k # c /\ life[c] = "free" /\ Living(k)
    BY <1>1, <2>1 DEF CreateProcess, Runs, GivenOut, Living
  <2>3. memory' \in [Pid -> [Object -> Objects]]
    BY <2>1, <2>2, ForkMemory DEF Forked
  <2>4. Types'
    <3>1. /\ life' \in [Pid -> Lives] /\ parent' \in [Pid -> Pid \cup {Nobody}]
          /\ mine' \in [Pid -> Object \cup {Nobody}] /\ used' \subseteq Pid
          /\ fate' \in [Pid -> {"none", "alive"} \cup Ends] /\ recycled' \subseteq used'
          /\ own' \in [Pid -> SUBSET Object] /\ careless' \subseteq Pid
      BY <2>1 DEF Types, GivenOut
    <3>2. \A j \in Pid : life'[j] = "zombie" => fate'[j] \in Ends
      BY <2>1 DEF Types
    <3> QED
      BY <2>3, <3>1, <3>2 DEF Types
  <2>5. LifeInv'
    <3>1. \A j \in Pid : life'[j] # "free" => j \in used'
      BY <2>1 DEF Types, LifeInv, GivenOut
    <3>2. \A j \in Pid : Living(j) => Living(j)'
      BY <2>1, <2>2 DEF Types, Living
    <3>3. \A j \in Pid : parent'[j] # Nobody /\ life'[j] # "free" => Living(parent'[j])
      BY <2>1, <2>2 DEF Types, LifeInv
    <3>4. parent' \in [Pid -> Pid \cup {Nobody}]
      BY <2>4 DEF Types
    <3> QED
      BY <3>1, <3>2, <3>3, <3>4 DEF LifeInv, Living
  <2> QED
    BY <2>4, <2>5
<1>2. ASSUME NEW k \in Pid, NEW o \in Object, WaitForTermination(k, o)
      PROVE  Types' /\ LifeInv'
  <2>1. /\ WaitPid(k, o, memory[k][o].pid)
        /\ UNCHANGED <<parent, mine, used, fate, recycled, own>>
        /\ careless' \subseteq Pid
    BY <1>2 DEF WaitForTermination, NoteCare, Types
  <2>2. /\ memory' \in [Pid -> [Object -> Objects]]
        /\ \/ UNCHANGED life
           \/ \E c \in Pid : life[c] = "zombie" /\ life' = [life EXCEPT ![c] = "free"]
    BY <2>1, WaitMemory
  <2>3. Types'
    BY <2>1, <2>2 DEF Types
  <2>4. LifeInv'
    BY <2>1, <2>2 DEF Types, LifeInv, Living
  <2> QED
    BY <2>3, <2>4
<1>3. ASSUME NEW S \in SUBSET Pid, \A c \in S : Living(c), NEW how \in Ends, EndAll(S, how),
             UNCHANGED <<mine, used, recycled, own, careless>>
      PROVE  Types' /\ LifeInv'
  BY <1>3, EndEffect DEF Types, LifeInv, Living, Running
<1>4. ASSUME NEW k \in Pid, NEW o \in Object, SendSignal(k, o)
      PROVE  Types' /\ LifeInv'
  <2>1. UNCHANGED <<mine, used, recycled, own, careless>>
    BY <1>4 DEF SendSignal
  <2>2. CASE UNCHANGED <<memory, life, parent, fate>>
    BY <2>1, <2>2 DEF Types, LifeInv, Living
  <2>3. ASSUME NEW S \in SUBSET Pid, \A c \in S : Living(c), EndAll(S, "signaled")
        PROVE  Types' /\ LifeInv'
    BY <1>3, <2>1, <2>3 DEF Ends
  <2> QED
    BY <1>4, <2>2, <2>3, SignalEffect
<1>5. ASSUME NEW k \in Pid, ReturnsFromConstructor(k)
      PROVE  Types' /\ LifeInv'
  BY <1>5 DEF Types, LifeInv, Living, ReturnsFromConstructor
<1>6. ASSUME NEW k \in Pid, Exec(k)
      PROVE  Types' /\ LifeInv'
  BY <1>6, NewObjects DEF Types, LifeInv, Living, Exec
<1>7. ASSUME NEW k \in Pid, Exit(k)
      PROVE  Types' /\ LifeInv'
  <2>1. EndAll({k}, "exited") /\ Living(k) /\ UNCHANGED <<mine, used, recycled, own, careless>>
    BY <1>7 DEF Exit
  <2> QED
    BY <1>3, <2>1 DEF Ends
<1>8. ASSUME NEW k \in Pid, OtherStarts(k) \/ OtherEnds(k)
      PROVE  Types' /\ LifeInv'
  <2>1. Types'
    BY <1>8 DEF Types, OtherStarts, OtherEnds, GivenOut
  <2>2. /\ \A j \in Pid : life'[j] # "free" => j \in used'
        /\ \A j \in Pid : Living(j) => Living(j)'
    BY <1>8 DEF Types, LifeInv, Living, OtherStarts, OtherEnds, GivenOut
  <2>3. \A j \in Pid : parent'[j] # Nobody /\ life'[j] # "free" =>
                       parent[j] # Nobody /\ life[j] # "free" /\ parent'[j] = parent[j]
    BY <1>8 DEF Types, OtherStarts, OtherEnds
  <2>4. \A j \in Pid : parent[j] # Nobody => parent[j] \in Pid
    BY DEF Types
  <2> QED
    BY <2>1, <2>2, <2>3, <2>4 DEF LifeInv, Living
<1>9. CASE UNCHANGED processVars
  BY <1>9 DEF Types, LifeInv, Living, processVars
<1> QED
  BY <1>1, <1>2, <1>4, <1>5, <1>6, <1>7, <1>8, <1>9 DEF ProcessNext

\* The steps that leave every copy of an object as it is, or lose all those of a process,
\* and change the life of no process that is gone, but by giving out its pid again.
LEMMA QuietStep ==
    ASSUME Types, OwnPid, Reaped,
           \A k \in Pid : memory'[k] = NoMemory \/ memory'[k] = memory[k],
           used \subseteq used', recycled \subseteq recycled',
           \A k \in used : k \notin recycled' => mine'[k] = mine[k],
           \A k \in used : k \notin recycled' /\ life[k] = "free" =>
                life'[k] = "free" /\ fate'[k] = fate[k]
    PROVE  OwnPid' /\ Reaped'
<1>1. \A k \in Pid, o \in Object :
        memory'[k][o] = memory[k][o] \/ (memory'[k][o].status = "zero" /\ ~memory'[k][o].made)
  BY NewObjects
<1>2. OwnPid'
  BY <1>1 DEF OwnPid
<1>3. Reaped'
  BY <1>1 DEF OwnPid, Reaped
<1> QED
  BY <1>2, <1>3

\* A pid that was given out once stands for one process for ever.
LEMMA CopyStep ==
    ASSUME Types, LifeInv, OwnPid, Reaped, [ProcessNext]_processVars
    PROVE  OwnPid' /\ Reaped'
<1> DEFINE Goal == OwnPid' /\ Reaped'
<1>1. ASSUME NEW k \in Pid, NEW o \in Object, CreateProcess(k, o)
      PROVE  Goal
  <2>1. PICK c \in Pid, where \in {"function", "execvp"} :
          /\ GivenOut(c)
          /\ memory' = [memory EXCEPT ![k][o] = Made(c, FALSE),
                                      ![c] = [memory[k] EXCEPT ![o] = Made(c, TRUE)]]
          /\ life' = [life EXCEPT ![c] = where]
          /\ mine' = [mine EXCEPT ![c] = o]
          /\ fate' = [fate EXCEPT ![c] = "alive"]
    BY <1>1 DEF CreateProcess
  <2>2. k # c /\ c \in used' /\ used \subseteq used' /\ recycled \subseteq recycled'
        /\ (c \in used => c \in recycled')
    BY <1>1, <2>1 DEF CreateProcess, Runs, GivenOut
  <2>3. Forked(k, c, o)
    BY <2>1, <2>2, ForkMemory
  <2>4. /\ mine'[c] = o
        /\ \A j \in used : j \notin recycled' =>
             mine'[j] = mine[j] /\ life'[j] = life[j] /\ fate'[j] = fate[j]
    BY <2>1, <2>2 DEF Types
  <2>5. \A j \in Pid, p \in Object :
          \/ memory'[j][p] \in {Made(c, FALSE), Made(c, TRUE)} /\ p = o
          \/ \E i \in Pid : memory'[j][p] = memory[i][p]
    BY <2>3 DEF Forked
  <2>6. \A isChild \in BOOLEAN : Made(c, isChild).pid = c /\ Made(c, isChild).status = "zero"
    BY DEF Made
  <2> DEFINE Fits(x, p) ==
          /\ x.made => x.pid \in used' /\ (x.pid \notin recycled' => mine'[x.pid] = p)
          /\ x.status # "zero" =>
               /\ x.made
               /\ x.pid \notin recycled' => life'[x.pid] = "free" /\ x.status = fate'[x.pid]
  <2>7. ASSUME NEW i \in Pid, NEW p \in Object, NEW x, x = memory[i][p]
        PROVE  Fits(x, p)
    BY <2>2, <2>4, <2>7 DEF OwnPid, Reaped
  <2>8. ASSUME NEW j \in Pid, NEW p \in Object, NEW x, x = memory'[j][p]
        PROVE  Fits(x, p)
    <3>1. CASE x \in {Made(c, FALSE), Made(c, TRUE)} /\ p = o
      BY <2>2, <2>4, <2>6, <3>1
    <3>2. CASE \E i \in Pid : x = memory[i][p]
      BY <2>7, <3>2
    <3> QED
      BY <2>5, <2>8, <3>1, <3>2
  <2>9. OwnPid'
    BY <2>8 DEF OwnPid
  <2>10. Reaped'
    BY <2>8 DEF Reaped
  <2> QED
    BY <2>9, <2>10
<1>2. ASSUME NEW k \in Pid, NEW o \in Object, WaitForTermination(k, o)
      PROVE  Goal
  <2>1. /\ WaitPid(k, o, memory[k][o].pid) /\ memory[k][o].made
        /\ UNCHANGED <<mine, used, fate, recycled>>
    BY <1>2 DEF WaitForTermination, Uses
  <2>2. /\ \A j \in Pid, p \in Object :
             /\ memory'[j][p].pid = memory[j][p].pid /\ memory'[j][p].made = memory[j][p].made
             /\ j # k \/ p # o => memory'[j][p].status = memory[j][p].status
        /\ \/ memory'[k][o].status = memory[k][o].status /\ UNCHANGED life
           \/ LET c == memory[k][o].pid IN
              /\ c \in Pid /\ life' = [life EXCEPT ![c] = "free"]
              /\ memory'[k][o].status = fate[c]
    BY <2>1, WaitMemory
  <2>3. OwnPid'
    BY <2>1, <2>2 DEF OwnPid
  <2>4. \A j \in Pid : life[j] = "free" => life'[j] = "free"
    BY <2>2 DEF Types
  <2>5. \A j \in Pid, p \in Object :
          memory[j][p].status # "zero" => memory[j][p].pid \in Pid
    BY DEF OwnPid, Reaped, Types
  <2>6. ASSUME NEW j \in Pid, NEW p \in Object, memory'[j][p].status # "zero"
        PROVE  /\ memory'[j][p].made
               /\ memory'[j][p].pid \notin recycled =>
                    /\ life'[memory'[j][p].pid] = "free"
                    /\ memory'[j][p].status = fate[memory'[j][p].pid]
    <3>1. CASE memory'[j][p].status = memory[j][p].status
      BY <2>2, <2>4, <2>5, <2>6, <3>1 DEF Reaped
    <3>2. CASE memory'[j][p].status # memory[j][p].status
      BY <2>1, <2>2, <3>2 DEF Types
    <3> QED
      BY <3>1, <3>2
  <2>7. Reaped'
    BY <2>1, <2>6 DEF Reaped
  <2> QED
    BY <2>3, <2>7
<1>3. ASSUME NEW S \in SUBSET Pid, \A c \in S : Living(c), NEW how \in Ends, EndAll(S, how),
             UNCHANGED <<mine, used, recycled>>
      PROVE  Goal
  BY <1>3, EndEffect, QuietStep DEF Types
<1>4. ASSUME NEW k \in Pid, NEW o \in Object, SendSignal(k, o)
      PROVE  Goal
  <2>1. UNCHANGED <<mine, used, recycled>>
    BY <1>4 DEF SendSignal
  <2>2. CASE UNCHANGED <<memory, life, parent, fate>>
    BY <2>1, <2>2 DEF OwnPid, Reaped
  <2>3. ASSUME NEW S \in SUBSET Pid, \A c \in S : Living(c), EndAll(S, "signaled")
        PROVE  Goal
    BY <1>3, <2>1, <2>3 DEF Ends
  <2> QED
    BY <1>4, <2>2, <2>3, SignalEffect
<1>5. ASSUME NEW k \in Pid, ReturnsFromConstructor(k) \/ Exec(k)
      PROVE  Goal
  <2>1. /\ \A j \in Pid : memory'[j] = NoMemory \/ memory'[j] = memory[j]
        /\ \A j \in Pid : life[j] = "free" => life'[j] = "free"
        /\ UNCHANGED <<mine, used, fate, recycled>>
    BY <1>5 DEF Types, ReturnsFromConstructor, Exec
  <2> QED
    BY <2>1, QuietStep DEF Types
<1>6. ASSUME NEW k \in Pid, Exit(k)
      PROVE  Goal
  <2>1. EndAll({k}, "exited") /\ Living(k) /\ UNCHANGED <<mine, used, recycled>>
    BY <1>6 DEF Exit
  <2> QED
    BY <1>3, <2>1 DEF Ends
<1>7. ASSUME NEW k \in Pid, OtherStarts(k)
      PROVE  Goal
  <2>1. /\ life' = [life EXCEPT ![k] = "other"] /\ mine' = [mine EXCEPT ![k] = Nobody]
        /\ used \subseteq used' /\ recycled \subseteq recycled' /\ (k \in used => k \in recycled')
        /\ UNCHANGED <<memory, fate>>
    BY <1>7 DEF OtherStarts, GivenOut
  <2>2. \A j \in used : j \notin recycled' => mine'[j] = mine[j] /\ life'[j] = life[j]
    BY <2>1 DEF Types
  <2> QED
    BY <2>1, <2>2, QuietStep
<1>8. ASSUME NEW k \in Pid, OtherEnds(k)
      PROVE  Goal
  <2>1. life' = [life EXCEPT ![k] = "free"] /\ UNCHANGED <<memory, mine, used, fate, recycled>>
    BY <1>8 DEF OtherEnds
  <2> QED
    BY <2>1, QuietStep DEF Types
<1>9. CASE UNCHANGED processVars
  BY <1>9 DEF OwnPid, Reaped, processVars
<1> QED
  BY <1>1, <1>2, <1>3, <1>4, <1>5, <1>6, <1>7, <1>8, <1>9 DEF ProcessNext

--------------------------------------------------------------------------------
(* Pids that are kept although the kernel gives pids out again.              *)

\* The end of processes frees no pid that a process which goes on has guarded: it becomes a
\* zombie of its parent.
LEMMA EndKeeps ==
    ASSUME Types, LifeInv, KeptInv, NEW S \in SUBSET Pid, \A c \in S : Living(c),
           NEW how \in Ends, EndAll(S, how), UNCHANGED <<mine, own, careless>>,
           OwnPid
    PROVE  KeptInv'
<1>1. \A k \in Pid :
        /\ memory'[k] = IF k \in S THEN NoMemory ELSE memory[k]
        /\ parent'[k] = IF parent[k] \in S THEN Nobody ELSE parent[k]
        /\ k \in S => life'[k] = IF parent[k] \in S \cup {Nobody} THEN "free" ELSE "zombie"
        /\ k \notin S => life'[k] \in {"free", life[k]}
        /\ k \notin S /\ parent[k] \notin S => life'[k] = life[k]
        /\ k \notin S /\ Living(k) => life'[k] = life[k]
  BY DEF EndAll, Living
<1>2. ASSUME NEW k \in Pid, NEW o \in Object, Guarded(k, o)'
      PROVE  Kept(k, o)'
  <2>1. k \notin S /\ memory'[k] = memory[k]
    BY <1>1, <1>2, NewObjects DEF Guarded
  <2>2. Living(k) /\ life'[k] = life[k]
    BY <1>1, <1>2, <2>1 DEF Guarded, Living
  <2>3. Kept(k, o)
    BY <1>2, <2>1, <2>2 DEF KeptInv, Guarded, Unreaped
  <2>4. PICK pid \in Pid : pid = memory[k][o].pid
    BY <1>2, <2>1 DEF Guarded, OwnPid, Types
  <2>5. CASE memory[k][o].isChild
    BY <2>1, <2>2, <2>3, <2>4, <2>5 DEF Kept, Living
  <2>6. CASE ~memory[k][o].isChild
    <3>1. parent[pid] = k /\ k # Nobody /\ life[pid] # "free"
      BY <2>3, <2>4, <2>6, NobodyFacts DEF Kept
    <3>2. life'[pid] # "free" /\ parent'[pid] = k
      BY <1>1, <2>1, <3>1
    <3> QED
      BY <2>1, <2>3, <2>4, <2>6, <3>2 DEF Kept
  <2> QED
    BY <2>5, <2>6
<1>3. \A k \in Pid : life'[k] = "other" => life[k] = "other"
  BY <1>1
<1> QED
  BY <1>2, <1>3 DEF KeptInv

\* Nobody but a careful process itself, with the object, frees the pid of one of its children.
LEMMA KeepStep ==
    ASSUME Types, LifeInv, OwnPid, KeptInv, [ProcessNext]_processVars
    PROVE  KeptInv'
<1>1. ASSUME NEW k \in Pid, NEW o \in Object, CreateProcess(k, o)
      PROVE  KeptInv'
  <2>1. PICK c \in Pid, where \in {"function", "execvp"} :
          /\ GivenOut(c)
          /\ memory' = [memory EXCEPT ![k][o] = Made(c, FALSE),
                                      ![c] = [memory[k] EXCEPT ![o] = Made(c, TRUE)]]
          /\ life' = [life EXCEPT ![c] = where]
          /\ parent' = [parent EXCEPT ![c] = k]
          /\ mine' = [mine EXCEPT ![c] = o]
          /\ own' = [own EXCEPT ![k] = @ \cup {o}, ![c] = {o}]
    BY <1>1 DEF CreateProcess
  <2>2. k # c /\ life[c] = "free" /\ careless' = careless \ {c}
    BY <1>1, <2>1 DEF CreateProcess, Runs, GivenOut
  <2>3. Forked(k, c, o)
    BY <2>1, <2>2, ForkMemory
  <2>4. /\ life'[c] = where /\ parent'[c] = k /\ mine'[c] = o
        /\ \A j \in Pid \ {c} : life'[j] = life[j] /\ parent'[j] = parent[j] /\ mine'[j] = mine[j]
    BY <2>1 DEF Types
  <2>5. own'[c] = {o} /\ own'[k] = own[k] \cup {o} /\ \A j \in Pid \ {k, c} : own'[j] = own[j]
    BY <2>1, <2>2 DEF Types
  <2>6. Made(c, FALSE).pid = c /\ ~Made(c, FALSE).isChild /\ Made(c, TRUE).pid = c /\ Made(c, TRUE).isChild
    BY DEF Made
  <2>7. ASSUME NEW j \in Pid, NEW p \in Object, Guarded(j, p)'
        PROVE  Kept(j, p)'
    <3>1. CASE j = k /\ p = o
      BY <2>3, <2>4, <2>6, <3>1 DEF Kept, Forked
    <3>2. CASE j = c
      <4>1. p = o
        BY <2>5, <2>7, <3>2 DEF Guarded, Unreaped
      <4> QED
        BY <2>3, <2>4, <2>6, <3>2, <4>1 DEF Kept, Forked
    <3>3. CASE j # c /\ ~(j = k /\ p = o)
      <4>1. memory'[j][p] = memory[j][p]
        BY <2>3, <3>3 DEF Forked
      <4>2. Guarded(j, p)
        BY <2>2, <2>4, <2>5, <2>7, <3>3, <4>1 DEF Guarded, Unreaped, Living
      <4>3. Kept(j, p) /\ memory[j][p].pid \in Pid
        BY <4>2 DEF KeptInv, Guarded, OwnPid, Types
      <4>4. memory[j][p].pid # c
        BY <2>2, <4>3 DEF Kept
      <4> QED
        BY <2>4, <4>1, <4>3, <4>4 DEF Kept
    <3> QED
      BY <3>1, <3>2, <3>3
  <2>8. \A j \in Pid : life'[j] = "other" => mine'[j] = Nobody
    BY <2>4 DEF KeptInv
  <2> QED
    BY <2>7, <2>8 DEF KeptInv
<1>2. ASSUME NEW k \in Pid, NEW o \in Object, WaitForTermination(k, o)
      PROVE  KeptInv'
  <2>1. /\ WaitPid(k, o, memory[k][o].pid) /\ Living(k) /\ memory[k][o].made
        /\ UNCHANGED <<parent, mine, own, fate>>
        /\ careless \subseteq careless'
        /\ k \notin careless' => o \in own[k] /\ memory[k][o].status = "zero"
    BY <1>2 DEF WaitForTermination, NoteCare, Uses, Runs, Living
  <2>2. /\ \A j \in Pid, p \in Object :
             /\ memory'[j][p].pid = memory[j][p].pid /\ memory'[j][p].made = memory[j][p].made
             /\ memory'[j][p].isChild = memory[j][p].isChild
             /\ j # k \/ p # o => memory'[j][p].status = memory[j][p].status
        /\ \/ memory'[k][o].status = memory[k][o].status /\ UNCHANGED life
           \/ LET c == memory[k][o].pid IN
              /\ c \in Pid /\ life[c] = "zombie" /\ parent[c] = k
              /\ life' = [life EXCEPT ![c] = "free"]
              /\ memory'[k][o].status = fate[c]
    BY <2>1, WaitMemory
  <2>3. ASSUME UNCHANGED life, memory'[k][o].status = memory[k][o].status
        PROVE  KeptInv'
    BY <2>1, <2>2, <2>3 DEF KeptInv, Kept, Guarded, Unreaped, Living
  <2>4. ASSUME NEW c \in Pid, c = memory[k][o].pid, life[c] = "zombie", parent[c] = k,
               life' = [life EXCEPT ![c] = "free"], memory'[k][o].status = fate[c]
        PROVE  KeptInv'
    <3>1. life'[c] = "free" /\ \A j \in Pid \ {c} : life'[j] = life[j]
      BY <2>4 DEF Types
    <3>2. memory'[k][o].status # "zero"
      BY <2>4 DEF Types, Ends
    <3>3. ASSUME NEW j \in Pid, NEW p \in Object, Guarded(j, p)'
          PROVE  Kept(j, p)'
      <4>1. j # k \/ p # o
        BY <3>2, <3>3 DEF Guarded, Unreaped
      <4>2. memory'[j][p].status = memory[j][p].status
        BY <2>2, <4>1
      <4>3. Guarded(j, p)
        BY <2>1, <2>2, <3>1, <3>3, <4>2 DEF Guarded, Unreaped, Living
      <4>4. Kept(j, p) /\ memory[j][p].pid \in Pid
        BY <4>3 DEF KeptInv, Guarded, OwnPid, Types
      <4>5. memory[j][p].pid # c
        <5>1. SUFFICES ASSUME memory[j][p].pid = c PROVE FALSE
          OBVIOUS
        <5>2. CASE j # k
          <6>1. parent[c] # j /\ life[j] # "zombie"
            BY <2>4, <4>3, <5>2 DEF Guarded, Living
          <6> QED
            BY <2>4, <4>4, <5>1, <6>1 DEF Kept
        <5>3. CASE j = k
          <6>1. k \notin careless'
            BY <3>3, <5>3 DEF Guarded, Unreaped
          <6>2. Guarded(k, o)
            BY <2>1, <6>1 DEF Guarded, Unreaped
          <6>3. mine[c] = o /\ mine[c] = p
            BY <2>4, <4>4, <5>1, <6>2 DEF KeptInv, Kept
          <6> QED
            BY <4>1, <5>3, <6>3
        <5> QED
          BY <5>2, <5>3
      <4> QED
        BY <2>1, <2>2, <3>1, <4>4, <4>5 DEF Kept
    <3>4. \A j \in Pid : life'[j] = "other" => mine'[j] = Nobody
      BY <2>1, <3>1 DEF KeptInv
    <3> QED
      BY <3>3, <3>4 DEF KeptInv
  <2> QED
    BY <2>2, <2>3, <2>4
<1>3. ASSUME NEW k \in Pid, NEW o \in Object, SendSignal(k, o)
      PROVE  KeptInv'
  <2>1. UNCHANGED <<mine, own, careless>>
    BY <1>3 DEF SendSignal
  <2>2. CASE UNCHANGED <<memory, life, parent, fate>>
    BY <2>1, <2>2 DEF KeptInv, Kept, Guarded, Unreaped, Living
  <2>3. ASSUME NEW S \in SUBSET Pid, \A c \in S : Living(c), EndAll(S, "signaled")
        PROVE  KeptInv'
    BY <2>1, <2>3, EndKeeps DEF Ends
  <2> QED
    BY <1>3, <2>2, <2>3, SignalEffect
<1>4. ASSUME NEW k \in Pid, Exit(k)
      PROVE  KeptInv'
  <2>1. EndAll({k}, "exited") /\ Living(k) /\ UNCHANGED <<mine, own, careless>>
    BY <1>4 DEF Exit
  <2> QED
    BY <2>1, EndKeeps DEF Ends
<1>5. ASSUME NEW k \in Pid, ReturnsFromConstructor(k) \/ Exec(k)
      PROVE  KeptInv'
  <2>1. PICK where \in {"program", "image"} : life' = [life EXCEPT ![k] = where]
    BY <1>5 DEF ReturnsFromConstructor, Exec
  <2>2. /\ life[k] \in {"function", "execvp"} /\ UNCHANGED <<parent, mine, own, careless>>
        /\ \A j \in Pid : memory'[j] = NoMemory \/ memory'[j] = memory[j]
    BY <1>5 DEF ReturnsFromConstructor, Exec, Types
  <2>3. life'[k] = where /\ \A j \in Pid \ {k} : life'[j] = life[j]
    BY <2>1 DEF Types
  <2>4. ASSUME NEW j \in Pid, NEW p \in Object, Guarded(j, p)'
        PROVE  Kept(j, p)'
    <3>1. memory'[j] = memory[j]
      BY <2>2, <2>4, NewObjects DEF Guarded
    <3>2. Guarded(j, p)
      BY <2>2, <2>3, <2>4, <3>1 DEF Guarded, Unreaped, Living
    <3>3. Kept(j, p) /\ memory[j][p].pid \in Pid
      BY <3>2 DEF KeptInv, Guarded, OwnPid, Types
    <3> QED
      BY <2>2, <2>3, <3>1, <3>3 DEF Kept
  <2>5. \A j \in Pid : life'[j] = "other" => mine'[j] = Nobody
    BY <2>2, <2>3 DEF KeptInv
  <2> QED
    BY <2>4, <2>5 DEF KeptInv
<1>6. ASSUME NEW k \in Pid, OtherStarts(k) \/ OtherEnds(k)
      PROVE  KeptInv'
  <2>1. /\ life[k] \in {"free", "other"} /\ UNCHANGED <<memory, own>>
        /\ careless' \in {careless, careless \ {k}}
    BY <1>6 DEF OtherStarts, OtherEnds, GivenOut
  <2>2. \A j \in Pid \ {k} : life'[j] = life[j] /\ parent'[j] = parent[j] /\ mine'[j] = mine[j]
    BY <1>6 DEF OtherStarts, OtherEnds, Types
  <2>3. life'[k] \in {"free", "other"} /\ (life'[k] = "other" => mine'[k] = Nobody)
    BY <1>6 DEF OtherStarts, OtherEnds, Types
  <2>4. ASSUME NEW j \in Pid, NEW p \in Object, Guarded(j, p)'
        PROVE  Kept(j, p)'
    <3>1. j # k
      BY <2>3, <2>4 DEF Guarded, Living
    <3>2. Guarded(j, p)
      BY <2>1, <2>2, <2>4, <3>1 DEF Guarded, Unreaped, Living
    <3>3. Kept(j, p) /\ memory[j][p].pid \in Pid
      BY <3>2 DEF KeptInv, Guarded, OwnPid, Types
    <3>4. memory[j][p].pid # k
      BY <2>1, <3>3, NobodyFacts DEF KeptInv, Kept
    <3> QED
      BY <2>1, <2>2, <3>3, <3>4 DEF Kept
  <2>5. \A j \in Pid : life'[j] = "other" => mine'[j] = Nobody
    BY <2>2, <2>3 DEF KeptInv
  <2> QED
    BY <2>4, <2>5 DEF KeptInv
<1>7. CASE UNCHANGED processVars
  BY <1>7 DEF KeptInv, Kept, Guarded, Unreaped, Living, processVars
<1> QED
  BY <1>1, <1>2, <1>3, <1>4, <1>5, <1>6, <1>7 DEF ProcessNext

--------------------------------------------------------------------------------
(* What holds of the processes.                                              *)

\* Types hold of every run, and a process that is not gone has a parent that is alive, or
\* none.
THEOREM ProcessTypesCorrect == ProcessSpec => []ProcessTypeOK
<1>1. ProcessInit => Types /\ LifeInv
  BY ProcessInitTypes
<1>2. Types /\ LifeInv /\ [ProcessNext]_processVars => Types' /\ LifeInv'
  BY ProcessStep
<1>3. Types /\ LifeInv => ProcessTypeOK
  BY DEF Types, LifeInv, ProcessTypeOK
<1> QED
  BY <1>1, <1>2, <1>3, PTL DEF ProcessSpec

\* The invariant of the processes.
ProcessInv == Types /\ LifeInv /\ OwnPid /\ Reaped /\ KeptInv

\* It holds in every reachable state.
LEMMA ProcessInvariant == ProcessSpec => []ProcessInv
<1>1. ProcessInit => OwnPid /\ Reaped /\ KeptInv
  BY NewObjects DEF ProcessInit, OwnPid, Reaped, KeptInv, Guarded
<1>2. ProcessInit => ProcessInv
  BY <1>1, ProcessInitTypes DEF ProcessInv
<1>3. ProcessInv /\ [ProcessNext]_processVars => ProcessInv'
  BY ProcessStep, CopyStep, KeepStep DEF ProcessInv
<1> QED
  BY <1>2, <1>3, PTL DEF ProcessSpec

\* A status that waitpid() filled in stays how the process the object was made for ended,
\* in every copy of the object, until the pid is given out again.
THEOREM StatusCorrect == ProcessSpec => []StatusTruthful
<1>1. ProcessInv => StatusTruthful
  BY DEF ProcessInv, Reaped, StatusTruthful
<1> QED
  BY <1>1, ProcessInvariant, PTL

\* However the kernel gives pids out again, sendSignal() on an object of its own whose
\* process it has not reaped reaches that process, in every process that waits for its own
\* unreaped objects only; on any copy of an object whose pid was given out once, it reaches
\* that process or none.
THEOREM SignalsCorrect == ProcessSpec => []SignalsOwnProcess
<1>1. ASSUME ProcessInv, NEW k \in Pid, NEW o \in Object, Uses(k, o), NEW pid, pid = memory[k][o].pid
      PROVE  /\ pid # Nobody
             /\ pid \notin recycled => mine[pid] = o
             /\ Unreaped(k, o) => life[pid] # "free" /\ mine[pid] = o
  <2>1. memory[k][o].made /\ Living(k)
    BY <1>1 DEF Uses, Runs, Living
  <2>2. pid \in used /\ (pid \notin recycled => mine[pid] = o)
    BY <1>1, <2>1 DEF ProcessInv, OwnPid
  <2>3. pid # Nobody
    BY <1>1, <2>2, NobodyFacts DEF ProcessInv, Types
  <2>4. Unreaped(k, o) => Kept(k, o)
    BY <1>1, <2>1 DEF ProcessInv, KeptInv, Guarded
  <2> QED
    BY <1>1, <2>2, <2>3, <2>4 DEF Kept
<1>2. ProcessInv => SignalsOwnProcess
  BY <1>1 DEF SignalsOwnProcess
<1> QED
  BY <1>2, ProcessInvariant, PTL
==================================================================================
