-------------------------------- MODULE Process --------------------------------
(***************************************************************************)
(* The Process objects of a program and the processes that fork() creates  *)
(* for them.                                                               *)
(*                                                                         *)
(* fork() copies the objects: a child that uses them, in its function, or  *)
(* in the caller's code after it has returned from the constructor (the    *)
(* function returned, or execvp() failed, which nothing tests), has its    *)
(* own copy of each, with the pids of processes that are not its children. *)
(*                                                                         *)
(* The kernel may give the pid of a reaped process to another: a later     *)
(* child of this program or somebody else's process.                       *)
(***************************************************************************)
EXTENDS Naturals, FiniteSets

CONSTANTS
    Object,   \* the Process objects of the code; each is constructed once in a process
    Pid,      \* bound on the pids
    Root,     \* the pid of the program that was started first
    Nobody,   \* no object, no process: also a pid_ of 0
    Recyclable  \* bound on the pids that may be given out again: Pid is no bound

ASSUME NobodyAssumption == Nobody \notin Object \cup Pid /\ Root \in Pid
ASSUME RecyclableAssumption == Recyclable \subseteq Pid

VARIABLES
    memory,    \* memory[k][o]: the object o as the process k sees it
    life,      \* the life of the process with each pid
    parent,    \* the process that waits for it; Nobody: it belongs to init
    mine,      \* the object whose constructor forked it
    used,      \* history: pids given out before
    fate,      \* history: how the process with each pid ended
    recycled,  \* history: those of them that were given out again
    own,       \* history: own[k], the objects whose constructor returned in k or made k
    careless   \* history: processes that waited for an object that is not their own, or
               \* whose status they had

processVars == <<memory, life, parent, mine, used, fate, recycled, own, careless>>

\* "function", "execvp": in the constructor; "program": in the code of the caller;
\* "image": another program, after execvp(); "other": not of this program.
Lives == {"free", "function", "execvp", "program", "image", "zombie", "other"}

Ends == {"exited", "signaled"}

\* status_ is "zero" until waitpid() says how the child ended.
Objects == [pid : Pid \cup {Nobody}, isChild : BOOLEAN, running : BOOLEAN,
            status : {"zero"} \cup Ends, made : BOOLEAN]

Unmade == [pid |-> Nobody, isChild |-> FALSE, running |-> FALSE, status |-> "zero", made |-> FALSE]

NoMemory == [o \in Object |-> Unmade]

ProcessInit ==
    /\ memory = [k \in Pid |-> NoMemory]
    /\ life = [k \in Pid |-> IF k = Root THEN "program" ELSE "free"]
    /\ parent = [k \in Pid |-> Nobody]
    /\ mine = [k \in Pid |-> Nobody]
    /\ used = {Root}
    /\ fate = [k \in Pid |-> IF k = Root THEN "alive" ELSE "none"]
    /\ recycled = {}
    /\ own = [k \in Pid |-> {}]
    /\ careless = {}

Living(k) == life[k] \in {"function", "execvp", "program", "image"}

\* k runs code of the program that may use its objects.
Runs(k) == life[k] \in {"function", "program"}

Uses(k, o) == Runs(k) /\ memory[k][o].made

\* A process is given the pid k.
GivenOut(k) ==
    /\ life[k] = "free"
    /\ k \in used => k \in Recyclable
    /\ used' = used \cup {k}
    /\ recycled' = IF k \in used THEN recycled \cup {k} ELSE recycled
    /\ careless' = careless \ {k}

--------------------------------------------------------------------------------
(* The methods.                                                              *)

\* Mutant of Made: the child does not replace the 0 of fork() by its pid.
Made_ZeroInChild(c, isChild) ==
    [pid |-> IF isChild THEN Nobody ELSE c, isChild |-> isChild, running |-> TRUE,
     status |-> "zero", made |-> TRUE]

\* What createProcess() leaves in the object, in the child and in the parent.
Made(c, isChild) ==
    [pid |-> c, isChild |-> isChild, running |-> TRUE, status |-> "zero", made |-> TRUE]

\* A constructor forks; when fork() fails it throws and there is no object.
CreateProcess(k, o) ==
    /\ Runs(k)
    /\ ~memory[k][o].made
    /\ \E c \in Pid, where \in {"function", "execvp"} :
        /\ GivenOut(c)
        /\ memory' = [memory EXCEPT ![k][o] = Made(c, FALSE),
                                    ![c] = [memory[k] EXCEPT ![o] = Made(c, TRUE)]]
        /\ life' = [life EXCEPT ![c] = where]
        /\ parent' = [parent EXCEPT ![c] = k]
        /\ mine' = [mine EXCEPT ![c] = o]
        /\ own' = [own EXCEPT ![k] = @ \cup {o}, ![c] = {o}]
        /\ fate' = [fate EXCEPT ![c] = "alive"]

\* What waitpid(c, &status_, WNOHANG) does for the process k: it fills in status_ only
\* when it reaps, and it reaps only a child of k.
WaitPid(k, o, c) ==
    IF c # Nobody /\ life[c] = "zombie" /\ parent[c] = k
    THEN /\ memory' = [memory EXCEPT ![k][o].status = fate[c], ![k][o].running = FALSE]
         /\ life' = [life EXCEPT ![c] = "free"]
    ELSE /\ memory' = [memory EXCEPT ![k][o].running = FALSE]
         /\ UNCHANGED life

\* The history of a call for the object o of k.
NoteCare(k, o) ==
    careless' = IF o \in own[k] /\ memory[k][o].status = "zero" THEN careless ELSE careless \cup {k}

\* Mutant of WaitForTermination: any child is waited for.
WaitForTermination_AnyChild(k, o) ==
    /\ Uses(k, o)
    /\ ~memory[k][o].isChild
    /\ \E c \in Pid : life[c] = "zombie" /\ parent[c] = k /\ WaitPid(k, o, c)
    /\ NoteCare(k, o)
    /\ UNCHANGED <<parent, mine, used, fate, recycled, own>>

\* Mutant of WaitForTermination: it returns at once when running_ is not set.
WaitForTermination_WhileRunning(k, o) ==
    /\ Uses(k, o)
    /\ ~memory[k][o].isChild
    /\ memory[k][o].running
    /\ WaitPid(k, o, memory[k][o].pid)
    /\ NoteCare(k, o)
    /\ UNCHANGED <<parent, mine, used, fate, recycled, own>>

\* waitForTermination(): the option 1 of waitpid() is WNOHANG.  In the process the
\* object was made for it returns at once.
WaitForTermination(k, o) ==
    /\ Uses(k, o)
    /\ ~memory[k][o].isChild
    /\ WaitPid(k, o, memory[k][o].pid)
    /\ NoteCare(k, o)
    /\ UNCHANGED <<parent, mine, used, fate, recycled, own>>

\* The processes S end: their parents may reap them, init reaps the children of S.
EndAll(S, how) ==
    /\ fate' = [c \in Pid |-> IF c \in S THEN how ELSE fate[c]]
    /\ parent' = [c \in Pid |-> IF parent[c] \in S THEN Nobody ELSE parent[c]]
    /\ life' = [c \in Pid |->
           CASE c \in S -> IF parent[c] \in S \cup {Nobody} THEN "free" ELSE "zombie"
             [] life[c] = "zombie" /\ parent[c] \in S -> "free"
             [] OTHER -> life[c]]
    /\ memory' = [c \in Pid |-> IF c \in S THEN NoMemory ELSE memory[c]]

\* kill(pid_, sig), where 0 means every process of the group; the signal ends them or
\* is handled.
SendSignal(k, o) ==
    /\ Uses(k, o)
    /\ LET targets == IF memory[k][o].pid = Nobody THEN Pid ELSE {memory[k][o].pid} IN
        \/ EndAll({c \in targets : Living(c)}, "signaled")
        \/ UNCHANGED <<memory, life, parent, fate>>
    /\ UNCHANGED <<mine, used, recycled, own, careless>>

--------------------------------------------------------------------------------
(* The processes, and the rest of the system.                                *)

\* The function returns, or execvp() fails: the child returns from the constructor.
ReturnsFromConstructor(k) ==
    /\ life[k] \in {"function", "execvp"}
    /\ life' = [life EXCEPT ![k] = "program"]
    /\ UNCHANGED <<memory, parent, mine, used, fate, recycled, own, careless>>

\* execvp() replaces the program, and its memory.
Exec(k) ==
    /\ life[k] = "execvp"
    /\ life' = [life EXCEPT ![k] = "image"]
    /\ memory' = [memory EXCEPT ![k] = NoMemory]
    /\ UNCHANGED <<parent, mine, used, fate, recycled, own, careless>>

\* A process calls exit(), or main() returns.
Exit(k) ==
    /\ Living(k)
    /\ EndAll({k}, "exited")
    /\ UNCHANGED <<mine, used, recycled, own, careless>>

OtherStarts(k) ==
    /\ GivenOut(k)
    /\ life' = [life EXCEPT ![k] = "other"]
    /\ parent' = [parent EXCEPT ![k] = Nobody]
    /\ mine' = [mine EXCEPT ![k] = Nobody]
    /\ UNCHANGED <<memory, fate, own>>

OtherEnds(k) ==
    /\ life[k] = "other"
    /\ life' = [life EXCEPT ![k] = "free"]
    /\ UNCHANGED <<memory, parent, mine, used, fate, recycled, own, careless>>

ProcessNext ==
    \E k \in Pid :
        \/ \E o \in Object : CreateProcess(k, o) \/ WaitForTermination(k, o) \/ SendSignal(k, o)
        \/ ReturnsFromConstructor(k) \/ Exec(k) \/ Exit(k) \/ OtherStarts(k) \/ OtherEnds(k)

ProcessSpec == ProcessInit /\ [][ProcessNext]_processVars

\* A process polls waitForTermination() of every object it has, as long as it lives.
ProcessFairness == \A k \in Pid, o \in Object : WF_processVars(WaitForTermination(k, o))

FairProcessSpec == ProcessSpec /\ ProcessFairness

--------------------------------------------------------------------------------
ProcessTypeOK ==
    /\ memory \in [Pid -> [Object -> Objects]]
    /\ life \in [Pid -> Lives]
    /\ parent \in [Pid -> Pid \cup {Nobody}]
    /\ mine \in [Pid -> Object \cup {Nobody}]
    /\ used \subseteq Pid
    /\ fate \in [Pid -> {"none", "alive"} \cup Ends]
    /\ recycled \subseteq used
    /\ own \in [Pid -> SUBSET Object]
    /\ careless \subseteq Pid
    /\ \A k \in Pid : parent[k] # Nobody /\ life[k] # "free" => Living(parent[k])

\* A status that waitpid() filled in is how the process the object was made for ended, in
\* whichever process the object is, however it was copied and in whatever order objects
\* are waited for and signalled; until the pid is given out again.
StatusTruthful ==
    \A k \in Pid, o \in Object :
        memory[k][o].status # "zero" /\ memory[k][o].pid \notin recycled
            => memory[k][o].status = fate[memory[k][o].pid]

\* The object o of k stands for a child of k, and k can still wait for it.
Waits(k, o) == Uses(k, o) /\ ~memory[k][o].isChild /\ parent[memory[k][o].pid] = k

\* A child that has ended is reaped by a parent that polls, although the first call resets
\* running_ and although copies of the object are polled by other processes.
ZombiesReaped ==
    \A k \in Pid, o \in Object :
        (Waits(k, o) /\ fate[memory[k][o].pid] \in Ends)
            ~> (Runs(k) => memory[k][o].status # "zero" \/ memory[k][o].pid \in recycled)

\* o is an object of k's own whose process k has not reaped, and k has waited for no object
\* but those.
Unreaped(k, o) == o \in own[k] /\ memory[k][o].status = "zero" /\ k \notin careless

\* sendSignal() never signals the group.  While the pid has not been given out again, it
\* reaches the process the object was made for or none, also from that process itself and
\* from processes with a copy of the object.  When pids are given out again this still
\* holds of an object of its own whose process is not reaped: that one keeps its pid, as
\* long as the program waits for nothing but its own objects, and for none after its end.
SignalsOwnProcess ==
    \A k \in Pid, o \in Object : Uses(k, o) =>
        LET pid == memory[k][o].pid IN
        /\ pid # Nobody
        /\ pid \notin recycled => life[pid] = "free" \/ mine[pid] = o
        /\ Unreaped(k, o) => life[pid] # "free" /\ mine[pid] = o

--------------------------------------------------------------------------------
(* What the comments of Process say and the code does not do.                *)

\* waitForTermination() "waits the termination of the process" and resets running_, "if
\* the process is running".
NotRunningMeansEnded ==
    \A k \in Pid, o \in Object :
        memory[k][o].made /\ ~memory[k][o].running => fate[memory[k][o].pid] \in Ends

\* sendSignal() is there "to send a signal to the process", also after it has ended.
SignalsNobodyElse ==
    \A k \in Pid, o \in Object :
        Uses(k, o) /\ life[memory[k][o].pid] # "free" => mine[memory[k][o].pid] = o

\* A constructor "creates a new process that will run the program given as argument".
ChildrenLeaveTheProgram == \A k \in Pid \ {Root} : life[k] # "program"

\* is_child_ is "equal to false for the parent (i.e., the process who created the new
\* process)": a process that runs and has an object with is_child_ reset is its parent.
ParentOrChild ==
    \A k \in Pid, o \in Object :
        Uses(k, o) /\ ~memory[k][o].isChild /\ Living(memory[k][o].pid)
            => parent[memory[k][o].pid] = k
================================================================================
