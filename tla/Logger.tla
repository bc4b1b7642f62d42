--------------------------------- MODULE Logger ---------------------------------
(***************************************************************************)
(* Logger: the singleton behind the macros ERROR, WARNING, DEBUG and       *)
(* LOG_FILE, built with LOG_MULTITHREAD.                                   *)
(*                                                                         *)
(* getInstance() tests m_ without the lock, and nothing orders the         *)
(* assignment of m_ and the stores of the constructor for another thread   *)
(* (a data race): both orders are taken.  A print writes its line in       *)
(* pieces, and setFile() closes one file before it opens the next; lock()  *)
(* and unlock() are plain calls, so that a thread cancelled in between     *)
(* (AbstractThread::stop()) never unlocks.                                 *)
(*                                                                         *)
(* Each message is logged once; a line is its message twice, one entry for *)
(* the beginning and one for the end, or NoMsg where the write failed.     *)
(***************************************************************************)
EXTENDS PosixSync, Naturals, Sequences, SequencesExt, FiniteSets

CONSTANTS
    Setter,         \* the threads that use LOG_FILE
    Msg, NoMsg,     \* the messages the program logs
    Severity,       \* Severity[x]: the macro that logs x, 1 ERROR to 3 DEBUG
    ConsoleLevel,   \* LOG_LEVEL_CONSOLE
    FileLevel,      \* LOG_LEVEL_FILE
    File, NoFile    \* the names setFile() composes: a base name and a second

ASSUME LevelAssumption ==
    /\ ConsoleLevel \in 0..3 /\ FileLevel \in 0..3
    /\ Severity \in [Msg -> 1..3]
ASSUME SetterAssumption == Setter \subseteq Thread
ASSUME NoneAssumption == NoMsg \notin Msg /\ NoFile \notin File

VARIABLES
    pc,          \* where each thread is
    todo,        \* the Logger's methods the macro t is in still has to call
    arg,         \* the message t logs
    m,           \* m_ is not null
    made,        \* number of Logger objects constructed
    logFile,     \* logFile_
    out,         \* out_: "open", "closed", or "bad": open with its failure bit set
    onConsole,   \* latestMsgPrintedOnConsole_
    onFile,      \* latestMsgPrintedOnFile_
    console,     \* what the console shows
    files,       \* what each file holds
    logged,      \* history: the messages logged so far
    kept         \* history: messages of macros begun while a log file works, but for
                 \* those whose macro had not returned when the stream failed

objectVars == <<made, logFile, out, onConsole, onFile>>
outputVars == <<console, files>>
vars == <<holder, waiting, pc, todo, arg, m, objectVars, outputVars, logged, kept>>

\* "test", "create", "new", "built", "published": in getInstance(); "call": before
\* the lock of a method; "inside": half way through it.
Places == {"ready", "test", "create", "new", "built", "published", "call", "inside",
           "terminated"}

Methods == {"console", "file", "set"}

Init ==
    /\ SyncInit
    /\ pc = [t \in Thread |-> "ready"]
    /\ todo = [t \in Thread |-> <<>>]
    /\ arg = [t \in Thread |-> NoMsg]
    /\ m = FALSE
    /\ made = 0
    /\ logFile = NoFile /\ out = "closed"
    /\ onConsole = FALSE /\ onFile = FALSE
    /\ console = <<>> /\ files = [f \in File |-> <<>>]
    /\ logged = {} /\ kept = {}

Goto(t, place) == pc' = [pc EXCEPT ![t] = place]

--------------------------------------------------------------------------------
(* The macros.                                                               *)

\* The methods a macro calls, each on getInstance(): the preprocessor leaves out
\* what the levels exclude.
Expansion(severity) ==
    (IF severity <= ConsoleLevel THEN <<"console">> ELSE <<>>)
        \o (IF severity <= FileLevel THEN <<"file">> ELSE <<>>)

\* A setFile() has succeeded and no stream operation has failed since.
Working == logFile # NoFile /\ out = "open"

\* What a failing stream may lose: lines that are complete have been written by std::endl.
Unfinished == {arg[t] : t \in Thread}

\* ERROR(x), WARNING(x) or DEBUG(x).
Log(t, x) ==
    /\ pc[t] = "ready"
    /\ x \notin logged
    /\ Expansion(Severity[x]) # <<>>
    /\ todo' = [todo EXCEPT ![t] = Expansion(Severity[x])]
    /\ arg' = [arg EXCEPT ![t] = x]
    /\ logged' = logged \cup {x}
    /\ kept' = IF Working /\ Severity[x] <= FileLevel THEN kept \cup {x} ELSE kept
    /\ Goto(t, "test")
    /\ UNCHANGED <<syncVars, m, objectVars, outputVars>>

\* LOG_FILE(outputFile).
LogFile(t) ==
    /\ t \in Setter
    /\ pc[t] = "ready"
    /\ todo' = [todo EXCEPT ![t] = <<"set">>]
    /\ Goto(t, "test")
    /\ UNCHANGED <<syncVars, arg, m, objectVars, outputVars, logged, kept>>

--------------------------------------------------------------------------------
(* getInstance().                                                            *)

\* The test of m_ without the lock.
FirstTest(t) ==
    /\ pc[t] = "test"
    /\ Goto(t, IF m THEN "call" ELSE "create")
    /\ UNCHANGED <<syncVars, todo, arg, m, objectVars, outputVars, logged, kept>>

\* Mutant of SecondTest: whoever found m_ null makes a logger.
SecondTest_Missing(t) ==
    /\ pc[t] = "create"
    /\ holder = {t}
    /\ Goto(t, "new")
    /\ UNCHANGED <<syncVars, todo, arg, m, objectVars, outputVars, logged, kept>>

\* The test of m_ under the lock.
SecondTest(t) ==
    /\ pc[t] = "create"
    /\ holder = {t}
    /\ IF m THEN Unlock(t) /\ Goto(t, "call") ELSE Goto(t, "new") /\ UNCHANGED holder
    /\ UNCHANGED <<waiting, todo, arg, m, objectVars, outputVars, logged, kept>>

\* Logger(): the fields of the new object.
Construct ==
    /\ made' = made + 1
    /\ logFile' = NoFile /\ out' = "closed"
    /\ onConsole' = FALSE /\ onFile' = FALSE

\* m_ = new Logger: another thread may see the two effects in either order.
New(t) ==
    /\ pc[t] = "new"
    /\ \/ Construct /\ Goto(t, "built") /\ UNCHANGED m
       \/ m' = TRUE /\ Goto(t, "published") /\ UNCHANGED objectVars
    /\ UNCHANGED <<syncVars, todo, arg, outputVars, logged, kept>>

NewEnds(t) ==
    /\ \/ pc[t] = "built" /\ m' = TRUE /\ UNCHANGED objectVars
       \/ pc[t] = "published" /\ Construct /\ UNCHANGED m
    /\ Unlock(t)
    /\ Goto(t, "call")
    /\ UNCHANGED <<waiting, todo, arg, outputVars, logged, kept>>

--------------------------------------------------------------------------------
(* The methods.                                                              *)

\* t has the lock, and the next step is the first half of the method, or the second.
Entering(t, method) == pc[t] = "call" /\ t \in holder /\ Head(todo[t]) = method
Leaving(t, method) == pc[t] = "inside" /\ t \in holder /\ Head(todo[t]) = method

\* Mutant of Acquire: the methods of an existing logger do not wait for the lock.
Acquire_OnlyInGetInstance(t) ==
    /\ pc[t] \in {"create", "call"}
    /\ IF pc[t] = "create" THEN Lock(t) ELSE m /\ made = 1 /\ holder' = {t}
    /\ UNCHANGED <<waiting, pc, todo, arg, m, objectVars, outputVars, logged, kept>>

\* The lock is taken before the second test of getInstance() and in each method.
Acquire(t) ==
    /\ pc[t] \in {"create", "call"}
    /\ Lock(t)
    /\ UNCHANGED <<waiting, pc, todo, arg, m, objectVars, outputVars, logged, kept>>

\* Mutant of Leave: an early return, when no file is set, leaves out unlock().
Leave_KeepsLock(t) ==
    /\ holder' = IF logFile = NoFile THEN holder ELSE {}
    /\ todo' = [todo EXCEPT ![t] = Tail(@)]
    /\ IF Len(todo[t]) = 1
       THEN Goto(t, "ready") /\ arg' = [arg EXCEPT ![t] = NoMsg]
       ELSE Goto(t, "test") /\ UNCHANGED arg

\* unlock() at the end of a method; the macro goes on to the next one.
Leave(t) ==
    /\ Unlock(t)
    /\ todo' = [todo EXCEPT ![t] = Tail(@)]
    /\ IF Len(todo[t]) = 1
       THEN Goto(t, "ready") /\ arg' = [arg EXCEPT ![t] = NoMsg]
       ELSE Goto(t, "test") /\ UNCHANGED arg

ConsoleBegins(t) ==
    /\ Entering(t, "console")
    /\ console' = Append(console, arg[t])
    /\ Goto(t, "inside")
    /\ UNCHANGED <<syncVars, todo, arg, m, objectVars, files, logged, kept>>

ConsoleEnds(t) ==
    /\ Leaving(t, "console")
    /\ console' = Append(console, arg[t])
    /\ onConsole' = TRUE
    /\ Leave(t)
    /\ UNCHANGED <<waiting, m, made, logFile, out, onFile, files, logged, kept>>

\* What out_ << ... adds to the file: nothing once the stream is not good.
Insert(x) ==
    files' = IF Working THEN [files EXCEPT ![logFile] = Append(@, x)] ELSE files

FileBegins(t) ==
    /\ Entering(t, "file")
    /\ onFile' = FALSE
    /\ Insert(arg[t])
    /\ Goto(t, "inside")
    /\ UNCHANGED <<syncVars, todo, arg, m, made, logFile, out, onConsole, console, logged, kept>>

\* The flag is set whenever a file was named, printed or not.  std::endl writes to
\* the file, which may fail.
FileEnds(t) ==
    /\ Leaving(t, "file")
    /\ onFile' = (logFile # NoFile)
    /\ \/ Insert(arg[t]) /\ UNCHANGED <<out, kept>>
       \/ Working /\ Insert(NoMsg) /\ out' = "bad" /\ kept' = kept \ Unfinished
    /\ Leave(t)
    /\ UNCHANGED <<waiting, m, made, logFile, onConsole, console, logged>>

\* setFile() up to the new name.  The file is closed unless the argument is the very
\* name composed before, which is empty before the first call.
SetFileCloses(t) ==
    /\ Entering(t, "set")
    /\ onConsole' = FALSE /\ onFile' = FALSE
    /\ \/ \E f \in File : logFile' = f /\ out' = "closed"
       \/ UNCHANGED <<logFile, out>>
    /\ Goto(t, "inside")
    /\ UNCHANGED <<syncVars, todo, arg, m, made, outputVars, logged, kept>>

\* Mutant of SetFileOpens: the open file is truncated (std::ios::trunc).
SetFileOpens_Truncates(t) ==
    /\ Leaving(t, "set")
    /\ \/ /\ logFile # NoFile /\ out = "closed" /\ out' = "open"
          /\ files' = [files EXCEPT ![logFile] = <<>>] /\ UNCHANGED kept
       \/ out' = (IF out = "closed" THEN "closed" ELSE "bad") /\ kept' = kept \ Unfinished
          /\ UNCHANGED files
    /\ Leave(t)
    /\ UNCHANGED <<waiting, m, made, logFile, onConsole, onFile, console, logged>>

\* out_.open() appends to the file; it fails when the stream has a file open already or
\* the name is empty, and for reasons of the file system.
SetFileOpens(t) ==
    /\ Leaving(t, "set")
    /\ \/ logFile # NoFile /\ out = "closed" /\ out' = "open" /\ UNCHANGED kept
       \/ out' = (IF out = "closed" THEN "closed" ELSE "bad") /\ kept' = kept \ Unfinished
    /\ Leave(t)
    /\ UNCHANGED <<waiting, m, made, logFile, onConsole, onFile, outputVars, logged>>

\* The cancelled thread ends in a write(), open() or close() of the stream.  Nothing
\* calls unlock().
Cancel(t) ==
    /\ pc[t] = "inside"
    /\ Goto(t, "terminated")
    /\ UNCHANGED <<syncVars, todo, arg, m, objectVars, outputVars, logged, kept>>

Body(t) ==
    \/ FirstTest(t) \/ SecondTest(t) \/ New(t) \/ NewEnds(t)
    \/ ConsoleBegins(t) \/ ConsoleEnds(t) \/ FileBegins(t) \/ FileEnds(t)
    \/ SetFileCloses(t) \/ SetFileOpens(t)

Next ==
    \E t \in Thread :
        \/ \E x \in Msg : Log(t, x)
        \/ LogFile(t) \/ Acquire(t) \/ Body(t) \/ Cancel(t)

Spec == Init /\ [][Next]_vars

\* A thread inside a macro is scheduled and obtains a lock that keeps being released;
\* whether a thread logs, or is cancelled, is up to the program.
Fairness == \A t \in Thread : SF_vars(Acquire(t)) /\ WF_vars(Body(t))

FairSpec == Spec /\ Fairness

--------------------------------------------------------------------------------
TypeOK ==
    /\ SyncTypeOK
    /\ pc \in [Thread -> Places]
    /\ todo \in [Thread -> Seq(Methods)]
    /\ arg \in [Thread -> Msg \cup {NoMsg}]
    /\ m \in BOOLEAN /\ made \in Nat
    /\ logFile \in File \cup {NoFile} /\ out \in {"open", "closed", "bad"}
    /\ onConsole \in BOOLEAN /\ onFile \in BOOLEAN
    /\ console \in Seq(Msg) /\ files \in [File -> Seq(Msg \cup {NoMsg})]
    /\ kept \subseteq logged /\ logged \subseteq Msg

\* getInstance() makes one Logger, and although a thread may find m_ set before the
\* constructor has run, no method touches the object before it is constructed.
OneLogger ==
    /\ made <= 1
    /\ \A t \in Thread : pc[t] \in {"call", "inside"} /\ t \in holder => made = 1

\* After the beginning of a line comes its end, or the place where its write failed.
Whole(lines) ==
    \A i \in 1..(Len(lines) - 1) : i % 2 = 1 => lines[i + 1] \in {lines[i], NoMsg}

\* Lines that several threads print at a time do not mix, on the console or in a file,
\* also when setFile() switches files under them.
LinesWhole == Whole(console) /\ \A f \in File : Whole(files[f])

\* The message x is in the file f, at the given places, and nowhere else.
OnlyAt(x, f, places) ==
    \A g \in File : \A i \in 1..Len(files[g]) : files[g][i] = x <=> (g = f /\ i \in places)

\* A message whose macro began while a log file was working is, once the macro has
\* returned, in exactly one of the files, and there as one line, whatever files other
\* threads have switched to meanwhile, unless the stream failed before the macro returned;
\* it stays there whatever fails, or is switched, afterwards.
KeptOnce ==
    \A x \in kept :
        (\A t \in Thread : arg[t] # x) =>
            \E f \in File : \E i \in 1..(Len(files[f]) - 1) : OnlyAt(x, f, {i, i + 1})

\* A thread that was cancelled inside a method has taken the lock with it.
LockLost == \E u \in Thread : pc[u] = "terminated" /\ holder = {u}

InMacro(t) == pc[t] \notin {"ready", "terminated"}

\* Every macro returns, unless a thread was cancelled inside one.
MacrosReturn == \A t \in Thread : InMacro(t) ~> (~InMacro(t) \/ LockLost)

--------------------------------------------------------------------------------
(* What comments say and the code does not do.                               *)

\* "It is Pthread-safe": a thread that logs is not blocked for ever by another one.
PthreadSafe == \A t \in Thread : InMacro(t) ~> ~InMacro(t)

\* latestMsgPrintedOnFile() says "true if it has been printed; false otherwise" of the
\* latest message; the flag is set although the stream failed to open.
FileFlagTruthful == onFile /\ holder = {} => \E f \in File : files[f] # <<>>

\* latestMsgPrintedOnConsole() says the same of the console: the only print that sets
\* the flag never resets it, so that after a message that is not meant for the console
\* the flag still tells of an earlier one.
ConsoleFlagTruthful ==
    [][\A t \in Thread : FileEnds(t) /\ Len(todo[t]) = 1 =>
        (onConsole' <=> arg[t] \in ToSet(console))]_vars
================================================================================
