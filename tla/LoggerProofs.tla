------------------------------ MODULE LoggerProofs ------------------------------
(***************************************************************************)
(* Proofs about Logger, for any set of threads, messages, levels and       *)
(* files: the double-checked getInstance() makes one Logger, the lines of  *)
(* several threads do not mix, and each message kept is in one file once.  *)
(***************************************************************************)
EXTENDS Logger, SequenceTheorems, TLAPS

\* Places in the middle of m_ = new Logger.
Creating == {"new", "built", "published"}

ControlInv ==
    /\ pc \in [Thread -> Places]
    /\ holder = {} \/ \E t \in Thread : holder = {t}
    /\ m \in BOOLEAN

\* Whoever creates the logger, or is half way through a method, has the lock.
LockInv == \A t \in Thread : pc[t] \in Creating \cup {"inside"} => holder = {t}

\* What the place of the creating thread says about m_ and the object; m_ tells the truth
\* when nobody creates, and who goes on with a method has found it set.
CreateInv ==
    /\ \A t \in Thread :
        /\ pc[t] = "new" => ~m /\ made = 0
        /\ pc[t] = "built" => ~m /\ made = 1
        /\ pc[t] = "published" => m /\ made = 0
        /\ pc[t] \in {"call", "inside"} => m
    /\ (\A t \in Thread : pc[t] \notin Creating) => made = (IF m THEN 1 ELSE 0)

Inv == ControlInv /\ LockInv /\ CreateInv

\* No thread is inside, the lock is free and there is no object at the start.
LEMMA InvInit == Init => Inv
  BY DEF Init, SyncInit, Inv, ControlInv, LockInv, CreateInv, Creating, Places

\* One thread creates at a time.
LEMMA OneCreator ==
    ASSUME Inv, NEW t \in Thread, t \in holder
    PROVE  /\ holder = {t}
           /\ \A u \in Thread \ {t} : pc[u] \notin Creating \cup {"inside"}
  BY DEF Inv, ControlInv, LockInv

\* Steps that leave m_, the lock and the object alone and do not go to or from a place of
\* getInstance().
LEMMA QuietStep ==
    ASSUME Inv, NEW t \in Thread, NEW from \in Places, NEW to \in Places,
           pc[t] = from, Goto(t, to), UNCHANGED <<m, made>>,
           from \notin Creating, to \notin Creating,
           to \in {"call", "inside"} => m,
           \/ UNCHANGED holder /\ (to = "inside" => holder = {t})
           \/ holder = {t} /\ holder' = {} /\ to # "inside"
    PROVE  Inv'
<1>1. ControlInv'
  BY DEF Inv, ControlInv, Goto
<1>2. LockInv'
  BY DEF Inv, ControlInv, LockInv, Goto, Creating
<1>3. CreateInv'
  BY DEF Inv, ControlInv, CreateInv, Goto, Creating
<1> QED
  BY <1>1, <1>2, <1>3 DEF Inv

\* getInstance() keeps the places of the threads, the lock and the one creation.
LEMMA GetInstanceStep ==
    ASSUME Inv, NEW t \in Thread,
           Acquire(t) \/ FirstTest(t) \/ SecondTest(t) \/ New(t) \/ NewEnds(t)
    PROVE  Inv'
<1>1. CASE Acquire(t)
  <2>1. holder = {} /\ holder' = {t} /\ UNCHANGED <<pc, m, objectVars>>
    BY <1>1 DEF Acquire, Lock
  <2> QED
    BY <2>1 DEF Inv, ControlInv, LockInv, CreateInv, objectVars
<1>2. CASE FirstTest(t)
  BY <1>2, QuietStep DEF FirstTest, Places, Creating, syncVars, objectVars, Inv, ControlInv
<1>3. CASE SecondTest(t)
  <2>1. CASE m
    BY <1>3, <2>1, QuietStep DEF SecondTest, Unlock, Places, Creating, objectVars
  <2>2. CASE ~m
    <3>1. holder = {t} /\ Goto(t, "new") /\ UNCHANGED <<holder, m, made>>
      BY <1>3, <2>2 DEF SecondTest, objectVars
    <3>2. \A u \in Thread : pc[u] \notin Creating
      BY <1>3, <3>1, OneCreator DEF SecondTest, Creating
    <3> QED
      BY <2>2, <3>1, <3>2 DEF Inv, ControlInv, LockInv, CreateInv, Goto, Creating, Places
  <2> QED
    BY <2>1, <2>2
<1>4. CASE New(t)
  <2>1. holder = {t} /\ ~m /\ made = 0 /\ UNCHANGED holder
    BY <1>4 DEF New, Inv, LockInv, CreateInv, Creating, syncVars
  <2>2. \/ made' = 1 /\ Goto(t, "built") /\ UNCHANGED m
        \/ m' = TRUE /\ Goto(t, "published") /\ UNCHANGED made
    BY <1>4, <2>1 DEF New, Construct, objectVars
  <2>3. \A u \in Thread \ {t} : pc[u] \notin Creating \cup {"call", "inside"}
    BY <2>1, OneCreator DEF Inv, CreateInv
  <2>4. ControlInv' /\ LockInv'
    BY <2>1, <2>2, <2>3 DEF Inv, ControlInv, LockInv, Goto, Creating, Places
  <2>5. CASE made' = 1 /\ Goto(t, "built") /\ UNCHANGED m
    BY <2>1, <2>3, <2>4, <2>5 DEF Inv, ControlInv, CreateInv, Goto, Creating
  <2>6. CASE m' = TRUE /\ Goto(t, "published") /\ UNCHANGED made
    BY <2>1, <2>3, <2>4, <2>6 DEF Inv, ControlInv, CreateInv, Goto, Creating
  <2> QED
    BY <2>2, <2>5, <2>6
<1>5. CASE NewEnds(t)
  <2>1. holder = {t} /\ holder' = {} /\ Goto(t, "call")
    BY <1>5 DEF NewEnds, Unlock
  <2>2. m' = TRUE /\ made' = 1
    BY <1>5 DEF NewEnds, Construct, objectVars, Inv, CreateInv
  <2>3. \A u \in Thread \ {t} : pc[u] \notin Creating \cup {"inside"}
    BY <2>1, OneCreator
  <2> QED
    BY <2>1, <2>2, <2>3 DEF Inv, ControlInv, LockInv, CreateInv, Goto, Creating, Places
<1> QED
  BY <1>1, <1>2, <1>3, <1>4, <1>5

\* The macros and methods never come back to the creation.
LEMMA MethodStep ==
    ASSUME Inv, NEW t \in Thread,
           \/ \E x \in Msg : Log(t, x)
           \/ LogFile(t) \/ Cancel(t)
           \/ ConsoleBegins(t) \/ ConsoleEnds(t) \/ FileBegins(t) \/ FileEnds(t)
           \/ SetFileCloses(t) \/ SetFileOpens(t)
    PROVE  Inv'
<1>1. CASE (\E x \in Msg : Log(t, x)) \/ LogFile(t)
  BY <1>1, QuietStep DEF Log, LogFile, Places, Creating, syncVars, objectVars
<1>2. CASE Cancel(t)
  BY <1>2, QuietStep DEF Cancel, Places, Creating, syncVars, objectVars
<1>3. CASE ConsoleBegins(t) \/ FileBegins(t) \/ SetFileCloses(t)
  <2>1. /\ pc[t] = "call" /\ t \in holder /\ Goto(t, "inside")
        /\ UNCHANGED <<holder, m, made>>
    BY <1>3 DEF ConsoleBegins, FileBegins, SetFileCloses, Entering, syncVars, objectVars
  <2>2. m /\ holder = {t}
    BY <2>1, OneCreator DEF Inv, CreateInv
  <2> QED
    BY <2>1, <2>2, QuietStep DEF Places, Creating
<1>4. CASE ConsoleEnds(t) \/ FileEnds(t) \/ SetFileOpens(t)
  <2>1. /\ pc[t] = "inside" /\ holder = {t} /\ holder' = {}
        /\ Goto(t, "ready") \/ Goto(t, "test")
        /\ UNCHANGED <<m, made>>
    BY <1>4 DEF ConsoleEnds, FileEnds, SetFileOpens, Leaving, Leave, Unlock
  <2> QED
    BY <2>1, QuietStep DEF Places, Creating
<1> QED
  BY <1>1, <1>2, <1>3, <1>4

\* Every step keeps the places of the threads, the lock and the one creation.
LEMMA InvStep == Inv /\ [Next]_vars => Inv'
<1> SUFFICES ASSUME Inv, [Next]_vars PROVE Inv'
  OBVIOUS
<1>1. CASE UNCHANGED vars
  BY <1>1 DEF vars, objectVars, Inv, ControlInv, LockInv, CreateInv
<1>2. CASE Next
  BY <1>2, GetInstanceStep, MethodStep DEF Next, Body
<1> QED
  BY <1>1, <1>2

\* Whatever the threads, and wherever they are cancelled, the invariant of the
\* double-checked creation holds.
THEOREM Invariant == Spec => []Inv
  BY InvInit, InvStep, PTL DEF Spec

\* getInstance() makes one Logger, although it tests m_ without the lock, and no method
\* uses it before it is constructed, although m_ may be seen set before.
THEOREM OneLoggerCorrect == Spec => []OneLogger
<1>1. Inv => OneLogger
  <2> SUFFICES ASSUME Inv PROVE OneLogger
    OBVIOUS
  <2>1. made <= 1
    BY DEF Inv, CreateInv, Creating
  <2>2. ASSUME NEW t \in Thread, pc[t] \in {"call", "inside"}, t \in holder
        PROVE  made = 1
    <3>1. \A u \in Thread : pc[u] \notin Creating
      BY <2>2, OneCreator DEF Creating
    <3> QED
      BY <2>2, <3>1 DEF Inv, CreateInv
  <2> QED
    BY <2>1, <2>2 DEF OneLogger
<1> QED
  BY <1>1, Invariant, PTL

--------------------------------------------------------------------------------
(* Lines.                                                                    *)

Line == Msg \cup {NoMsg}

Even(lines) == Len(lines) % 2 = 0

\* The last line has been begun with x and not ended.
Begun(lines, x) == Len(lines) % 2 = 1 /\ lines[Len(lines)] = x

\* A first half after whole lines begins a line.
LEMMA BeginLine ==
    ASSUME NEW s \in Seq(Line), NEW x \in Line, Whole(s), Even(s)
    PROVE  Append(s, x) \in Seq(Line) /\ Whole(Append(s, x)) /\ Begun(Append(s, x), x)
<1> DEFINE n == Len(s)
<1>1. /\ Append(s, x) \in Seq(Line) /\ Len(Append(s, x)) = n + 1 /\ n \in Nat
      /\ Append(s, x)[n + 1] = x
      /\ \A i \in 1..n : Append(s, x)[i] = s[i]
  BY AppendProperties, LenProperties
<1>2. n % 2 = 0
  BY DEF Even
<1> HIDE DEF n
<1>3. (n + 1) % 2 = 1
  BY <1>1, <1>2
<1>4. ASSUME NEW i \in 1..n, i % 2 = 1
      PROVE  i + 1 \in 1..n /\ s[i + 1] \in {s[i], NoMsg}
  <2>1. i # n
    BY <1>2, <1>4
  <2>2. i \in 1..(n - 1) /\ i + 1 \in 1..n
    BY <1>1, <2>1
  <2> QED
    BY <1>4, <2>2 DEF Whole, n
<1>5. Whole(Append(s, x))
  <2> SUFFICES ASSUME NEW i \in 1..n, i % 2 = 1
               PROVE  Append(s, x)[i + 1] \in {Append(s, x)[i], NoMsg}
    BY <1>1 DEF Whole
  <2> QED
    BY <1>1, <1>4
<1> QED
  BY <1>1, <1>3, <1>5 DEF Begun

\* A second half, or none, ends the line that was begun.
LEMMA EndLine ==
    ASSUME NEW s \in Seq(Line), NEW x \in Line, Whole(s), Begun(s, x), NEW y \in {x, NoMsg}
    PROVE  Append(s, y) \in Seq(Line) /\ Whole(Append(s, y)) /\ Even(Append(s, y))
<1> DEFINE n == Len(s)
<1>1. y \in Line
  BY DEF Line
<1>2. /\ Append(s, y) \in Seq(Line) /\ Len(Append(s, y)) = n + 1 /\ n \in Nat
      /\ Append(s, y)[n + 1] = y
      /\ \A i \in 1..n : Append(s, y)[i] = s[i]
  BY <1>1, AppendProperties, LenProperties
<1>3. n % 2 = 1 /\ s[n] = x
  BY DEF Begun
<1>4. ASSUME NEW i \in 1..(n - 1), i % 2 = 1
      PROVE  s[i + 1] \in {s[i], NoMsg}
  BY <1>4 DEF Whole
<1> HIDE DEF n
<1>5. (n + 1) % 2 = 0
  BY <1>2, <1>3
<1>6. Whole(Append(s, y))
  <2> SUFFICES ASSUME NEW i \in 1..n, i % 2 = 1
               PROVE  Append(s, y)[i + 1] \in {Append(s, y)[i], NoMsg}
    BY <1>2 DEF Whole
  <2>1. CASE i = n
    BY <1>2, <1>3, <2>1
  <2>2. CASE i # n
    <3>1. i \in 1..(n - 1) /\ i + 1 \in 1..n
      BY <1>2, <2>2
    <3> QED
      BY <1>2, <1>4, <3>1
  <2> QED
    BY <2>1, <2>2
<1> QED
  BY <1>2, <1>5, <1>6 DEF Even

\* A thread between the two halves of a method, or cancelled there.
Halfway == {"inside", "terminated"}

LineTypes ==
    /\ arg \in [Thread -> Line]
    /\ todo = [t \in Thread |-> todo[t]]
    /\ console \in Seq(Line)
    /\ files \in [File -> Seq(Line)]

\* No line is begun, on the console or in a file.
NoneBegun == Even(console) /\ \A f \in File : Even(files[f])

\* What the thread t, half way through a method, has begun.
Half(t) ==
    \/ /\ Head(todo[t]) = "console"
       /\ Begun(console, arg[t])
       /\ \A f \in File : Even(files[f])
    \/ /\ Head(todo[t]) = "file"
       /\ Even(console)
       /\ \A f \in File :
            IF Working /\ f = logFile THEN Begun(files[f], arg[t]) ELSE Even(files[f])
    \/ Head(todo[t]) = "set" /\ NoneBegun

\* A line that is begun belongs to the one thread that has the lock, and a thread that was
\* cancelled in the middle of one keeps the lock for ever.
HalfInv ==
    /\ \A t \in Thread : pc[t] \in Halfway => holder = {t}
    /\ \A t \in Thread : pc[t] = "inside" => Half(t)
    /\ (\A t \in Thread : pc[t] \notin Halfway) => NoneBegun

LineInv == LineTypes /\ LinesWhole /\ HalfInv

\* The invariant of the lines holds at the start.
LEMMA LineInit == Init => LineInv
<1> SUFFICES ASSUME Init PROVE LineInv
  OBVIOUS
<1>1. <<>> \in Seq(Line) /\ Whole(<<>>) /\ Even(<<>>)
  BY EmptySeq DEF Whole, Even
<1> QED
  BY <1>1 DEF Init, LineInv, LineTypes, LinesWhole, HalfInv, NoneBegun, Halfway, Line

\* Steps outside the methods write nothing; those that change the object have the lock.
LEMMA OutsideStep ==
    ASSUME Inv, LineInv, NEW t \in Thread,
           \/ \E x \in Msg : Log(t, x)
           \/ LogFile(t) \/ Acquire(t) \/ FirstTest(t) \/ SecondTest(t) \/ New(t) \/ NewEnds(t)
    PROVE  LineInv'
<1> DEFINE Elsewhere == Places \ Halfway
<1>1. /\ pc[t] \in Elsewhere
      /\ UNCHANGED pc \/ \E place \in Elsewhere : Goto(t, place)
  BY DEF Log, LogFile, Acquire, FirstTest, SecondTest, New, NewEnds, Places, Halfway
<1>2. /\ arg' \in [Thread -> Line]
      /\ \A u \in Thread \ {t} : arg'[u] = arg[u] /\ todo'[u] = todo[u]
      /\ todo' = [u \in Thread |-> todo'[u]]
  <2>1. /\ UNCHANGED arg \/ \E x \in Msg : arg' = [arg EXCEPT ![t] = x]
        /\ UNCHANGED todo \/ \E list : todo' = [todo EXCEPT ![t] = list]
    BY DEF Log, LogFile, Acquire, FirstTest, SecondTest, New, NewEnds
  <2> QED
    BY <2>1 DEF LineInv, LineTypes, Line
<1>3. UNCHANGED outputVars
  BY DEF Log, LogFile, Acquire, FirstTest, SecondTest, New, NewEnds
<1>4. /\ UNCHANGED <<logFile, out>> \/ holder = {t}
      /\ UNCHANGED holder \/ holder \in {{}, {t}}
  <2>1. CASE New(t) \/ NewEnds(t)
    BY <2>1 DEF New, NewEnds, Inv, LockInv, Creating, syncVars
  <2> QED
    BY <2>1 DEF Log, LogFile, Acquire, FirstTest, SecondTest, Lock, Unlock, syncVars, objectVars
<1>5. \A u \in Thread : pc'[u] \in Halfway => u # t /\ pc'[u] = pc[u]
  BY <1>1 DEF Goto, Inv, ControlInv
<1>6. \A u \in Thread : pc[u] \in Halfway => u # t /\ pc'[u] = pc[u]
  BY <1>1 DEF Goto, Inv, ControlInv
<1>7. \A u \in Thread : pc'[u] \in Halfway => holder' = {u} /\ UNCHANGED <<logFile, out>>
  BY <1>4, <1>5 DEF LineInv, HalfInv
<1>8. LineTypes' /\ LinesWhole'
  BY <1>2, <1>3 DEF LineInv, LineTypes, LinesWhole, outputVars
<1>9. \A u \in Thread : pc'[u] = "inside" => Half(u)'
  <2> SUFFICES ASSUME NEW u \in Thread, pc'[u] = "inside" PROVE Half(u)'
    OBVIOUS
  <2>1. Half(u) /\ UNCHANGED <<logFile, out>> /\ arg'[u] = arg[u] /\ todo'[u] = todo[u]
    BY <1>2, <1>5, <1>7 DEF LineInv, HalfInv, Halfway
  <2> QED
    BY <1>3, <2>1 DEF Half, NoneBegun, Working, outputVars
<1>10. (\A u \in Thread : pc'[u] \notin Halfway) => NoneBegun'
  BY <1>3, <1>6 DEF LineInv, HalfInv, NoneBegun, outputVars
<1> QED
  BY <1>7, <1>8, <1>9, <1>10 DEF LineInv, HalfInv

\* A cancellation keeps the invariant of the lines.
LEMMA CancelStep ==
    ASSUME Inv, LineInv, NEW t \in Thread, Cancel(t)
    PROVE  LineInv'
<1>1. /\ pc[t] = "inside" /\ holder = {t} /\ Goto(t, "terminated")
      /\ UNCHANGED <<holder, todo, arg, logFile, out, console, files>>
  BY DEF Cancel, Inv, LockInv, syncVars, objectVars, outputVars
<1>2. \A u \in Thread \ {t} : pc[u] \notin Halfway /\ pc'[u] \notin Halfway
  BY <1>1 DEF LineInv, HalfInv, Goto, Inv, ControlInv
<1>3. pc'[t] = "terminated"
  BY <1>1 DEF Goto, Inv, ControlInv
<1> QED
  BY <1>1, <1>2, <1>3 DEF LineInv, LineTypes, LinesWhole, HalfInv, Halfway

\* The first half of a method finds no line begun.
LEMMA BeginStep ==
    ASSUME Inv, LineInv, NEW t \in Thread,
           ConsoleBegins(t) \/ FileBegins(t) \/ SetFileCloses(t)
    PROVE  LineInv'
<1>1. /\ pc[t] = "call" /\ t \in holder /\ Goto(t, "inside")
      /\ UNCHANGED <<holder, todo, arg>>
  BY DEF ConsoleBegins, FileBegins, SetFileCloses, Entering, syncVars
<1>2. holder = {t} /\ pc'[t] = "inside"
  BY <1>1, OneCreator DEF Goto, Inv, ControlInv
<1>3. \A u \in Thread : pc[u] \notin Halfway /\ (u # t => pc'[u] \notin Halfway)
  BY <1>1, <1>2 DEF LineInv, HalfInv, Halfway, Goto, Inv, ControlInv
<1>4. NoneBegun /\ arg[t] \in Line
  BY <1>3 DEF LineInv, LineTypes, HalfInv
<1>5. LineTypes' /\ LinesWhole' /\ Half(t)'
  <2>1. CASE ConsoleBegins(t)
    <3>1. Head(todo[t]) = "console" /\ console' = Append(console, arg[t]) /\ UNCHANGED files
      BY <2>1 DEF ConsoleBegins, Entering
    <3>2. console' \in Seq(Line) /\ Whole(console') /\ Begun(console', arg[t])
      BY <1>4, <3>1, BeginLine DEF LineInv, LineTypes, LinesWhole, NoneBegun
    <3> QED
      BY <1>1, <1>4, <3>1, <3>2 DEF LineInv, LineTypes, LinesWhole, Half, NoneBegun
  <2>2. CASE FileBegins(t)
    <3>1. Head(todo[t]) = "file" /\ Insert(arg[t]) /\ UNCHANGED <<console, logFile, out>>
      BY <2>2 DEF FileBegins, Entering
    <3>2. \A f \in File :
            LET g == Append(files[f], arg[t]) IN
            g \in Seq(Line) /\ Whole(g) /\ Begun(g, arg[t])
      BY <1>4, BeginLine DEF LineInv, LineTypes, LinesWhole, NoneBegun
    <3>3. CASE Working
      <4>1. files' = [files EXCEPT ![logFile] = Append(files[logFile], arg[t])]
        BY <3>1, <3>3 DEF Insert
      <4> QED
        BY <1>1, <1>4, <3>1, <3>2, <3>3, <4>1
        DEF LineInv, LineTypes, LinesWhole, Half, NoneBegun, Working
    <3>4. CASE ~Working
      BY <1>1, <1>4, <3>1, <3>4
      DEF LineInv, LineTypes, LinesWhole, Half, NoneBegun, Working, Insert
    <3> QED
      BY <3>3, <3>4
  <2>3. CASE SetFileCloses(t)
    BY <1>1, <1>4, <2>3
    DEF SetFileCloses, Entering, LineInv, LineTypes, LinesWhole, Half, NoneBegun, outputVars
  <2> QED
    BY <2>1, <2>2, <2>3
<1> QED
  BY <1>1, <1>2, <1>3, <1>5 DEF LineInv, HalfInv, Halfway

\* The second half ends the line that the first one has begun.
LEMMA EndStep ==
    ASSUME Inv, LineInv, NEW t \in Thread,
           ConsoleEnds(t) \/ FileEnds(t) \/ SetFileOpens(t)
    PROVE  LineInv'
<1>1. pc[t] = "inside" /\ holder = {t} /\ Leave(t)
  BY DEF ConsoleEnds, FileEnds, SetFileOpens, Leaving, Leave, Unlock
<1>2. /\ Goto(t, "ready") \/ Goto(t, "test")
      /\ arg' \in [Thread -> Line]
      /\ todo' = [u \in Thread |-> todo'[u]]
  BY <1>1 DEF Leave, LineInv, LineTypes, Line
<1>3. \A u \in Thread : pc'[u] \notin Halfway
  BY <1>1, <1>2 DEF LineInv, HalfInv, Halfway, Goto, Inv, ControlInv
<1>4. Half(t) /\ arg[t] \in Line
  BY <1>1 DEF LineInv, LineTypes, HalfInv
<1>5. /\ console' \in Seq(Line) /\ files' \in [File -> Seq(Line)]
      /\ LinesWhole' /\ NoneBegun'
  <2>1. CASE ConsoleEnds(t)
    <3>1. Head(todo[t]) = "console" /\ console' = Append(console, arg[t]) /\ UNCHANGED files
      BY <2>1 DEF ConsoleEnds, Leaving
    <3>2. Begun(console, arg[t]) /\ \A f \in File : Even(files[f])
      BY <1>4, <3>1 DEF Half
    <3>3. console' \in Seq(Line) /\ Whole(console') /\ Even(console')
      BY <1>4, <3>1, <3>2, EndLine DEF LineInv, LineTypes, LinesWhole
    <3> QED
      BY <3>1, <3>2, <3>3 DEF LineInv, LineTypes, LinesWhole, NoneBegun
  <2>2. CASE FileEnds(t)
    <3>1. /\ Head(todo[t]) = "file" /\ UNCHANGED console
          /\ \E y \in {arg[t], NoMsg} : Insert(y) /\ (y = arg[t] \/ Working)
      BY <2>2 DEF FileEnds, Leaving
    <3>2. /\ Even(console)
          /\ \A f \in File :
               IF Working /\ f = logFile THEN Begun(files[f], arg[t]) ELSE Even(files[f])
      BY <1>4, <3>1 DEF Half
    <3>3. PICK y \in {arg[t], NoMsg} : Insert(y)
      BY <3>1
    <3>4. CASE Working
      <4>1. files' = [files EXCEPT ![logFile] = Append(files[logFile], y)]
        BY <3>3, <3>4 DEF Insert
      <4>2. ASSUME logFile \in File
            PROVE  LET g == Append(files[logFile], y) IN
                   g \in Seq(Line) /\ Whole(g) /\ Even(g)
        BY <1>4, <3>2, <3>4, <4>2, EndLine DEF LineInv, LineTypes, LinesWhole
      <4> QED
        BY <3>1, <3>2, <3>4, <4>1, <4>2 DEF LineInv, LineTypes, LinesWhole, NoneBegun
    <3>5. CASE ~Working
      BY <3>1, <3>2, <3>3, <3>5 DEF LineInv, LineTypes, LinesWhole, NoneBegun, Insert
    <3> QED
      BY <3>4, <3>5
  <2>3. CASE SetFileOpens(t)
    BY <1>4, <2>3
    DEF SetFileOpens, Leaving, LineInv, LineTypes, LinesWhole, Half, NoneBegun, outputVars
  <2> QED
    BY <2>1, <2>2, <2>3
<1> QED
  BY <1>2, <1>3, <1>5 DEF LineInv, LineTypes, HalfInv, Halfway

\* Every step keeps the invariant of the lines.
LEMMA LineStep == Inv /\ LineInv /\ [Next]_vars => LineInv'
<1> SUFFICES ASSUME Inv, LineInv, [Next]_vars PROVE LineInv'
  OBVIOUS
<1>1. CASE UNCHANGED vars
  BY <1>1 DEF vars, objectVars, outputVars, LineInv, LineTypes, LinesWhole, HalfInv, Half,
     NoneBegun, Working
<1>2. CASE Next
  BY <1>2, OutsideStep, CancelStep, BeginStep, EndStep DEF Next, Body
<1> QED
  BY <1>1, <1>2

\* The lines that threads print at a time do not mix, on the console or in any file, whatever
\* files are switched, streams fail and threads are cancelled meanwhile.
THEOREM LinesCorrect == Spec => []LinesWhole
<1>1. LineInv => LinesWhole
  BY DEF LineInv
<1> QED
  BY <1>1, Invariant, LineInit, LineStep, PTL DEF Spec

--------------------------------------------------------------------------------
(* Messages in the log files.                                                *)

\* The message x is in no file.
Absent(x) == \A f \in File : \A i \in 1..Len(files[f]) : files[f][i] # x

\* The line of x is begun: it is the last entry of the log file, and nowhere else.
Started(x) ==
    /\ Working /\ logFile \in File
    /\ 1 <= Len(files[logFile])
    /\ OnlyAt(x, logFile, {Len(files[logFile])})

\* The line of x is in one file, and nowhere else.
Placed(x) ==
    \E f \in File : \E i \in 1..(Len(files[f]) - 1) : OnlyAt(x, f, {i, i + 1})

\* A thread between the two halves of setFile(), or cancelled there.
Switching(t) == pc[t] \in Halfway /\ Head(todo[t]) = "set"

\* Each message is logged once, by one thread, which is in the macro until it forgets it.
MessageInv ==
    /\ logged \subseteq Msg /\ kept \subseteq logged
    /\ \A t \in Thread : arg[t] # NoMsg => arg[t] \in logged /\ pc[t] # "ready"
    /\ \A t, u \in Thread : arg[t] = arg[u] => t = u \/ arg[t] = NoMsg

\* While a macro has a message to be kept the stream works, or somebody is switching files.
SwitchInv ==
    /\ logFile \in File \cup {NoFile}
    /\ made = 0 => kept = {} /\ logFile = NoFile
    /\ \A t \in Thread : arg[t] \in kept => Working \/ \E u \in Thread : Switching(u)

\* What the thread that logs a message to be kept still has to do, and has done.
Due(t) ==
    /\ todo[t] \in {<<"console", "file">>, <<"file">>}
    /\ IF pc[t] \in Halfway /\ todo[t] = <<"file">> THEN Started(arg[t]) ELSE Absent(arg[t])

PrintInv ==
    /\ \A x \in Msg \ logged : Absent(x)
    /\ \A t \in Thread : arg[t] \in kept => Due(t)
    /\ \A x \in kept : (\A t \in Thread : arg[t] # x) => Placed(x)

KeepInv == MessageInv /\ SwitchInv /\ PrintInv

\* The lists of methods of the macros that print to the file.
LEMMA Macros ==
    /\ Head(<<"console", "file">>) = "console" /\ Tail(<<"console", "file">>) = <<"file">>
    /\ Len(<<"console", "file">>) = 2
    /\ Head(<<"file">>) = "file" /\ Len(<<"file">>) = 1
    /\ <<"console">> \o <<"file">> = <<"console", "file">> /\ <<>> \o <<"file">> = <<"file">>
    /\ <<"console", "file">> # <<"file">>
<1>1. /\ Head(<<"console", "file">>) = "console" /\ Len(<<"console", "file">>) = 2
      /\ Head(<<"file">>) = "file" /\ Len(<<"file">>) = 1
  OBVIOUS
<1>2. Tail(<<"console", "file">>) = <<"file">>
  OBVIOUS
<1>3. <<"console">> \o <<"file">> = <<"console", "file">>
  <2> DEFINE a == <<"console">>
             b == <<"file">>
             both == <<"console", "file">>
  <2>1. a \in Seq(Methods) /\ Len(a) = 1 /\ a[1] = "console"
    BY DEF Methods
  <2>2. b \in Seq(Methods) /\ Len(b) = 1 /\ b[1] = "file"
    BY DEF Methods
  <2>3. both \in Seq(Methods) /\ Len(both) = 2 /\ both[1] = "console" /\ both[2] = "file"
    BY DEF Methods
  <2> HIDE DEF a, b, both
  <2>4. a \o b \in Seq(Methods) /\ Len(a \o b) = 2
    BY <2>1, <2>2, ConcatProperties
  <2>5. (a \o b)[1] = "console" /\ (a \o b)[2] = "file"
    BY <2>1, <2>2, ConcatProperties
  <2>6. \A i \in 1..2 : (a \o b)[i] = both[i]
    <3>1. \A i \in 1..2 : i = 1 \/ i = 2
      OBVIOUS
    <3> QED
      BY <2>3, <2>5, <3>1
  <2>7. a \o b = both
    BY <2>3, <2>4, <2>6, SeqEqual
  <2> QED
    BY <2>7 DEF a, b, both
<1>4. <<>> \o <<"file">> = <<"file">>
  OBVIOUS
<1> QED
  BY <1>1, <1>2, <1>3, <1>4

\* A macro whose level the file shows ends with the print to the file.
LEMMA PrintsToFile ==
    ASSUME NEW severity, severity <= FileLevel
    PROVE  Expansion(severity) \in {<<"console", "file">>, <<"file">>}
  BY Macros DEF Expansion

\* What out_ << ... does to each file.
LEMMA InsertLine ==
    ASSUME LineTypes, NEW y \in Line, Insert(y), NEW f \in File
    PROVE  /\ Len(files[f]) \in Nat
           /\ Working /\ f = logFile =>
                /\ Len(files'[f]) = Len(files[f]) + 1
                /\ files'[f][Len(files[f]) + 1] = y
                /\ \A i \in 1..Len(files[f]) : files'[f][i] = files[f][i]
           /\ ~(Working /\ f = logFile) => files'[f] = files[f]
<1>1. files[f] \in Seq(Line) /\ Len(files[f]) \in Nat
  BY DEF LineTypes
<1>2. CASE Working
  <2>1. files' = [files EXCEPT ![logFile] = Append(@, y)]
    BY <1>2 DEF Insert
  <2>2. ASSUME f = logFile
        PROVE  /\ Len(files'[f]) = Len(files[f]) + 1
               /\ files'[f][Len(files[f]) + 1] = y
               /\ \A i \in 1..Len(files[f]) : files'[f][i] = files[f][i]
    <3>1. files'[f] = Append(files[f], y)
      BY <2>1, <2>2 DEF LineTypes
    <3> QED
      BY <1>1, <3>1, AppendProperties
  <2>3. f # logFile => files'[f] = files[f]
    BY <2>1 DEF LineTypes
  <2> QED
    BY <1>1, <1>2, <2>2, <2>3
<1>3. CASE ~Working
  BY <1>1, <1>3 DEF Insert
<1> QED
  BY <1>2, <1>3

\* Other messages, and failed writes, leave a message where it is.
LEMMA OthersInsert ==
    ASSUME LineTypes, NEW x, NEW y \in Line, x # y, Insert(y)
    PROVE  /\ Absent(x) => Absent(x)'
           /\ Placed(x) => Placed(x)'
<1>1. ASSUME NEW f \in File
      PROVE  /\ Len(files[f]) \in Nat /\ Len(files'[f]) \in Nat /\ Len(files[f]) <= Len(files'[f])
             /\ \A i \in 1..Len(files[f]) : files'[f][i] = files[f][i]
             /\ \A i \in 1..Len(files'[f]) : i \in 1..Len(files[f]) \/ files'[f][i] = y
  BY InsertLine
<1>2. Absent(x) => Absent(x)'
  BY <1>1 DEF Absent
<1>3. ASSUME Placed(x) PROVE Placed(x)'
  <2>1. PICK f \in File : \E i \in 1..(Len(files[f]) - 1) : OnlyAt(x, f, {i, i + 1})
    BY <1>3 DEF Placed
  <2>2. PICK i \in 1..(Len(files[f]) - 1) : OnlyAt(x, f, {i, i + 1})
    BY <2>1
  <2>3. i \in 1..(Len(files'[f]) - 1) /\ {i, i + 1} \subseteq 1..Len(files[f])
    BY <1>1, <2>2
  <2>4. ASSUME NEW g \in File, NEW j \in 1..Len(files'[g])
        PROVE  files'[g][j] = x <=> (g = f /\ j \in {i, i + 1})
    <3>1. CASE j \in 1..Len(files[g])
      BY <1>1, <2>2, <3>1 DEF OnlyAt
    <3>2. CASE j \notin 1..Len(files[g])
      BY <1>1, <2>3, <3>2
    <3> QED
      BY <3>1, <3>2
  <2>5. OnlyAt(x, f, {i, i + 1})'
    BY <2>4 DEF OnlyAt
  <2> QED
    BY <2>3, <2>5 DEF Placed
<1> QED
  BY <1>2, <1>3

\* The beginning of its line brings a message into the log file.
LEMMA LineStarts ==
    ASSUME LineTypes, NEW x \in Line, Absent(x), Insert(x), Working, logFile \in File,
           UNCHANGED <<logFile, out>>
    PROVE  Started(x)'
<1> DEFINE n == Len(files[logFile])
<1>1. /\ n \in Nat /\ Len(files'[logFile]) = n + 1 /\ files'[logFile][n + 1] = x
      /\ \A i \in 1..n : files'[logFile][i] = files[logFile][i]
      /\ \A g \in File : g # logFile => files'[g] = files[g]
  BY InsertLine
<1>2. ASSUME NEW g \in File, NEW j \in 1..Len(files'[g])
      PROVE  files'[g][j] = x <=> (g = logFile /\ j \in {n + 1})
  <2>1. CASE g # logFile
    BY <1>1, <2>1 DEF Absent
  <2>2. CASE g = logFile /\ j \in 1..n
    BY <1>1, <2>2 DEF Absent
  <2>3. CASE g = logFile /\ j = n + 1
    BY <1>1, <2>3
  <2> QED
    BY <1>1, <2>1, <2>2, <2>3
<1>3. OnlyAt(x, logFile, {Len(files[logFile])})'
  BY <1>1, <1>2 DEF OnlyAt
<1> QED
  BY <1>1, <1>3 DEF Started, Working

\* The end of the line completes it.
LEMMA LineEnds ==
    ASSUME LineTypes, NEW x \in Line, Started(x), Insert(x)
    PROVE  Placed(x)'
<1> DEFINE n == Len(files[logFile])
<1>1. /\ n \in Nat /\ Len(files'[logFile]) = n + 1 /\ files'[logFile][n + 1] = x
      /\ \A i \in 1..n : files'[logFile][i] = files[logFile][i]
      /\ \A g \in File : g # logFile => files'[g] = files[g]
  BY InsertLine DEF Started
<1>2. 1 <= n /\ OnlyAt(x, logFile, {n}) /\ logFile \in File
  BY DEF Started
<1>3. ASSUME NEW g \in File, NEW j \in 1..Len(files'[g])
      PROVE  files'[g][j] = x <=> (g = logFile /\ j \in {n, n + 1})
  <2>1. CASE g # logFile
    BY <1>1, <1>2, <2>1 DEF OnlyAt
  <2>2. CASE g = logFile /\ j \in 1..n
    BY <1>1, <1>2, <2>2 DEF OnlyAt
  <2>3. CASE g = logFile /\ j = n + 1
    BY <1>1, <2>3
  <2> QED
    BY <1>1, <2>1, <2>2, <2>3
<1>4. n \in 1..(Len(files'[logFile]) - 1)
  BY <1>1, <1>2
<1>5. \E f \in File : \E i \in 1..(Len(files'[f]) - 1) :
        \A g \in File : \A j \in 1..Len(files'[g]) :
            files'[g][j] = x <=> (g = f /\ j \in {i, i + 1})
  BY <1>2, <1>3, <1>4
<1> QED
  BY <1>5 DEF Placed, OnlyAt

\* The invariant of the messages holds at the start.
LEMMA KeepInit == Init => KeepInv
<1> SUFFICES ASSUME Init PROVE KeepInv
  OBVIOUS
<1>1. \A f \in File : Len(files[f]) = 0
  BY DEF Init
<1>2. PrintInv
  BY <1>1 DEF Init, PrintInv, Absent
<1> QED
  BY <1>2 DEF Init, KeepInv, MessageInv, SwitchInv, Switching, Halfway

\* Where a message stands depends on the files, and on what the last entry of the log file is.
LEMMA FilesKeep ==
    ASSUME UNCHANGED files, NEW x
    PROVE  /\ Absent(x) => Absent(x)'
           /\ Placed(x) => Placed(x)'
           /\ UNCHANGED <<logFile, out>> /\ Started(x) => Started(x)'
<1>1. files' = files
  OBVIOUS
<1>2. \A f, places : OnlyAt(x, f, places) => OnlyAt(x, f, places)'
  BY <1>1 DEF OnlyAt
<1>3. Absent(x) => Absent(x)'
  BY <1>1 DEF Absent
<1>4. Placed(x) => Placed(x)'
  BY <1>1, <1>2 DEF Placed
<1>5. UNCHANGED <<logFile, out>> /\ Started(x) => Started(x)'
  BY <1>1, <1>2 DEF Started, Working
<1> QED
  BY <1>3, <1>4, <1>5

\* A step in which t neither prints nor switches files leaves what others have begun alone.
LEMMA ElsewhereKeeps ==
    ASSUME LineTypes, KeepInv, NEW t \in Thread,
           pc[t] \notin Halfway, pc'[t] \notin Halfway,
           \A u \in Thread \ {t} : pc'[u] = pc[u] /\ todo'[u] = todo[u],
           UNCHANGED <<files, arg, logged, kept>>,
           pc'[t] = "ready" => arg[t] = NoMsg,
           todo'[t] = todo[t] \/ arg[t] = NoMsg,
           \/ UNCHANGED <<logFile, out, made>>
           \/ kept = {} /\ logFile' \in File \cup {NoFile} /\ made' # 0
              /\ \A u \in Thread : pc[u] \notin Halfway
    PROVE  KeepInv'
<1>1. MessageInv'
  BY DEF KeepInv, MessageInv
<1>2. \A u \in Thread : Switching(u)' <=> Switching(u)
  BY DEF Switching
<1>3. SwitchInv'
  <2>1. CASE UNCHANGED <<logFile, out, made>>
    BY <1>2, <2>1 DEF KeepInv, SwitchInv, Working
  <2>2. CASE kept = {} /\ logFile' \in File \cup {NoFile} /\ made' # 0
             /\ \A u \in Thread : pc[u] \notin Halfway
    BY <1>2, <2>2 DEF SwitchInv, Switching
  <2> QED
    BY <2>1, <2>2
<1>4. \A x : (Absent(x) => Absent(x)') /\ (Placed(x) => Placed(x)')
  BY FilesKeep
<1>5. ASSUME NEW u \in Thread, arg'[u] \in kept'
      PROVE  Due(u)'
  <2>1. Due(u) /\ arg'[u] = arg[u] /\ arg[u] \in kept /\ arg[u] # NoMsg
    BY <1>5, NoneAssumption DEF KeepInv, MessageInv, PrintInv
  <2>2. todo'[u] = todo[u] /\ (pc'[u] \in Halfway <=> pc[u] \in Halfway)
    BY <2>1
  <2>3. UNCHANGED <<logFile, out>>
    BY <2>1
  <2>4. \A x : Started(x) => Started(x)'
    BY <2>3, FilesKeep
  <2> QED
    BY <1>4, <2>1, <2>2, <2>4 DEF Due
<1>6. PrintInv'
  BY <1>4, <1>5 DEF KeepInv, PrintInv
<1> QED
  BY <1>1, <1>3, <1>6 DEF KeepInv

\* A step of getInstance() or of the choice of the file keeps the invariant of the messages.
LEMMA QuietKeeps ==
    ASSUME Inv, LineInv, KeepInv, NEW t \in Thread,
           LogFile(t) \/ Acquire(t) \/ FirstTest(t) \/ SecondTest(t) \/ New(t) \/ NewEnds(t)
    PROVE  KeepInv'
<1>1. pc \in [Thread -> Places] /\ LineTypes
  BY DEF Inv, ControlInv, LineInv
<1>2. /\ pc[t] \in Places \ Halfway
      /\ UNCHANGED pc \/ \E place \in Places \ (Halfway \cup {"ready"}) : Goto(t, place)
  BY DEF LogFile, Acquire, FirstTest, SecondTest, New, NewEnds, Places, Halfway
<1>3. UNCHANGED <<files, arg, logged, kept>>
  BY DEF LogFile, Acquire, FirstTest, SecondTest, New, NewEnds, outputVars
<1>4. UNCHANGED todo \/ (pc[t] = "ready" /\ todo' = [todo EXCEPT ![t] = <<"set">>])
  BY DEF LogFile, Acquire, FirstTest, SecondTest, New, NewEnds
<1>5. pc[t] = "ready" => arg[t] = NoMsg
  BY DEF KeepInv, MessageInv
<1>6. \A u \in Thread \ {t} : pc'[u] = pc[u] /\ todo'[u] = todo[u]
  BY <1>1, <1>2, <1>4 DEF Goto, LineTypes
<1>7. /\ pc[t] \notin Halfway /\ pc'[t] \notin Halfway
      /\ pc'[t] = "ready" => arg[t] = NoMsg
      /\ todo'[t] = todo[t] \/ arg[t] = NoMsg
  BY <1>1, <1>2, <1>4, <1>5 DEF Goto
<1>8. \/ UNCHANGED <<logFile, out, made>>
      \/ kept = {} /\ logFile' \in File \cup {NoFile} /\ made' # 0
         /\ \A u \in Thread : pc[u] \notin Halfway
  <2>1. CASE (New(t) \/ (NewEnds(t) /\ pc[t] = "published")) /\ Construct
    <3>1. holder = {t} /\ made = 0
      BY <2>1 DEF New, NewEnds, Inv, LockInv, CreateInv, Creating
    <3>2. logFile' = NoFile /\ made' = 1
      BY <2>1, <3>1 DEF Construct
    <3>3. \A u \in Thread : pc[u] \notin Halfway
      BY <1>7, <3>1 DEF LineInv, HalfInv
    <3> QED
      BY <3>1, <3>2, <3>3 DEF KeepInv, SwitchInv
  <2>2. CASE UNCHANGED objectVars
    BY <2>2 DEF objectVars
  <2>3. CASE New(t)
    BY <2>1, <2>2, <2>3 DEF New
  <2>4. CASE NewEnds(t)
    BY <2>1, <2>2, <2>4 DEF NewEnds
  <2> QED
    BY <2>2, <2>3, <2>4 DEF LogFile, Acquire, FirstTest, SecondTest
<1> QED
  BY <1>1, <1>3, <1>6, <1>7, <1>8, ElsewhereKeeps

\* A macro begins: its message is new, and in no file.
LEMMA LogKeeps ==
    ASSUME Inv, LineInv, KeepInv, NEW t \in Thread, NEW x \in Msg, Log(t, x)
    PROVE  KeepInv'
<1>1. pc \in [Thread -> Places] /\ LineTypes
  BY DEF Inv, ControlInv, LineInv
<1>2. /\ pc[t] = "ready" /\ x \notin logged /\ Goto(t, "test")
      /\ todo' = [todo EXCEPT ![t] = Expansion(Severity[x])]
      /\ arg' = [arg EXCEPT ![t] = x] /\ logged' = logged \cup {x}
      /\ kept' = IF Working /\ Severity[x] <= FileLevel THEN kept \cup {x} ELSE kept
      /\ UNCHANGED <<logFile, out, made, files>>
  BY DEF Log, objectVars, outputVars
<1>3. /\ pc'[t] = "test" /\ arg'[t] = x /\ todo'[t] = Expansion(Severity[x])
      /\ \A u \in Thread \ {t} : pc'[u] = pc[u] /\ todo'[u] = todo[u] /\ arg'[u] = arg[u]
  BY <1>1, <1>2 DEF Goto, LineTypes
<1>4. /\ arg[t] = NoMsg /\ x # NoMsg /\ x \notin kept
      /\ \A u \in Thread : arg[u] # x
  BY <1>2, NoneAssumption DEF KeepInv, MessageInv
<1>5. MessageInv'
  BY <1>2, <1>3, <1>4 DEF KeepInv, MessageInv
<1>6. \A u \in Thread : Switching(u)' <=> Switching(u)
  BY <1>2, <1>3 DEF Switching, Halfway
<1>7. SwitchInv'
  <2>1. Working' <=> Working
    BY <1>2 DEF Working
  <2>2. ASSUME NEW u \in Thread, arg'[u] \in kept'
        PROVE  Working \/ \E v \in Thread : Switching(v)
    <3>1. kept' = kept => u # t
      BY <1>3, <1>4, <2>2
    <3> QED
      BY <1>2, <1>3, <1>4, <2>2, <3>1 DEF KeepInv, SwitchInv
  <2>3. made = 0 => ~Working
    BY DEF KeepInv, SwitchInv, Working
  <2> QED
    BY <1>2, <1>6, <2>1, <2>2, <2>3 DEF KeepInv, SwitchInv
<1>8. \A y : /\ Absent(y) => Absent(y)'
             /\ Placed(y) => Placed(y)'
             /\ Started(y) => Started(y)'
  BY <1>2, FilesKeep
<1>9. Absent(x)
  BY <1>2 DEF KeepInv, PrintInv
<1>10. ASSUME NEW u \in Thread, arg'[u] \in kept'
       PROVE  Due(u)'
  <2>1. CASE u = t
    <3>1. Severity[x] <= FileLevel
      BY <1>2, <1>3, <1>4, <1>10, <2>1
    <3>2. todo'[t] \in {<<"console", "file">>, <<"file">>}
      BY <1>3, <3>1, PrintsToFile
    <3> QED
      BY <1>3, <1>8, <1>9, <2>1, <3>2 DEF Due, Halfway
  <2>2. CASE u # t
    <3>1. arg[u] \in kept /\ Due(u)
      BY <1>2, <1>3, <1>4, <1>10, <2>2 DEF KeepInv, PrintInv
    <3> QED
      BY <1>3, <1>8, <2>2, <3>1 DEF Due
  <2> QED
    BY <2>1, <2>2
<1>11. ASSUME NEW y \in kept', \A u \in Thread : arg'[u] # y
       PROVE  Placed(y)'
  <2>1. y \in kept /\ \A u \in Thread : arg[u] # y
    BY <1>2, <1>3, <1>4, <1>11, NoneAssumption DEF KeepInv, MessageInv
  <2> QED
    BY <1>8, <2>1 DEF KeepInv, PrintInv
<1>12. PrintInv'
  BY <1>2, <1>8, <1>10, <1>11 DEF KeepInv, PrintInv
<1> QED
  BY <1>5, <1>7, <1>12 DEF KeepInv

\* A cancelled thread leaves what it has begun as it is.
LEMMA CancelKeeps ==
    ASSUME Inv, LineInv, KeepInv, NEW t \in Thread, Cancel(t)
    PROVE  KeepInv'
<1>1. pc \in [Thread -> Places]
  BY DEF Inv, ControlInv
<1>2. /\ pc[t] = "inside" /\ Goto(t, "terminated")
      /\ UNCHANGED <<todo, arg, logged, kept, made, logFile, out, files>>
  BY DEF Cancel, objectVars, outputVars
<1>3. \A u \in Thread : /\ pc'[u] \in Halfway <=> pc[u] \in Halfway
                        /\ pc'[u] = "ready" => pc[u] = "ready"
  BY <1>1, <1>2 DEF Goto, Halfway
<1>4. MessageInv'
  BY <1>2, <1>3 DEF KeepInv, MessageInv
<1>5. SwitchInv'
  BY <1>2, <1>3 DEF KeepInv, SwitchInv, Switching, Working
<1>6. \A x : /\ Absent(x) => Absent(x)'
             /\ Placed(x) => Placed(x)'
             /\ Started(x) => Started(x)'
  BY <1>2, FilesKeep
<1>7. \A u \in Thread : Due(u) => Due(u)'
  BY <1>2, <1>3, <1>6 DEF Due
<1>8. PrintInv'
  BY <1>2, <1>6, <1>7 DEF KeepInv, PrintInv
<1> QED
  BY <1>4, <1>5, <1>8 DEF KeepInv

\* The first half of a method: nobody else is half way through one.
LEMMA BeginKeeps ==
    ASSUME Inv, LineInv, KeepInv, NEW t \in Thread,
           ConsoleBegins(t) \/ FileBegins(t) \/ SetFileCloses(t)
    PROVE  KeepInv'
<1>1. /\ pc[t] = "call" /\ t \in holder /\ Goto(t, "inside")
      /\ UNCHANGED <<todo, arg, logged, kept, made>>
  BY DEF ConsoleBegins, FileBegins, SetFileCloses, Entering, objectVars
<1>2. /\ pc'[t] = "inside"
      /\ \A u \in Thread \ {t} : pc'[u] = pc[u]
      /\ \A u \in Thread : pc[u] \notin Halfway
  BY <1>1, OneCreator DEF Goto, Inv, ControlInv, LineInv, HalfInv, Halfway
<1>3. /\ arg[t] \in Line /\ LineTypes
      /\ \A x \in Msg \ logged : x # arg[t] /\ x # NoMsg
  BY NoneAssumption DEF LineInv, LineTypes, KeepInv, MessageInv
<1>4. MessageInv'
  BY <1>1, <1>2 DEF KeepInv, MessageInv
<1>5. made # 0
  <2>1. m /\ \A u \in Thread : pc[u] \notin Creating
    BY <1>1, <1>2, OneCreator DEF Inv, CreateInv, Creating
  <2> QED
    BY <2>1 DEF Inv, CreateInv
<1>6. ASSUME NEW u \in Thread, arg[u] \in kept
      PROVE  Working /\ logFile \in File
  BY <1>2, <1>6 DEF KeepInv, SwitchInv, Switching, Working
<1>7. ASSUME NEW u \in Thread, arg[u] \in kept
      PROVE  /\ arg[u] # NoMsg /\ todo[u] \in {<<"console", "file">>, <<"file">>}
             /\ Absent(arg[u])
             /\ \A v \in Thread \ {u} : arg[v] # arg[u]
  BY <1>2, <1>7, NoneAssumption DEF KeepInv, MessageInv, PrintInv, Due
<1>8. \A u \in Thread : Switching(u)' => u = t /\ Head(todo[t]) = "set"
  BY <1>1, <1>2 DEF Switching
<1>9. CASE ConsoleBegins(t)
  <2>1. Head(todo[t]) = "console" /\ UNCHANGED <<logFile, out, files>>
    BY <1>9 DEF ConsoleBegins, Entering, objectVars
  <2>2. SwitchInv'
    BY <1>1, <1>6, <1>8, <2>1 DEF KeepInv, SwitchInv, Working
  <2>3. ASSUME NEW x
        PROVE  (Absent(x) => Absent(x)') /\ (Placed(x) => Placed(x)')
    BY <2>1, FilesKeep
  <2>4. ASSUME NEW u \in Thread, arg'[u] \in kept'
        PROVE  Due(u)'
    <3>1. u = t => todo[u] # <<"file">>
      BY <2>1, Macros
    <3> QED
      BY <1>1, <1>2, <1>7, <2>3, <2>4, <3>1 DEF Due
  <2>5. PrintInv'
    BY <1>1, <2>3, <2>4 DEF KeepInv, PrintInv
  <2> QED
    BY <1>4, <2>2, <2>5 DEF KeepInv
<1>10. CASE FileBegins(t)
  <2>1. Head(todo[t]) = "file" /\ Insert(arg[t]) /\ UNCHANGED <<logFile, out>>
    BY <1>10 DEF FileBegins, Entering
  <2>2. SwitchInv'
    BY <1>1, <1>6, <1>8, <2>1 DEF KeepInv, SwitchInv, Working
  <2>3. ASSUME NEW x, x # arg[t]
        PROVE  (Absent(x) => Absent(x)') /\ (Placed(x) => Placed(x)')
    BY <1>3, <2>1, <2>3, OthersInsert
  <2>4. ASSUME NEW u \in Thread, arg'[u] \in kept'
        PROVE  Due(u)'
    <3>1. CASE u = t
      <4>1. todo[t] = <<"file">>
        BY <1>1, <1>7, <2>1, <2>4, <3>1, Macros
      <4>2. Started(arg[t])'
        BY <1>1, <1>3, <1>6, <1>7, <2>1, <2>4, <3>1, LineStarts
      <4> QED
        BY <1>1, <1>2, <3>1, <4>1, <4>2 DEF Due, Halfway
    <3>2. CASE u # t
      BY <1>1, <1>2, <1>7, <2>3, <2>4, <3>2 DEF Due
    <3> QED
      BY <3>1, <3>2
  <2>5. ASSUME NEW x \in Msg \ logged'
        PROVE  Absent(x)'
    BY <1>1, <1>3, <2>3, <2>5 DEF KeepInv, PrintInv
  <2>6. ASSUME NEW x \in kept', \A u \in Thread : arg'[u] # x
        PROVE  Placed(x)'
    BY <1>1, <2>3, <2>6 DEF KeepInv, PrintInv
  <2>7. PrintInv'
    BY <2>4, <2>5, <2>6 DEF PrintInv
  <2> QED
    BY <1>4, <2>2, <2>7 DEF KeepInv
<1>11. CASE SetFileCloses(t)
  <2>1. /\ Head(todo[t]) = "set" /\ UNCHANGED files
        /\ logFile' \in File \cup {NoFile}
    BY <1>11 DEF SetFileCloses, Entering, outputVars, KeepInv, SwitchInv
  <2>2. Switching(t)'
    BY <1>1, <1>2, <2>1 DEF Switching, Halfway
  <2>3. SwitchInv'
    BY <1>1, <1>5, <2>1, <2>2 DEF SwitchInv
  <2>4. \A x : (Absent(x) => Absent(x)') /\ (Placed(x) => Placed(x)')
    BY <2>1, FilesKeep
  <2>5. ASSUME NEW u \in Thread, arg'[u] \in kept'
        PROVE  Due(u)'
    <3>1. u # t
      BY <1>1, <1>7, <2>1, <2>5, Macros
    <3> QED
      BY <1>1, <1>2, <1>7, <2>4, <2>5, <3>1 DEF Due
  <2>6. PrintInv'
    BY <1>1, <2>4, <2>5 DEF KeepInv, PrintInv
  <2> QED
    BY <1>4, <2>3, <2>6 DEF KeepInv
<1> QED
  BY <1>9, <1>10, <1>11

\* The second half of a method, after which nobody is half way through one.
LEMMA EndKeeps ==
    ASSUME Inv, LineInv, KeepInv, NEW t \in Thread,
           ConsoleEnds(t) \/ FileEnds(t) \/ SetFileOpens(t)
    PROVE  KeepInv'
<1>1. /\ pc[t] = "inside" /\ holder = {t} /\ Leave(t)
      /\ UNCHANGED <<logged, made, logFile>>
  BY DEF ConsoleEnds, FileEnds, SetFileOpens, Leaving, Leave, Unlock
<1>2. /\ todo' = [todo EXCEPT ![t] = Tail(todo[t])]
      /\ \/ Len(todo[t]) = 1 /\ Goto(t, "ready") /\ arg' = [arg EXCEPT ![t] = NoMsg]
         \/ Len(todo[t]) # 1 /\ Goto(t, "test") /\ UNCHANGED arg
  BY <1>1 DEF Leave, LineInv, LineTypes
<1>3. /\ pc'[t] \in {"ready", "test"} /\ todo'[t] = Tail(todo[t])
      /\ IF Len(todo[t]) = 1 THEN pc'[t] = "ready" /\ arg'[t] = NoMsg
                             ELSE pc'[t] = "test" /\ arg'[t] = arg[t]
      /\ \A u \in Thread \ {t} : pc'[u] = pc[u] /\ todo'[u] = todo[u] /\ arg'[u] = arg[u]
  BY <1>2 DEF Goto, LineInv, LineTypes, Inv, ControlInv
<1>4. /\ \A u \in Thread \ {t} : pc[u] \notin Halfway
      /\ \A u \in Thread : pc'[u] \notin Halfway
  BY <1>1, <1>3 DEF LineInv, HalfInv, Halfway
<1>5. /\ arg[t] \in Line /\ NoMsg \in Line /\ LineTypes
      /\ \A x \in Msg \ logged : x # arg[t] /\ x # NoMsg
  BY NoneAssumption DEF LineInv, LineTypes, KeepInv, MessageInv, Line
<1>6. kept' \in {kept, kept \ Unfinished}
  BY DEF ConsoleEnds, FileEnds, SetFileOpens
<1>7. MessageInv'
  BY <1>1, <1>3, <1>6 DEF KeepInv, MessageInv
<1>8. ASSUME NEW u \in Thread \ {t}, arg[u] \in kept
      PROVE  /\ arg[u] # arg[t] /\ todo[u] \in {<<"console", "file">>, <<"file">>}
             /\ Absent(arg[u])
  BY <1>4, <1>8, NoneAssumption DEF KeepInv, MessageInv, PrintInv, Due
<1>9. ASSUME arg[t] \in kept
      PROVE  /\ todo[t] \in {<<"console", "file">>, <<"file">>}
             /\ IF todo[t] = <<"file">> THEN Started(arg[t]) ELSE Absent(arg[t])
  BY <1>1, <1>9 DEF KeepInv, PrintInv, Due, Halfway
<1>10. NoMsg \notin kept
  BY NoneAssumption DEF KeepInv, MessageInv
<1>11. SwitchInv'
  <2>1. \A u \in Thread : ~Switching(u)'
    BY <1>4 DEF Switching
  <2>2. ASSUME NEW u \in Thread, arg'[u] \in kept'
        PROVE  Working'
    <3>1. arg'[u] = arg[u] /\ arg[u] \in kept /\ arg[u] \in Unfinished
      BY <1>3, <1>6, <1>10, <2>2 DEF Unfinished
    <3>2. CASE SetFileOpens(t)
      BY <2>2, <3>1, <3>2 DEF SetFileOpens, Working
    <3>3. CASE ConsoleEnds(t) \/ FileEnds(t)
      <4>1. \A v \in Thread : ~Switching(v)
        BY <1>4, <3>3 DEF ConsoleEnds, FileEnds, Leaving, Switching
      <4>2. UNCHANGED <<logFile, out>>
        BY <2>2, <3>1, <3>3 DEF ConsoleEnds, FileEnds
      <4> QED
        BY <3>1, <4>1, <4>2 DEF KeepInv, SwitchInv, Working
    <3> QED
      BY <3>2, <3>3
  <2> QED
    BY <1>1, <1>6, <2>2 DEF KeepInv, SwitchInv
<1>12. CASE ConsoleEnds(t) \/ SetFileOpens(t)
  <2>1. /\ Head(todo[t]) \in {"console", "set"} /\ UNCHANGED files
    BY <1>12 DEF ConsoleEnds, SetFileOpens, Leaving, outputVars
  <2>2. \A x : (Absent(x) => Absent(x)') /\ (Placed(x) => Placed(x)')
    BY <2>1, FilesKeep
  <2>3. ASSUME arg[t] \in kept
        PROVE  /\ todo'[t] = <<"file">> /\ arg'[t] = arg[t] /\ Absent(arg[t])
    <3>1. todo[t] = <<"console", "file">>
      BY <1>9, <2>1, <2>3, Macros
    <3> QED
      BY <1>3, <1>9, <2>3, <3>1, Macros
  <2>4. ASSUME NEW u \in Thread, arg'[u] \in kept'
        PROVE  Due(u)'
    <3>1. arg'[u] = arg[u] /\ arg[u] \in kept
      BY <1>3, <1>6, <1>10, <2>4
    <3> QED
      BY <1>3, <1>4, <1>8, <2>2, <2>3, <3>1 DEF Due
  <2>5. ASSUME NEW x \in kept', \A u \in Thread : arg'[u] # x
        PROVE  Placed(x)'
    <3>1. x \in kept /\ \A u \in Thread : arg[u] # x
      BY <1>3, <1>6, <2>3, <2>5
    <3> QED
      BY <2>2, <3>1 DEF KeepInv, PrintInv
  <2>6. PrintInv'
    BY <1>1, <2>2, <2>4, <2>5 DEF KeepInv, PrintInv
  <2> QED
    BY <1>7, <1>11, <2>6 DEF KeepInv
<1>13. CASE FileEnds(t)
  <2>1. PICK y \in {arg[t], NoMsg} :
            Insert(y) /\ (y = arg[t] \/ kept' = kept \ Unfinished)
    BY <1>13 DEF FileEnds
  <2>2. Head(todo[t]) = "file"
    BY <1>13 DEF FileEnds, Leaving
  <2>3. \A x : x # y => (Absent(x) => Absent(x)') /\ (Placed(x) => Placed(x)')
    BY <1>5, <2>1, OthersInsert
  <2>4. ASSUME NEW x \in kept', x = arg[t]
        PROVE  arg'[t] = NoMsg /\ Placed(x)'
    <3>1. x \in kept /\ Insert(x)
      BY <1>6, <2>1, <2>4 DEF Unfinished
    <3>2. todo[t] = <<"file">>
      BY <1>9, <2>2, <2>4, <3>1, Macros
    <3>3. arg'[t] = NoMsg
      BY <1>3, <3>2, Macros
    <3>4. x \in Line /\ Started(x)
      BY <1>5, <1>9, <2>4, <3>1, <3>2
    <3>5. Placed(x)'
      BY <1>5, <3>1, <3>4, LineEnds
    <3> QED
      BY <3>3, <3>5
  <2>5. ASSUME NEW x \in Msg \ logged'
        PROVE  Absent(x)'
    BY <1>1, <1>5, <2>1, <2>3, <2>5 DEF KeepInv, PrintInv
  <2>6. ASSUME NEW u \in Thread, arg'[u] \in kept'
        PROVE  Due(u)'
    <3>1. u # t
      BY <1>3, <1>6, <1>10, <2>4, <2>6
    <3>2. arg'[u] = arg[u] /\ arg[u] \in kept /\ y = arg[t]
      BY <1>3, <1>6, <2>1, <2>6, <3>1 DEF Unfinished
    <3> QED
      BY <1>3, <1>4, <1>8, <2>3, <3>1, <3>2 DEF Due
  <2>7. ASSUME NEW x \in kept', \A u \in Thread : arg'[u] # x
        PROVE  Placed(x)'
    <3>1. CASE x = arg[t]
      BY <2>4, <2>7, <3>1
    <3>2. CASE x # arg[t]
      <4>1. x \in kept /\ x # y /\ \A u \in Thread : arg[u] # x
        BY <1>3, <1>6, <1>10, <2>1, <2>7, <3>2
      <4> QED
        BY <2>3, <4>1 DEF KeepInv, PrintInv
    <3> QED
      BY <3>1, <3>2
  <2>8. PrintInv'
    BY <2>5, <2>6, <2>7 DEF PrintInv
  <2> QED
    BY <1>7, <1>11, <2>8 DEF KeepInv
<1> QED
  BY <1>12, <1>13

\* Every step keeps the invariant of the messages.
LEMMA KeepStep == Inv /\ LineInv /\ KeepInv /\ [Next]_vars => KeepInv'
<1> SUFFICES ASSUME Inv, LineInv, KeepInv, [Next]_vars PROVE KeepInv'
  OBVIOUS
<1>1. CASE UNCHANGED vars
  BY <1>1 DEF vars, objectVars, outputVars, KeepInv, MessageInv, SwitchInv, Switching, PrintInv,
     Due, Started, Placed, Absent, OnlyAt, Working
<1>2. CASE Next
  BY <1>2, QuietKeeps, LogKeeps, CancelKeeps, BeginKeeps, EndKeeps DEF Next, Body
<1> QED
  BY <1>1, <1>2

\* A message whose macro began while a log file was working is in one of the files, as one
\* line, for any messages, levels, files and threads that switch them.
THEOREM KeptCorrect == Spec => []KeptOnce
<1>1. KeepInv => KeptOnce
  BY DEF KeepInv, PrintInv, Placed, KeptOnce
<1> QED
  BY <1>1, Invariant, LineInit, LineStep, KeepInit, KeepStep, PTL DEF Spec
================================================================================
