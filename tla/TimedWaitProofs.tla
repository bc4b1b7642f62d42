----------------------------- MODULE TimedWaitProofs -----------------------------
(***************************************************************************)
(* Proofs about TimedWait, for any threads, any clock offset, any number   *)
(* of nanoseconds in a second and any bounds on the time.                  *)
(***************************************************************************)
EXTENDS TimedWait, TLAPS

Timespecs == [sec : Int, nsec : Int]

\* There is one condition.
LEMMA CondIsCond == cond \in Cond /\ \A c \in Cond : c = cond
  BY CondAssumption

--------------------------------------------------------------------------------
(* Times.                                                                    *)

\* clock_gettime() splits an instant, and nothing of it is lost.
LEMMA TimespecInstant ==
    ASSUME NEW x \in Int
    PROVE  Timespec(x) \in Timespecs /\ Normalised(Timespec(x)) /\ Instant(Timespec(x)) = x
<1>1. Second \in Int /\ Second > 0
  BY SecondAssumption
<1>2. x \div Second \in Int /\ x % Second \in 0..(Second - 1)
  BY <1>1
<1>3. (x \div Second) * Second + (x % Second) = x
  BY <1>1
<1> QED
  BY <1>1, <1>2, <1>3 DEF Timespec, Timespecs, Normalised, Instant

\* A timespec stands for an instant.
LEMMA InstantType ==
    ASSUME NEW v \in Timespecs
    PROVE  Instant(v) \in Int
  BY SecondAssumption DEF Timespecs, Instant

\* add() adds instants, although it does not carry.
LEMMA InstantAdds ==
    ASSUME NEW v \in Timespecs, NEW a \in Timespecs
    PROVE  /\ [sec |-> v.sec + a.sec, nsec |-> v.nsec + a.nsec] \in Timespecs
           /\ Instant([sec |-> v.sec + a.sec, nsec |-> v.nsec + a.nsec]) = Instant(v) + Instant(a)
<1>1. /\ Second \in Int
      /\ v.sec \in Int /\ v.nsec \in Int /\ a.sec \in Int /\ a.nsec \in Int
  BY SecondAssumption DEF Timespecs
<1>2. (v.sec + a.sec) * Second = v.sec * Second + a.sec * Second
  BY <1>1
<1> QED
  BY <1>1, <1>2 DEF Timespecs, Instant

\* A product by a positive number keeps the order.
LEMMA ProductMonotonic ==
    ASSUME NEW x \in Int, NEW y \in Int, NEW z \in Int, x <= y, z > 0
    PROVE  x * z <= y * z
<1>1. (y - x) * z >= 0
  OBVIOUS
<1>2. (y - x) * z = y * z - x * z
  OBVIOUS
<1>3. y * z \in Int /\ x * z \in Int
  OBVIOUS
<1> QED
  BY <1>1, <1>2, <1>3

\* Of two normalised values the one with more seconds is the later one.
LEMMA MoreSeconds ==
    ASSUME NEW v \in Timespecs, NEW w \in Timespecs, Normalised(v), Normalised(w), v.sec < w.sec
    PROVE  Instant(v) < Instant(w)
<1>1. /\ Second \in Int /\ Second > 0
      /\ v.sec \in Int /\ w.sec \in Int /\ v.nsec \in Int /\ w.nsec \in Int
      /\ 0 <= w.nsec /\ v.nsec < Second
  BY SecondAssumption DEF Timespecs, Normalised
<1>2. (v.sec + 1) * Second <= w.sec * Second
  <2>1. v.sec + 1 \in Int /\ v.sec + 1 <= w.sec
    BY <1>1
  <2> QED
    BY <1>1, <2>1, ProductMonotonic
<1>3. (v.sec + 1) * Second = v.sec * Second + Second
  BY <1>1
<1>4. v.sec * Second \in Int /\ w.sec * Second \in Int
  BY <1>1
<1>5. v.sec * Second + v.nsec < w.sec * Second + w.nsec
  BY <1>1, <1>2, <1>3, <1>4
<1> QED
  BY <1>5 DEF Instant

\* Two instants are ordered as their nanoseconds when their seconds are equal.
LEMMA SameSeconds ==
    ASSUME NEW v \in Timespecs, NEW w \in Timespecs, v.sec = w.sec
    PROVE  /\ v.nsec < w.nsec <=> Instant(v) < Instant(w)
           /\ v.nsec = w.nsec <=> Instant(v) = Instant(w)
<1> DEFINE s == v.sec * Second
           n == v.nsec
           m == w.nsec
<1>1. s \in Int /\ n \in Int /\ m \in Int
  BY SecondAssumption DEF Timespecs
<1>2. Instant(v) = s + n /\ Instant(w) = s + m
  BY DEF Instant
<1>3. (n < m <=> s + n < s + m) /\ (n = m <=> s + n = s + m)
  <2> HIDE DEF s, n, m
  <2> QED
    BY <1>1
<1> QED
  BY <1>2, <1>3

\* operator<, operator> and operator== order normalised values as their instants.
LEMMA ComparisonsAgree ==
    ASSUME NEW v \in Timespecs, NEW w \in Timespecs, Normalised(v), Normalised(w)
    PROVE  /\ Less(v, w) <=> Instant(v) < Instant(w)
           /\ Greater(v, w) <=> Instant(v) > Instant(w)
           /\ Equal(v, w) <=> Instant(v) = Instant(w)
<1>1. /\ v.sec \in Int /\ w.sec \in Int /\ v.nsec \in Int /\ w.nsec \in Int
      /\ Instant(v) \in Int /\ Instant(w) \in Int
  BY InstantType DEF Timespecs
<1>2. CASE v.sec < w.sec
  BY <1>1, <1>2, MoreSeconds DEF Less, Greater, Equal
<1>3. CASE w.sec < v.sec
  BY <1>1, <1>3, MoreSeconds DEF Less, Greater, Equal
<1>4. CASE v.sec = w.sec
  BY <1>1, <1>4, SameSeconds DEF Less, Greater, Equal
<1> QED
  BY <1>1, <1>2, <1>3, <1>4

\* On all values, normalised or not, exactly one of the comparisons holds.
LEMMA OneComparison ==
    ASSUME NEW v \in Timespecs, NEW w \in Timespecs
    PROVE  /\ Less(v, w) <=> ~Greater(v, w) /\ ~Equal(v, w)
           /\ Greater(v, w) => ~Equal(v, w)
  BY DEF Timespecs, Less, Greater, Equal

--------------------------------------------------------------------------------
(* The inductive invariant: OwnerHolds with what a blocked thread is doing,  *)
(* and TimeoutNotEarly with what a Time stands for and what a timeout says.  *)

\* A thread that is blocked on the condition is inside one of the two waits.
BlockedWaits == \A t \in Thread : t \in waiting[cond] => pc[t] \in {"wait", "timedWait"}

\* A Time read from CLOCK_REALTIME is the instant of the reading and what was added.
TimeAdded == \A t \in Timer : origin[t] = "realtime" => Instant(time[t]) = start[t] + asked[t]

\* Who was told ETIMEDOUT has not changed its Time since, and its instant is over.
TimedOut == \A t \in Timer : result[t] = "ETIMEDOUT" => clock >= Instant(time[t])

Inv == TypeOK /\ BlockedWaits /\ OwnerHolds /\ TimeAdded /\ TimedOut

\* The facts about the constants that the steps use.
LEMMA ConstantFacts ==
    /\ Boot \in Nat /\ Horizon \in Nat /\ MaxStart \in Nat /\ MaxAsked \in Nat
    /\ MaxTaken \in Nat /\ 0 \in -MaxTaken..MaxAsked
    /\ Boot <= Horizon /\ MaxStart <= Horizon
    /\ Clocks \subseteq {"realtime", "monotonic"}
    /\ Timer \subseteq Thread
    /\ Addend \subseteq Timespecs
  BY ClockAssumption, AddendAssumption, TimerAssumption DEF Timespecs

\* Both clocks show an instant, whichever is read.
LEMMA ReadingType ==
    ASSUME TypeOK, NEW c
    PROVE  Reading(c) \in Int
  BY ConstantFacts DEF TypeOK, Reading

\* The invariant holds at the start.
LEMMA InvInit == Init => Inv
<1> SUFFICES ASSUME Init PROVE Inv
  OBVIOUS
<1>1. TypeOK
  <2>1. SyncTypeOK
    BY DEF Init, SyncInit, SyncTypeOK
  <2>2. Timespec(0) \in [sec : Int, nsec : Int]
    BY TimespecInstant DEF Timespecs
  <2>3. time \in [Timer -> [sec : Int, nsec : Int]]
    BY <2>2 DEF Init
  <2>4. clock \in Boot..Horizon /\ start \in [Timer -> 0..Horizon] /\ asked \in [Timer -> -MaxTaken..MaxAsked]
    BY ConstantFacts DEF Init
  <2>5. /\ pc \in [Thread -> States] /\ result \in [Thread -> Results] /\ called \subseteq Thread
        /\ origin \in [Timer -> Clocks \cup {"set"}]
    BY DEF Init, States, Results
  <2> QED
    BY <2>1, <2>3, <2>4, <2>5 DEF TypeOK
<1>2. BlockedWaits /\ OwnerHolds
  BY CondIsCond DEF Init, SyncInit, BlockedWaits, OwnerHolds
<1>3. TimeAdded /\ TimedOut
  BY ConstantFacts DEF Init, TimeAdded, TimedOut
<1> QED
  BY <1>1, <1>2, <1>3 DEF Inv

--------------------------------------------------------------------------------
(* Types.                                                                    *)

\* Setting one field of the state to a value of its type keeps the type.
LEMMA ThreadMoves ==
    ASSUME TypeOK, NEW t \in Thread, NEW s \in States, NEW r \in Results
    PROVE  /\ Goto(t, s) => pc' \in [Thread -> States]
           /\ Returns(t, r) => result' \in [Thread -> Results]
  BY DEF TypeOK, Goto, Returns

\* The calls on the mutex and on the condition.
LEMMA SyncSteps ==
    ASSUME TypeOK, NEW t \in Thread
    PROVE  /\ Lock(t) /\ UNCHANGED waiting => SyncTypeOK'
           /\ Unlock(t) /\ UNCHANGED waiting => SyncTypeOK'
           /\ WaitOn(t, cond) => SyncTypeOK'
           /\ Signal(cond) /\ UNCHANGED holder => SyncTypeOK'
           /\ SpuriousWakeup(t, cond) => SyncTypeOK'
           /\ UNCHANGED syncVars => SyncTypeOK'
<1> USE DEF TypeOK, SyncTypeOK
<1>1. Lock(t) /\ UNCHANGED waiting => SyncTypeOK'
  BY DEF Lock
<1>2. Unlock(t) /\ UNCHANGED waiting => SyncTypeOK'
  BY DEF Unlock
<1>3. WaitOn(t, cond) => SyncTypeOK'
  BY CondIsCond DEF WaitOn, Unlock
<1>4. Signal(cond) /\ UNCHANGED holder => SyncTypeOK'
  BY CondIsCond DEF Signal
<1>5. SpuriousWakeup(t, cond) => SyncTypeOK'
  BY CondIsCond DEF SpuriousWakeup
<1>6. UNCHANGED syncVars => SyncTypeOK'
  BY DEF syncVars
<1> QED
  BY <1>1, <1>2, <1>3, <1>4, <1>5, <1>6

\* What a thread does with its Time stays a timespec and the history stays bounded.
LEMMA TimeTypes ==
    ASSUME TypeOK, NEW t \in Timer,
           ResetToCurrentTime(t) \/ \E a \in Addend : Add(t, a) \/ SetTime(t, a)
    PROVE  /\ time' \in [Timer -> [sec : Int, nsec : Int]]
           /\ origin' \in [Timer -> Clocks \cup {"set"}]
           /\ start' \in [Timer -> 0..Horizon] /\ asked' \in [Timer -> -MaxTaken..MaxAsked]
<1> USE DEF TypeOK
<1>1. CASE ResetToCurrentTime(t)
  <2>1. PICK c \in Clocks : /\ time' = [time EXCEPT ![t] = Timespec(Reading(c))]
                            /\ origin' = [origin EXCEPT ![t] = c]
    BY <1>1 DEF ResetToCurrentTime
  <2>2. Timespec(Reading(c)) \in [sec : Int, nsec : Int]
    BY ReadingType, TimespecInstant DEF Timespecs
  <2>3. time' \in [Timer -> [sec : Int, nsec : Int]]
    BY <2>1, <2>2
  <2>4. origin' \in [Timer -> Clocks \cup {"set"}]
    BY <2>1
  <2>5. clock \in 0..Horizon /\ 0 \in -MaxTaken..MaxAsked
    BY ConstantFacts
  <2>6. start' \in [Timer -> 0..Horizon] /\ asked' \in [Timer -> -MaxTaken..MaxAsked]
    BY <1>1, <2>5 DEF ResetToCurrentTime
  <2> QED
    BY <2>3, <2>4, <2>6
<1>2. ASSUME NEW a \in Addend, Add(t, a)
      PROVE  /\ time' \in [Timer -> [sec : Int, nsec : Int]]
             /\ origin' \in [Timer -> Clocks \cup {"set"}]
             /\ start' \in [Timer -> 0..Horizon] /\ asked' \in [Timer -> -MaxTaken..MaxAsked]
  <2>1. a \in Timespecs /\ time[t] \in Timespecs
    BY ConstantFacts DEF Timespecs
  <2>2. [sec |-> time[t].sec + a.sec, nsec |-> time[t].nsec + a.nsec] \in [sec : Int, nsec : Int]
    BY <2>1, InstantAdds DEF Timespecs
  <2>3. time' \in [Timer -> [sec : Int, nsec : Int]]
    BY <1>2, <2>2 DEF Add
  <2>4. asked' \in [Timer -> -MaxTaken..MaxAsked]
    BY <1>2 DEF Add
  <2>5. UNCHANGED <<origin, start>>
    BY <1>2 DEF Add
  <2> QED
    BY <2>3, <2>4, <2>5
<1>3. ASSUME NEW a \in Addend, SetTime(t, a)
      PROVE  /\ time' \in [Timer -> [sec : Int, nsec : Int]]
             /\ origin' \in [Timer -> Clocks \cup {"set"}]
             /\ start' \in [Timer -> 0..Horizon] /\ asked' \in [Timer -> -MaxTaken..MaxAsked]
  <2>1. a \in [sec : Int, nsec : Int]
    BY ConstantFacts DEF Timespecs
  <2>2. time' \in [Timer -> [sec : Int, nsec : Int]]
    BY <1>3, <2>1 DEF SetTime
  <2>3. origin' \in [Timer -> Clocks \cup {"set"}]
    BY <1>3 DEF SetTime
  <2>4. 0 \in 0..Horizon /\ 0 \in -MaxTaken..MaxAsked
    BY ConstantFacts
  <2>5. start' \in [Timer -> 0..Horizon] /\ asked' \in [Timer -> -MaxTaken..MaxAsked]
    BY <1>3, <2>4 DEF SetTime
  <2> QED
    BY <2>2, <2>3, <2>5
<1> QED
  BY <1>1, <1>2, <1>3

\* Every step keeps the types.
LEMMA TypeStep == TypeOK /\ [Next]_vars => TypeOK'
<1> SUFFICES ASSUME TypeOK, [Next]_vars PROVE TypeOK'
  OBVIOUS
<1>1. /\ SyncTypeOK /\ pc \in [Thread -> States] /\ clock \in Boot..Horizon
      /\ result \in [Thread -> Results] /\ called \subseteq Thread
      /\ time \in [Timer -> [sec : Int, nsec : Int]]
      /\ origin \in [Timer -> Clocks \cup {"set"}]
      /\ start \in [Timer -> 0..Horizon] /\ asked \in [Timer -> -MaxTaken..MaxAsked]
  BY DEF TypeOK
<1>2. /\ "free" \in States /\ "lock" \in States /\ "owner" \in States
      /\ "wait" \in States /\ "timedWait" \in States
      /\ "none" \in Results /\ "success" \in Results /\ "ETIMEDOUT" \in Results
      /\ "EINVAL" \in Results
  BY DEF States, Results
<1>3. waiting[cond] \subseteq Thread
  BY <1>1, CondIsCond DEF SyncTypeOK
<1>4. ASSUME NEW t \in Thread,
             CallLock(t) \/ Acquire(t) \/ TryLock(t) \/ CallUnlock(t)
      PROVE  TypeOK'
  <2>1. SyncTypeOK'
    BY <1>4, SyncSteps DEF CallLock, Acquire, TryLock, CallUnlock, syncVars
  <2>2. pc' \in [Thread -> States] /\ result' \in [Thread -> Results] /\ called' \subseteq Thread
    BY <1>1, <1>2, <1>4, ThreadMoves DEF CallLock, Acquire, TryLock, CallUnlock
  <2>3. UNCHANGED clock /\ UNCHANGED timeVars
    BY <1>4 DEF CallLock, Acquire, TryLock, CallUnlock
  <2> QED
    BY <1>1, <2>1, <2>2, <2>3 DEF TypeOK, timeVars
<1>5. ASSUME NEW t \in Thread,
             Wait(t) \/ CallSignal(t) \/ SignalAll(t) \/ Wakeup(t)
      PROVE  TypeOK'
  <2>1. SyncTypeOK'
    <3>1. CASE Wait(t)
      BY <3>1, SyncSteps DEF Wait
    <3>2. CASE CallSignal(t)
      BY <3>2, SyncSteps DEF CallSignal
    <3>3. CASE SignalAll(t)
      BY <1>1, <3>3, CondIsCond DEF SignalAll, SyncTypeOK
    <3>4. CASE Wakeup(t)
      BY <3>4, SyncSteps DEF Wakeup
    <3> QED
      BY <1>5, <3>1, <3>2, <3>3, <3>4
  <2>2. pc' \in [Thread -> States] /\ result' \in [Thread -> Results] /\ called' \subseteq Thread
    BY <1>1, <1>2, <1>3, <1>5, ThreadMoves DEF Wait, CallSignal, SignalAll, Wakeup
  <2>3. UNCHANGED clock /\ UNCHANGED timeVars
    BY <1>5 DEF Wait, CallSignal, SignalAll, Wakeup
  <2> QED
    BY <1>1, <2>1, <2>2, <2>3 DEF TypeOK, timeVars
<1>6. ASSUME NEW t \in Timer,
             ResetToCurrentTime(t) \/ \E a \in Addend : Add(t, a) \/ SetTime(t, a)
      PROVE  TypeOK'
  <2>1. t \in Thread
    BY ConstantFacts
  <2>2. UsesTime(t)
    BY <1>6 DEF ResetToCurrentTime, Add, SetTime
  <2>3. SyncTypeOK'
    BY <2>1, <2>2, SyncSteps DEF UsesTime
  <2>4. pc' \in [Thread -> States] /\ result' \in [Thread -> Results] /\ called' \subseteq Thread
        /\ UNCHANGED clock
    BY <1>1, <1>2, <2>1, <2>2, ThreadMoves DEF UsesTime
  <2> QED
    BY <1>1, <1>6, <2>3, <2>4, TimeTypes DEF TypeOK
<1>7. ASSUME NEW t \in Timer,
             TimedWait(t) \/ TimedWaitRefused(t) \/ TimeOut(t)
      PROVE  TypeOK'
  <2>1. t \in Thread
    BY ConstantFacts
  <2>2. SyncTypeOK'
    BY <1>7, <2>1, SyncSteps DEF TimedWait, TimedWaitRefused, TimeOut
  <2>3. pc' \in [Thread -> States] /\ result' \in [Thread -> Results] /\ UNCHANGED called
    BY <1>1, <1>2, <1>7, <2>1, ThreadMoves DEF TimedWait, TimedWaitRefused, TimeOut
  <2>4. UNCHANGED clock /\ UNCHANGED timeVars
    BY <1>7 DEF TimedWait, TimedWaitRefused, TimeOut
  <2> QED
    BY <1>1, <2>2, <2>3, <2>4 DEF TypeOK, timeVars
<1>8. CASE Tick
  <2>1. clock' \in Boot..Horizon
    BY <1>1, <1>8, ConstantFacts DEF Tick
  <2>2. /\ UNCHANGED <<holder, waiting, pc, result, called>>
        /\ UNCHANGED <<time, origin, start, asked>>
    BY <1>8 DEF Tick, timeVars, syncVars
  <2> QED
    BY <1>1, <2>1, <2>2 DEF TypeOK, SyncTypeOK
<1>9. CASE UNCHANGED vars
  BY <1>1, <1>9 DEF vars, timeVars, TypeOK, SyncTypeOK
<1> QED
  BY <1>4, <1>5, <1>6, <1>7, <1>8, <1>9 DEF Next

--------------------------------------------------------------------------------
(* The owner of the mutex.                                                   *)

\* Every step keeps the owners of the mutex, and the blocked threads without it.
LEMMA OwnerStep ==
    ASSUME TypeOK, BlockedWaits, OwnerHolds, [Next]_vars
    PROVE  BlockedWaits' /\ OwnerHolds'
<1>1. /\ pc \in [Thread -> States] /\ waiting \in [Cond -> SUBSET Thread]
      /\ holder \in {{}} \cup {{t} : t \in Thread}
  BY DEF TypeOK, SyncTypeOK
<1>2. cond \in Cond
  BY CondIsCond
<1>3. ASSUME NEW t \in Thread, CallLock(t) \/ CallUnlock(t)
      PROVE  BlockedWaits' /\ OwnerHolds'
  <2>1. UNCHANGED waiting /\ pc[t] \in {"free", "owner"}
    BY <1>3 DEF CallLock, CallUnlock, syncVars
  <2>2. BlockedWaits'
    BY <1>1, <1>3, <2>1 DEF CallLock, CallUnlock, Goto, BlockedWaits
  <2>3. OwnerHolds'
    BY <1>1, <1>3 DEF CallLock, CallUnlock, Unlock, Goto, OwnerHolds, syncVars
  <2> QED
    BY <2>2, <2>3
<1>4. ASSUME NEW t \in Thread, Acquire(t) \/ TryLock(t)
      PROVE  BlockedWaits' /\ OwnerHolds'
  <2>1. CASE Lock(t) /\ Goto(t, "owner") /\ UNCHANGED waiting
    <3>1. t \notin waiting[cond]
      BY <1>2, <2>1 DEF Lock, Blocked
    <3>2. BlockedWaits'
      BY <1>1, <2>1, <3>1 DEF Goto, BlockedWaits
    <3>3. OwnerHolds'
      BY <1>1, <2>1 DEF Lock, Goto, OwnerHolds
    <3> QED
      BY <3>2, <3>3
  <2>2. CASE UNCHANGED <<holder, pc, waiting>>
    BY <2>2 DEF BlockedWaits, OwnerHolds
  <2> QED
    BY <1>4, <2>1, <2>2 DEF Acquire, TryLock
<1>5. ASSUME NEW t \in Thread, NEW s \in {"wait", "timedWait"},
             pc[t] = "owner", WaitOn(t, cond), Goto(t, s)
      PROVE  BlockedWaits' /\ OwnerHolds'
  <2>1. waiting'[cond] = waiting[cond] \cup {t}
    BY <1>1, <1>2, <1>5 DEF WaitOn
  <2>2. BlockedWaits'
    BY <1>1, <1>5, <2>1 DEF Goto, BlockedWaits
  <2>3. OwnerHolds'
    BY <1>1, <1>5 DEF WaitOn, Unlock, Goto, OwnerHolds
  <2> QED
    BY <2>2, <2>3
<1>6. ASSUME waiting'[cond] \subseteq waiting[cond], UNCHANGED <<holder, pc>>
      PROVE  BlockedWaits' /\ OwnerHolds'
  BY <1>6 DEF BlockedWaits, OwnerHolds
<1>7. ASSUME NEW t \in Thread, CallSignal(t) \/ SignalAll(t) \/ Wakeup(t) \/ TimeOut(t)
      PROVE  BlockedWaits' /\ OwnerHolds'
  <2>1. waiting'[cond] \subseteq waiting[cond]
    BY <1>1, <1>2, <1>7 DEF CallSignal, Signal, SignalAll, Wakeup, TimeOut, SpuriousWakeup
  <2>2. UNCHANGED <<holder, pc>>
    BY <1>7 DEF CallSignal, SignalAll, Wakeup, TimeOut, SpuriousWakeup
  <2> QED
    BY <1>6, <2>1, <2>2
<1>8. ASSUME NEW t \in Timer,
             \/ ResetToCurrentTime(t) \/ \E a \in Addend : Add(t, a) \/ SetTime(t, a)
             \/ TimedWaitRefused(t)
      PROVE  BlockedWaits' /\ OwnerHolds'
  <2>1. UNCHANGED <<syncVars, pc>>
    BY <1>8 DEF ResetToCurrentTime, Add, SetTime, UsesTime, TimedWaitRefused
  <2> QED
    BY <1>6, <2>1 DEF syncVars
<1>9. CASE Tick \/ UNCHANGED vars
  BY <1>6, <1>9 DEF Tick, vars, syncVars
<1>10. ASSUME NEW t \in Thread, Wait(t) \/ TimedWait(t)
       PROVE  BlockedWaits' /\ OwnerHolds'
  BY <1>5, <1>10 DEF Wait, TimedWait
<1> QED
  BY <1>3, <1>4, <1>7, <1>8, <1>9, <1>10, ConstantFacts DEF Next

--------------------------------------------------------------------------------
(* What a Time stands for, and timeouts.                                     *)

\* A Time, the instant of its reading, what was added and the clock are numbers.
LEMMA TimeFacts ==
    ASSUME TypeOK, NEW t \in Timer
    PROVE  /\ t \in Thread /\ time[t] \in Timespecs /\ Instant(time[t]) \in Int
           /\ start[t] \in Int /\ asked[t] \in Int /\ clock \in Int
<1>1. t \in Thread /\ time[t] \in Timespecs
  BY ConstantFacts DEF TypeOK, Timespecs
<1>2. start[t] \in Int /\ asked[t] \in Int /\ clock \in Int
  BY ConstantFacts DEF TypeOK
<1> QED
  BY <1>1, <1>2, InstantType

\* While nobody touches a Time, the clock goes on and nobody is told ETIMEDOUT.
LEMMA TimesKept ==
    ASSUME TypeOK, TimeAdded, TimedOut, UNCHANGED timeVars, clock' \in Int, clock <= clock',
           \A t \in Timer : result'[t] = "ETIMEDOUT" => result[t] = "ETIMEDOUT"
    PROVE  TimeAdded' /\ TimedOut'
<1>1. TimeAdded'
  BY DEF TimeAdded, Instant, timeVars
<1>2. ASSUME NEW t \in Timer, result'[t] = "ETIMEDOUT"
      PROVE  clock' >= Instant(time'[t])
  <2>1. clock >= Instant(time[t]) /\ Instant(time'[t]) = Instant(time[t])
    BY <1>2 DEF TimedOut, timeVars
  <2> HIDE DEF Instant
  <2> QED
    BY <2>1, TimeFacts
<1> QED
  BY <1>1, <1>2 DEF TimedOut

\* A thread that uses its own Time leaves the others alone and forgets its result.
LEMMA OneTime ==
    ASSUME TypeOK, TimeAdded, TimedOut, NEW t \in Timer, UsesTime(t),
           NEW v \in Timespecs, NEW o, NEW x, NEW y,
           time' = [time EXCEPT ![t] = v], origin' = [origin EXCEPT ![t] = o],
           start' = [start EXCEPT ![t] = x], asked' = [asked EXCEPT ![t] = y],
           o = "realtime" => Instant(v) = x + y
    PROVE  TimeAdded' /\ TimedOut'
<1>1. t \in Thread
  BY ConstantFacts
<1>2. result'[t] = "none" /\ \A u \in Timer \ {t} : result'[u] = result[u]
  BY <1>1, ConstantFacts DEF UsesTime, Returns, TypeOK
<1>3. clock' = clock
  BY DEF UsesTime
<1>4. \A u \in Timer \ {t} : /\ time'[u] = time[u] /\ origin'[u] = origin[u]
                             /\ start'[u] = start[u] /\ asked'[u] = asked[u]
  BY DEF TypeOK
<1>5. time'[t] = v /\ origin'[t] = o /\ start'[t] = x /\ asked'[t] = y
  BY DEF TypeOK
<1>6. TimeAdded'
  BY <1>4, <1>5 DEF TimeAdded
<1>7. TimedOut'
  BY <1>2, <1>3, <1>4 DEF TimedOut
<1> QED
  BY <1>6, <1>7

\* Every step keeps what is said of the deadlines.
LEMMA TimeStep ==
    ASSUME TypeOK, TimeAdded, TimedOut, [Next]_vars
    PROVE  TimeAdded' /\ TimedOut'
<1>1. clock \in Int /\ clock <= clock
  BY ConstantFacts DEF TypeOK
<1>2. ASSUME NEW t \in Thread, NEW r \in {"none", "success", "EINVAL"}, Returns(t, r)
      PROVE  \A u \in Timer : result'[u] = "ETIMEDOUT" => result[u] = "ETIMEDOUT"
  BY <1>2, ConstantFacts DEF Returns, TypeOK
<1>3. ASSUME NEW t \in Thread,
             \/ CallLock(t) \/ Acquire(t) \/ TryLock(t) \/ CallUnlock(t)
             \/ Wait(t) \/ CallSignal(t) \/ SignalAll(t) \/ Wakeup(t)
             \/ TimedWait(t) \/ TimedWaitRefused(t)
      PROVE  TimeAdded' /\ TimedOut'
  <2>1. UNCHANGED timeVars /\ UNCHANGED clock
    BY <1>3 DEF CallLock, Acquire, TryLock, CallUnlock, Wait, CallSignal, SignalAll, Wakeup,
                TimedWait, TimedWaitRefused
  <2>2. \/ UNCHANGED result
        \/ Returns(t, "none") \/ Returns(t, "success") \/ Returns(t, "EINVAL")
    BY <1>3 DEF CallLock, Acquire, TryLock, CallUnlock, Wait, CallSignal, SignalAll, Wakeup,
                TimedWait, TimedWaitRefused
  <2>3. \A u \in Timer : result'[u] = "ETIMEDOUT" => result[u] = "ETIMEDOUT"
    BY <1>2, <2>2
  <2> QED
    BY <1>1, <2>1, <2>3, TimesKept
<1>4. ASSUME NEW t \in Timer, TimeOut(t)
      PROVE  TimeAdded' /\ TimedOut'
  <2>1. /\ UNCHANGED <<time, origin, start, asked>> /\ UNCHANGED clock
        /\ clock >= Instant(time[t])
    BY <1>4 DEF TimeOut, timeVars
  <2>2. \A u \in Timer \ {t} : result'[u] = result[u]
    BY <1>4, ConstantFacts DEF TimeOut, Returns, TypeOK
  <2>3. TimeAdded'
    BY <2>1 DEF TimeAdded
  <2>4. TimedOut'
    BY <2>1, <2>2 DEF TimedOut
  <2> QED
    BY <2>3, <2>4
<1>5. ASSUME NEW t \in Timer, ResetToCurrentTime(t)
      PROVE  TimeAdded' /\ TimedOut'
  <2>1. PICK c \in Clocks : /\ time' = [time EXCEPT ![t] = Timespec(Reading(c))]
                            /\ origin' = [origin EXCEPT ![t] = c]
    BY <1>5 DEF ResetToCurrentTime
  <2>2. Timespec(Reading(c)) \in Timespecs /\ Instant(Timespec(Reading(c))) = Reading(c)
    BY ReadingType, TimespecInstant
  <2>3. c = "realtime" => Reading(c) = clock + 0
    BY <1>1 DEF Reading
  <2>4. /\ start' = [start EXCEPT ![t] = clock] /\ asked' = [asked EXCEPT ![t] = 0]
        /\ UsesTime(t)
    BY <1>5 DEF ResetToCurrentTime
  <2> QED
    BY <2>1, <2>2, <2>3, <2>4, OneTime
<1>6. ASSUME NEW t \in Timer, NEW a \in Addend, Add(t, a)
      PROVE  TimeAdded' /\ TimedOut'
  <2> DEFINE v == [sec |-> time[t].sec + a.sec, nsec |-> time[t].nsec + a.nsec]
             y == asked[t] + Instant(a)
  <2>1. a \in Timespecs /\ time[t] \in Timespecs
    BY ConstantFacts, TimeFacts
  <2>2. v \in Timespecs /\ Instant(v) = Instant(time[t]) + Instant(a)
    BY <2>1, InstantAdds
  <2>3. Instant(a) \in Int /\ start[t] \in Int /\ asked[t] \in Int
    BY <2>1, InstantType, TimeFacts
  <2>4. origin[t] = "realtime" => Instant(time[t]) = start[t] + asked[t]
    BY DEF TimeAdded
  <2>5. origin[t] = "realtime" => Instant(v) = start[t] + y
    <3> HIDE DEF v
    <3> QED
      BY <2>2, <2>3, <2>4
  <2>6. /\ time' = [time EXCEPT ![t] = v] /\ asked' = [asked EXCEPT ![t] = y]
        /\ UNCHANGED <<origin, start>> /\ UsesTime(t)
    BY <1>6 DEF Add
  <2>7. /\ origin' = [origin EXCEPT ![t] = origin[t]]
        /\ start' = [start EXCEPT ![t] = start[t]]
    BY <2>6 DEF TypeOK
  <2> HIDE DEF v, y
  <2> QED
    BY <2>2, <2>5, <2>6, <2>7, OneTime
<1>7. ASSUME NEW t \in Timer, NEW a \in Addend, SetTime(t, a)
      PROVE  TimeAdded' /\ TimedOut'
  <2>1. a \in Timespecs
    BY ConstantFacts
  <2> QED
    BY <1>7, <2>1, OneTime DEF SetTime
<1>8. CASE Tick
  <2>1. UNCHANGED timeVars /\ UNCHANGED result
    BY <1>8 DEF Tick
  <2>2. clock' \in Int /\ clock <= clock'
    BY <1>1, <1>8 DEF Tick
  <2> QED
    BY <2>1, <2>2, TimesKept
<1>9. CASE UNCHANGED vars
  BY <1>1, <1>9, TimesKept DEF vars
<1> QED
  BY <1>3, <1>4, <1>5, <1>6, <1>7, <1>8, <1>9, ConstantFacts DEF Next

--------------------------------------------------------------------------------
\* Every step keeps the invariant.
LEMMA InvStep == Inv /\ [Next]_vars => Inv'
  BY TypeStep, OwnerStep, TimeStep DEF Inv

\* The invariant holds in every reachable state.
LEMMA Invariant == Spec => []Inv
  BY InvInit, InvStep, PTL DEF Spec

\* Type correctness: in particular every Time stays a timespec, whatever is added to
\* it, and a call leaves a thread in one of the states of a legal use of the mutex.
THEOREM TypeCorrect == Spec => []TypeOK
  BY Invariant, PTL DEF Inv

\* What PosixMutex and PosixCondition tell a thread is true: after lock(), a tryLock()
\* that returned true and any wait, timed out or refused, it alone has the mutex.
THEOREM OwnerCorrect == Spec => []OwnerHolds
  BY Invariant, PTL DEF Inv

\* timedWait() with a Time of CLOCK_REALTIME, moved on by any add(), does not return
\* ETIMEDOUT before all that was asked for has passed.
THEOREM TimeoutCorrect == Spec => []TimeoutNotEarly
<1>1. Inv => TimeoutNotEarly
  <2> SUFFICES ASSUME Inv, NEW t \in Timer, result[t] = "ETIMEDOUT", origin[t] = "realtime"
               PROVE  clock - start[t] >= asked[t]
    BY DEF TimeoutNotEarly
  <2>1. clock >= Instant(time[t]) /\ Instant(time[t]) = start[t] + asked[t]
    BY DEF Inv, TimedOut, TimeAdded
  <2>2. start[t] \in Int /\ asked[t] \in Int /\ clock \in Int
    BY TimeFacts DEF Inv
  <2>3. clock >= start[t] + asked[t]
    BY <2>1
  <2> QED
    BY <2>2, <2>3
<1> QED
  BY <1>1, Invariant, PTL

\* operator<, operator> and operator== agree with the order of instants on normalised
\* values, and exclude each other on any two, for all Times a program can reach.
THEOREM ComparisonsCorrect == Spec => []ComparisonsOrder
<1>1. Inv => ComparisonsOrder
  <2> SUFFICES ASSUME Inv, NEW a \in Values, NEW b \in Values
               PROVE  /\ Normalised(a) /\ Normalised(b) =>
                          /\ Less(a, b) <=> Instant(a) < Instant(b)
                          /\ Greater(a, b) <=> Instant(a) > Instant(b)
                          /\ Equal(a, b) <=> Instant(a) = Instant(b)
                      /\ Less(a, b) <=> ~Greater(a, b) /\ ~Equal(a, b)
                      /\ Greater(a, b) => ~Equal(a, b)
    BY DEF ComparisonsOrder
  <2>1. Values \subseteq Timespecs
    <3>1. \A c \in Clocks : Timespec(Reading(c)) \in Timespecs
      BY ReadingType, TimespecInstant DEF Inv
    <3>2. \A t \in Timer : time[t] \in Timespecs
      BY TimeFacts DEF Inv
    <3> QED
      BY <3>1, <3>2 DEF Values
  <2> QED
    BY <2>1, ComparisonsAgree, OneComparison
<1> QED
  BY <1>1, Invariant, PTL
================================================================================
