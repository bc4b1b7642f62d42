-------------------------------- MODULE TimedWait --------------------------------
(***************************************************************************)
(* Time, and what PosixMutex and PosixCondition offer with it: the         *)
(* program's threads lock, tryLock, wait, wait until a Time, signal one    *)
(* and signal all, in any legal order.  No part of the library calls       *)
(* tryLock(), timedWait() or signalAll(); the threads are its users.       *)
(*                                                                         *)
(* A second has Second nanoseconds.  pthread_cond_init(&cond_, NULL) makes *)
(* a condition that times out on CLOCK_REALTIME, whereas a Time is read    *)
(* from CLOCK_MONOTONIC by default: the two clocks run alike, Boot apart.  *)
(* Nobody sets the clock while the program runs.                           *)
(***************************************************************************)
EXTENDS PosixSync, Integers, FiniteSets

CONSTANTS
    Timer,       \* the threads that use a Time
    Second,      \* nanoseconds of a second
    Boot,        \* CLOCK_REALTIME when CLOCK_MONOTONIC was 0
    Clocks,      \* the clocks the program's Times use
    Addend,      \* the arguments of add() and set(), pairs of seconds and nanoseconds
    MaxStart,    \* bound: no Time is read from a clock after this instant
    MaxTaken,    \* bounds on what is taken from a Time by add(), in all
    MaxAsked,    \* and on what is added to it
    MaxSeconds,  \* bound on the seconds, of either sign, of a sum
    Horizon      \* bound: the last instant

cond == "cond_"

ASSUME SecondAssumption == Second \in Nat \ {0}
ASSUME ClockAssumption ==
    /\ Boot \in Nat /\ Clocks \subseteq {"realtime", "monotonic"}
    /\ Horizon \in Nat /\ MaxStart \in Nat /\ MaxAsked \in Nat /\ MaxSeconds \in Nat
    /\ MaxTaken \in Nat
    /\ Boot <= MaxStart /\ MaxStart + MaxAsked <= Horizon
ASSUME AddendAssumption == Addend \subseteq [sec : Int, nsec : Int]
ASSUME TimerAssumption == Timer \subseteq Thread
ASSUME CondAssumption == Cond = {cond}

VARIABLES
    pc,       \* what each thread does with the mutex
    clock,    \* CLOCK_REALTIME, in nanoseconds
    time,     \* time[t]: time_ of the Time t uses
    origin,   \* origin[t]: the clock it was read from, or "set"
    start,    \* history: the instant it was read
    asked,    \* history: the nanoseconds added since, or since set()
    result,   \* what t's last wait returned
    called    \* history: threads that were blocked when signalAll() was called

timeVars == <<time, origin, start, asked>>
vars == <<holder, waiting, pc, clock, timeVars, result, called>>

\* "owner": its calls have told t that it owns the mutex.
States == {"free", "lock", "owner", "wait", "timedWait"}

Results == {"none", "success", "ETIMEDOUT", "EINVAL"}

\* A timespec of clock_gettime() and the instant a timespec stands for.
Timespec(i) == [sec |-> i \div Second, nsec |-> i % Second]
Instant(v) == v.sec * Second + v.nsec
Normalised(v) == v.nsec \in 0..(Second - 1)

Reading(c) == IF c = "realtime" THEN clock ELSE clock - Boot

Init ==
    /\ SyncInit
    /\ pc = [t \in Thread |-> "free"]
    /\ clock = Boot
    /\ time = [t \in Timer |-> Timespec(0)]
    /\ origin = [t \in Timer |-> "set"]
    /\ start = [t \in Timer |-> 0]
    /\ asked = [t \in Timer |-> 0]
    /\ result = [t \in Thread |-> "none"]
    /\ called = {}

Goto(t, state) == pc' = [pc EXCEPT ![t] = state]
Returns(t, r) == result' = [result EXCEPT ![t] = r]

--------------------------------------------------------------------------------
(* Time.                                                                     *)

\* Mutant of Less: the seconds are not tested for equality.
Less_AnySecond(a, b) == a.sec < b.sec \/ a.nsec < b.nsec

\* operator<, operator> and operator==.
Less(a, b) == a.sec < b.sec \/ (a.sec = b.sec /\ a.nsec < b.nsec)

Greater(a, b) == a.sec > b.sec \/ (a.sec = b.sec /\ a.nsec > b.nsec)
Equal(a, b) == a.sec = b.sec /\ a.nsec = b.nsec

\* t uses its Time: it is not inside a call.
UsesTime(t) ==
    /\ pc[t] \in {"free", "owner"}
    /\ Returns(t, "none")
    /\ UNCHANGED <<syncVars, pc, clock, called>>

\* Time(clockType), resetToCurrentTime().
ResetToCurrentTime(t) ==
    /\ clock <= MaxStart
    /\ \E c \in Clocks :
        /\ time' = [time EXCEPT ![t] = Timespec(Reading(c))]
        /\ origin' = [origin EXCEPT ![t] = c]
    /\ start' = [start EXCEPT ![t] = clock]
    /\ asked' = [asked EXCEPT ![t] = 0]
    /\ UsesTime(t)

\* add(), to any Time and of any sign: the nanoseconds are not carried into the seconds.
Add(t, a) ==
    /\ asked[t] + Instant(a) \in -MaxTaken..MaxAsked
    /\ time[t].sec + a.sec \in -MaxSeconds..MaxSeconds
    /\ time' = [time EXCEPT ![t] = [sec |-> @.sec + a.sec, nsec |-> @.nsec + a.nsec]]
    /\ asked' = [asked EXCEPT ![t] = @ + Instant(a)]
    /\ UsesTime(t)
    /\ UNCHANGED <<origin, start>>

\* set(): any instant, not related to a clock.
SetTime(t, a) ==
    /\ time' = [time EXCEPT ![t] = a]
    /\ origin' = [origin EXCEPT ![t] = "set"]
    /\ start' = [start EXCEPT ![t] = 0]
    /\ asked' = [asked EXCEPT ![t] = 0]
    /\ UsesTime(t)

--------------------------------------------------------------------------------
(* PosixMutex.                                                               *)

CallLock(t) ==
    /\ pc[t] = "free"
    /\ Goto(t, "lock")
    /\ Returns(t, "none")
    /\ UNCHANGED <<syncVars, clock, timeVars, called>>

\* lock() returns, or a wait that has ended has the mutex again and returns.
Acquire(t) ==
    /\ pc[t] \in {"lock", "wait", "timedWait"}
    /\ Lock(t)
    /\ Goto(t, "owner")
    /\ called' = called \ {t}
    /\ UNCHANGED <<waiting, clock, timeVars, result>>

\* Mutant of TryLock: it returns true although the mutex is busy.
TryLock_AlwaysTrue(t) ==
    /\ pc[t] \in {"free", "owner"}
    /\ Goto(t, "owner")
    /\ holder' = IF holder = {} THEN {t} ELSE holder
    /\ UNCHANGED <<waiting, clock, timeVars, result, called>>

\* tryLock(): false when the mutex is busy, also when the caller itself has it.
TryLock(t) ==
    /\ pc[t] \in {"free", "owner"}
    /\ IF holder = {}
       THEN Lock(t) /\ Goto(t, "owner")
       ELSE UNCHANGED <<holder, pc>>
    /\ UNCHANGED <<waiting, clock, timeVars, result, called>>

CallUnlock(t) ==
    /\ pc[t] = "owner"
    /\ Unlock(t)
    /\ Goto(t, "free")
    /\ Returns(t, "none")
    /\ UNCHANGED <<waiting, clock, timeVars, called>>

--------------------------------------------------------------------------------
(* PosixCondition.                                                           *)

\* wait(); the result is that of a signal unless the time runs out.
Wait(t) ==
    /\ pc[t] = "owner"
    /\ WaitOn(t, cond)
    /\ Goto(t, "wait")
    /\ Returns(t, "success")
    /\ UNCHANGED <<clock, timeVars, called>>

\* Mutant of TimedWait: the thread blocks with the mutex.
TimedWait_KeepsMutex(t) ==
    /\ pc[t] = "owner"
    /\ Normalised(time[t])
    /\ waiting' = [waiting EXCEPT ![cond] = @ \cup {t}]
    /\ Goto(t, "timedWait")
    /\ Returns(t, "success")
    /\ UNCHANGED <<holder, clock, timeVars, called>>

\* timedWait() with a normalised Time.
TimedWait(t) ==
    /\ pc[t] = "owner"
    /\ Normalised(time[t])
    /\ WaitOn(t, cond)
    /\ Goto(t, "timedWait")
    /\ Returns(t, "success")
    /\ UNCHANGED <<clock, timeVars, called>>

\* pthread_cond_timedwait() refuses other nanoseconds, at once and with the mutex.
TimedWaitRefused(t) ==
    /\ pc[t] = "owner"
    /\ ~Normalised(time[t])
    /\ Returns(t, "EINVAL")
    /\ UNCHANGED <<syncVars, pc, clock, timeVars, called>>

\* Mutant of TimeOut: the deadline is compared by its seconds.
TimeOut_WholeSeconds(t) ==
    /\ pc[t] = "timedWait"
    /\ clock \div Second >= time[t].sec
    /\ SpuriousWakeup(t, cond)
    /\ Returns(t, "ETIMEDOUT")
    /\ UNCHANGED <<pc, clock, timeVars, called>>

\* The condition's clock has reached the deadline, and no signal came first.
TimeOut(t) ==
    /\ pc[t] = "timedWait"
    /\ clock >= Instant(time[t])
    /\ SpuriousWakeup(t, cond)
    /\ Returns(t, "ETIMEDOUT")
    /\ UNCHANGED <<pc, clock, timeVars, called>>

\* signal(), with or without the mutex.
CallSignal(t) ==
    /\ pc[t] \in {"free", "owner"}
    /\ Signal(cond)
    /\ UNCHANGED <<holder, pc, clock, timeVars, result, called>>

\* Mutant of SignalAll: pthread_cond_signal() is called.
SignalAll_One(t) ==
    /\ pc[t] \in {"free", "owner"}
    /\ called' = called \cup waiting[cond]
    /\ Signal(cond)
    /\ UNCHANGED <<holder, pc, clock, timeVars, result>>

\* signalAll().
SignalAll(t) ==
    /\ pc[t] \in {"free", "owner"}
    /\ called' = called \cup waiting[cond]
    /\ waiting' = [waiting EXCEPT ![cond] = {}]
    /\ UNCHANGED <<holder, pc, clock, timeVars, result>>

Wakeup(t) ==
    /\ SpuriousWakeup(t, cond)
    /\ UNCHANGED <<pc, clock, timeVars, result, called>>

Tick ==
    /\ clock < Horizon
    /\ clock' = clock + 1
    /\ UNCHANGED <<syncVars, pc, timeVars, result, called>>

Next ==
    \/ Tick
    \/ \E t \in Thread :
        \/ CallLock(t) \/ Acquire(t) \/ TryLock(t) \/ CallUnlock(t)
        \/ Wait(t) \/ CallSignal(t) \/ SignalAll(t) \/ Wakeup(t)
    \/ \E t \in Timer :
        \/ ResetToCurrentTime(t)
        \/ \E a \in Addend : Add(t, a) \/ SetTime(t, a)
        \/ TimedWait(t) \/ TimedWaitRefused(t) \/ TimeOut(t)

Spec == Init /\ [][Next]_vars

\* Time passes, a blocked thread whose time has come or whose mutex keeps being
\* released goes on, and an owner gives the mutex back: the destructor of a
\* MutexLocker does.
Fairness ==
    /\ WF_vars(Tick)
    /\ \A t \in Thread : SF_vars(Acquire(t)) /\ SF_vars(CallUnlock(t))
    /\ \A t \in Timer : WF_vars(TimeOut(t))

FairSpec == Spec /\ Fairness

--------------------------------------------------------------------------------
TypeOK ==
    /\ SyncTypeOK
    /\ pc \in [Thread -> States]
    /\ clock \in Boot..Horizon
    /\ time \in [Timer -> [sec : Int, nsec : Int]]
    /\ origin \in [Timer -> Clocks \cup {"set"}]
    /\ start \in [Timer -> 0..Horizon] /\ asked \in [Timer -> -MaxTaken..MaxAsked]
    /\ result \in [Thread -> Results]
    /\ called \subseteq Thread

\* What the calls told a thread is true: after lock(), a tryLock() that returned true
\* and any wait, timed out or refused, it has the mutex, and it is the only one.
OwnerHolds == \A t \in Thread : pc[t] = "owner" <=> holder = {t}

\* A thread that waits for its own Time, read from CLOCK_REALTIME and moved on by
\* add(), is told ETIMEDOUT only after all it asked for has passed.
TimeoutNotEarly ==
    \A t \in Timer :
        (result[t] = "ETIMEDOUT" /\ origin[t] = "realtime") => clock - start[t] >= asked[t]

\* The Times a thread may compare its own with: the present of a clock, and another's.
Values == {Timespec(Reading(c)) : c \in Clocks} \cup {time[t] : t \in Timer}

\* On normalised values the comparisons agree with the order of the instants, and for
\* any two values exactly one of <, > and == holds.
ComparisonsOrder ==
    \A a, b \in Values :
        /\ Normalised(a) /\ Normalised(b) =>
            /\ Less(a, b) <=> Instant(a) < Instant(b)
            /\ Greater(a, b) <=> Instant(a) > Instant(b)
            /\ Equal(a, b) <=> Instant(a) = Instant(b)
        /\ Less(a, b) <=> ~Greater(a, b) /\ ~Equal(a, b)
        /\ Greater(a, b) => ~Equal(a, b)

\* timedWait() ends: by a signal, by its deadline, whatever clock that was read from,
\* or at once when it is refused.
TimedWaitReturns == \A t \in Timer : pc[t] = "timedWait" ~> pc[t] # "timedWait"

\* Every thread that is blocked when signalAll() is called leaves its wait.
BroadcastWakesAll == \A t \in Thread : t \in called ~> t \notin called

--------------------------------------------------------------------------------
(* What comments say and the code does not do.                               *)

\* "@return 0 in case of success, ETIMEDOUT in case of timeout", with the Time of the
\* default constructor: no timeout before what was asked for has passed.
DefaultTimeoutNotEarly ==
    \A t \in Timer :
        (result[t] = "ETIMEDOUT" /\ origin[t] # "set") => clock - start[t] >= asked[t]

\* add() "to add seconds and nseconds to the current value": the sum is a Time that
\* timedWait() accepts, and the result is one of the two the comment names.
SumAccepted == \A t \in Timer : result[t] = "EINVAL" => origin[t] = "set"
================================================================================
