SPECIFICATION FairSpec
CONSTANTS
    Thread = {t1, t2, t3}
    Timer = {t1}
    Cond <- MCCond
    Second = 2
    Boot = 2
    Clocks = {"realtime", "monotonic"}
    Addend <- MCAddend
    MaxStart = 2
    MaxTaken = 1
    MaxAsked = 2
    MaxSeconds = 2
    Horizon = 4
INVARIANTS
    OwnerHolds
    TimeoutNotEarly
    ComparisonsOrder
PROPERTIES
    TimedWaitReturns
    BroadcastWakesAll
\* All threads may be blocked in wait().
CHECK_DEADLOCK FALSE
