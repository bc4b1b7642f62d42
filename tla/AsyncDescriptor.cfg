SPECIFICATION FairSpec
CONSTANTS
    Thread <- MCThread
    Cond <- MCCond
    Job = {j1, j2, j3}
    NoJob = NoJob
    Faults = {"start", "io"}
INVARIANTS
    FifoOnce
    FlushBeforeClose
    NoUseAfterFree
PROPERTIES
    ImplementsChannel
    BusyWorkerDrains
    
\* The program may end, and close() may block for ever.
CHECK_DEADLOCK FALSE
