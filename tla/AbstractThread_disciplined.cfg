SPECIFICATION FairSpec
CONSTANTS
    Client = {c1, c2, c3}
    MaxThreads = 3
    Disciplined = TRUE
INVARIANTS
    OneRun
    LeftMeansStopped
    StartedHasThread
PROPERTIES
    StoppedWaitReturns
\* The program ends when the object is destroyed.
CHECK_DEADLOCK FALSE
