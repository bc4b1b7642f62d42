SPECIFICATION QTFairSpec
CONSTANTS
    Client = {c1}
    Producer = {q1}
    MaxThreads = 2
    Thread <- MCThread
    Cond <- MCCond
    Elem = {e1, e2}
    NoElem = NoElem
INVARIANTS
    NoLostWakeup
    JoinedThreadsLeft
PROPERTIES
    PoppersServed
    StoppedPopperJoined
\* The program ends when the object is destroyed and nobody uses the queue.
CHECK_DEADLOCK FALSE
