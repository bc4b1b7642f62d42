SPECIFICATION Spec
CONSTANTS
    Thread = {t1, t2, t3}
    Cond <- MCCond
    Prio = {1, 2}
    Elem = {e1, e2, e3}
    NoElem = NoElem
SYMMETRY QueueSymmetry
INVARIANTS
    SizeAgrees
    FifoOnce
    NoLostWakeup
\* All threads may be blocked in pop().
CHECK_DEADLOCK FALSE
