SPECIFICATION FairProcessSpec
CONSTANTS
    Object = {o1, o2}
    Pid = {p0, p1, p2, p3}
    Root = p0
    Nobody = Nobody
    Recyclable = {p1}
INVARIANTS
    StatusTruthful
    SignalsOwnProcess
PROPERTIES
    ZombiesReaped
\* The program may stop.
CHECK_DEADLOCK FALSE
