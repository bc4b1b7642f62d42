SPECIFICATION FairSpec
CONSTANTS
    Descriptor = {1, 2, 3}
    Reader = {r1}
    Block = {b1, b2}
INVARIANTS
    VectorAgrees
    NoDanglingRegistration
PROPERTIES
    CalledOnlyWhenReadable
    DataAnnounced
\* wait() may block for ever.
CHECK_DEADLOCK FALSE
