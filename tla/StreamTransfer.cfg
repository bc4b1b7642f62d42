SPECIFICATION FairStreamSpec
CONSTANTS
    Writer = {w1, w2}
    Reader = {r1, r2}
    Capacity = 2
    MaxSize = 2
    MaxBytes = 3
INVARIANTS
    OnceInOrder
PROPERTIES
    ShortOnlyAtEnd
    TransfersEnd
\* Readers and writers may stop calling.
CHECK_DEADLOCK FALSE
