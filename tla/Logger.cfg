SPECIFICATION FairSpec
CONSTANTS
    Thread = {t1, t2, t3}
    Cond = {}
    Setter = {t1, t2}
    warning = warning
    debug = debug
    Msg <- MCMsg
    NoMsg = NoMsg
    Severity <- MCSeverity
    ConsoleLevel = 2
    FileLevel = 3
    File = {f1, f2}
    NoFile = NoFile
INVARIANTS
    OneLogger
    LinesWhole
    KeptOnce
PROPERTIES
    MacrosReturn
\* Every thread may wait for a lock that a cancelled thread has taken with it.
CHECK_DEADLOCK FALSE
