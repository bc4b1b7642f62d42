SPECIFICATION Spec
CONSTANTS
    Thread <- MCThread
    Cond <- MCCond
    Job = {j1, j2}
    NoJob = NoJob
    Faults = {}
INVARIANTS
    WaitsOnlyWhileEmpty
CHECK_DEADLOCK FALSE
