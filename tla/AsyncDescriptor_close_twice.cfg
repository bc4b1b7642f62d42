SPECIFICATION FairSpec
CONSTANTS
    Thread <- MCThread
    Cond <- MCCond
    Job = {j1}
    NoJob = NoJob
    Faults = {}
PROPERTIES
    DestructorEndsAfterClose
CHECK_DEADLOCK FALSE
