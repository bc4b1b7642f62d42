SPECIFICATION Spec
CONSTANTS
    Object = {o1, o2, o3}
    None = None
    Stdin = Stdin
    MaxFd = 3
    Programs <- ThreePrograms
SYMMETRY ObjectSymmetry
INVARIANTS
    NoForeignClose
    LiveOwnsItsNumber
    NoLeak
\* The program ends when all objects are gone.
CHECK_DEADLOCK FALSE
