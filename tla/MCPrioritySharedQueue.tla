------------------------- MODULE MCPrioritySharedQueue -------------------------
(***************************************************************************)
(* Instances of PrioritySharedQueue for TLC.                               *)
(***************************************************************************)
EXTENDS PrioritySharedQueue

MCCond == {empty}

\* Priorities are ordered; threads and elements are only compared for equality.
QueueSymmetry == Permutations(Thread) \cup Permutations(Elem)
================================================================================
