------------------------------- MODULE MCTimedWait -------------------------------
(***************************************************************************)
(* Instances of TimedWait for TLC.                                         *)
(***************************************************************************)
EXTENDS TimedWait

MCCond == {cond}

\* A nanosecond, a second less a nanosecond, and a second back; two make a whole second.
MCAddend == {[sec |-> 0, nsec |-> 1], [sec |-> 1, nsec |-> -1], [sec |-> -1, nsec |-> 0]}
================================================================================
