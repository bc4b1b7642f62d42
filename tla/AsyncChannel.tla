------------------------------ MODULE AsyncChannel ------------------------------
(***************************************************************************)
(* What asynchronous I/O on a descriptor promises its user: operations are *)
(* performed one at a time in the order in which they were submitted, and  *)
(* closing gives the descriptor back only when none is left.               *)
(***************************************************************************)
EXTENDS Sequences

CONSTANT Op

VARIABLES
    pending,  \* operations submitted and not yet performed, oldest first
    done,     \* operations performed, in order
    open      \* the descriptor has not been closed

channelVars == <<pending, done, open>>

Init ==
    /\ pending = <<>>
    /\ done = <<>>
    /\ open = TRUE

Submit(op) ==
    /\ open
    /\ pending' = Append(pending, op)
    /\ UNCHANGED <<done, open>>

PerformNext ==
    /\ open
    /\ pending # <<>>
    /\ done' = Append(done, Head(pending))
    /\ pending' = Tail(pending)
    /\ UNCHANGED open

CloseDrained ==
    /\ open
    /\ pending = <<>>
    /\ open' = FALSE
    /\ UNCHANGED <<pending, done>>

Next ==
    \/ \E op \in Op : Submit(op)
    \/ PerformNext
    \/ CloseDrained

Spec == Init /\ [][Next]_channelVars
================================================================================
