--------------------------- MODULE MCAsyncDescriptor ---------------------------
(***************************************************************************)
(* Instances of AsyncDescriptor for TLC.                                   *)
(***************************************************************************)
EXTENDS AsyncDescriptor

MCThread == {Main, Worker}
MCCond   == {not_empty, empty}
================================================================================
