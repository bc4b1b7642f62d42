---------------------------- MODULE MCStreamTransfer ----------------------------
(***************************************************************************)
(* Instances of StreamTransfer for TLC.  With a capacity below the largest *)
(* size a write() needs several transfers.                                 *)
(***************************************************************************)
EXTENDS StreamTransfer
================================================================================
