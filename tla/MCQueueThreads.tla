----------------------------- MODULE MCQueueThreads -----------------------------
(***************************************************************************)
(* Instances of QueueThreads for TLC.                                      *)
(***************************************************************************)
EXTENDS QueueThreads

MCCond == {empty}
MCThread == Producer \cup 1..MaxThreads
================================================================================
