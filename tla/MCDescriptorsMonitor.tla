-------------------------- MODULE MCDescriptorsMonitor --------------------------
(***************************************************************************)
(* Instances of DescriptorsMonitor for TLC.  Two blocks for three          *)
(* descriptors: at most two are monitored at a time, and a registration    *)
(* soon takes the block of one that was deleted.                           *)
(***************************************************************************)
EXTENDS DescriptorsMonitor
================================================================================
