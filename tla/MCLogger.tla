-------------------------------- MODULE MCLogger --------------------------------
(***************************************************************************)
(* Instances of Logger for TLC: a warning, which the default levels print  *)
(* on console and file, and a debug message, which goes to the file only.  *)
(***************************************************************************)
EXTENDS Logger, TLC

CONSTANTS warning, debug

MCMsg == {warning, debug}
MCSeverity == (warning :> 2) @@ (debug :> 3)
================================================================================
