---------------------------- MODULE MCAbstractThread ----------------------------
(***************************************************************************)
(* Instances of AbstractThread for TLC.                                    *)
(***************************************************************************)
EXTENDS AbstractThread, TLC

ClientSymmetry == Permutations(Client)
================================================================================
