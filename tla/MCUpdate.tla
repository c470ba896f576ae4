------------------------------ MODULE MCUpdate ------------------------------
(***************************************************************************)
(* Update for TLC: a rollback alone, with the device on the latest release *)
(* of its line.                                                            *)
(***************************************************************************)
EXTENDS Update

CONSTANT rb

MCLineOf == [v \in Releases |-> IF v = 1 THEN "old" ELSE "new"]
=============================================================================
