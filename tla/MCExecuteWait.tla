--------------------------- MODULE MCExecuteWait ---------------------------
(***************************************************************************)
(* ExecuteWait for TLC: one background command of one line is enough for a *)
(* record that nobody closes.                                              *)
(***************************************************************************)
EXTENDS ExecuteWait

CONSTANT e1

MCLines == [c \in Calls |-> 1]
=============================================================================
