--------------------------- MODULE MCApprovalGate ---------------------------
(***************************************************************************)
(* Small instances of ApprovalGate for TLC.  Two of the three commands     *)
(* share a first word (so a grant made of one covers the other) and the    *)
(* third is a pipeline, which grant_for refuses to remember.               *)
(***************************************************************************)
EXTENDS ApprovalGate, TLC

CONSTANTS c1, c2, c3, restart, reload, pipeline, word

MCGrantOf ==
  [c \in Commands |-> IF c = pipeline THEN NoWord ELSE word]

\* Calls that can be cut short in the same ways are interchangeable.
CallSymmetry == Permutations(Calls)
=============================================================================
