---------------------------- MODULE MCUserRoute ----------------------------
(***************************************************************************)
(* UserRoute for TLC: one writer is enough for a choice to be shadowed by  *)
(* the object's older one.                                                 *)
(***************************************************************************)
EXTENDS UserRoute
=============================================================================
