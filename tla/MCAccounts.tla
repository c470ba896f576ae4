----------------------------- MODULE MCAccounts -----------------------------
(***************************************************************************)
(* Accounts for TLC: one operation, one reader and one isolate are enough  *)
(* for a late fill to undo a write-through.                                *)
(***************************************************************************)
EXTENDS Accounts
=============================================================================
