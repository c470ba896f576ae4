--------------------------- MODULE OneShotApproval ---------------------------
(***************************************************************************)
(* What the approval gate promises the operator about one question, with   *)
(* none of its locks, deadlines or call sites: a question is put once, an  *)
(* approval lets one command run once, and a question that was refused,    *)
(* superseded or left to lapse lets nothing run any more.                  *)
(***************************************************************************)
CONSTANT Questions

VARIABLE phase

Phase == {"unasked", "open", "approved", "used", "closed"}

TypeOK == phase \in [Questions -> Phase]

Init == phase = [q \in Questions |-> "unasked"]

Move(q, from, to) == phase[q] \in from /\ phase' = [phase EXCEPT ![q] = to]

Ask(q)     == Move(q, {"unasked"}, "open")
Approve(q) == Move(q, {"open"}, "approved")
Use(q)     == Move(q, {"approved"}, "used")

\* A new question may take the place of an old one in the same step.
Supersede(old, new) ==
  /\ phase[old] = "open" \/ phase[old] = "approved"
  /\ phase[new] = "unasked"
  /\ phase' = [phase EXCEPT ![old] = "closed", ![new] = "open"]

\* Refused, expired, or the session is gone with all its questions.
CloseAll(qs) ==
  /\ \A q \in qs : phase[q] \in {"unasked", "open", "approved"}
  /\ phase' = [q \in Questions |-> IF q \in qs THEN "closed" ELSE phase[q]]

Next ==
  \/ \E q \in Questions : Ask(q) \/ Approve(q) \/ Use(q)
  \/ \E old, new \in Questions : Supersede(old, new)
  \/ \E qs \in SUBSET Questions : CloseAll(qs)

Spec == Init /\ [][Next]_phase
=============================================================================
