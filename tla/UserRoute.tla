----------------------------- MODULE UserRoute -----------------------------
(***************************************************************************)
(* The model one user has standing for "auto"                              *)
(* (src/gateway/src/store/users.ts, route-do.ts): a record of the route    *)
(* object, and the KV key that held it before the object existed.  The key *)
(* is also where a choice goes while the object is out of reach.           *)
(*                                                                         *)
(* getUserRoute and setUserRoute are split at every await, so any number   *)
(* of them interleave.  The object may go out of reach between any two     *)
(* steps; it may answer any request with an error, and a write to it may   *)
(* take effect although its answer is lost.                                *)
(* KV is taken for one strongly consistent store, which it is not: what    *)
(* goes wrong here goes wrong with the better store too.                   *)
(*                                                                         *)
(* A definition named X_Y is X with one plausible mistake in it; no        *)
(* specification uses it.  The properties are shown to notice it.          *)
(***************************************************************************)
EXTENDS Naturals

CONSTANTS
  Models,     \* what a user may choose
  None,       \* no choice
  Readers,    \* calls of getUserRoute
  Writers     \* calls of setUserRoute

NoneAssumption == None \notin Models

CallsAssumption == Readers \cap Writers = {}

Calls == Readers \cup Writers
Choices == Models \cup {None}

VARIABLES
  durable,    \* the object's record
  legacy,     \* the KV key
  up,         \* the object can be reached
  pc,         \* where each call stands
  value,      \* the choice a call carries
  standing,   \* history: the choices that may stand: the one last acknowledged,
              \* and those of calls since or still under way
  found,      \* history: the readers whose last GET the object has answered
  excused     \* history: the object has not taken the choice of a reader that it
              \* had answered, or a user's choice has gone to KV while a reader
              \* was on its way to delete there

history == <<standing, found, excused>>
vars == <<durable, legacy, up, pc, value, history>>

TypeOK ==
  /\ durable \in Choices /\ legacy \in Choices /\ up \in BOOLEAN
  /\ pc \in [Calls -> {"idle", "reachable", "alone", "moving", "keeping",
                       "dropping", "saving", "falling"}]
  /\ \A c \in Readers : pc[c] \notin {"saving", "falling"}
  /\ \A c \in Writers : pc[c] \in {"idle", "saving", "falling"}
  /\ value \in [Calls -> Choices]
  /\ standing \subseteq Choices
  /\ found \subseteq Readers /\ excused \in BOOLEAN

\* Users of before the object, users of since, and users who never chose.
Init ==
  /\ durable \in Choices /\ legacy \in Choices
  /\ durable = None \/ legacy = None
  /\ standing = {IF durable = None THEN legacy ELSE durable}
  /\ up = TRUE
  /\ pc = [c \in Calls |-> "idle"]
  /\ value = [c \in Calls |-> None]
  /\ found = {} /\ excused = FALSE

Goes(c, where, carried) ==
  /\ pc' = [pc EXCEPT ![c] = where]
  /\ value' = [value EXCEPT ![c] = carried]

Ends(c) == Goes(c, "idle", None)

\* The other choices that users are making at this moment.
Pending(c) == {value[d] : d \in {w \in Writers \ {c} : pc[w] # "idle"}}

Acknowledge(c) == standing' = {value[c]} \cup Pending(c)

-----------------------------------------------------------------------------
(* getUserRoute                                                            *)

\* The object answers with a model; or without one, or with a body that does not
\* arrive; or it does not answer, or with an error.
ReadObject(c) ==
  /\ c \in Readers /\ pc[c] = "idle"
  /\ \/ /\ up /\ durable # None
        /\ found' = found \cup {c}
        /\ UNCHANGED <<pc, value>>
     \/ /\ up
        /\ found' = found \cup {c}
        /\ Goes(c, "reachable", None)
     \/ /\ found' = found \ {c}
        /\ Goes(c, "alone", None)
  /\ UNCHANGED <<durable, legacy, up, standing, excused>>

\* A legacy choice is moved only into an object that has answered.
Moves_Always(c) == legacy # None
Moves(c) == legacy # None /\ pc[c] = "reachable"

ReadLegacy(c) ==
  /\ pc[c] \in {"reachable", "alone"}
  /\ IF Moves(c) THEN Goes(c, "moving", legacy) ELSE Ends(c)
  /\ UNCHANGED <<durable, legacy, up, history>>

-----------------------------------------------------------------------------
(* setUserRoute: the whole of a writer's call, and a part of a reader's    *)

\* PUT, or DELETE for no choice.
StoreObject(c) ==
  /\ pc[c] \in {"moving", "saving"}
  /\ up
  /\ durable' = value[c]
  /\ \/ /\ pc[c] = "moving" /\ Goes(c, "dropping", value[c])
        /\ UNCHANGED standing
     \/ /\ pc[c] = "saving" /\ Ends(c)
        /\ Acknowledge(c)
  /\ UNCHANGED <<legacy, up, found, excused>>

Fallback(c) == IF pc[c] = "moving" THEN "keeping" ELSE "falling"

\* The object is out of reach or answers with an error, or its answer is lost.
MissObject(c) ==
  /\ pc[c] \in {"moving", "saving"}
  /\ \/ /\ excused' = (excused \/ c \in found)
        /\ UNCHANGED durable
     \/ /\ up
        /\ durable' = value[c]
        /\ UNCHANGED excused
  /\ Goes(c, Fallback(c), value[c])
  /\ UNCHANGED <<legacy, up, standing, found>>

\* A reader's remaining steps end in the delete of the KV key.
WillDrop == \E c \in Readers : pc[c] \in {"keeping", "dropping"}

\* The same choice into the KV key.
StoreLegacy(c) ==
  /\ pc[c] \in {"keeping", "falling"}
  /\ legacy' = value[c]
  /\ \/ /\ pc[c] = "keeping" /\ Goes(c, "dropping", value[c])
        /\ UNCHANGED standing
        /\ UNCHANGED excused
     \/ /\ pc[c] = "falling" /\ Ends(c)
        /\ Acknowledge(c)
        /\ excused' = (excused \/ WillDrop)
  /\ UNCHANGED <<durable, up, found>>

\* KV fails as well: a reader goes on, a writer's call is an error.
MissLegacy(c) ==
  /\ \/ pc[c] = "keeping" /\ Goes(c, "dropping", value[c])
     \/ pc[c] = "falling" /\ Ends(c)
  /\ UNCHANGED <<durable, legacy, up, history>>

\* The reader's last step, whatever became of its store; a failed delete is
\* ignored.
DropLegacy(c) ==
  /\ pc[c] = "dropping"
  /\ legacy' \in {None, legacy}
  /\ Ends(c)
  /\ UNCHANGED <<durable, up, history>>

Choose(c) ==
  /\ c \in Writers /\ pc[c] = "idle"
  /\ \E choice \in Choices :
       /\ Goes(c, "saving", choice)
       /\ standing' = standing \cup {choice}
  /\ UNCHANGED <<durable, legacy, up, found, excused>>

-----------------------------------------------------------------------------
Outage ==
  /\ up /\ up' = FALSE
  /\ UNCHANGED <<durable, legacy, pc, value, history>>

Return ==
  /\ ~up /\ up' = TRUE
  /\ UNCHANGED <<durable, legacy, pc, value, history>>

Step(c) ==
  \/ ReadObject(c) \/ ReadLegacy(c) \/ Choose(c)
  \/ StoreObject(c) \/ MissObject(c)
  \/ StoreLegacy(c) \/ MissLegacy(c) \/ DropLegacy(c)

Next == Outage \/ Return \/ \E c \in Calls : Step(c)

Spec == Init /\ [][Next]_vars

-----------------------------------------------------------------------------
(* Properties                                                              *)

\* What the next read will answer.
Answer == IF up /\ durable # None THEN durable ELSE legacy

\* A user who has chosen keeps a choice in one of the two stores, whatever
\* requests fail or take effect unanswered and however many readers and writers
\* meet: getUserRoute does not "drop the only surviving copy" (users.ts:355-356),
\* but for two cases.  The object answers a reader and then does not take the
\* choice that the reader moves; or a user's choice goes to KV while a reader is
\* on its way to delete there.  In both the code does drop it (see README).
SomeCopySurvives ==
  None \notin standing /\ ~excused => durable # None \/ legacy # None

\* setUserRoute stores a model in KV "so the choice survives and migrates into
\* the DO on the next reachable read" (users.ts:371-373): with the object in
\* reach and no call under way, a read answers with the choice that stands.
ChoiceSurvives ==
  /\ up /\ \A c \in Calls : pc[c] = "idle"
  /\ None \notin standing
  => Answer \in standing
=============================================================================
