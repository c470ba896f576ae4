----------------------------- MODULE TempClaim -----------------------------
(***************************************************************************)
(* One file of the relay (src/relay/src/claim.js, index.js): uploaded once *)
(* under a token, downloaded once through the Durable Object named by the  *)
(* token, or dropped at the first claim after its deadline.                *)
(*                                                                         *)
(* A claim is split at its two awaits, the object store's get and delete.  *)
(* Either may fail, and a put or a delete may take effect although its     *)
(* answer is lost.  Whether the Durable Object holds the next claim back   *)
(* over those awaits is a parameter: claim.js:17-19 says that it does.     *)
(*                                                                         *)
(* A definition named X_Y is X with one plausible mistake in it; no        *)
(* specification uses it.  The properties are shown to notice it.          *)
(***************************************************************************)
CONSTANTS
  Claims,     \* downloads of the file that are asked for
  Serial      \* TRUE: a claim is handled to its end before the next begins

SerialAssumption == Serial \in BOOLEAN

VARIABLES
  upload,     \* "none", "accepted", "refused" or "failed"
  stored,     \* the file is in the object store
  large,      \* and is larger than MAX_BYTES
  deadline,   \* its expiresAt
  pc,         \* where each claim stands
  answer,     \* the answer of each claim that is done
  taken,      \* history: the claims that were given the file
  lost        \* history: a delete took effect and was answered 503

file == <<upload, stored, large, deadline>>
claims == <<pc, answer>>
vars == <<file, claims, taken, lost>>

Deadlines == {"absent", "ahead", "past", "garbled"}

Answers == {"none", "served", "gone", "expired", "unavailable"}

TypeOK ==
  /\ upload \in {"none", "accepted", "refused", "failed"}
  /\ stored \in BOOLEAN /\ large \in BOOLEAN /\ deadline \in Deadlines
  /\ pc \in [Claims -> {"idle", "asked", "expired", "serving", "done"}]
  /\ answer \in [Claims -> Answers]
  /\ taken \subseteq Claims /\ lost \in BOOLEAN

\* Nothing yet, or a file of an older release whose deadline is missing or
\* unreadable.
Init ==
  /\ \/ upload = "none" /\ stored = FALSE /\ deadline = "absent"
     \/ upload = "accepted" /\ stored = TRUE /\ deadline \in {"absent", "garbled"}
  /\ large = FALSE
  /\ pc = [c \in Claims |-> "idle"]
  /\ answer = [c \in Claims |-> "none"]
  /\ taken = {} /\ lost = FALSE

-----------------------------------------------------------------------------
(* POST and PUT /api/upload                                                *)

\* The Content-Length that is declared: missing, no number, within MAX_BYTES,
\* within the margin for the framing of a form, or beyond.
Lengths == {"missing", "garbled", "fits", "margin", "beyond"}

\* A raw body is as long as declared.
AdmitsRaw(length) == length = "fits"

\* A form is screened by its length first and by the size of its file then; a
\* length that is no number passes the screen.
AdmitsForm_ByLength(length, size) == length \in {"garbled", "fits", "margin"}
AdmitsForm(length, size) ==
  length \in {"garbled", "fits", "margin"} /\ size = "fits"

\* A form no longer than MAX_BYTES has no larger file in it.
Sizes(length) == IF length = "fits" THEN {"fits"} ELSE {"fits", "beyond"}

\* The put: the token is told only if it is answered.
Put(size) ==
  \/ upload' = "accepted" /\ stored' = TRUE
  \/ upload' = "failed" /\ stored' \in BOOLEAN

Store(admits, size) ==
  /\ upload = "none"
  /\ IF admits
       THEN /\ Put(size)
            /\ large' = (stored' /\ size = "beyond")
            /\ deadline' = "ahead"
       ELSE /\ upload' = "refused"
            /\ UNCHANGED <<stored, large, deadline>>
  /\ UNCHANGED <<claims, taken, lost>>

RawUpload == \E length \in Lengths : Store(AdmitsRaw(length), "fits")

FormUpload ==
  \E length \in Lengths : \E size \in Sizes(length) :
    Store(AdmitsForm(length, size), size)

-----------------------------------------------------------------------------
(* GET /files/<token>                                                      *)

Ask(c) ==
  /\ pc[c] = "idle" /\ upload = "accepted"
  /\ pc' = [pc EXCEPT ![c] = "asked"]
  /\ UNCHANGED <<file, answer, taken, lost>>

Answered(c, what) ==
  /\ pc' = [pc EXCEPT ![c] = "done"]
  /\ answer' = [answer EXCEPT ![c] = what]

\* The claim's turn in the Durable Object.
Admitted(c) == Serial => \A d \in Claims : pc[d] \notin {"expired", "serving"}

Expired_WhenMissing == deadline \in {"absent", "past", "garbled"}
Expired == deadline \in {"past", "garbled"}

\* The get, and decideClaim on what it found.
Get(c) ==
  /\ pc[c] = "asked" /\ Admitted(c)
  /\ \/ ~stored /\ Answered(c, "gone")
     \/ /\ stored
        /\ pc' = [pc EXCEPT ![c] = IF Expired THEN "expired" ELSE "serving"]
        /\ UNCHANGED answer
     \/ Answered(c, "unavailable")
  /\ UNCHANGED <<file, taken, lost>>

\* The delete comes before the answer, for an expired file too.
Delete(c) ==
  /\ pc[c] \in {"expired", "serving"}
  /\ stored' = FALSE
  /\ \/ /\ pc[c] = "expired" /\ Answered(c, "expired")
        /\ UNCHANGED taken
     \/ /\ pc[c] = "serving" /\ Answered(c, "served")
        /\ taken' = taken \cup {c}
  /\ UNCHANGED <<upload, large, deadline, lost>>

DeleteFails_ServesAnyway(c) ==
  /\ pc[c] \in {"expired", "serving"}
  /\ stored' \in {stored, FALSE}
  /\ \/ /\ pc[c] = "expired" /\ Answered(c, "expired")
        /\ UNCHANGED taken
     \/ /\ pc[c] = "serving" /\ Answered(c, "served")
        /\ taken' = taken \cup {c}
  /\ UNCHANGED <<upload, large, deadline, lost>>

\* Its failure, before or after it took effect.
DeleteFails(c) ==
  /\ pc[c] \in {"expired", "serving"}
  /\ stored' \in {stored, FALSE}
  /\ lost' = (lost \/ (stored /\ ~stored'))
  /\ Answered(c, "unavailable")
  /\ UNCHANGED <<upload, large, deadline, taken>>

\* A day has passed.
Expire ==
  /\ deadline = "ahead"
  /\ deadline' = "past"
  /\ UNCHANGED <<upload, stored, large, claims, taken, lost>>

Handle(c) == Get(c) \/ Delete(c) \/ DeleteFails(c)

Next ==
  \/ RawUpload \/ FormUpload \/ Expire
  \/ \E c \in Claims : Ask(c) \/ Handle(c)

Spec == Init /\ [][Next]_vars

-----------------------------------------------------------------------------
(* Properties                                                              *)

\* A file is downloaded once, however many claims arrive together and whatever
\* becomes of the store's answers, if claims are handled one at a time; so a
\* claim may serve nothing whose delete it has not seen confirmed.
DownloadedOnce == Serial => \A c, d \in taken : c = d

\* A file whose token was handed out does not go without someone having had it,
\* its deadline having passed, or a claim having been told to try again: a
\* claim answers 404 for one of these reasons only.
GoneForAReason ==
  upload = "accepted" /\ ~stored =>
    taken # {} \/ lost \/ deadline \in {"past", "garbled"}

\* No file beyond MAX_BYTES is stored, whatever length its request declares.
StoredFits == stored => ~large
=============================================================================
