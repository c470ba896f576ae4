---------------------------- MODULE StoresProofs ----------------------------
(***************************************************************************)
(* Proofs about what the gateway and the relay keep: of UserRoute, for     *)
(* every set of models, readers and writers; of TempClaim, for any number of     *)
(* claims; and the types of MCStores' three parts.  Accounts' other proofs *)
(* are in AccountsProofs.                                                  *)
(***************************************************************************)
EXTENDS MCStores, AccountsProofs

(***************************************************************************)
(* Type correctness.                                                       *)
(***************************************************************************)
LEMMA GoesTypes ==
  ASSUME Route!TypeOK, NEW c \in Route!Calls,
         NEW where \in {"idle", "reachable", "alone", "moving", "keeping",
                        "dropping", "saving", "falling"},
         NEW carried \in Route!Choices, Route!Goes(c, where, carried),
         c \in RouteReaders => where \notin {"saving", "falling"},
         c \in RouteWriters => where \in {"idle", "saving", "falling"},
         durable' \in Route!Choices, legacy' \in Route!Choices, up' \in BOOLEAN,
         standing' \subseteq Route!Choices, found' \subseteq RouteReaders,
         excused' \in BOOLEAN
  PROVE  Route!TypeOK'
  BY DEF Route!Goes, Route!TypeOK, Route!Calls

LEMMA CallTypes ==
  ASSUME Route!TypeOK, NEW c \in Route!Calls, Route!Step(c)
  PROVE  Route!TypeOK'
<1>a. /\ value[c] \in Route!Choices /\ None \in Route!Choices
      /\ RouteReaders \cap RouteWriters = {}
  BY RouteAssumptions DEF Route!TypeOK, Route!Choices, Route!CallsAssumption
<1>b. Route!Pending(c) \subseteq Route!Choices
  BY DEF Route!Pending, Route!TypeOK, Route!Calls
<1> USE <1>a DEF Route!Ends, Route!history
<1>1. CASE Route!ReadObject(c)
  <2>1. c \in RouteReaders /\ found' \subseteq RouteReaders
    BY <1>1 DEF Route!ReadObject, Route!TypeOK
  <2>2. CASE UNCHANGED <<routePc, value>>
    BY <1>1, <2>1, <2>2 DEF Route!ReadObject, Route!TypeOK
  <2>3. CASE \E where \in {"reachable", "alone"} : Route!Goes(c, where, None)
    BY <1>1, <2>1, <2>3, GoesTypes DEF Route!ReadObject, Route!TypeOK
  <2>4. QED
    BY <1>1, <2>2, <2>3 DEF Route!ReadObject
<1>2. CASE Route!ReadLegacy(c)
  <2>1. c \in RouteReaders /\ legacy \in Route!Choices
    BY <1>2 DEF Route!ReadLegacy, Route!TypeOK, Route!Calls
  <2>2. QED
    BY <1>2, <2>1, GoesTypes DEF Route!ReadLegacy, Route!TypeOK
<1>3. CASE Route!StoreObject(c)
  <2>1. CASE routePc[c] = "moving"
    BY <1>3, <2>1, GoesTypes DEF Route!StoreObject, Route!TypeOK, Route!Calls
  <2>2. CASE routePc[c] = "saving"
    BY <1>3, <2>2, <1>b, GoesTypes
       DEF Route!StoreObject, Route!Acknowledge, Route!TypeOK, Route!Calls
  <2>3. QED
    BY <1>3, <2>1, <2>2 DEF Route!StoreObject
<1>4. CASE Route!MissObject(c)
  <2>1. CASE routePc[c] = "moving"
    BY <1>4, <2>1, GoesTypes DEF Route!MissObject, Route!Fallback, Route!TypeOK, Route!Calls
  <2>2. CASE routePc[c] = "saving"
    BY <1>4, <2>2, GoesTypes DEF Route!MissObject, Route!Fallback, Route!TypeOK, Route!Calls
  <2>3. QED
    BY <1>4, <2>1, <2>2 DEF Route!MissObject
<1>5. CASE Route!StoreLegacy(c)
  <2>1. CASE routePc[c] = "keeping"
    BY <1>5, <2>1, GoesTypes DEF Route!StoreLegacy, Route!TypeOK, Route!Calls
  <2>2. CASE routePc[c] = "falling"
    BY <1>5, <2>2, <1>b, GoesTypes
       DEF Route!StoreLegacy, Route!Acknowledge, Route!TypeOK, Route!Calls
  <2>3. QED
    BY <1>5, <2>1, <2>2 DEF Route!StoreLegacy
<1>6. CASE Route!MissLegacy(c)
  BY <1>6, GoesTypes DEF Route!MissLegacy, Route!TypeOK, Route!Calls
<1>7. CASE Route!DropLegacy(c)
  BY <1>7, GoesTypes DEF Route!DropLegacy, Route!TypeOK, Route!Calls
<1>8. CASE Route!Choose(c)
  <2>1. PICK choice \in Route!Choices :
          Route!Goes(c, "saving", choice) /\ standing' = standing \cup {choice}
    BY <1>8 DEF Route!Choose
  <2>2. QED
    BY <1>8, <2>1, GoesTypes DEF Route!Choose, Route!TypeOK
<1>9. QED
  BY <1>1, <1>2, <1>3, <1>4, <1>5, <1>6, <1>7, <1>8 DEF Route!Step

LEMMA RouteTyped ==
  Route!Spec => []Route!TypeOK
<1>1. Route!Init => Route!TypeOK
  BY DEF Route!Init, Route!TypeOK, Route!Choices, Route!Calls
<1>2. Route!TypeOK /\ [Route!Next]_(Route!vars) => Route!TypeOK'
  <2>1. ASSUME Route!TypeOK, Route!Outage \/ Route!Return \/ UNCHANGED Route!vars
        PROVE  Route!TypeOK'
    BY <2>1 DEF Route!Outage, Route!Return, Route!vars, Route!history, Route!TypeOK
  <2>2. QED
    BY <2>1, CallTypes DEF Route!Next
<1>3. QED
  BY <1>1, <1>2, PTL DEF Route!Spec

(***************************************************************************)
(* The only surviving copy.  A reader that moves a choice was answered by  *)
(* the object.  As long as there is no excuse, the object holds a choice   *)
(* when a reader is about to drop the KV copy, or the user may be without  *)
(* one: what a writer has under way may stand.                             *)
(***************************************************************************)
MovingInv ==
  /\ \A c \in RouteReaders : routePc[c] \in {"reachable", "moving"} => c \in found
  /\ \A c \in RouteReaders : routePc[c] \in {"moving", "keeping", "dropping"} => value[c] # None
  /\ \A w \in RouteWriters : routePc[w] # "idle" => value[w] \in standing

DropInv ==
  ~excused =>
    \A c \in RouteReaders :
      routePc[c] \in {"keeping", "dropping"} => durable # None \/ None \in standing

CopyInv == MovingInv /\ DropInv /\ Route!SomeCopySurvives

LEMMA Acknowledged ==
  ASSUME Route!TypeOK, MovingInv, NEW w \in RouteWriters, Route!Acknowledge(w),
         Route!Goes(w, "idle", None)
  PROVE  /\ value[w] \in standing'
         /\ \A d \in RouteWriters : routePc'[d] # "idle" => value'[d] \in standing'
  BY DEF Route!Acknowledge, Route!Pending, Route!Goes, Route!TypeOK, Route!Calls

LEMMA CopyStep ==
  ASSUME Route!TypeOK, CopyInv, [Route!Next]_(Route!vars)
  PROVE  CopyInv'
<1>a. /\ RouteReaders \cap RouteWriters = {}
      /\ routePc \in [Route!Calls -> {"idle", "reachable", "alone", "moving", "keeping",
                           "dropping", "saving", "falling"}]
      /\ \A c \in RouteReaders : routePc[c] \notin {"saving", "falling"}
      /\ \A c \in RouteWriters : routePc[c] \in {"idle", "saving", "falling"}
      /\ value \in [Route!Calls -> Route!Choices]
      /\ found \subseteq RouteReaders /\ excused \in BOOLEAN
  BY RouteAssumptions DEF Route!CallsAssumption, Route!TypeOK
<1> USE <1>a DEF Route!Calls, CopyInv, MovingInv, DropInv, Route!SomeCopySurvives,
     Route!Goes, Route!Ends, Route!history
<1>1. CASE Route!Outage \/ Route!Return \/ UNCHANGED Route!vars
  BY <1>1 DEF Route!Outage, Route!Return, Route!vars
<1>2. ASSUME NEW c \in Route!Calls, Route!ReadObject(c) PROVE CopyInv'
  BY <1>2 DEF Route!ReadObject
<1>3. ASSUME NEW c \in Route!Calls, Route!ReadLegacy(c) PROVE CopyInv'
  BY <1>3 DEF Route!ReadLegacy, Route!Moves
<1>4. ASSUME NEW c \in Route!Calls, Route!StoreObject(c) PROVE CopyInv'
  <2>1. CASE routePc[c] = "moving"
    BY <1>4, <2>1 DEF Route!StoreObject
  <2>2. CASE routePc[c] = "saving"
    BY <1>4, <2>2, Acknowledged DEF Route!StoreObject
  <2>3. QED
    BY <1>4, <2>1, <2>2 DEF Route!StoreObject
<1>5. ASSUME NEW c \in Route!Calls, Route!MissObject(c) PROVE CopyInv'
  BY <1>5 DEF Route!MissObject, Route!Fallback
<1>6. ASSUME NEW c \in Route!Calls, Route!StoreLegacy(c) PROVE CopyInv'
  <2>1. CASE routePc[c] = "keeping"
    BY <1>6, <2>1 DEF Route!StoreLegacy
  <2>2. CASE routePc[c] = "falling"
    BY <1>6, <2>2, Acknowledged DEF Route!StoreLegacy, Route!WillDrop
  <2>3. QED
    BY <1>6, <2>1, <2>2 DEF Route!StoreLegacy
<1>7. ASSUME NEW c \in Route!Calls, Route!MissLegacy(c) PROVE CopyInv'
  BY <1>7 DEF Route!MissLegacy
<1>8. ASSUME NEW c \in Route!Calls, Route!DropLegacy(c) PROVE CopyInv'
  BY <1>8 DEF Route!DropLegacy
<1>9. ASSUME NEW c \in Route!Calls, Route!Choose(c) PROVE CopyInv'
  BY <1>9 DEF Route!Choose
<1>10. QED
  BY <1>1, <1>2, <1>3, <1>4, <1>5, <1>6, <1>7, <1>8, <1>9 DEF Route!Next, Route!Step

\* A user who has chosen keeps a choice in one of the two stores, whatever
\* requests fail and whoever meets whom, until the object does not take what a
\* reader that it had answered moves, or a choice goes to KV while a reader is on
\* its way to delete there.
THEOREM CopySurvives ==
  Route!Spec => []SomeCopySurvives
<1>1. Route!Init => CopyInv
  BY DEF Route!Init, CopyInv, MovingInv, DropInv, Route!SomeCopySurvives, Route!Calls
<1>2. Route!TypeOK /\ CopyInv /\ [Route!Next]_(Route!vars) => CopyInv'
  BY CopyStep
<1>3. CopyInv => SomeCopySurvives
  BY DEF CopyInv, SomeCopySurvives
<1>4. QED
  BY <1>1, <1>2, <1>3, RouteTyped, PTL DEF Route!Spec

-----------------------------------------------------------------------------
(***************************************************************************)
(* Type correctness.                                                       *)
(***************************************************************************)
LEMMA UploadType ==
  ASSUME File!TypeOK, File!RawUpload \/ File!FormUpload
  PROVE  File!TypeOK' /\ upload = "none" /\ upload' # "none"
         /\ (upload' = "accepted" => stored')
         /\ UNCHANGED <<File!claims, taken, lost>>
<1>1. PICK admits \in BOOLEAN, size \in {"fits", "beyond"} : File!Store(admits, size)
  BY DEF File!RawUpload, File!FormUpload, File!Sizes, File!AdmitsRaw, File!AdmitsForm
<1>2. large' \in BOOLEAN /\ stored' \in BOOLEAN
  BY <1>1 DEF File!Store, File!Put, File!TypeOK
<1>3. QED
  BY <1>1, <1>2 DEF File!Store, File!Put, File!TypeOK, File!claims, File!Deadlines

LEMMA FileType ==
  ASSUME File!TypeOK, [File!Next]_(File!vars)
  PROVE  File!TypeOK'
<1> USE DEF File!file, File!claims
<1>1. CASE File!RawUpload \/ File!FormUpload
  BY <1>1, UploadType
<1>2. CASE File!Expire
  BY <1>2 DEF File!Expire, File!TypeOK, File!Deadlines
<1>3. ASSUME NEW c \in Claims, File!Ask(c) PROVE File!TypeOK'
  BY <1>3 DEF File!Ask, File!TypeOK
<1>4. ASSUME NEW c \in Claims, File!Get(c) PROVE File!TypeOK'
  BY <1>4 DEF File!Get, File!Answered, File!TypeOK, File!Answers
<1>5. ASSUME NEW c \in Claims, File!Delete(c) PROVE File!TypeOK'
  BY <1>5 DEF File!Delete, File!Answered, File!TypeOK, File!Answers
<1>6. ASSUME NEW c \in Claims, File!DeleteFails(c) PROVE File!TypeOK'
  <2>1. stored' \in BOOLEAN /\ lost' \in BOOLEAN
    BY <1>6 DEF File!DeleteFails, File!TypeOK
  <2>2. QED
    BY <1>6, <2>1 DEF File!DeleteFails, File!Answered, File!TypeOK, File!Answers
<1>7. CASE UNCHANGED File!vars
  BY <1>7 DEF File!vars, File!TypeOK
<1>8. QED
  BY <1>1, <1>2, <1>3, <1>4, <1>5, <1>6, <1>7 DEF File!Next, File!Handle

LEMMA FileTyped == File!Spec => []File!TypeOK
<1>1. File!Init => File!TypeOK
  BY DEF File!Init, File!TypeOK, File!Deadlines, File!Answers
<1>2. File!TypeOK /\ [File!Next]_(File!vars) => File!TypeOK'
  BY FileType
<1>3. QED
  BY <1>1, <1>2, PTL DEF File!Spec

(***************************************************************************)
(* The life of a file.  It is asked for only after its token was told.     *)
(* Where claims are handled one at a time, whoever is about to delete it   *)
(* still has it, and no one has had it before.                             *)
(***************************************************************************)
Handled(c) == claimPc[c] \in {"expired", "serving"}

ClaimInv ==
  /\ upload = "none" => taken = {} /\ \A c \in Claims : claimPc[c] = "idle"
  /\ \A c \in Claims : claimPc[c] = "expired" => deadline \in {"past", "garbled"}
  /\ Serial =>
       /\ \A c, d \in Claims : Handled(c) /\ Handled(d) => c = d
       /\ \A c \in Claims : Handled(c) => stored
       /\ taken # {} => ~stored
       /\ \A c, d \in taken : c = d

LEMMA ClaimStep ==
  ASSUME File!TypeOK, ClaimInv, [File!Next]_(File!vars)
  PROVE  ClaimInv'
<1> USE FileAssumptions DEF File!SerialAssumption, File!TypeOK, ClaimInv, Handled,
     File!file, File!claims
<1>1. CASE File!RawUpload \/ File!FormUpload
  BY <1>1, UploadType
<1>2. CASE File!Expire
  BY <1>2 DEF File!Expire
<1>3. ASSUME NEW c \in Claims, File!Ask(c) PROVE ClaimInv'
  BY <1>3 DEF File!Ask
<1>4. ASSUME NEW c \in Claims, File!Get(c) PROVE ClaimInv'
  BY <1>4 DEF File!Get, File!Answered, File!Admitted, File!Expired
<1>5. ASSUME NEW c \in Claims, File!Delete(c) PROVE ClaimInv'
  BY <1>5 DEF File!Delete, File!Answered
<1>6. ASSUME NEW c \in Claims, File!DeleteFails(c) PROVE ClaimInv'
  BY <1>6 DEF File!DeleteFails, File!Answered
<1>7. CASE UNCHANGED File!vars
  BY <1>7 DEF File!vars
<1>8. QED
  BY <1>1, <1>2, <1>3, <1>4, <1>5, <1>6, <1>7 DEF File!Next, File!Handle

LEMMA ClaimAlways ==
  File!Spec => []ClaimInv
<1>1. File!Init => ClaimInv
  BY DEF File!Init, ClaimInv, Handled
<1>2. File!TypeOK /\ ClaimInv /\ [File!Next]_(File!vars) => ClaimInv'
  BY ClaimStep
<1>3. QED
  BY <1>1, <1>2, FileTyped, PTL DEF File!Spec

\* Where claims are handled one at a time, one claim at most is given the file.
THEOREM ServedOnce ==
  File!Spec => []DownloadedOnce
<1>1. ClaimInv => DownloadedOnce
  BY DEF ClaimInv, DownloadedOnce, File!DownloadedOnce
<1>2. QED
  BY <1>1, ClaimAlways, PTL

\* A file whose token was told goes only when someone has had it, when its
\* deadline has passed, or when a claim was told to try again.
THEOREM GoneWithReason ==
  File!Spec => []GoneForAReason
<1>1. File!Init => File!GoneForAReason
  BY DEF File!Init, File!GoneForAReason
<1>2. File!TypeOK /\ ClaimInv /\ File!GoneForAReason /\ [File!Next]_(File!vars)
        => File!GoneForAReason'
  <2> SUFFICES ASSUME File!TypeOK, ClaimInv, File!GoneForAReason, [File!Next]_(File!vars)
               PROVE  File!GoneForAReason'
    OBVIOUS
  <2> USE DEF File!TypeOK, ClaimInv, File!GoneForAReason, File!file, File!claims
  <2>1. CASE File!RawUpload \/ File!FormUpload
    BY <2>1, UploadType
  <2>2. CASE File!Expire
    BY <2>2 DEF File!Expire
  <2>3. ASSUME NEW c \in Claims, File!Ask(c) \/ File!Get(c) PROVE File!GoneForAReason'
    BY <2>3 DEF File!Ask, File!Get
  <2>4. ASSUME NEW c \in Claims, File!Delete(c) PROVE File!GoneForAReason'
    BY <2>4 DEF File!Delete
  <2>5. ASSUME NEW c \in Claims, File!DeleteFails(c) PROVE File!GoneForAReason'
    BY <2>5 DEF File!DeleteFails
  <2>6. CASE UNCHANGED File!vars
    BY <2>6 DEF File!vars
  <2>7. QED
    BY <2>1, <2>2, <2>3, <2>4, <2>5, <2>6 DEF File!Next, File!Handle
<1>3. QED
  BY <1>1, <1>2, FileTyped, ClaimAlways, PTL DEF File!Spec, GoneForAReason

\* No file beyond MAX_BYTES is stored.
THEOREM FileFits == File!Spec => []StoredFits
<1>1. File!Init => File!StoredFits
  BY DEF File!Init, File!StoredFits
<1>2. File!TypeOK /\ File!StoredFits /\ [File!Next]_(File!vars) => File!StoredFits'
  <2> SUFFICES ASSUME File!TypeOK, File!StoredFits, [File!Next]_(File!vars)
               PROVE  File!StoredFits'
    OBVIOUS
  <2> USE DEF File!TypeOK, File!StoredFits, File!file, File!claims
  <2>1. CASE File!RawUpload
    BY <2>1 DEF File!RawUpload, File!Store, File!AdmitsRaw
  <2>2. CASE File!FormUpload
    BY <2>2 DEF File!FormUpload, File!Store, File!AdmitsForm
  <2>3. CASE File!Expire
    BY <2>3 DEF File!Expire
  <2>4. ASSUME NEW c \in Claims, File!Ask(c) \/ File!Get(c) PROVE File!StoredFits'
    BY <2>4 DEF File!Ask, File!Get
  <2>5. ASSUME NEW c \in Claims, File!Delete(c) \/ File!DeleteFails(c) PROVE File!StoredFits'
    BY <2>5 DEF File!Delete, File!DeleteFails
  <2>6. CASE UNCHANGED File!vars
    BY <2>6 DEF File!vars
  <2>7. QED
    BY <2>1, <2>2, <2>3, <2>4, <2>5, <2>6 DEF File!Next, File!Handle
<1>3. QED
  BY <1>1, <1>2, FileTyped, PTL DEF File!Spec, StoredFits

-----------------------------------------------------------------------------
(***************************************************************************)
(* The composition: what moves is one of the three.                        *)
(***************************************************************************)
LEMMA Parts ==
  MCSpec => Spec /\ Route!Spec /\ File!Spec
<1>1. MCInit => Init /\ Route!Init /\ File!Init
  BY DEF MCInit
<1>2. [MCNext]_allVars
        => [Next]_vars /\ [Route!Next]_(Route!vars) /\ [File!Next]_(File!vars)
  <2>1. /\ UNCHANGED routeVars => UNCHANGED Route!vars
        /\ UNCHANGED fileVars => UNCHANGED File!vars
    BY DEF routeVars, Route!vars, Route!history, fileVars, File!vars, File!file, File!claims
  <2>2. QED
    BY <2>1 DEF MCNext, allVars
<1>3. QED
  BY <1>1, <1>2, PTL DEF MCSpec, Spec, Route!Spec, File!Spec

\* The types of an account, of a route and of a file, in every behaviour of the
\* composition.
THEOREM PartsTyped ==
  ASSUME Assumptions
  PROVE  MCSpec => []PartsTypeOK
  BY Parts, AccountTyped, RouteTyped, FileTyped, PTL DEF PartsTypeOK
=============================================================================
