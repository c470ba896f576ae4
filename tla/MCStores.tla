------------------------------ MODULE MCStores ------------------------------
(***************************************************************************)
(* What the gateway and the relay keep, for TLC: a user's account          *)
(* (Accounts), the model a user has chosen (UserRoute) and a file of the   *)
(* relay (TempClaim).  The three share no state, so a behaviour moves one  *)
(* of them and leaves the others in an initial state; which one is chosen  *)
(* at the start.                                                           *)
(*                                                                         *)
(* Two operations race each other and a reader on the account; enabling a  *)
(* user is left to disabling one.  Two readers move one old choice, while  *)
(* a writer makes a new one.  A third claim finds what two others have     *)
(* left.                                                                   *)
(***************************************************************************)
EXTENDS Accounts

CONSTANTS Models, RouteReaders, RouteWriters, Claims, Serial

ASSUME AccountsAssumption == KindsAssumption

VARIABLES
  part,
  durable, legacy, up, routePc, value, standing, found, excused,
  upload, stored, large, deadline, claimPc, answer, taken, lost

Route == INSTANCE UserRoute WITH
  Readers <- RouteReaders, Writers <- RouteWriters, pc <- routePc
File == INSTANCE TempClaim WITH pc <- claimPc

ASSUME RouteAssumptions ==
  Route!NoneAssumption /\ Route!CallsAssumption

ASSUME FileAssumptions == File!SerialAssumption

routeVars == <<durable, legacy, up, routePc, value, standing, found, excused>>
fileVars == <<upload, stored, large, deadline, claimPc, answer, taken, lost>>
allVars == <<part, vars, routeVars, fileVars>>

Moves(p) == part = p /\ UNCHANGED part

\* Of a part that does not move one initial state is enough.
MCInit ==
  /\ part \in {"account", "route", "file"}
  /\ Init
  /\ part # "account" => /\ kind = [o \in Ops |-> CHOOSE k \in Kinds : TRUE]
                         /\ host = [o \in Ops |-> CHOOSE i \in Isolates : TRUE]
                         /\ at = [r \in Readers |-> CHOOSE i \in Isolates : TRUE]
  /\ Route!Init /\ (part # "route" => durable = None /\ legacy = None)
  /\ File!Init /\ (part # "file" => upload = "none")

MCNext ==
  \/ Moves("account") /\ Next /\ UNCHANGED <<routeVars, fileVars>>
  \/ Moves("route") /\ Route!Next /\ UNCHANGED <<vars, fileVars>>
  \/ Moves("file") /\ File!Next /\ UNCHANGED <<vars, routeVars>>

\* The fairness of Accounts, for the behaviours that are its own.
MCSpec ==
  /\ MCInit /\ [][MCNext]_allVars
  /\ \A i \in Isolates :
       /\ WF_vars(part = "account" /\ ExpireUser(i))
       /\ \A t \in Tokens : WF_vars(part = "account" /\ ExpireToken(i, t))

\* The types of the three parts.
PartsTypeOK == TypeOK /\ Route!TypeOK /\ File!TypeOK

\* See UserRoute.
SomeCopySurvives == Route!SomeCopySurvives

\* See TempClaim.
DownloadedOnce == File!DownloadedOnce
GoneForAReason == File!GoneForAReason
StoredFits == File!StoredFits
=============================================================================
