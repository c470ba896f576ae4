---------------------------- MODULE ApprovalGate ----------------------------
(***************************************************************************)
(* The approval gate and the execute lock of ONE terminal session of the   *)
(* agent (src/agent/src/tools/terminal/mod.rs), as seen by the concurrent  *)
(* terminal_execute calls that compete for it (plugins/terminal/tools/     *)
(* exec.rs) and by the operator who answers from the panel (web/mod.rs).   *)
(*                                                                         *)
(* Every manager method takes the one mutex of the manager, works on the   *)
(* session and lets the mutex go, so each of them is one atomic action     *)
(* here; whatever a call does between two of them can interleave with      *)
(* every other actor.                                                      *)
(*                                                                         *)
(* Data is reduced to what the gate tells apart: the approval id minted by *)
(* term_await_approval is unique per call, so the call itself stands for   *)
(* it; a command is a model value, and GrantOf gives the first word a      *)
(* standing grant would be made of, or NoWord for a command that is not    *)
(* simple enough to be granted.                                            *)
(*                                                                         *)
(* A definition named X_Y is X with one plausible mistake in it; no        *)
(* specification uses it.  The properties are shown to notice it.          *)
(***************************************************************************)
EXTENDS Naturals, FiniteSets

CONSTANTS
  Calls,        \* terminal_execute calls, and the approval ids they mint
  Cancellable,  \* calls made over MCP, which the client may cancel
  Droppable,    \* calls made over the panel's HTTP route, which may hang up
  Commands,     \* command lines
  GrantOf,      \* command -> the word approval::grant_for derives, or NoWord
  NoWord,       \* grant_for = None
  NoCall,       \* approval_id = None
  NoRequest     \* pending_approval = None

ASSUME CallsAssumption ==
  /\ Cancellable \subseteq Calls
  /\ Droppable \subseteq Calls
  /\ NoCall \notin Calls

ASSUME CommandsAssumption == Commands # {}

Request == [id: Calls, command: Commands, decided: {"none", "yes", "no"},
            parked: BOOLEAN, expired: BOOLEAN]

ASSUME RequestAssumption == NoRequest \notin Request

VARIABLES
  open,      \* the session is in the manager's table
  busy,      \* Session::busy
  held,      \* Session::held_by_human
  armed,     \* Session::approval_required
  pending,   \* Session::pending_approval
  grants,    \* Session::approval_grants
  permits,   \* Session::approval_permits
  pc,        \* where each call stands
  command,   \* the call's `command` parameter
  presents,  \* the call's `approval_id` parameter
  auth,      \* history: what let the call through the gate
  said       \* history: the operator's answer that landed on a request

session == <<open, busy, held, armed, pending, grants, permits>>
params  == <<command, presents>>
vars    == <<open, busy, held, armed, pending, grants, permits,
             pc, command, presents, auth, said>>

Words  == {GrantOf[c] : c \in Commands} \ {NoWord}
Permit == [id: Calls, command: Commands]

(***************************************************************************)
(* The stations of a call, in program order.  Asked: before the operator   *)
(* could see its question.  The last four are the ways a call ends.        *)
(***************************************************************************)
BeforeAsking == {"idle", "acquiring", "gate", "permit", "register"}
Waiting      == {"waiting", "granted", "denied", "parking"}
PastTheGate  == {"write", "running", "watching"}
Ended        == {"returned", "cancelling", "gone"}
Station      == BeforeAsking \cup Waiting \cup PastTheGate
                  \cup {"releasing"} \cup Ended

\* A call whose future exists: a client can still cancel it or hang up on it.
\* The watcher of a background command is a task of its own.
InFlight(e) == pc[e] \notin {"idle", "watching"} \cup Ended

\* Between its successful term_acquire_execute and its term_release_execute.
Owns(e) == pc[e] \in {"gate", "permit", "register", "releasing"}
                       \cup Waiting \cup PastTheGate

TypeOK ==
  /\ open \in BOOLEAN
  /\ busy \in BOOLEAN
  /\ held \in BOOLEAN
  /\ armed \in BOOLEAN
  /\ pending \in Request \cup {NoRequest}
  /\ grants \subseteq Words
  /\ permits \subseteq Permit
  /\ pc \in [Calls -> Station]
  /\ command \in [Calls -> Commands]
  /\ presents \in [Calls -> Calls \cup {NoCall}]
  /\ auth \in [Calls -> {"none", "disarmed", "grant", "permit", "decision"}]
  /\ said \in [Calls -> {"none", "yes", "always", "no"}]

AnyCommand == CHOOSE c \in Commands : TRUE

\* The session as term_open pushes it; no call has been made.
Init ==
  /\ open = TRUE
  /\ busy = FALSE
  /\ held = FALSE
  /\ armed = FALSE
  /\ pending = NoRequest
  /\ grants = {}
  /\ permits = {}
  /\ pc = [e \in Calls |-> "idle"]
  /\ command = [e \in Calls |-> AnyCommand]
  /\ presents = [e \in Calls |-> NoCall]
  /\ auth = [e \in Calls |-> "none"]
  /\ said = [e \in Calls |-> "none"]

At(e, station)   == pc[e] = station
Goto(e, station) == pc' = [pc EXCEPT ![e] = station]
\* The call goes on to the shell, let through by how.
Pass(e, how)     == Goto(e, "write") /\ auth' = [auth EXCEPT ![e] = how]

\* The registered question is e's own.
Registered(e) == pending # NoRequest /\ pending.id = e

\* A grant covers a simple command with the granted first word.
GrantMatches(c) == GrantOf[c] # NoWord /\ GrantOf[c] \in grants

-----------------------------------------------------------------------------
(***************************************************************************)
(* The call: exec.rs, session mode.                                        *)
(***************************************************************************)

\* A client calls terminal_execute.  It may present an approval id, its own
\* from an earlier park or a wrong one; term_info finds the session.
Issue(e) ==
  /\ At(e, "idle")
  /\ open
  /\ \E c \in Commands, id \in (Calls \ {e}) \cup {NoCall} :
       /\ command' = [command EXCEPT ![e] = c]
       /\ presents' = [presents EXCEPT ![e] = id]
  /\ Goto(e, "acquiring")
  /\ UNCHANGED <<session, auth, said>>

MayAcquire_IgnoresBusy == open /\ ~held

\* term_try_execute takes the lock.
MayAcquire == open /\ ~held /\ ~busy

\* One try of term_acquire_execute that succeeds.
Acquire(e) ==
  /\ At(e, "acquiring")
  /\ MayAcquire
  /\ busy' = TRUE
  /\ Goto(e, "gate")
  /\ UNCHANGED <<open, held, armed, pending, grants, permits, params, auth, said>>

GivesUp_NoDeadline == ~open \/ held

\* term_acquire_execute gives up: session gone, a person at the keyboard
\* (both at once), or still busy at the 30 s deadline.
GivesUp == ~open \/ held \/ busy

AcquireFails(e) ==
  /\ At(e, "acquiring")
  /\ GivesUp
  /\ Goto(e, "returned")
  /\ UNCHANGED <<session, params, auth, said>>

\* term_approval_required(..).unwrap_or(false): a session that is gone reads
\* as not armed.
CheckGate(e) ==
  /\ At(e, "gate")
  /\ IF armed
       THEN /\ Goto(e, IF presents[e] = NoCall THEN "register" ELSE "permit")
            /\ UNCHANGED auth
       ELSE Pass(e, "disarmed")
  /\ UNCHANGED <<session, params, said>>

Claimable_ById(e) == {p \in permits : p.id = presents[e]}

\* The permit that pairs the presented id with exactly this command.
Claimable(e) == {p \in permits : p.id = presents[e] /\ p.command = command[e]}

Spend_Peeks(e) == permits' = permits

Spend(e) == permits' = permits \ Claimable(e)

\* term_consume_permit: spent on match, so it authorises one run.
ConsumePermit(e) ==
  /\ At(e, "permit")
  /\ Claimable(e) # {}
  /\ Spend(e)
  /\ Pass(e, "permit")
  /\ UNCHANGED <<open, busy, held, armed, pending, grants, params, said>>

NoPermit(e) ==
  /\ At(e, "permit")
  /\ Claimable(e) = {}
  /\ Goto(e, "register")
  /\ UNCHANGED <<session, params, auth, said>>

\* term_await_approval, first critical section.
\* A command some grant covers is never asked about ...
GrantedWithoutAsking(e) ==
  /\ At(e, "register")
  /\ open
  /\ GrantMatches(command[e])
  /\ Pass(e, "grant")
  /\ UNCHANGED <<session, params, said>>

\* A question somebody is still waiting on: neither answered nor parked.
QuestionInUse ==
  pending # NoRequest /\ pending.decided = "none" /\ ~pending.parked

\* ... a question in use refuses the call, and so does a missing session ...
CannotAsk(e) ==
  /\ At(e, "register")
  /\ ~open \/ (QuestionInUse /\ ~GrantMatches(command[e]))
  /\ Goto(e, "releasing")
  /\ UNCHANGED <<session, params, auth, said>>

\* ... and any other question is superseded by the new one.
Register(e) ==
  /\ At(e, "register")
  /\ open
  /\ ~GrantMatches(command[e])
  /\ ~QuestionInUse
  /\ pending' = [id |-> e, command |-> command[e], decided |-> "none",
                 parked |-> FALSE, expired |-> FALSE]
  /\ Goto(e, "waiting")
  /\ UNCHANGED <<open, busy, held, armed, grants, permits, params, auth, said>>

\* The poll that finds an answer to this call's own question.
PollAnswered(e) ==
  /\ At(e, "waiting")
  /\ Registered(e) /\ pending.decided # "none"
  /\ Goto(e, IF pending.decided = "yes" THEN "granted" ELSE "denied")
  /\ UNCHANGED <<session, params, auth, said>>

\* The last poll: no answer, then the deadline.  The mutex is free again
\* between this poll and Park.
PollDeadline(e) ==
  /\ At(e, "waiting")
  /\ ~(Registered(e) /\ pending.decided # "none")
  /\ Goto(e, "parking")
  /\ UNCHANGED <<session, params, auth, said>>

\* The waiter takes its answered question off the session.
ClearOwn(e) == pending' = IF Registered(e) THEN NoRequest ELSE pending

Granted(e) ==
  /\ At(e, "granted")
  /\ ClearOwn(e)
  /\ Pass(e, "decision")
  /\ UNCHANGED <<open, busy, held, armed, grants, permits, params, said>>

Denied_KeepsLock(e) ==
  /\ At(e, "denied")
  /\ ClearOwn(e)
  /\ Goto(e, "returned")
  /\ UNCHANGED <<open, busy, held, armed, grants, permits, params, auth, said>>

Denied(e) ==
  /\ At(e, "denied")
  /\ ClearOwn(e)
  /\ Goto(e, "releasing")
  /\ UNCHANGED <<open, busy, held, armed, grants, permits, params, auth, said>>

Parked_Unmarked(q) == q

Parked(q) == [q EXCEPT !.parked = TRUE]

\* Nobody answered: the question stays, nobody waits on it.  `decided` is not
\* looked at again.
Park(e) ==
  /\ At(e, "parking")
  /\ pending' = IF Registered(e) THEN Parked(pending) ELSE pending
  /\ Goto(e, "releasing")
  /\ UNCHANGED <<open, busy, held, armed, grants, permits, params, auth, said>>

\* term_write after the first-prompt and settle waits, as a foreground command
\* or as a background one whose watcher task inherits the lock.
Write(e) ==
  /\ At(e, "write")
  /\ open
  /\ \E how \in {"running", "watching"} : Goto(e, how)
  /\ UNCHANGED <<session, params, auth, said>>

\* The session is gone, or its backend refused the bytes.
WriteFails(e) ==
  /\ At(e, "write")
  /\ Goto(e, "releasing")
  /\ UNCHANGED <<session, params, auth, said>>

\* The foreground wait loop ends: marker, idle, timeout or session closed.
Finish(e) ==
  /\ At(e, "running")
  /\ Goto(e, "releasing")
  /\ UNCHANGED <<session, params, auth, said>>

\* The watcher of a background command ends: marker, quiet or session closed.
WatcherEnds(e) ==
  /\ At(e, "watching")
  /\ Goto(e, "releasing")
  /\ UNCHANGED <<session, params, auth, said>>

\* term_release_execute: it asks nobody whose lock it is.
Release(e) ==
  /\ At(e, "releasing")
  /\ busy' = FALSE
  /\ Goto(e, "returned")
  /\ UNCHANGED <<open, held, armed, pending, grants, permits, params, auth, said>>

-----------------------------------------------------------------------------
(***************************************************************************)
(* The ways a call is cut short.                                           *)
(***************************************************************************)

\* notifications/cancelled: mcp/server.rs drops the call's future wherever it
\* stands, sends ^C and then releases the lock on the call's behalf.
Cancel(e) ==
  /\ e \in Cancellable
  /\ InFlight(e)
  /\ Goto(e, "cancelling")
  /\ UNCHANGED <<session, params, auth, said>>

CancelReleases(e) ==
  /\ At(e, "cancelling")
  /\ busy' = FALSE
  /\ Goto(e, "gone")
  /\ UNCHANGED <<open, held, armed, pending, grants, permits, params, auth, said>>

\* The panel's connection closes: the handler's future is dropped and nothing
\* runs in its place.
HangUp(e) ==
  /\ e \in Droppable
  /\ InFlight(e)
  /\ Goto(e, "gone")
  /\ UNCHANGED <<session, params, auth, said>>

-----------------------------------------------------------------------------
(***************************************************************************)
(* The operator (web/mod.rs routes) and the session's end.                 *)
(***************************************************************************)

\* term_set_control.
SetControl ==
  /\ open
  /\ held' = ~held
  /\ UNCHANGED <<open, busy, armed, pending, grants, permits, pc, params, auth, said>>

\* term_set_approval_required(true).
Arm ==
  /\ open
  /\ ~armed
  /\ armed' = TRUE
  /\ UNCHANGED <<open, busy, held, pending, grants, permits, pc, params, auth, said>>

\* term_set_approval_required(false): an unanswered question is refused, the
\* grants die with the mode, the permits stay.
Disarm ==
  /\ open
  /\ armed' = FALSE
  /\ pending' = IF pending # NoRequest /\ pending.decided = "none"
                  THEN [pending EXCEPT !.decided = "no"]
                  ELSE pending
  /\ grants' = {}
  /\ UNCHANGED <<open, busy, held, permits, pc, params, auth, said>>

Decidable_AnyTime(id) == Registered(id) /\ pending.decided = "none"

\* The operator's answer to the question id they were shown can still land.
Decidable(id) == Registered(id) /\ pending.decided = "none" /\ ~pending.expired

WordsOf_Unchecked(c) == {GrantOf[c]}

\* What "remember this" adds: nothing for a command that is not simple.
WordsOf(c) == {GrantOf[c]} \ {NoWord}

\* term_decide_approval.  "always" is approve with `grant` set: the grant is
\* made of the command that was shown.  An answer after the park becomes a
\* permit; an answer before it is left for the waiter.
Decide(id, answer) ==
  /\ Decidable(id)
  /\ said' = [said EXCEPT ![id] = answer]
  /\ grants' = IF answer = "always"
                 THEN grants \cup WordsOf(pending.command)
                 ELSE grants
  /\ IF pending.parked
       THEN /\ pending' = NoRequest
            /\ permits' = IF answer = "no" THEN permits
                          ELSE permits \cup {[id |-> id,
                                              command |-> pending.command]}
       ELSE /\ pending' = [pending EXCEPT
                             !.decided = IF answer = "no" THEN "no" ELSE "yes"]
            /\ UNCHANGED permits
  /\ UNCHANGED <<open, busy, held, armed, pc, params, auth>>

\* An answer that came after the question's TTL only sweeps it away.
DecideTooLate(id) ==
  /\ Registered(id) /\ pending.decided = "none" /\ pending.expired
  /\ pending' = NoRequest
  /\ UNCHANGED <<open, busy, held, armed, grants, permits, pc, params, auth, said>>

\* APPROVAL_TTL_MS passes.  It is fifteen times APPROVAL_WAIT_MS, so no waiter
\* is still polling by then.
Expire ==
  /\ pending # NoRequest /\ ~pending.expired
  /\ pc[pending.id] \notin Waiting
  /\ pending' = [pending EXCEPT !.expired = TRUE]
  /\ UNCHANGED <<open, busy, held, armed, grants, permits, pc, params, auth, said>>

\* term_revoke_grants: one word, or all of them.
Revoke(ws) ==
  /\ ws \cap grants # {}
  /\ grants' = grants \ ws
  /\ UNCHANGED <<open, busy, held, armed, pending, permits, pc, params, auth, said>>

\* term_close, the idle sweep or the session cap: the Session is dropped with
\* everything the operator said about it.
Close ==
  /\ open
  /\ open' = FALSE
  /\ busy' = FALSE
  /\ held' = FALSE
  /\ armed' = FALSE
  /\ pending' = NoRequest
  /\ grants' = {}
  /\ permits' = {}
  /\ UNCHANGED <<pc, params, auth, said>>

-----------------------------------------------------------------------------
\* What the runtime owes a call: its own steps, each bounded by a deadline.
CallStep(e) ==
  \/ Acquire(e) \/ AcquireFails(e) \/ CheckGate(e)
  \/ ConsumePermit(e) \/ NoPermit(e)
  \/ GrantedWithoutAsking(e) \/ CannotAsk(e) \/ Register(e)
  \/ PollAnswered(e) \/ PollDeadline(e) \/ Granted(e) \/ Denied(e) \/ Park(e)
  \/ Write(e) \/ WriteFails(e) \/ Finish(e) \/ Release(e)
  \/ CancelReleases(e)

Client(e) == Issue(e) \/ Cancel(e) \/ HangUp(e)

Operator ==
  \/ SetControl \/ Arm \/ Disarm
  \/ \E id \in Calls : DecideTooLate(id)
  \/ \E id \in Calls, answer \in {"yes", "always", "no"} : Decide(id, answer)
  \/ \E w \in Words : Revoke({w})
  \/ Revoke(Words)

Next ==
  \/ \E e \in Calls : CallStep(e) \/ WatcherEnds(e) \/ Client(e)
  \/ Operator
  \/ Expire \/ Close

Spec == Init /\ [][Next]_vars

\* Calls keep being polled by the runtime; nothing obliges a client or the
\* operator to act, and a background command may run for ever.
Fairness == \A e \in Calls : WF_vars(CallStep(e))

FairSpec == Spec /\ Fairness

-----------------------------------------------------------------------------
(***************************************************************************)
(* Properties.                                                             *)
(***************************************************************************)

SaidYes(e) == said[e] \in {"yes", "always"}

\* Every call the armed gate let through is covered by a yes the operator gave
\* to the very command that runs (waited for, or claimed later as a permit),
\* or by a remembered yes to a command with the same first word: term_await_
\* approval, term_consume_permit and term_decide_approval together.
Authorised ==
  \A e \in Calls :
    /\ auth[e] = "decision" => SaidYes(e)
    /\ auth[e] = "permit" => /\ presents[e] \in Calls
                             /\ SaidYes(presents[e])
                             /\ command[presents[e]] = command[e]
    /\ auth[e] = "grant" => \E f \in Calls :
                              /\ said[f] = "always"
                              /\ GrantOf[command[f]] = GrantOf[command[e]]

\* The calls that the answer to question id let through.
UsesOf(id) == {e \in Calls : \/ auth[e] = "decision" /\ e = id
                             \/ auth[e] = "permit" /\ presents[e] = id}

\* One yes runs one command once: an answer is either handed to the waiter or
\* turned into a permit, never both, and a permit is spent by its first use
\* (PendingApproval::parked exists to keep a late answer from running the
\* command twice).
OneRunPerYes ==
  \A id \in Calls : \A e, f \in UsesOf(id) : e = f

\* Two calls are never between acquire and release at once: they would share
\* one buffer cursor and type into each other's command (Session::busy).
ExclusiveLock ==
  \A e, f \in Calls : Owns(e) /\ Owns(f) => e = f

\* The lock is taken only while some call will still give it back
\* (term_release_execute: "all exit paths of execute").
BusyHasOwner ==
  busy => \E e \in Calls : Owns(e) \/ At(e, "cancelling")

\* A question that turns new questions away has a call still waiting on it.
QuestionHasWaiter ==
  QuestionInUse => pc[pending.id] \in Waiting

\* A yes that landed is worth something for as long as the session lives: it
\* was used, it is a permit, or the call that asked is about to pick it up.
YesIsUsable ==
  \A e \in Calls :
    SaidYes(e) /\ open =>
      \/ UsesOf(e) # {}
      \/ \E p \in permits : p.id = e
      \/ Registered(e) /\ pc[e] \in {"waiting", "parking"}
      \/ pc[e] \in {"granted", "cancelling", "gone"}

\* Every call is answered: it ends, or hands over to a background watcher.
EveryCallAnswered ==
  \A e \in Calls :
    At(e, "acquiring") ~> pc[e] \in Ended \cup {"watching"}

\* Only a background command keeps the lock; every other owner gives it back.
LockIsReturned ==
  busy ~> (~busy \/ \E e \in Calls : At(e, "watching"))

-----------------------------------------------------------------------------
(***************************************************************************)
(* The gate implements OneShotApproval: the phase of a question is read    *)
(* off the session and the calls.                                          *)
(***************************************************************************)
PhaseOf(e) ==
  IF UsesOf(e) # {} THEN "used"
  ELSE IF \/ \E p \in permits : p.id = e
          \/ Registered(e) /\ pending.decided = "yes" /\ ~pending.parked
          \/ pc[e] = "granted"
       THEN "approved"
  ELSE IF Registered(e) /\ pending.decided = "none" /\ ~pending.expired
       THEN "open"
  ELSE IF pc[e] \in BeforeAsking \/ auth[e] # "none" THEN "unasked"
  ELSE "closed"

OneShot == INSTANCE OneShotApproval
             WITH Questions <- Calls, phase <- [e \in Calls |-> PhaseOf(e)]

\* Whatever calls, operator and clock do, every question goes through its life
\* as OneShotApproval promises.
ImplementsOneShot == OneShot!Spec
=============================================================================
