------------------------- MODULE ApprovalGateProofs -------------------------
(***************************************************************************)
(* Proofs about ApprovalGate, for every set of calls and of commands.      *)
(***************************************************************************)
EXTENDS ApprovalGate, TLAPS

(***************************************************************************)
(* Type correctness.                                                       *)
(***************************************************************************)
LEMMA InitType == Init => TypeOK
<1>1. AnyCommand \in Commands
  BY CommandsAssumption DEF AnyCommand
<1>2. QED
  BY <1>1 DEF Init, TypeOK, Station, BeforeAsking

LEMMA CallType ==
  ASSUME TypeOK, NEW e \in Calls, CallStep(e) \/ WatcherEnds(e) \/ Client(e)
  PROVE  TypeOK'
<1> USE DEF TypeOK, At, Goto, Station, BeforeAsking, Waiting, PastTheGate,
            Ended, session, params
<1>1. CASE Issue(e)
  BY <1>1 DEF Issue
<1>2. CASE Acquire(e) \/ AcquireFails(e)
  BY <1>2 DEF Acquire, AcquireFails
<1>3. CASE CheckGate(e)
  BY <1>3 DEF CheckGate, Pass
<1>4. CASE ConsumePermit(e) \/ NoPermit(e)
  BY <1>4 DEF ConsumePermit, NoPermit, Spend, Pass
<1>5. CASE GrantedWithoutAsking(e) \/ CannotAsk(e)
  BY <1>5 DEF GrantedWithoutAsking, CannotAsk, Pass
<1>6. CASE Register(e)
  BY <1>6 DEF Register, Request
<1>7. CASE PollAnswered(e) \/ PollDeadline(e)
  BY <1>7 DEF PollAnswered, PollDeadline
<1>8. CASE Granted(e) \/ Denied(e)
  BY <1>8 DEF Granted, Denied, ClearOwn, Pass
<1>9. CASE Park(e)
  BY <1>9 DEF Park, Parked, Registered, Request
<1>10. CASE Write(e) \/ WriteFails(e) \/ Finish(e) \/ Release(e)
  BY <1>10 DEF Write, WriteFails, Finish, Release
<1>11. CASE WatcherEnds(e) \/ CancelReleases(e) \/ Cancel(e) \/ HangUp(e)
  BY <1>11 DEF WatcherEnds, CancelReleases, Cancel, HangUp
<1>12. QED
  BY <1>1, <1>2, <1>3, <1>4, <1>5, <1>6, <1>7, <1>8, <1>9, <1>10, <1>11
     DEF CallStep, Client

LEMMA OperatorType ==
  ASSUME TypeOK, Operator \/ Expire \/ Close
  PROVE  TypeOK'
<1> USE DEF TypeOK, session, params
<1>1. CASE SetControl \/ Arm \/ Close
  BY <1>1 DEF SetControl, Arm, Close
<1>2. CASE Disarm
  BY <1>2 DEF Disarm, Request
<1>3. CASE Expire
  BY <1>3 DEF Expire, Request
<1>4. ASSUME NEW id \in Calls, DecideTooLate(id)
      PROVE  TypeOK'
  BY <1>4 DEF DecideTooLate
<1>5. ASSUME NEW id \in Calls, NEW answer \in {"yes", "always", "no"},
             Decide(id, answer)
      PROVE  TypeOK'
  <2>1. pending \in Request /\ pending.command \in Commands
    BY <1>5 DEF Decide, Decidable, Registered, Request
  <2>2. grants' \subseteq Words
    BY <1>5, <2>1 DEF Decide, WordsOf, Words
  <2>3. pending' \in Request \cup {NoRequest}
    BY <1>5, <2>1 DEF Decide, Request
  <2>4. permits' \subseteq Permit
    BY <1>5, <2>1 DEF Decide, Permit
  <2>5. said' \in [Calls -> {"none", "yes", "always", "no"}]
    BY <1>5 DEF Decide
  <2>6. QED
    BY <1>5, <2>2, <2>3, <2>4, <2>5 DEF Decide
<1>6. ASSUME NEW ws, Revoke(ws)
      PROVE  TypeOK'
  BY <1>6 DEF Revoke
<1>7. QED
  BY <1>1, <1>2, <1>3, <1>4, <1>5, <1>6 DEF Operator

\* The variables keep their types: the lock and the modes are Booleans, the
\* question, the grants and the permits speak of known calls, commands, words.
THEOREM TypeCorrect == Spec => []TypeOK
<1>1. TypeOK /\ [Next]_vars => TypeOK'
  <2>1. SUFFICES ASSUME TypeOK, [Next]_vars
                 PROVE  TypeOK'
    OBVIOUS
  <2>2. CASE UNCHANGED vars
    BY <2>1, <2>2 DEF TypeOK, vars
  <2>3. CASE Next
    BY <2>1, <2>3, CallType, OperatorType DEF Next
  <2>4. QED
    BY <2>1, <2>2, <2>3
<1>2. QED
  BY InitType, <1>1, PTL DEF Spec

-----------------------------------------------------------------------------
(***************************************************************************)
(* Nothing passes the armed gate without a yes.                            *)
(*                                                                         *)
(* Authorised speaks of what let a call through; to be inductive it needs  *)
(* what that authority was made from: the question repeats the command of  *)
(* the call that asked, an answered one carries the answer the operator    *)
(* gave, and permits and grants go back to a yes that was given.           *)
(***************************************************************************)
QuestionInv ==
  pending # NoRequest =>
    /\ pending.command = command[pending.id]
    /\ pc[pending.id] \notin BeforeAsking
    /\ pending.decided = "none" => said[pending.id] = "none"
    /\ pending.decided = "yes" => SaidYes(pending.id)

PermitsInv ==
  \A p \in permits : SaidYes(p.id) /\ p.command = command[p.id]

GrantsInv ==
  \A w \in grants : \E f \in Calls : said[f] = "always" /\ GrantOf[command[f]] = w

CallsInv ==
  \A e \in Calls :
    /\ pc[e] \in BeforeAsking => said[e] = "none" /\ auth[e] = "none"
    /\ pc[e] = "granted" => SaidYes(e)

GateInv ==
  TypeOK /\ QuestionInv /\ PermitsInv /\ GrantsInv /\ CallsInv /\ Authorised

LEMMA InitGate == Init => GateInv
<1>1. Init => TypeOK
  BY InitType
<1>2. Init => QuestionInv /\ PermitsInv /\ GrantsInv
  BY DEF Init, QuestionInv, PermitsInv, GrantsInv
<1>3. Init => CallsInv /\ Authorised
  BY DEF Init, CallsInv, Authorised
<1>4. QED
  BY <1>1, <1>2, <1>3 DEF GateInv

\* A call that only moves, before and after it could ask or off to its end,
\* leaves everything the invariant speaks of alone.
LEMMA GateMove ==
  ASSUME GateInv, NEW e \in Calls, NEW station \in Station,
         Goto(e, station), pc[e] \in BeforeAsking \/ station \notin BeforeAsking,
         station # "granted",
         UNCHANGED <<grants, permits, command, presents, auth, said>>,
         \/ pending' = pending
         \/ pending' = NoRequest
         \/ Registered(e) /\ pending' = Parked(pending)
  PROVE  QuestionInv' /\ PermitsInv' /\ GrantsInv' /\ CallsInv' /\ Authorised'
<1> USE DEF GateInv, TypeOK, Goto
<1>1. QuestionInv'
  BY DEF QuestionInv, Registered, Parked, Request, SaidYes
<1>2. PermitsInv'
  BY DEF PermitsInv, SaidYes
<1>3. GrantsInv'
  BY DEF GrantsInv
<1>4. CallsInv'
  BY DEF CallsInv, SaidYes
<1>5. Authorised'
  BY DEF Authorised, SaidYes
<1>6. QED
  BY <1>1, <1>2, <1>3, <1>4, <1>5

LEMMA GateCall ==
  ASSUME GateInv, NEW e \in Calls, CallStep(e) \/ WatcherEnds(e) \/ Client(e)
  PROVE  QuestionInv' /\ PermitsInv' /\ GrantsInv' /\ CallsInv' /\ Authorised'
<1> USE DEF GateInv, TypeOK, At, Goto, session, params, SaidYes
<1>1. CASE Issue(e)
  <2>1. pc[e] \in BeforeAsking /\ pc'[e] \in BeforeAsking
    BY <1>1 DEF Issue, BeforeAsking
  <2>2. QuestionInv' /\ PermitsInv' /\ GrantsInv'
    BY <1>1, <2>1 DEF Issue, QuestionInv, PermitsInv, GrantsInv, CallsInv, Request,
                      Permit, BeforeAsking
  <2>3. CallsInv'
    BY <1>1, <2>1 DEF Issue, CallsInv, BeforeAsking
  <2>4. Authorised'
    BY <1>1, <2>1 DEF Issue, Authorised, CallsInv
  <2>5. QED
    BY <2>2, <2>3, <2>4
<1>2. CASE Acquire(e) \/ AcquireFails(e) \/ NoPermit(e) \/ CannotAsk(e)
  BY <1>2, GateMove DEF Acquire, AcquireFails, NoPermit, CannotAsk, Station,
                        BeforeAsking, Ended
<1>3. CASE PollDeadline(e) \/ Denied(e) \/ Park(e)
  BY <1>3, GateMove DEF PollDeadline, Denied, Park, ClearOwn, Station, BeforeAsking,
                        Waiting
<1>4. CASE Write(e) \/ WriteFails(e) \/ Finish(e) \/ Release(e) \/ WatcherEnds(e)
  BY <1>4, GateMove DEF Write, WriteFails, Finish, Release, WatcherEnds, Station,
                        BeforeAsking, PastTheGate, Ended
<1>5. CASE Cancel(e) \/ CancelReleases(e) \/ HangUp(e)
  BY <1>5, GateMove DEF Cancel, CancelReleases, HangUp, Station, BeforeAsking, Ended
<1>6. CASE CheckGate(e)
  <2>1. CASE armed
    BY <1>6, <2>1, GateMove DEF CheckGate, Station, BeforeAsking
  <2>2. CASE ~armed
    BY <1>6, <2>2 DEF CheckGate, Pass, QuestionInv, PermitsInv, GrantsInv, CallsInv,
                      Authorised, Request, Permit, BeforeAsking
  <2>3. QED
    BY <2>1, <2>2
<1>7. CASE ConsumePermit(e)
  <2>1. PICK p \in permits : p.id = presents[e] /\ p.command = command[e]
    BY <1>7 DEF ConsumePermit, Claimable
  <2>2. SaidYes(presents[e]) /\ command[presents[e]] = command[e]
        /\ presents[e] \in Calls
    BY <2>1 DEF PermitsInv, Permit
  <2>3. permits' \subseteq permits
    BY <1>7 DEF ConsumePermit, Spend
  <2>4. QuestionInv' /\ PermitsInv' /\ GrantsInv' /\ CallsInv'
    BY <1>7, <2>3 DEF ConsumePermit, Pass, QuestionInv, PermitsInv, GrantsInv,
                      CallsInv, Request, BeforeAsking
  <2>5. Authorised'
    BY <1>7, <2>2 DEF ConsumePermit, Pass, Authorised
  <2>6. QED
    BY <2>4, <2>5
<1>8. CASE GrantedWithoutAsking(e)
  <2>1. QuestionInv' /\ PermitsInv' /\ GrantsInv' /\ CallsInv'
    BY <1>8 DEF GrantedWithoutAsking, Pass, QuestionInv, PermitsInv, GrantsInv,
                CallsInv, Request, BeforeAsking
  <2>2. Authorised'
    BY <1>8 DEF GrantedWithoutAsking, Pass, GrantMatches, GrantsInv, Authorised
  <2>3. QED
    BY <2>1, <2>2
<1>9. CASE Register(e)
  <2>1. QuestionInv' /\ PermitsInv' /\ GrantsInv' /\ CallsInv'
    BY <1>9 DEF Register, QuestionInv, PermitsInv, GrantsInv, CallsInv, BeforeAsking
  <2>2. Authorised'
    BY <1>9 DEF Register, Authorised
  <2>3. QED
    BY <2>1, <2>2
<1>10. CASE PollAnswered(e)
  <2>1. QuestionInv' /\ PermitsInv' /\ GrantsInv' /\ CallsInv'
    BY <1>10 DEF PollAnswered, Registered, QuestionInv, PermitsInv, GrantsInv,
                 CallsInv, BeforeAsking
  <2>2. Authorised'
    BY <1>10 DEF PollAnswered, Authorised
  <2>3. QED
    BY <2>1, <2>2
<1>11. CASE Granted(e)
  <2>1. QuestionInv' /\ PermitsInv' /\ GrantsInv'
    BY <1>11 DEF Granted, ClearOwn, Pass, QuestionInv, PermitsInv, GrantsInv,
                 Request, BeforeAsking
  <2>2. CallsInv' /\ Authorised'
    BY <1>11 DEF Granted, Pass, CallsInv, Authorised, BeforeAsking
  <2>3. QED
    BY <2>1, <2>2
<1>12. QED
  BY <1>1, <1>2, <1>3, <1>4, <1>5, <1>6, <1>7, <1>8, <1>9, <1>10, <1>11
     DEF CallStep, Client

LEMMA GateOperator ==
  ASSUME GateInv, Operator \/ Expire \/ Close
  PROVE  QuestionInv' /\ PermitsInv' /\ GrantsInv' /\ CallsInv' /\ Authorised'
<1> USE DEF GateInv, TypeOK, session, params, SaidYes
<1>1. CASE SetControl \/ Arm \/ Close
  BY <1>1 DEF SetControl, Arm, Close, QuestionInv, PermitsInv, GrantsInv, CallsInv,
              Authorised
<1>2. CASE Disarm \/ Expire
  BY <1>2 DEF Disarm, Expire, QuestionInv, PermitsInv, GrantsInv, CallsInv,
              Authorised, Request
<1>3. ASSUME NEW id \in Calls, DecideTooLate(id)
      PROVE  QuestionInv' /\ PermitsInv' /\ GrantsInv' /\ CallsInv' /\ Authorised'
  BY <1>3 DEF DecideTooLate, QuestionInv, PermitsInv, GrantsInv, CallsInv, Authorised
<1>4. ASSUME NEW id \in Calls, NEW answer \in {"yes", "always", "no"},
             Decide(id, answer)
      PROVE  QuestionInv' /\ PermitsInv' /\ GrantsInv' /\ CallsInv' /\ Authorised'
  <2> USE DEF Decide, Decidable, Registered
  <2>1. /\ pending \in Request /\ pending.id = id
        /\ pending.command = command[id]
        /\ pc[id] \notin BeforeAsking
        /\ said[id] = "none"
    BY <1>4 DEF QuestionInv
  <2>2. said' = [said EXCEPT ![id] = answer] /\ UNCHANGED <<pc, command, presents, auth>>
    BY <1>4
  <2>3. \A f \in Calls : said[f] # "none" => said'[f] = said[f]
    BY <2>1, <2>2
  <2>4. QuestionInv'
    BY <1>4, <2>1, <2>2 DEF QuestionInv, Request
  <2>5. PermitsInv'
    BY <1>4, <2>1, <2>2, <2>3 DEF PermitsInv, Permit
  <2>6. GrantsInv'
    BY <1>4, <2>1, <2>2, <2>3 DEF GrantsInv, WordsOf
  <2>7. CallsInv'
    BY <2>1, <2>2, <2>3 DEF CallsInv
  <2>8. Authorised'
    BY <2>2, <2>3 DEF Authorised
  <2>9. QED
    BY <2>4, <2>5, <2>6, <2>7, <2>8
<1>5. ASSUME NEW ws, Revoke(ws)
      PROVE  QuestionInv' /\ PermitsInv' /\ GrantsInv' /\ CallsInv' /\ Authorised'
  BY <1>5 DEF Revoke, QuestionInv, PermitsInv, GrantsInv, CallsInv, Authorised
<1>6. QED
  BY <1>1, <1>2, <1>3, <1>4, <1>5 DEF Operator

LEMMA GateInductive == GateInv /\ [Next]_vars => GateInv'
<1>1. SUFFICES ASSUME GateInv, [Next]_vars
               PROVE  GateInv'
  OBVIOUS
<1>2. CASE UNCHANGED vars
  BY <1>1, <1>2 DEF GateInv, TypeOK, QuestionInv, PermitsInv, GrantsInv, CallsInv,
                    Authorised, SaidYes, vars
<1>3. CASE Next
  <2>1. TypeOK'
    BY <1>1, <1>3, CallType, OperatorType DEF GateInv, Next
  <2>2. QuestionInv' /\ PermitsInv' /\ GrantsInv' /\ CallsInv' /\ Authorised'
    BY <1>1, <1>3, GateCall, GateOperator DEF Next
  <2>3. QED
    BY <2>1, <2>2 DEF GateInv
<1>4. QED
  BY <1>1, <1>2, <1>3

\* Whatever calls, cancellations, hang-ups and operator do in whatever order,
\* a command the armed gate let through had a yes to that very command, given
\* to its own question or to the one whose permit it presented, or shares its
\* first word with a command the operator said to remember.
THEOREM GateHolds == Spec => []Authorised
<1>1. GateInv => Authorised
  BY DEF GateInv
<1>2. QED
  BY InitGate, GateInductive, <1>1, PTL DEF Spec

-----------------------------------------------------------------------------
(***************************************************************************)
(* One yes runs one command once.                                          *)
(*                                                                         *)
(* An answer is either handed to the call that asked or minted as a        *)
(* permit.  What keeps the two apart is `parked`: only a call that no      *)
(* longer waits has parked its question, so the question a permit is       *)
(* minted from can never grant its own call, and a question that still can *)
(* has neither been used nor been turned into a permit.                    *)
(***************************************************************************)
StillAsking == BeforeAsking \cup Waiting

UnusedQuestion ==
  pending # NoRequest =>
    /\ UsesOf(pending.id) = {}
    /\ \A p \in permits : p.id # pending.id
    /\ pending.parked => pc[pending.id] \notin StillAsking

UnusedPermits ==
  \A p \in permits : UsesOf(p.id) = {} /\ pc[p.id] \notin StillAsking

UnusedGrants ==
  \A e \in Calls :
    /\ pc[e] \in Waiting => auth[e] = "none"
    /\ pc[e] = "granted" => UsesOf(e) = {}

OnceInv ==
  GateInv /\ UnusedQuestion /\ UnusedPermits /\ UnusedGrants /\ OneRunPerYes

LEMMA InitOnce == Init => OnceInv
<1>1. Init => GateInv
  BY InitGate
<1>2. Init => UnusedQuestion /\ UnusedPermits /\ UnusedGrants /\ OneRunPerYes
  BY DEF Init, UnusedQuestion, UnusedPermits, UnusedGrants, OneRunPerYes, UsesOf
<1>3. QED
  BY <1>1, <1>2 DEF OnceInv

\* A question that was not put yet was not answered, so nothing used it.
LEMMA UnaskedUnused ==
  ASSUME OnceInv, NEW e \in Calls, pc[e] \in BeforeAsking
  PROVE  UsesOf(e) = {} /\ \A p \in permits : p.id # e
<1>1. said[e] = "none"
  BY DEF OnceInv, GateInv, CallsInv
<1>2. \A f \in Calls : f \notin UsesOf(e)
  BY <1>1 DEF OnceInv, GateInv, Authorised, UsesOf, SaidYes
<1>3. UsesOf(e) = {}
  BY <1>2 DEF UsesOf
<1>4. QED
  BY <1>1, <1>3 DEF OnceInv, GateInv, PermitsInv, SaidYes

\* A call that only moves, while it may still ask or for good.
LEMMA OnceMove ==
  ASSUME OnceInv, NEW e \in Calls, NEW station \in Station,
         Goto(e, station), station # "granted",
         pc[e] \in StillAsking \/ station \notin StillAsking,
         UNCHANGED <<permits, presents, auth>>,
         \/ pending' = pending
         \/ pending' = NoRequest
         \/ Registered(e) /\ pending' = Parked(pending) /\ station = "releasing"
  PROVE  UnusedQuestion' /\ UnusedPermits' /\ UnusedGrants' /\ OneRunPerYes'
<1> USE DEF OnceInv, GateInv, TypeOK, Goto
<1>1. \A id \in Calls : UsesOf(id)' = UsesOf(id)
  BY DEF UsesOf
<1>2. UnusedQuestion'
  BY <1>1 DEF UnusedQuestion, Registered, Parked, Request, StillAsking, BeforeAsking,
              Waiting
<1>3. UnusedPermits'
  BY <1>1 DEF UnusedPermits, Permit
<1>4. UnusedGrants'
  BY <1>1 DEF UnusedGrants, CallsInv, StillAsking, Waiting
<1>5. OneRunPerYes'
  BY <1>1 DEF OneRunPerYes
<1>6. QED
  BY <1>2, <1>3, <1>4, <1>5

\* A call that passes the gate without asking, on nobody's answer.
LEMMA OncePass ==
  ASSUME OnceInv, NEW e \in Calls, NEW how \in {"disarmed", "grant"},
         pc[e] \in BeforeAsking, Pass(e, how),
         UNCHANGED <<pending, permits, presents>>
  PROVE  UnusedQuestion' /\ UnusedPermits' /\ UnusedGrants' /\ OneRunPerYes'
<1> USE DEF OnceInv, GateInv, TypeOK, Goto, Pass, StillAsking, BeforeAsking, Waiting
<1>1. \A id \in Calls : UsesOf(id)' = UsesOf(id)
  BY DEF UsesOf, CallsInv
<1>2. UnusedQuestion' /\ UnusedPermits'
  BY <1>1 DEF UnusedQuestion, UnusedPermits, Request, Permit
<1>3. UnusedGrants' /\ OneRunPerYes'
  BY <1>1 DEF UnusedGrants, OneRunPerYes, CallsInv
<1>4. QED
  BY <1>2, <1>3

LEMMA OnceCall ==
  ASSUME OnceInv, NEW e \in Calls, CallStep(e) \/ WatcherEnds(e) \/ Client(e)
  PROVE  UnusedQuestion' /\ UnusedPermits' /\ UnusedGrants' /\ OneRunPerYes'
<1> USE DEF At, session, params
<1>1. CASE Issue(e)
  <2>1. \A id \in Calls : UsesOf(id)' = UsesOf(id)
    BY <1>1 DEF Issue, UsesOf, OnceInv, GateInv, CallsInv, BeforeAsking, TypeOK
  <2>2. /\ pc[e] \in BeforeAsking /\ pc' = [pc EXCEPT ![e] = "acquiring"]
        /\ UNCHANGED <<pending, permits, auth>>
    BY <1>1 DEF Issue, Goto, BeforeAsking
  <2>3. UnusedQuestion' /\ UnusedPermits'
    BY <2>1, <2>2 DEF OnceInv, GateInv, TypeOK, UnusedQuestion, UnusedPermits, Request,
                      Permit, StillAsking
  <2>4. UnusedGrants' /\ OneRunPerYes'
    BY <2>1, <2>2 DEF OnceInv, GateInv, TypeOK, UnusedGrants, OneRunPerYes, Waiting
  <2>5. QED
    BY <2>3, <2>4
<1>2. CASE Acquire(e) \/ AcquireFails(e) \/ NoPermit(e) \/ CannotAsk(e)
  BY <1>2, OnceMove DEF Acquire, AcquireFails, NoPermit, CannotAsk, Station,
                        StillAsking, BeforeAsking, Ended
<1>3. CASE PollDeadline(e) \/ Denied(e) \/ Park(e)
  BY <1>3, OnceMove DEF PollDeadline, Denied, Park, ClearOwn, Station, StillAsking,
                        BeforeAsking, Waiting
<1>4. CASE Write(e) \/ WriteFails(e) \/ Finish(e) \/ Release(e) \/ WatcherEnds(e)
  BY <1>4, OnceMove DEF Write, WriteFails, Finish, Release, WatcherEnds, Station,
                        StillAsking, BeforeAsking, Waiting, PastTheGate, Ended
<1>5. CASE Cancel(e) \/ CancelReleases(e) \/ HangUp(e)
  BY <1>5, OnceMove DEF Cancel, CancelReleases, HangUp, Station, StillAsking,
                        BeforeAsking, Waiting, Ended
<1>6. CASE CheckGate(e)
  <2>1. CASE armed
    BY <1>6, <2>1, OnceMove DEF CheckGate, Station, StillAsking, BeforeAsking
  <2>2. CASE ~armed
    BY <1>6, <2>2, OncePass DEF CheckGate, BeforeAsking
  <2>3. QED
    BY <2>1, <2>2
<1>7. CASE GrantedWithoutAsking(e)
  BY <1>7, OncePass DEF GrantedWithoutAsking, BeforeAsking
<1>8. CASE ConsumePermit(e)
  <2> USE DEF OnceInv, GateInv, TypeOK
  <2>1. PICK p \in permits : p.id = presents[e] /\ p.command = command[e]
    BY <1>8 DEF ConsumePermit, Claimable
  <2>2. /\ presents[e] \in Calls
        /\ UsesOf(presents[e]) = {}
        /\ pc[presents[e]] \notin StillAsking
        /\ presents[e] # e
    BY <1>8, <2>1 DEF UnusedPermits, Permit, ConsumePermit, StillAsking, BeforeAsking
  <2>3. permits' \subseteq permits /\ \A q \in permits' : q.id # presents[e]
    BY <1>8, <2>1 DEF ConsumePermit, Spend, Claimable, PermitsInv, Permit
  <2>4. \A id \in Calls : UsesOf(id)' = IF id = presents[e] THEN {e} ELSE UsesOf(id)
    BY <1>8, <2>2 DEF ConsumePermit, Pass, UsesOf, CallsInv, BeforeAsking
  <2>5. pending # NoRequest => pending.id # presents[e]
    BY <2>1 DEF UnusedQuestion
  <2>6. UnusedQuestion'
    BY <1>8, <2>3, <2>4, <2>5 DEF ConsumePermit, Pass, Goto, UnusedQuestion, Request,
                                  StillAsking, BeforeAsking, Waiting
  <2>7. UnusedPermits'
    BY <1>8, <2>3, <2>4 DEF ConsumePermit, Pass, Goto, UnusedPermits, Permit,
                            StillAsking, BeforeAsking, Waiting
  <2>8. UnusedGrants'
    BY <1>8, <2>2, <2>4 DEF ConsumePermit, Pass, Goto, UnusedGrants, StillAsking,
                            Waiting
  <2>9. OneRunPerYes'
    BY <2>4 DEF OneRunPerYes
  <2>10. QED
    BY <2>6, <2>7, <2>8, <2>9
<1>9. CASE Register(e)
  <2>1. UsesOf(e) = {} /\ \A p \in permits : p.id # e
    BY <1>9, UnaskedUnused DEF Register, BeforeAsking
  <2>2. \A id \in Calls : UsesOf(id)' = UsesOf(id)
    BY <1>9 DEF Register, UsesOf
  <2>3. UnusedQuestion'
    BY <1>9, <2>1, <2>2 DEF Register, UnusedQuestion
  <2>4. UnusedPermits'
    BY <1>9, <2>1, <2>2 DEF Register, Goto, OnceInv, GateInv, TypeOK, UnusedPermits, Permit
  <2>5. UnusedGrants'
    BY <1>9, <2>1, <2>2 DEF Register, Goto, OnceInv, GateInv, TypeOK, UnusedGrants,
                            CallsInv, BeforeAsking
  <2>6. OneRunPerYes'
    BY <2>2 DEF OnceInv, OneRunPerYes
  <2>7. QED
    BY <2>3, <2>4, <2>5, <2>6
<1>10. CASE PollAnswered(e)
  <2> USE DEF OnceInv, GateInv, TypeOK
  <2>1. \A id \in Calls : UsesOf(id)' = UsesOf(id)
    BY <1>10 DEF PollAnswered, UsesOf
  <2>2. pending.id = e /\ pending # NoRequest /\ UsesOf(e) = {} /\ ~pending.parked
    BY <1>10 DEF PollAnswered, Registered, UnusedQuestion, StillAsking, Waiting
  <2>3. UnusedQuestion' /\ UnusedPermits'
    BY <1>10, <2>1, <2>2, ZenonT(30)
       DEF PollAnswered, Goto, UnusedQuestion, UnusedPermits, Permit,
                             StillAsking, BeforeAsking, Waiting
  <2>4. UnusedGrants' /\ OneRunPerYes'
    BY <1>10, <2>1, <2>2 DEF PollAnswered, Goto, UnusedGrants, OneRunPerYes, Waiting
  <2>5. QED
    BY <2>3, <2>4
<1>11. CASE Granted(e)
  <2> USE DEF OnceInv, GateInv, TypeOK
  <2>1. UsesOf(e) = {} /\ auth' = [auth EXCEPT ![e] = "decision"]
        /\ UNCHANGED <<permits, presents>>
    BY <1>11 DEF Granted, Pass, UnusedGrants
  <2>2. auth[e] # "permit"
    BY <1>11 DEF Granted, UnusedGrants, Waiting
  <2>3. \A id \in Calls : UsesOf(id)' = IF id = e THEN {e} ELSE UsesOf(id)
    BY <2>1, <2>2 DEF UsesOf
  <2>4. \A p \in permits : p.id # e
    BY <1>11 DEF Granted, UnusedPermits, StillAsking, Waiting
  <2>5. UnusedQuestion'
    BY <1>11, <2>1, <2>3 DEF Granted, ClearOwn, Registered, Pass, Goto, UnusedQuestion,
                             Request, StillAsking, BeforeAsking, Waiting
  <2>6. UnusedPermits' /\ UnusedGrants'
    BY <1>11, <2>1, <2>3, <2>4 DEF Granted, Pass, Goto, UnusedPermits, UnusedGrants,
                                   Permit, StillAsking, BeforeAsking, Waiting
  <2>7. OneRunPerYes'
    BY <2>3 DEF OneRunPerYes
  <2>8. QED
    BY <2>5, <2>6, <2>7
<1>12. QED
  BY <1>1, <1>2, <1>3, <1>4, <1>5, <1>6, <1>7, <1>8, <1>9, <1>10, <1>11
     DEF CallStep, Client

LEMMA OnceOperator ==
  ASSUME OnceInv, Operator \/ Expire \/ Close
  PROVE  UnusedQuestion' /\ UnusedPermits' /\ UnusedGrants' /\ OneRunPerYes'
<1> USE DEF OnceInv, GateInv, TypeOK, session, params
<1>1. \A id \in Calls : UsesOf(id)' = UsesOf(id)
  BY DEF UsesOf, Operator, SetControl, Arm, Disarm, DecideTooLate, Decide, Revoke,
         Expire, Close
<1>2. pc' = pc /\ auth' = auth
  BY DEF Operator, SetControl, Arm, Disarm, DecideTooLate, Decide, Revoke, Expire, Close
<1>3. UnusedGrants' /\ OneRunPerYes'
  BY <1>1, <1>2 DEF UnusedGrants, OneRunPerYes
<1>4. CASE SetControl \/ Arm \/ Close
  BY <1>1, <1>2, <1>3, <1>4 DEF SetControl, Arm, Close, UnusedQuestion, UnusedPermits,
                                Request, Permit
<1>5. CASE Disarm \/ Expire
  <2>1. permits' = permits
    BY <1>5 DEF Disarm, Expire
  <2>2. pending' # NoRequest =>
          /\ pending # NoRequest
          /\ pending'.id = pending.id /\ pending'.parked = pending.parked
    BY <1>5 DEF Disarm, Expire, Request
  <2>3. UnusedQuestion' /\ UnusedPermits'
    BY <1>1, <1>2, <2>1, <2>2 DEF UnusedQuestion, UnusedPermits, Request, Permit
  <2>4. QED
    BY <1>3, <2>3
<1>6. ASSUME NEW id \in Calls, DecideTooLate(id)
      PROVE  UnusedQuestion' /\ UnusedPermits'
  BY <1>1, <1>2, <1>6 DEF DecideTooLate, UnusedQuestion, UnusedPermits, Permit
<1>7. ASSUME NEW id \in Calls, NEW answer \in {"yes", "always", "no"},
             Decide(id, answer)
      PROVE  UnusedQuestion' /\ UnusedPermits'
  <2>1. /\ pending \in Request /\ pending.id = id /\ UsesOf(id) = {}
        /\ pending.parked => pc[id] \notin StillAsking
        /\ \A p \in permits : p.id # id
    BY <1>7 DEF Decide, Decidable, Registered, UnusedQuestion
  <2>2. CASE pending.parked
    <3>1. pending' = NoRequest
          /\ permits' \subseteq permits \cup {[id |-> id, command |-> pending.command]}
      BY <1>7, <2>2 DEF Decide
    <3>2. QED
      BY <1>1, <1>2, <2>1, <2>2, <3>1 DEF UnusedQuestion, UnusedPermits, Permit, Request
  <2>3. CASE ~pending.parked
    <3>1. /\ pending'.id = id /\ pending'.parked = FALSE
          /\ permits' = permits
      BY <1>7, <2>1, <2>3 DEF Decide, Request
    <3>2. QED
      BY <1>1, <1>2, <2>1, <3>1 DEF UnusedQuestion, UnusedPermits, Permit
  <2>4. QED
    BY <2>2, <2>3
<1>8. ASSUME NEW ws, Revoke(ws)
      PROVE  UnusedQuestion' /\ UnusedPermits'
  BY <1>1, <1>2, <1>8 DEF Revoke, UnusedQuestion, UnusedPermits, Request, Permit
<1>9. QED
  BY <1>3, <1>4, <1>5, <1>6, <1>7, <1>8 DEF Operator

LEMMA OnceInductive == OnceInv /\ [Next]_vars => OnceInv'
<1>1. SUFFICES ASSUME OnceInv, [Next]_vars
               PROVE  OnceInv'
  OBVIOUS
<1>2. GateInv'
  BY <1>1, GateInductive DEF OnceInv
<1>3. CASE UNCHANGED vars
  <2>1. \A id : UsesOf(id)' = UsesOf(id)
    BY <1>3 DEF vars, UsesOf
  <2>2. QED
    BY <1>1, <1>2, <1>3, <2>1 DEF OnceInv, UnusedQuestion, UnusedPermits, UnusedGrants,
                                  OneRunPerYes, vars
<1>4. CASE Next
  BY <1>1, <1>2, <1>4, OnceCall, OnceOperator DEF OnceInv, Next
<1>5. QED
  BY <1>1, <1>3, <1>4

\* However late the operator answers, and however often the command is sent
\* again with the id of its question, one yes lets through one call.
THEOREM OneYesOneRun == Spec => []OneRunPerYes
<1>1. OnceInv => OneRunPerYes
  BY DEF OnceInv
<1>2. QED
  BY InitOnce, OnceInductive, <1>1, PTL DEF Spec

-----------------------------------------------------------------------------
(***************************************************************************)
(* The gate implements OneShotApproval.                                    *)
(*                                                                         *)
(* The phase of a question is read off four facts about it.  Most steps    *)
(* leave the four as they are or only take a question out of play, which   *)
(* is CloseAll; Register, Decide, ConsumePermit and Granted are the steps  *)
(* that move one question on.  A question whose phase can still change     *)
(* must not be mistaken for one that was never put, so the call that put   *)
(* it is not past the gate on another ground: AskedInv.                    *)
(***************************************************************************)
Used(e)   == UsesOf(e) # {}
MayUse(e) == \/ \E p \in permits : p.id = e
             \/ Registered(e) /\ pending.decided = "yes" /\ ~pending.parked
             \/ pc[e] = "granted"
IsOpen(e) == Registered(e) /\ pending.decided = "none" /\ ~pending.expired
Unput(e)  == pc[e] \in BeforeAsking \/ auth[e] # "none"

LEMMA Phases ==
  ASSUME NEW e
  PROVE  /\ PhaseOf(e) = IF Used(e) THEN "used" ELSE IF MayUse(e) THEN "approved"
                         ELSE IF IsOpen(e) THEN "open" ELSE IF Unput(e) THEN "unasked"
                         ELSE "closed"
         /\ PhaseOf(e)' = IF Used(e)' THEN "used" ELSE IF MayUse(e)' THEN "approved"
                          ELSE IF IsOpen(e)' THEN "open" ELSE IF Unput(e)' THEN "unasked"
                          ELSE "closed"
BY DEF PhaseOf, Used, MayUse, IsOpen, Unput

AskedInv ==
  /\ pending # NoRequest => /\ auth[pending.id] = "none"
                            /\ pc[pending.id] = "granted" => pending.decided = "yes"
  /\ \A p \in permits : auth[p.id] = "none"

\* The question stays in its phase.
Stays(e) ==
  /\ Used(e)' <=> Used(e)
  /\ MayUse(e)' <=> MayUse(e)
  /\ IsOpen(e)' <=> IsOpen(e)
  /\ Unput(e)' <=> Unput(e)

\* The question stays in its phase, or is out of play.
Fades(e) ==
  /\ Used(e)' <=> Used(e)
  /\ MayUse(e)' => MayUse(e)
  /\ IsOpen(e)' => IsOpen(e)
  /\ Unput(e)' => Unput(e)
  /\ MayUse(e) /\ ~MayUse(e)' => ~IsOpen(e)' /\ ~Unput(e)'
  /\ IsOpen(e) /\ ~IsOpen(e)' => ~Unput(e)'

LEMMA StaysInPhase ==
  ASSUME NEW e, Stays(e)
  PROVE  PhaseOf(e)' = PhaseOf(e)
BY Phases DEF Stays

LEMMA FadesOrStays ==
  ASSUME NEW e, Fades(e)
  PROVE  \/ PhaseOf(e)' = PhaseOf(e)
         \/ PhaseOf(e) \in {"unasked", "open", "approved"} /\ PhaseOf(e)' = "closed"
BY Phases DEF Fades

Step == [OneShot!Next]_[e \in Calls |-> PhaseOf(e)]

LEMMA FadingStep ==
  ASSUME \A e \in Calls : Fades(e)
  PROVE  Step
<1> DEFINE qs == {e \in Calls : PhaseOf(e)' # PhaseOf(e)}
<1>1. qs \in SUBSET Calls
  OBVIOUS
<1>2. \A e \in qs : /\ [f \in Calls |-> PhaseOf(f)][e] \in {"unasked", "open", "approved"}
                    /\ PhaseOf(e)' = "closed"
  BY FadesOrStays
<1>3. [e \in Calls |-> PhaseOf(e)]'
        = [q \in Calls |-> IF q \in qs THEN "closed" ELSE [e \in Calls |-> PhaseOf(e)][q]]
  BY <1>2
<1>4. OneShot!CloseAll(qs)
  BY <1>2, <1>3 DEF OneShot!CloseAll
<1>5. QED
  BY <1>1, <1>4 DEF Step, OneShot!Next

\* One question moves on, all others stay.
LEMMA MovingStep ==
  ASSUME NEW e \in Calls, \A f \in Calls \ {e} : PhaseOf(f)' = PhaseOf(f),
         \/ PhaseOf(e) = "unasked" /\ PhaseOf(e)' = "open"
         \/ PhaseOf(e) = "open" /\ PhaseOf(e)' = "approved"
         \/ PhaseOf(e) = "approved" /\ PhaseOf(e)' = "used"
  PROVE  Step
<1>1. ASSUME NEW to, PhaseOf(e)' = to
      PROVE  [f \in Calls |-> PhaseOf(f)]' = [[f \in Calls |-> PhaseOf(f)] EXCEPT ![e] = to]
  BY <1>1
<1>2. CASE PhaseOf(e) = "unasked" /\ PhaseOf(e)' = "open"
  <2>1. OneShot!Ask(e)
    BY <1>1, <1>2 DEF OneShot!Ask, OneShot!Move
  <2>2. QED
    BY <2>1 DEF Step, OneShot!Next
<1>3. CASE PhaseOf(e) = "open" /\ PhaseOf(e)' = "approved"
  <2>1. OneShot!Approve(e)
    BY <1>1, <1>3 DEF OneShot!Approve, OneShot!Move
  <2>2. QED
    BY <2>1 DEF Step, OneShot!Next
<1>4. CASE PhaseOf(e) = "approved" /\ PhaseOf(e)' = "used"
  <2>1. OneShot!Use(e)
    BY <1>1, <1>4 DEF OneShot!Use, OneShot!Move
  <2>2. QED
    BY <2>1 DEF Step, OneShot!Next
<1>5. QED
  BY <1>2, <1>3, <1>4

LEMMA AskedCall ==
  ASSUME OnceInv, AskedInv, NEW e \in Calls, CallStep(e) \/ WatcherEnds(e) \/ Client(e)
  PROVE  AskedInv'
<1> USE DEF OnceInv, GateInv, TypeOK, At, Goto, session, params
<1>1. CASE Register(e)
  <2>1. auth[e] = "none"
    BY <1>1 DEF Register, CallsInv, BeforeAsking
  <2>2. QED
    BY <1>1, <2>1 DEF Register, AskedInv
<1>2. CASE CheckGate(e) \/ ConsumePermit(e) \/ GrantedWithoutAsking(e)
  <2>1. /\ pending' = pending /\ permits' \subseteq permits
        /\ \A f \in Calls \ {e} : auth'[f] = auth[f] /\ pc'[f] = pc[f]
    BY <1>2 DEF CheckGate, ConsumePermit, GrantedWithoutAsking, Pass, Spend
  <2>2. pc[e] \in BeforeAsking
    BY <1>2 DEF CheckGate, ConsumePermit, GrantedWithoutAsking, BeforeAsking
  <2>3. (pending # NoRequest => pending.id # e) /\ \A p \in permits : p.id # e
    BY <2>2, UnaskedUnused DEF QuestionInv
  <2>4. QED
    BY <2>1, <2>3 DEF AskedInv, Request, Permit
<1>3. CASE Granted(e)
  <2>1. /\ pending' = pending \/ pending' = NoRequest
        /\ pending' # NoRequest => pending.id # e
        /\ permits' = permits
        /\ \A f \in Calls \ {e} : auth'[f] = auth[f] /\ pc'[f] = pc[f]
    BY <1>3 DEF Granted, ClearOwn, Registered, Pass
  <2>2. \A p \in permits : p.id # e
    BY <1>3 DEF Granted, UnusedPermits, StillAsking, Waiting
  <2>3. QED
    BY <2>1, <2>2 DEF AskedInv, Request, Permit
<1>4. CASE Denied(e) \/ Park(e)
  BY <1>4 DEF Denied, Park, ClearOwn, Parked, Registered, AskedInv, Request
<1>5. CASE PollAnswered(e)
  <2>1. /\ Registered(e) /\ UNCHANGED <<pending, permits, auth>>
        /\ pc'[e] = "granted" => pending.decided = "yes"
    BY <1>5 DEF PollAnswered
  <2>2. QED
    BY <2>1 DEF AskedInv, Registered
<1>6. CASE \/ Issue(e) \/ Acquire(e) \/ AcquireFails(e) \/ NoPermit(e) \/ CannotAsk(e)
           \/ PollDeadline(e) \/ Write(e) \/ WriteFails(e) \/ Finish(e) \/ Release(e)
           \/ WatcherEnds(e) \/ Cancel(e) \/ CancelReleases(e) \/ HangUp(e)
  <2>1. UNCHANGED <<pending, permits, auth>>
    BY <1>6 DEF Issue, Acquire, AcquireFails, NoPermit, CannotAsk, PollDeadline, Write,
                WriteFails, Finish, Release, WatcherEnds, Cancel, CancelReleases, HangUp
  <2>2. \A f \in Calls : pc'[f] = "granted" => pc[f] = "granted"
    BY <1>6 DEF Issue, Acquire, AcquireFails, NoPermit, CannotAsk, PollDeadline, Write,
                WriteFails, Finish, Release, WatcherEnds, Cancel, CancelReleases, HangUp
  <2>3. QED
    BY <2>1, <2>2 DEF AskedInv, Request
<1>7. QED
  BY <1>1, <1>2, <1>3, <1>4, <1>5, <1>6 DEF CallStep, Client

LEMMA AskedOperator ==
  ASSUME OnceInv, AskedInv, Operator \/ Expire \/ Close
  PROVE  AskedInv'
<1> USE DEF OnceInv, GateInv, TypeOK, session, params
<1>1. CASE SetControl \/ Arm \/ Close \/ (\E ws : Revoke(ws))
  BY <1>1 DEF SetControl, Arm, Close, Revoke, AskedInv
<1>2. CASE Disarm \/ Expire
  BY <1>2 DEF Disarm, Expire, AskedInv, Request
<1>3. ASSUME NEW id \in Calls, DecideTooLate(id)
      PROVE  AskedInv'
  BY <1>3 DEF DecideTooLate, AskedInv
<1>4. ASSUME NEW id \in Calls, NEW answer \in {"yes", "always", "no"}, Decide(id, answer)
      PROVE  AskedInv'
  <2>1. /\ pending # NoRequest /\ pending.id = id /\ UNCHANGED <<auth, pc>>
        /\ auth[id] = "none" /\ pc[id] # "granted"
    BY <1>4 DEF Decide, Decidable, Registered, AskedInv
  <2>2. pending' # NoRequest => pending'.id = id
    BY <1>4, <2>1 DEF Decide, Request
  <2>3. \A p \in permits' : p \in permits \/ p.id = id
    BY <1>4 DEF Decide
  <2>4. QED
    BY <2>1, <2>2, <2>3 DEF AskedInv
<1>5. QED
  BY <1>1, <1>2, <1>3, <1>4 DEF Operator

\* A question that can still move is not one that was never put.
LEMMA AskedIsPut ==
  ASSUME OnceInv, AskedInv
  PROVE  /\ \A e \in Calls : Registered(e) => ~Unput(e) /\ ~Used(e)
         /\ \A p \in permits : ~Unput(p.id) /\ ~Used(p.id)
         /\ \A e \in Calls : pc[e] = "granted" => ~Unput(e) /\ ~Used(e)
<1> USE DEF OnceInv, GateInv, TypeOK
<1>1. \A e \in Calls : Registered(e) => ~Unput(e) /\ ~Used(e)
  BY DEF Registered, Unput, Used, AskedInv, QuestionInv, UnusedQuestion
<1>2. \A p \in permits : ~Unput(p.id) /\ ~Used(p.id)
  BY DEF Unput, Used, AskedInv, UnusedPermits, StillAsking
<1>3. \A e \in Calls : pc[e] = "granted" => ~Unput(e) /\ ~Used(e)
  BY DEF Unput, Used, UnusedGrants, BeforeAsking, Waiting
<1>4. QED
  BY <1>1, <1>2, <1>3

\* A question that was not put yet is in none of the other phases.
LEMMA UnputIsUnasked ==
  ASSUME OnceInv, NEW e \in Calls, pc[e] \in BeforeAsking
  PROVE  ~Used(e) /\ ~MayUse(e) /\ ~IsOpen(e) /\ Unput(e) /\ ~Registered(e)
<1>1. ~Registered(e)
  BY DEF OnceInv, GateInv, QuestionInv, Registered
<1>2. QED
  BY <1>1, UnaskedUnused DEF Used, MayUse, IsOpen, Unput, BeforeAsking

LEMMA SameUses ==
  ASSUME UNCHANGED <<presents, auth>>
  PROVE  \A e \in Calls : Used(e)' <=> Used(e)
BY DEF Used, UsesOf

\* A call that only moves, perhaps with its question, and asks nothing.
LEMMA FadeMove ==
  ASSUME OnceInv, AskedInv, NEW e \in Calls, NEW station \in Station,
         Goto(e, station), station # "granted",
         pc[e] \in BeforeAsking \/ station \notin BeforeAsking,
         UNCHANGED <<permits, presents, auth>>,
         \/ pending' = pending
         \/ pending' = NoRequest
         \/ Registered(e) /\ pending' = Parked(pending)
  PROVE  \A f \in Calls : Fades(f)
<1> USE DEF OnceInv, GateInv, TypeOK, Goto
<1>1. TAKE f \in Calls
<1>2. Used(f)' <=> Used(f)
  BY SameUses
<1>3. Unput(f)' => Unput(f)
  BY DEF Unput
<1>4. Registered(f)' => /\ Registered(f)
                        /\ pending'.decided = pending.decided
                        /\ pending'.expired = pending.expired
                        /\ pending.parked => pending'.parked
  BY DEF Registered, Parked, Request
<1>5. IsOpen(f)' => IsOpen(f)
  BY <1>4 DEF IsOpen
<1>6. MayUse(f)' => MayUse(f)
  BY <1>4 DEF MayUse, Request, Registered, Parked
<1>7. MayUse(f) => ~Unput(f)
  BY AskedIsPut DEF MayUse
<1>8. IsOpen(f) => ~Unput(f)
  BY AskedIsPut DEF IsOpen
<1>9. MayUse(f) /\ IsOpen(f)' => MayUse(f)'
  <2>1. SUFFICES ASSUME MayUse(f), IsOpen(f)'
                 PROVE  \E p \in permits : p.id = f
    BY DEF MayUse
  <2>2. Registered(f) /\ pending.decided = "none"
    BY <1>4, <2>1 DEF IsOpen
  <2>3. pc[f] # "granted"
    BY <2>2 DEF AskedInv, Registered
  <2>4. QED
    BY <2>1, <2>2, <2>3 DEF MayUse
<1>10. QED
  BY <1>2, <1>3, <1>5, <1>6, <1>7, <1>8, <1>9 DEF Fades

\* A call that passes the gate without asking.
LEMMA FadePass ==
  ASSUME OnceInv, AskedInv, NEW e \in Calls, NEW how \in {"disarmed", "grant"},
         pc[e] \in BeforeAsking, Pass(e, how), UNCHANGED <<pending, permits, presents>>
  PROVE  \A f \in Calls : Fades(f)
<1> USE DEF OnceInv, GateInv, TypeOK, Goto, Pass
<1>1. TAKE f \in Calls
<1>2. Used(f)' <=> Used(f)
  BY DEF Used, UsesOf, CallsInv
<1>3. MayUse(f)' <=> MayUse(f)
  BY DEF MayUse, Registered, BeforeAsking
<1>4. IsOpen(f)' <=> IsOpen(f)
  BY DEF IsOpen, Registered
<1>5. Unput(f)' <=> Unput(f)
  BY DEF Unput
<1>6. QED
  BY <1>2, <1>3, <1>4, <1>5 DEF Fades

LEMMA FadeCall ==
  ASSUME OnceInv, AskedInv, NEW e \in Calls, CallStep(e) \/ WatcherEnds(e) \/ Client(e),
         ~ConsumePermit(e), ~Register(e), ~Granted(e)
  PROVE  \A f \in Calls : Fades(f)
<1> USE DEF At, session, params
<1>1. CASE Issue(e)
  <2> USE DEF OnceInv, GateInv, TypeOK, Goto, Issue
  <2>1. TAKE f \in Calls
  <2>2. Used(f)' <=> Used(f)
    BY <1>1 DEF Used, UsesOf, CallsInv, BeforeAsking
  <2>3. MayUse(f)' <=> MayUse(f)
    BY <1>1 DEF MayUse, Registered
  <2>4. IsOpen(f)' <=> IsOpen(f)
    BY <1>1 DEF IsOpen, Registered
  <2>5. Unput(f)' <=> Unput(f)
    BY <1>1 DEF Unput, BeforeAsking
  <2>6. QED
    BY <2>2, <2>3, <2>4, <2>5 DEF Fades
<1>2. CASE Acquire(e) \/ AcquireFails(e) \/ NoPermit(e) \/ CannotAsk(e)
  BY <1>2, FadeMove DEF Acquire, AcquireFails, NoPermit, CannotAsk, Station,
                        BeforeAsking, Ended
<1>3. CASE CheckGate(e)
  <2>1. CASE armed
    BY <1>3, <2>1, FadeMove DEF CheckGate, Station, BeforeAsking
  <2>2. CASE ~armed
    BY <1>3, <2>2, FadePass DEF CheckGate, BeforeAsking
  <2>3. QED
    BY <2>1, <2>2
<1>4. CASE GrantedWithoutAsking(e)
  BY <1>4, FadePass DEF GrantedWithoutAsking, BeforeAsking
<1>5. CASE PollAnswered(e)
  <2>1. CASE pending.decided = "yes"
    <3> USE DEF OnceInv, GateInv, TypeOK, Goto, PollAnswered
    <3>1. TAKE f \in Calls
    <3>2. Registered(e) /\ ~pending.parked
      BY <1>5 DEF UnusedQuestion, Registered, StillAsking, Waiting
    <3>3. Used(f)' <=> Used(f)
      BY <1>5, SameUses
    <3>4. MayUse(f)' <=> MayUse(f)
      BY <1>5, <2>1, <3>2 DEF MayUse, Registered
    <3>5. IsOpen(f)' <=> IsOpen(f)
      BY <1>5 DEF IsOpen, Registered
    <3>6. Unput(f)' <=> Unput(f)
      BY <1>5, <2>1 DEF Unput, BeforeAsking
    <3>7. QED
      BY <3>3, <3>4, <3>5, <3>6 DEF Fades
  <2>2. CASE pending.decided # "yes"
    BY <1>5, <2>2, FadeMove DEF PollAnswered, Station, BeforeAsking, Waiting
  <2>3. QED
    BY <2>1, <2>2
<1>6. CASE PollDeadline(e) \/ Denied(e) \/ Park(e)
  BY <1>6, FadeMove DEF PollDeadline, Denied, Park, ClearOwn, Station, BeforeAsking,
                        Waiting
<1>7. CASE Write(e) \/ WriteFails(e) \/ Finish(e) \/ Release(e) \/ WatcherEnds(e)
  BY <1>7, FadeMove DEF Write, WriteFails, Finish, Release, WatcherEnds, Station,
                        BeforeAsking, PastTheGate, Ended
<1>8. CASE Cancel(e) \/ CancelReleases(e) \/ HangUp(e)
  BY <1>8, FadeMove DEF Cancel, CancelReleases, HangUp, Station, BeforeAsking, Ended
<1>9. QED
  BY <1>1, <1>2, <1>3, <1>4, <1>5, <1>6, <1>7, <1>8 DEF CallStep, Client

\* What the operator and the clock do, but for a yes to a question.
LEMMA FadeOperator ==
  ASSUME OnceInv, AskedInv, Operator \/ Expire \/ Close,
         \A id \in Calls : ~Decide(id, "yes") /\ ~Decide(id, "always")
  PROVE  \A f \in Calls : Fades(f)
<1> USE DEF OnceInv, GateInv, TypeOK, session, params
<1>1. TAKE f \in Calls
<1>2. UNCHANGED <<pc, presents, auth>>
  BY DEF Operator, SetControl, Arm, Disarm, DecideTooLate, Decide, Revoke, Expire, Close
<1>3. (Used(f)' <=> Used(f)) /\ (Unput(f)' <=> Unput(f))
  BY <1>2, SameUses DEF Unput
<1>4. permits' \subseteq permits
  BY DEF Operator, SetControl, Arm, Disarm, DecideTooLate, Decide, Revoke, Expire, Close
<1>5. permits' = permits \/ pending' = NoRequest
  BY DEF Operator, SetControl, Arm, Disarm, DecideTooLate, Decide, Revoke, Expire, Close
<1> DEFINE Left ==
      pending' # NoRequest =>
        /\ pending # NoRequest /\ pending'.id = pending.id
        /\ pending'.parked = pending.parked
        /\ pending.decided # "none" => pending'.decided = pending.decided
        /\ pending.decided = "none" => pending'.decided \in {"none", "no"}
        /\ pending.expired => pending'.expired
<1>6. Left
  <2>1. CASE SetControl \/ Arm \/ Close \/ (\E ws : Revoke(ws))
    BY <2>1 DEF SetControl, Arm, Close, Revoke
  <2>2. CASE Disarm \/ Expire
    BY <2>2 DEF Disarm, Expire, Request
  <2>3. ASSUME NEW id \in Calls, DecideTooLate(id) \/ Decide(id, "no")
        PROVE  Left
    <3>1. /\ Registered(id) /\ pending.decided = "none"
          /\ pending' = NoRequest \/ pending' = [pending EXCEPT !.decided = "no"]
      BY <2>3 DEF DecideTooLate, Decide, Decidable
    <3>2. QED
      BY <3>1 DEF Registered, Request
  <2>4. QED
    BY <2>1, <2>2, <2>3 DEF Operator
<1>7. Registered(f)' => Registered(f)
  BY <1>6 DEF Registered
<1>8. (MayUse(f)' => MayUse(f)) /\ (IsOpen(f)' => IsOpen(f))
  BY <1>2, <1>4, <1>6, <1>7 DEF MayUse, IsOpen, Registered, Request
<1>9. (MayUse(f) => ~Unput(f)) /\ (IsOpen(f) => ~Unput(f))
  BY AskedIsPut DEF MayUse, IsOpen
<1>10. MayUse(f) /\ ~MayUse(f)' => ~IsOpen(f)'
  BY <1>2, <1>5, <1>6, <1>7 DEF MayUse, IsOpen, Registered
<1>11. QED
  BY <1>3, <1>8, <1>9, <1>10 DEF Fades

\* A new question takes the place of one nobody waits for.
LEMMA RegisterStep ==
  ASSUME OnceInv, AskedInv, NEW e \in Calls, Register(e)
  PROVE  Step
<1> USE DEF OnceInv, GateInv, TypeOK, At, Goto, session, params
<1>a. /\ pc[e] \in BeforeAsking /\ pc' = [pc EXCEPT ![e] = "waiting"]
      /\ UNCHANGED <<permits, presents, auth>>
      /\ pending'.id = e /\ pending'.decided = "none" /\ pending'.expired = FALSE
  BY DEF Register, BeforeAsking
<1>b. ~Used(e) /\ ~MayUse(e) /\ ~IsOpen(e) /\ Unput(e) /\ ~Registered(e)
  BY <1>a, UnputIsUnasked
<1>c. \A f \in Calls : Used(f)' <=> Used(f)
  BY <1>a, SameUses
<1>d. pending' # NoRequest
  <2>1. pending' \in Request
    BY DEF Register, Request
  <2>2. QED
    BY <2>1, RequestAssumption
<1>1. PhaseOf(e) = "unasked"
  BY <1>b, Phases
<1>2. PhaseOf(e)' = "open"
  <2>1. ~Used(e)'
    BY <1>b, <1>c
  <2>2. ~MayUse(e)'
    BY <1>a, <1>b DEF MayUse
  <2>3. IsOpen(e)'
    BY <1>a, <1>d DEF IsOpen, Registered
  <2>4. QED
    BY <2>1, <2>2, <2>3, Phases
<1>3. \A f \in Calls \ {e} : Unput(f)' <=> Unput(f)
  BY <1>a DEF Unput
<1>4. \A f \in Calls \ {e} : ~Registered(f)' /\ ~IsOpen(f)'
  BY <1>a DEF Registered, IsOpen
<1>5. \A f \in Calls \ {e} : MayUse(f)' => MayUse(f)
  BY <1>a, <1>4 DEF MayUse
<1>6. \A f \in Calls \ {e} : ~Registered(f) => Stays(f)
  <2>1. TAKE f \in Calls \ {e}
  <2>2. HAVE ~Registered(f)
  <2>3. ~IsOpen(f)
    BY <2>2 DEF IsOpen
  <2>4. MayUse(f)' <=> MayUse(f)
    BY <1>a, <1>4, <2>2 DEF MayUse
  <2>5. QED
    BY <1>c, <1>3, <1>4, <2>3, <2>4 DEF Stays
<1>7. CASE \A f \in Calls \ {e} : PhaseOf(f)' = PhaseOf(f)
  BY <1>1, <1>2, <1>7, MovingStep
<1>8. ASSUME NEW q \in Calls \ {e}, PhaseOf(q)' # PhaseOf(q)
      PROVE  Step
  <2>1. Registered(q) /\ \A f \in Calls \ {e, q} : ~Registered(f)
    BY <1>6, <1>8, StaysInPhase DEF Registered
  <2>2. \A f \in Calls \ {e, q} : PhaseOf(f)' = PhaseOf(f)
    BY <1>6, <2>1, StaysInPhase
  <2>3. ~Used(q) /\ ~Unput(q)
    BY <2>1, AskedIsPut
  <2>4. ~Used(q)' /\ ~Unput(q)' /\ ~IsOpen(q)'
    BY <1>c, <1>3, <1>4, <2>3
  <2>5. PhaseOf(q)' = "closed" /\ PhaseOf(q) \in {"open", "approved"}
    BY <1>5, <1>8, <2>3, <2>4, Phases
  <2>6. OneShot!Supersede(q, e)
    BY <1>1, <1>2, <2>2, <2>5 DEF OneShot!Supersede
  <2>7. QED
    BY <2>6 DEF Step, OneShot!Next
<1>9. QED
  BY <1>7, <1>8

\* A yes that lands: a permit, or left for the waiter.
LEMMA YesStep ==
  ASSUME OnceInv, AskedInv, NEW id \in Calls, NEW answer \in {"yes", "always"},
         Decide(id, answer)
  PROVE  Step
<1> USE DEF OnceInv, GateInv, TypeOK, session, params
<1>1. /\ Registered(id) /\ pending.decided = "none" /\ ~pending.expired
      /\ pending \in Request /\ pending.id = id /\ UNCHANGED <<pc, presents, auth>>
  BY DEF Decide, Decidable, Registered
<1>2. IF pending.parked
        THEN pending' = NoRequest /\ permits' = permits \cup {[id |-> id, command |-> pending.command]}
        ELSE pending' = [pending EXCEPT !.decided = "yes"] /\ permits' = permits
  BY DEF Decide
<1>3. \A f \in Calls : (Used(f)' <=> Used(f)) /\ (Unput(f)' <=> Unput(f))
  BY <1>1, SameUses DEF Unput
<1>4. PhaseOf(id) = "open"
  <2>1. ~Used(id) /\ IsOpen(id)
    BY <1>1, AskedIsPut DEF IsOpen
  <2>2. ~MayUse(id)
    BY <1>1 DEF MayUse, UnusedQuestion, AskedInv, Registered
  <2>3. QED
    BY <2>1, <2>2, Phases
<1>5. PhaseOf(id)' = "approved"
  <2>1. ~Used(id)'
    BY <1>1, <1>3, AskedIsPut
  <2>2. MayUse(id)'
    <3>1. CASE pending.parked
      <4>1. [id |-> id, command |-> pending.command] \in permits'
        BY <1>2, <3>1
      <4>2. \E p \in permits' : p.id = id
        BY <4>1
      <4>3. QED
        BY <4>2 DEF MayUse
    <3>2. CASE ~pending.parked
      <4>1. pending' \in Request /\ pending'.id = id /\ pending'.decided = "yes"
            /\ ~pending'.parked
        BY <1>1, <1>2, <3>2 DEF Request
      <4>2. pending' # NoRequest
        BY <4>1, RequestAssumption
      <4>3. QED
        BY <4>1, <4>2 DEF MayUse, Registered
    <3>3. QED
      BY <3>1, <3>2
  <2>3. QED
    BY <2>1, <2>2, Phases
<1>6. \A f \in Calls \ {id} : Stays(f)
  <2>1. TAKE f \in Calls \ {id}
  <2>2. ~Registered(f) /\ ~Registered(f)'
    BY <1>1, <1>2 DEF Registered, Request
  <2>3. (\E p \in permits' : p.id = f) <=> (\E p \in permits : p.id = f)
    BY <1>2
  <2>4. (MayUse(f)' <=> MayUse(f)) /\ (IsOpen(f)' <=> IsOpen(f))
    BY <1>1, <2>2, <2>3 DEF MayUse, IsOpen
  <2>5. QED
    BY <1>3, <2>4 DEF Stays
<1>7. QED
  BY <1>4, <1>5, <1>6, StaysInPhase, MovingStep

\* The permit is spent on another call.
LEMMA ConsumeStep ==
  ASSUME OnceInv, AskedInv, NEW e \in Calls, ConsumePermit(e)
  PROVE  Step
<1> USE DEF OnceInv, GateInv, TypeOK, At, session, params
<1>1. PICK p \in permits : p.id = presents[e] /\ p.command = command[e]
  BY DEF ConsumePermit, Claimable
<1>2. /\ presents[e] \in Calls /\ ~Used(presents[e]) /\ MayUse(presents[e])
  BY <1>1, AskedIsPut DEF Permit, MayUse
<1>3. /\ pc[e] \in BeforeAsking /\ pc' = [pc EXCEPT ![e] = "write"]
      /\ auth' = [auth EXCEPT ![e] = "permit"] /\ auth[e] = "none"
      /\ UNCHANGED <<pending, presents>>
  BY DEF ConsumePermit, Pass, Goto, CallsInv, BeforeAsking
<1>4. \A id \in Calls : UsesOf(id)' = IF id = presents[e] THEN {e} \cup UsesOf(id) ELSE UsesOf(id)
  BY <1>3 DEF UsesOf
<1>5. PhaseOf(presents[e]) = "approved"
  BY <1>2, Phases
<1>6. ASSUME NEW q \in Calls, q = presents[e]
      PROVE  PhaseOf(q)' = "used"
  <2>1. Used(q)'
    BY <1>4, <1>6 DEF Used
  <2>2. QED
    BY <2>1, Phases
<1>7. \A f \in Calls \ {presents[e]} : Stays(f)
  <2>1. TAKE f \in Calls \ {presents[e]}
  <2>2. Used(f)' <=> Used(f)
    BY <1>4 DEF Used
  <2>3. (\E r \in permits' : r.id = f) <=> (\E r \in permits : r.id = f)
    BY DEF ConsumePermit, Spend, Claimable
  <2>4. MayUse(f)' <=> MayUse(f)
    BY <1>3, <2>3 DEF MayUse, Registered, BeforeAsking
  <2>5. IsOpen(f)' <=> IsOpen(f)
    BY <1>3 DEF IsOpen, Registered
  <2>6. Unput(f)' <=> Unput(f)
    BY <1>3 DEF Unput
  <2>7. QED
    BY <2>2, <2>4, <2>5, <2>6 DEF Stays
<1>8. PICK q \in Calls : q = presents[e]
  BY <1>2
<1>9. PhaseOf(q) = "approved" /\ PhaseOf(q)' = "used"
  BY <1>5, <1>6, <1>8
<1>10. QED
  BY <1>7, <1>8, <1>9, StaysInPhase, MovingStep

\* The waiter takes its answer through the gate.
LEMMA GrantedStep ==
  ASSUME OnceInv, AskedInv, NEW e \in Calls, Granted(e)
  PROVE  Step
<1> USE DEF OnceInv, GateInv, TypeOK, At, session, params
<1>1. /\ pc[e] = "granted" /\ pc' = [pc EXCEPT ![e] = "write"]
      /\ auth' = [auth EXCEPT ![e] = "decision"] /\ auth[e] = "none"
      /\ UNCHANGED <<permits, presents>>
      /\ pending' = IF Registered(e) THEN NoRequest ELSE pending
  BY DEF Granted, ClearOwn, Pass, Goto, UnusedGrants, Waiting
<1>2. \A id \in Calls : UsesOf(id)' = IF id = e THEN {e} \cup UsesOf(id) ELSE UsesOf(id)
  BY <1>1 DEF UsesOf
<1>3. PhaseOf(e) = "approved"
  BY <1>1, AskedIsPut, Phases DEF MayUse
<1>4. PhaseOf(e)' = "used"
  <2>1. Used(e)'
    BY <1>2 DEF Used
  <2>2. QED
    BY <2>1, Phases
<1>5. \A f \in Calls \ {e} : Stays(f)
  <2>1. TAKE f \in Calls \ {e}
  <2>2. Used(f)' <=> Used(f)
    BY <1>2 DEF Used
  <2>3. Registered(f)' <=> Registered(f)
    BY <1>1 DEF Registered
  <2>4. Registered(f) => pending' = pending
    BY <1>1 DEF Registered
  <2>5. (MayUse(f)' <=> MayUse(f)) /\ (IsOpen(f)' <=> IsOpen(f))
    BY <1>1, <2>3, <2>4 DEF MayUse, IsOpen
  <2>6. Unput(f)' <=> Unput(f)
    BY <1>1 DEF Unput
  <2>7. QED
    BY <2>2, <2>5, <2>6 DEF Stays
<1>6. QED
  BY <1>3, <1>4, <1>5, StaysInPhase, MovingStep

\* Whatever calls, cancellations, hang-ups, operator and clock do in whatever
\* order, every question goes through the life OneShotApproval promises: it is
\* put once, a yes lets one command run once, and a question that was refused,
\* superseded or left to lapse lets nothing run any more.
THEOREM GateIsOneShot == Spec => ImplementsOneShot
<1>1. Init => OneShot!Init
  <2>1. SUFFICES ASSUME Init
                 PROVE  \A e \in Calls : PhaseOf(e) = "unasked"
    BY DEF OneShot!Init
  <2>2. OnceInv
    BY <2>1, InitOnce
  <2>3. \A e \in Calls : pc[e] \in BeforeAsking
    BY <2>1 DEF Init, BeforeAsking
  <2>4. QED
    BY <2>2, <2>3, UnputIsUnasked, Phases
<1>2. Init => OnceInv /\ AskedInv
  BY InitOnce DEF Init, AskedInv
<1>3. OnceInv /\ AskedInv /\ [Next]_vars => (OnceInv /\ AskedInv)'
  <2>1. SUFFICES ASSUME OnceInv, AskedInv, [Next]_vars
                 PROVE  AskedInv'
    BY OnceInductive
  <2>2. CASE UNCHANGED vars
    BY <2>1, <2>2 DEF AskedInv, vars
  <2>3. CASE Next
    BY <2>1, <2>3, AskedCall, AskedOperator DEF Next
  <2>4. QED
    BY <2>1, <2>2, <2>3
<1>4. OnceInv /\ AskedInv /\ [Next]_vars => Step
  <2>1. SUFFICES ASSUME OnceInv, AskedInv, [Next]_vars
                 PROVE  Step
    OBVIOUS
  <2>2. CASE UNCHANGED vars
    <3>1. \A e \in Calls : PhaseOf(e)' = PhaseOf(e)
      BY <2>2 DEF PhaseOf, UsesOf, Registered, vars
    <3>2. QED
      BY <3>1 DEF Step
  <2>3. ASSUME NEW e \in Calls, CallStep(e) \/ WatcherEnds(e) \/ Client(e)
        PROVE  Step
    <3>1. CASE ConsumePermit(e) \/ Register(e) \/ Granted(e)
      BY <2>1, <3>1, ConsumeStep, RegisterStep, GrantedStep
    <3>2. CASE ~ConsumePermit(e) /\ ~Register(e) /\ ~Granted(e)
      BY <2>1, <2>3, <3>2, FadeCall, FadingStep
    <3>3. QED
      BY <3>1, <3>2
  <2>4. ASSUME Operator \/ Expire \/ Close
        PROVE  Step
    <3>1. ASSUME NEW id \in Calls, Decide(id, "yes") \/ Decide(id, "always")
          PROVE  Step
      BY <2>1, <3>1, YesStep
    <3>2. CASE \A id \in Calls : ~Decide(id, "yes") /\ ~Decide(id, "always")
      BY <2>1, <2>4, <3>2, FadeOperator, FadingStep
    <3>3. QED
      BY <3>1, <3>2
  <2>5. QED
    BY <2>1, <2>2, <2>3, <2>4 DEF Next
<1>5. QED
  BY <1>1, <1>2, <1>3, <1>4, PTL DEF Spec, ImplementsOneShot, OneShot!Spec, Step

-----------------------------------------------------------------------------
(***************************************************************************)
(* The execute lock, when no client cancels.                               *)
(***************************************************************************)
LockInv ==
  /\ TypeOK
  /\ \A e \in Calls : Owns(e) /\ open => busy
  /\ \A e \in Calls : pc[e] # "cancelling"
  /\ ExclusiveLock

\* A call's own step that leaves the lock bit and the session alone.
LEMMA LockMove ==
  ASSUME LockInv, NEW e \in Calls, NEW station \in Station, Goto(e, station),
         station # "cancelling", UNCHANGED <<open, busy>>,
         Owns(e) \/ station \in {"acquiring", "returned", "gone"}
  PROVE  /\ \A f \in Calls : Owns(f)' /\ open' => busy'
         /\ \A f \in Calls : pc'[f] # "cancelling"
         /\ ExclusiveLock'
<1> USE DEF LockInv, TypeOK, Goto
<1>1. \A f \in Calls : Owns(f)' => Owns(f)
  BY DEF Owns, Waiting, PastTheGate
<1>2. QED
  BY <1>1 DEF ExclusiveLock

LEMMA LockCall ==
  ASSUME LockInv, Cancellable = {},
         NEW e \in Calls, CallStep(e) \/ WatcherEnds(e) \/ Client(e)
  PROVE  /\ \A f \in Calls : Owns(f)' /\ open' => busy'
         /\ \A f \in Calls : pc'[f] # "cancelling"
         /\ ExclusiveLock'
<1> USE DEF At, session, params
<1>1. CASE Issue(e) \/ AcquireFails(e) \/ HangUp(e)
  BY <1>1, LockMove DEF Issue, AcquireFails, HangUp, Station, Ended, BeforeAsking
<1>2. CASE CheckGate(e)
  <2>1. PICK station \in {"register", "permit", "write"} : Goto(e, station)
    BY <1>2 DEF CheckGate, Pass
  <2>2. QED
    BY <1>2, <2>1, LockMove DEF CheckGate, Owns, Station, BeforeAsking, PastTheGate
<1>3. CASE ConsumePermit(e) \/ NoPermit(e) \/ GrantedWithoutAsking(e) \/ CannotAsk(e)
             \/ Register(e)
  BY <1>3, LockMove DEF ConsumePermit, NoPermit, GrantedWithoutAsking, CannotAsk,
                        Register, Pass, Owns, Station, BeforeAsking, Waiting, PastTheGate
<1>4. CASE PollAnswered(e)
  <2>1. PICK station \in {"granted", "denied"} : Goto(e, station)
    BY <1>4 DEF PollAnswered
  <2>2. QED
    BY <1>4, <2>1, LockMove DEF PollAnswered, Owns, Station, Waiting
<1>5. CASE PollDeadline(e) \/ Granted(e) \/ Denied(e) \/ Park(e)
  BY <1>5, LockMove DEF PollDeadline, Granted, Denied, Park, Pass, Owns, Station,
                        Waiting, PastTheGate
<1>6. CASE Write(e)
  <2>1. PICK station \in {"running", "watching"} : Goto(e, station)
    BY <1>6 DEF Write
  <2>2. QED
    BY <1>6, <2>1, LockMove DEF Write, Owns, Station, PastTheGate
<1>7. CASE WriteFails(e) \/ Finish(e) \/ WatcherEnds(e)
  BY <1>7, LockMove DEF WriteFails, Finish, WatcherEnds, Owns, Station, PastTheGate
<1>8. CASE Acquire(e)
  <2> USE DEF LockInv, TypeOK, Goto
  <2>1. \A f \in Calls : ~Owns(f)
    BY <1>8 DEF Acquire, MayAcquire
  <2>2. \A f \in Calls : Owns(f)' => f = e
    BY <1>8, <2>1 DEF Acquire, Owns
  <2>3. QED
    BY <1>8, <2>2 DEF Acquire, ExclusiveLock
<1>9. CASE Release(e)
  <2> USE DEF LockInv, TypeOK, Goto
  <2>1. Owns(e)
    BY <1>9 DEF Release, Owns
  <2>2. \A f \in Calls : ~Owns(f)'
    BY <1>9, <2>1 DEF Release, Owns, ExclusiveLock, Waiting, PastTheGate
  <2>3. QED
    BY <1>9, <2>2 DEF Release, ExclusiveLock
<1>10. CASE Cancel(e) \/ CancelReleases(e)
  BY <1>10 DEF Cancel, CancelReleases, LockInv
<1>11. QED
  BY <1>1, <1>2, <1>3, <1>4, <1>5, <1>6, <1>7, <1>8, <1>9, <1>10 DEF CallStep, Client

LEMMA LockOperator ==
  ASSUME LockInv, Operator \/ Expire \/ Close
  PROVE  /\ \A f \in Calls : Owns(f)' /\ open' => busy'
         /\ \A f \in Calls : pc'[f] # "cancelling"
         /\ ExclusiveLock'
<1>1. pc' = pc
  BY DEF Operator, SetControl, Arm, Disarm, DecideTooLate, Decide, Revoke, Expire, Close
<1>2. (open' = open /\ busy' = busy) \/ open' = FALSE
  BY DEF Operator, SetControl, Arm, Disarm, DecideTooLate, Decide, Revoke, Expire, Close
<1>3. \A f \in Calls : Owns(f)' = Owns(f)
  BY <1>1 DEF Owns
<1>4. QED
  BY <1>1, <1>2, <1>3 DEF LockInv, ExclusiveLock

\* As long as no client cancels a call, no two calls are ever between taking
\* the lock and giving it back, closing sessions and hang-ups included.  (With
\* a cancellation the statement is false: term_release_execute asks nobody
\* whose lock it is.)
THEOREM LockExcludes ==
  ASSUME Cancellable = {}
  PROVE  Spec => []ExclusiveLock
<1>1. Init => LockInv
  <2>1. Init => TypeOK
    BY InitType
  <2>2. Init => \A e \in Calls : pc[e] = "idle"
    BY DEF Init
  <2>3. QED
    BY <2>1, <2>2 DEF LockInv, Owns, ExclusiveLock, Waiting, PastTheGate
<1>2. LockInv /\ [Next]_vars => LockInv'
  <2>1. SUFFICES ASSUME LockInv, [Next]_vars
                 PROVE  LockInv'
    OBVIOUS
  <2>2. CASE UNCHANGED vars
    BY <2>1, <2>2 DEF LockInv, TypeOK, Owns, ExclusiveLock, vars
  <2>3. CASE Next
    <3>1. TypeOK'
      BY <2>1, <2>3, CallType, OperatorType DEF LockInv, Next
    <3>2. QED
      BY <2>1, <2>3, <3>1, LockCall, LockOperator DEF LockInv, Next
  <2>4. QED
    BY <2>1, <2>2, <2>3
<1>3. LockInv => ExclusiveLock
  BY DEF LockInv
<1>4. QED
  BY <1>1, <1>2, <1>3, PTL DEF Spec

-----------------------------------------------------------------------------
(***************************************************************************)
(* A lock that is taken has somebody who will give it back, unless a       *)
(* client may hang up.                                                     *)
(***************************************************************************)
Holds(e) == Owns(e) \/ At(e, "cancelling")

\* A call that stays on its way to the release, or that never held the lock.
LEMMA OwnerMove ==
  ASSUME TypeOK, BusyHasOwner, NEW e \in Calls, NEW station \in Station,
         Goto(e, station), busy' => busy,
         Holds(e) => station \in {"gate", "permit", "register", "releasing", "cancelling"}
                                   \cup Waiting \cup PastTheGate
  PROVE  BusyHasOwner'
<1> USE DEF TypeOK, Goto, Holds, At
<1>1. CASE ~busy'
  BY <1>1 DEF BusyHasOwner
<1>2. CASE busy'
  <2>1. PICK f \in Calls : Holds(f)
    BY <1>2 DEF BusyHasOwner
  <2>2. Holds(f)'
    BY <2>1 DEF Owns
  <2>3. QED
    BY <2>2 DEF BusyHasOwner
<1>3. QED
  BY <1>1, <1>2

LEMMA OwnerCall ==
  ASSUME TypeOK, BusyHasOwner, Droppable = {},
         NEW e \in Calls, CallStep(e) \/ WatcherEnds(e) \/ Client(e)
  PROVE  BusyHasOwner'
<1> USE DEF At, session, Holds, Station, BeforeAsking, Waiting, PastTheGate, Ended
<1>1. CASE Issue(e) \/ AcquireFails(e)
  BY <1>1, OwnerMove DEF Issue, AcquireFails, Owns
<1>2. CASE Acquire(e)
  <2>1. Owns(e)'
    BY <1>2 DEF Acquire, Goto, Owns, TypeOK
  <2>2. QED
    BY <2>1 DEF BusyHasOwner
<1>3. CASE CheckGate(e)
  <2>1. PICK station \in {"register", "permit", "write"} : Goto(e, station)
    BY <1>3 DEF CheckGate, Pass
  <2>2. QED
    BY <1>3, <2>1, OwnerMove DEF CheckGate
<1>4. CASE ConsumePermit(e) \/ NoPermit(e) \/ GrantedWithoutAsking(e) \/ CannotAsk(e)
             \/ Register(e)
  BY <1>4, OwnerMove DEF ConsumePermit, NoPermit, GrantedWithoutAsking, CannotAsk,
                         Register, Pass
<1>5. CASE PollAnswered(e)
  <2>1. PICK station \in {"granted", "denied"} : Goto(e, station)
    BY <1>5 DEF PollAnswered
  <2>2. QED
    BY <1>5, <2>1, OwnerMove DEF PollAnswered
<1>6. CASE PollDeadline(e) \/ Granted(e) \/ Denied(e) \/ Park(e)
  BY <1>6, OwnerMove DEF PollDeadline, Granted, Denied, Park, Pass
<1>7. CASE Write(e)
  <2>1. PICK station \in {"running", "watching"} : Goto(e, station)
    BY <1>7 DEF Write
  <2>2. QED
    BY <1>7, <2>1, OwnerMove DEF Write
<1>8. CASE WriteFails(e) \/ Finish(e) \/ WatcherEnds(e) \/ Cancel(e)
  BY <1>8, OwnerMove DEF WriteFails, Finish, WatcherEnds, Cancel
<1>9. CASE Release(e) \/ CancelReleases(e)
  BY <1>9 DEF Release, CancelReleases, BusyHasOwner
<1>10. CASE HangUp(e)
  BY <1>10 DEF HangUp
<1>11. QED
  BY <1>1, <1>2, <1>3, <1>4, <1>5, <1>6, <1>7, <1>8, <1>9, <1>10 DEF CallStep, Client

LEMMA OwnerOperator ==
  ASSUME BusyHasOwner, Operator \/ Expire \/ Close
  PROVE  BusyHasOwner'
<1>1. pc' = pc
  BY DEF Operator, SetControl, Arm, Disarm, DecideTooLate, Decide, Revoke, Expire, Close
<1>2. busy' = busy \/ busy' = FALSE
  BY DEF Operator, SetControl, Arm, Disarm, DecideTooLate, Decide, Revoke, Expire, Close
<1>3. QED
  BY <1>1, <1>2 DEF BusyHasOwner, Owns, At

\* As long as no client hangs up, a session is busy only while some call is on
\* its way to term_release_execute, or a cancellation is: cancelled calls,
\* background commands and closed sessions included.
THEOREM BusyIsOwned ==
  ASSUME Droppable = {}
  PROVE  Spec => []BusyHasOwner
<1>1. Init => TypeOK /\ BusyHasOwner
  BY InitType DEF Init, BusyHasOwner
<1>2. TypeOK /\ BusyHasOwner /\ [Next]_vars => (TypeOK /\ BusyHasOwner)'
  <2>1. SUFFICES ASSUME TypeOK, BusyHasOwner, [Next]_vars
                 PROVE  TypeOK' /\ BusyHasOwner'
    OBVIOUS
  <2>2. CASE UNCHANGED vars
    BY <2>1, <2>2 DEF TypeOK, BusyHasOwner, Owns, At, vars
  <2>3. CASE Next
    BY <2>1, <2>3, CallType, OperatorType, OwnerCall, OwnerOperator DEF Next
  <2>4. QED
    BY <2>1, <2>2, <2>3
<1>3. QED
  BY <1>1, <1>2, PTL DEF Spec

-----------------------------------------------------------------------------
(***************************************************************************)
(* A question that turns others away is waited for, when calls are left to *)
(* run: whoever leaves its question behind has cleared or parked it.       *)
(***************************************************************************)
\* Nothing but the calls' places has changed, or the question is no longer in
\* use, or it is that of the call that moves.
LEMMA WaiterMove ==
  ASSUME TypeOK, QuestionHasWaiter, NEW e \in Calls, NEW station \in Station,
         Goto(e, station),
         \/ ~QuestionInUse'
         \/ pending' = pending /\ (pc[e] \in Waiting /\ pending.id = e => station \in Waiting)
         \/ pending'.id = e /\ station \in Waiting
  PROVE  QuestionHasWaiter'
BY DEF TypeOK, Goto, QuestionHasWaiter, QuestionInUse, Request

LEMMA WaiterCall ==
  ASSUME TypeOK, QuestionHasWaiter, Cancellable = {}, Droppable = {},
         NEW e \in Calls, CallStep(e) \/ WatcherEnds(e) \/ Client(e)
  PROVE  QuestionHasWaiter'
<1> USE DEF At, session, Station, BeforeAsking, Waiting, PastTheGate, Ended
<1>1. CASE Issue(e) \/ Acquire(e) \/ AcquireFails(e) \/ NoPermit(e) \/ ConsumePermit(e)
             \/ GrantedWithoutAsking(e) \/ CannotAsk(e)
  BY <1>1, WaiterMove DEF Issue, Acquire, AcquireFails, NoPermit, ConsumePermit,
                          GrantedWithoutAsking, CannotAsk, Pass
<1>2. CASE CheckGate(e)
  <2>1. PICK station \in {"register", "permit", "write"} : Goto(e, station)
    BY <1>2 DEF CheckGate, Pass
  <2>2. QED
    BY <1>2, <2>1, WaiterMove DEF CheckGate
<1>3. CASE Register(e)
  BY <1>3, WaiterMove DEF Register
<1>4. CASE PollAnswered(e)
  <2>1. PICK station \in {"granted", "denied"} : Goto(e, station)
    BY <1>4 DEF PollAnswered
  <2>2. QED
    BY <1>4, <2>1, WaiterMove DEF PollAnswered
<1>5. CASE PollDeadline(e)
  BY <1>5, WaiterMove DEF PollDeadline
<1>6. CASE Granted(e) \/ Denied(e)
  <2>1. ~QuestionInUse' \/ (pending' = pending /\ (pending # NoRequest => pending.id # e))
    BY <1>6 DEF Granted, Denied, ClearOwn, Registered, QuestionInUse
  <2>2. PICK station \in {"write", "releasing"} : Goto(e, station)
    BY <1>6 DEF Granted, Denied, Pass
  <2>3. QED
    BY <2>1, <2>2, WaiterMove DEF QuestionInUse
<1>7. CASE Park(e)
  <2>1. ~QuestionInUse' \/ (pending' = pending /\ (pending # NoRequest => pending.id # e))
    BY <1>7 DEF Park, Registered, Parked, QuestionInUse, TypeOK, Request
  <2>2. QED
    BY <1>7, <2>1, WaiterMove DEF Park, QuestionInUse
<1>8. CASE Write(e)
  <2>1. PICK station \in {"running", "watching"} : Goto(e, station)
    BY <1>8 DEF Write
  <2>2. QED
    BY <1>8, <2>1, WaiterMove DEF Write
<1>9. CASE WriteFails(e) \/ Finish(e) \/ WatcherEnds(e) \/ Release(e) \/ CancelReleases(e)
  BY <1>9, WaiterMove DEF WriteFails, Finish, WatcherEnds, Release, CancelReleases
<1>10. CASE Cancel(e) \/ HangUp(e)
  BY <1>10 DEF Cancel, HangUp
<1>11. QED
  BY <1>1, <1>2, <1>3, <1>4, <1>5, <1>6, <1>7, <1>8, <1>9, <1>10 DEF CallStep, Client

LEMMA WaiterOperator ==
  ASSUME TypeOK, QuestionHasWaiter, Operator \/ Expire \/ Close
  PROVE  QuestionHasWaiter'
<1>1. pc' = pc
  BY DEF Operator, SetControl, Arm, Disarm, DecideTooLate, Decide, Revoke, Expire, Close
<1>2. QuestionInUse' => QuestionInUse /\ pending'.id = pending.id
  <2>1. CASE SetControl \/ Arm \/ Close \/ (\E ws : Revoke(ws))
    BY <2>1 DEF SetControl, Arm, Close, Revoke, QuestionInUse
  <2>2. CASE Disarm \/ Expire
    BY <2>2 DEF Disarm, Expire, QuestionInUse, TypeOK, Request
  <2>3. ASSUME NEW id \in Calls, NEW answer \in {"yes", "always", "no"},
               DecideTooLate(id) \/ Decide(id, answer)
        PROVE  ~QuestionInUse'
    BY <2>3 DEF DecideTooLate, Decide, Decidable, Registered, QuestionInUse, TypeOK, Request
  <2>4. QED
    BY <2>1, <2>2, <2>3 DEF Operator
<1>3. QED
  BY <1>1, <1>2 DEF QuestionHasWaiter

\* With calls that are neither cancelled nor hung up on, a question that makes
\* other calls fail has a call that still waits for its answer.
THEOREM QuestionsAreWaitedFor ==
  ASSUME Cancellable = {}, Droppable = {}
  PROVE  Spec => []QuestionHasWaiter
<1>1. Init => TypeOK /\ QuestionHasWaiter
  BY InitType DEF Init, QuestionHasWaiter, QuestionInUse
<1>2. TypeOK /\ QuestionHasWaiter /\ [Next]_vars => (TypeOK /\ QuestionHasWaiter)'
  <2>1. SUFFICES ASSUME TypeOK, QuestionHasWaiter, [Next]_vars
                 PROVE  TypeOK' /\ QuestionHasWaiter'
    OBVIOUS
  <2>2. CASE UNCHANGED vars
    BY <2>1, <2>2 DEF TypeOK, QuestionHasWaiter, QuestionInUse, vars
  <2>3. CASE Next
    BY <2>1, <2>3, CallType, OperatorType, WaiterCall, WaiterOperator DEF Next
  <2>4. QED
    BY <2>1, <2>2, <2>3
<1>3. QED
  BY <1>1, <1>2, PTL DEF Spec
=============================================================================
