----------------------------- MODULE FetchRetry -----------------------------
(***************************************************************************)
(* One upstream call of the gateway: fetchWithRetry of                     *)
(* src/gateway/src/reliability.ts under any policy its callers may pass,   *)
(* and what relayUpstreamResult of plugins/translate.ts makes of its       *)
(* answer.  The upstream may answer or fail anew at every attempt.         *)
(*                                                                         *)
(* A response is reduced to the class the code tells it apart by.  Waiting *)
(* times are left out: the property of interest is what is sent again and  *)
(* which answer is handed back, not when.                                  *)
(*                                                                         *)
(* A definition named X_Y is X with one plausible mistake in it; no        *)
(* specification uses it.  The properties are shown to notice it.          *)
(***************************************************************************)
EXTENDS Naturals, Sequences, FiniteSets

CONSTANT MaxAttempts   \* the largest `attempts` of any policy (10 in the code)

AttemptsAssumption == MaxAttempts \in Nat \ {0}

\* 2xx, 4xx, 429, 502 or 503, any other 5xx
Responses == {"ok", "refused", "limited", "gateway", "server"}
Throws == {"timeout", "network"}

Policy == [attempts: 1..MaxAttempts, idempotent: BOOLEAN, retry502: BOOLEAN,
           inspects: BOOLEAN]

Nothing == "none"

VARIABLES
  policy,   \* the options of the call
  attempt,  \* the loop's counter
  last,     \* the last response, `null` before the first
  detail,   \* the kind of failure `detail` tells, "" for none
  stage,    \* "send", "judge", "returned", "relayed"
  answer,   \* the `response` handed back
  recorded, \* what the caller tells the breaker: "nothing", "failure", "success"
  sent      \* history: what came of every attempt, in order

vars == <<policy, attempt, last, detail, stage, answer, recorded, sent>>

Details == {"", "in-band", "status"} \cup Throws

Outcome == Responses \cup {Nothing}

TypeOK ==
  /\ policy \in Policy
  /\ attempt \in 1..MaxAttempts
  /\ last \in Outcome /\ answer \in Outcome
  /\ detail \in Details
  /\ stage \in {"send", "judge", "returned", "relayed"}
  /\ recorded \in {"nothing", "failure", "success"}
  /\ sent \in Seq(Responses \cup Throws)

Init ==
  /\ policy \in Policy
  /\ attempt = 1 /\ last = Nothing /\ detail = ""
  /\ stage = "send" /\ answer = Nothing /\ recorded = "nothing"
  /\ sent = <<>>

Returns(response, why) ==
  /\ stage' = "returned"
  /\ answer' = response
  /\ detail' = why
  /\ UNCHANGED <<policy, attempt, recorded, sent>>

RetriesOr_OneMore(response, why) ==
  IF attempt <= policy.attempts
    THEN /\ attempt' = attempt + 1
         /\ stage' = "send"
         /\ detail' = why
         /\ UNCHANGED <<policy, answer, recorded, sent>>
    ELSE Returns(response, why)

\* Another attempt within the budget, else `response` is the answer.
RetriesOr(response, why) ==
  IF attempt < policy.attempts
    THEN /\ attempt' = attempt + 1
         /\ stage' = "send"
         /\ detail' = why
         /\ UNCHANGED <<policy, answer, recorded, sent>>
    ELSE Returns(response, why)

Answered(c) ==
  /\ stage = "send"
  /\ last' = c
  /\ sent' = Append(sent, c)
  /\ stage' = "judge"
  /\ UNCHANGED <<policy, attempt, detail, answer, recorded>>

\* fetchWithTimeout throws: the loop ends, and the answer is the response of
\* an earlier attempt if there was one.
Threw(t) ==
  /\ stage = "send"
  /\ sent' = Append(sent, t)
  /\ stage' = "returned"
  /\ answer' = last /\ detail' = t
  /\ UNCHANGED <<policy, attempt, last, recorded>>

\* A 2xx passes, unless the caller's inspection rejects it.
Accept ==
  /\ stage = "judge" /\ last = "ok"
  /\ Returns(last, "")
  /\ UNCHANGED last

\* The rejected response stays in `last`.
Reject ==
  /\ stage = "judge" /\ last = "ok" /\ policy.inspects
  /\ RetriesOr(Nothing, "in-band")
  /\ UNCHANGED last

\* A status the caller must see.
PassOn ==
  /\ stage = "judge" /\ last = "refused"
  /\ Returns(last, "")
  /\ UNCHANGED last

MayRetry5xx_Wide(c) == policy.idempotent \/ policy.retry502

\* A 5xx may have been billed: re-sent only if the caller vouches for it.
MayRetry5xx(c) ==
  CASE c = "gateway" -> policy.idempotent \/ policy.retry502
    [] c = "server" -> policy.idempotent

Transient ==
  \/ last = "limited"
  \/ last \in {"gateway", "server"} /\ MayRetry5xx(last)

Retry ==
  /\ stage = "judge" /\ Transient
  /\ RetriesOr(last, "status")
  /\ UNCHANGED last

GiveUp ==
  /\ stage = "judge" /\ last \in {"gateway", "server"} /\ ~Transient
  /\ Returns(last, "status")
  /\ UNCHANGED last

-----------------------------------------------------------------------------
(* The caller                                                              *)

ChannelDown_AnyFailure == detail # ""
ChannelDown == detail \in Throws

\* relayUpstreamResult on the og route.
Relay ==
  /\ stage = "returned"
  /\ stage' = "relayed"
  /\ recorded' = CASE answer = Nothing -> "failure"
                   [] answer = "ok" -> "success"
                   [] answer \notin {Nothing, "ok"} /\ ChannelDown -> "failure"
                   [] OTHER -> "nothing"
  /\ UNCHANGED <<policy, attempt, last, detail, answer, sent>>

Next ==
  \/ \E c \in Responses : Answered(c)
  \/ \E t \in Throws : Threw(t)
  \/ Accept \/ Reject \/ PassOn \/ Retry \/ GiveUp
  \/ Relay

Spec == Init /\ [][Next]_vars

-----------------------------------------------------------------------------
(* Properties                                                              *)

\* What a processed request may have cost: anything but a 429, a 502 or 503
\* the caller says is turned away before processing, or a 2xx that inspection
\* rejected (a retry the caller asked for).
MayBeBilled(outcome) ==
  CASE outcome = "limited" -> FALSE
    [] outcome = "gateway" -> ~policy.retry502
    [] outcome = "ok" -> ~policy.inspects
    [] OTHER -> TRUE

\* The billing guard over the whole call, however its attempts went: unless
\* the caller says the request is idempotent, at most one of the requests it
\* sent may have been billed, and it was the last.
BilledAtMostOnce ==
  ~policy.idempotent => \A n \in DOMAIN sent : MayBeBilled(sent[n]) => n = Len(sent)

\* What the breaker is told without inspection: a failure exactly when the last
\* attempt threw, a success exactly when it was answered with a 2xx
\* (reliability.ts:286-297).
BreakerHearsTheLastAttempt ==
  stage = "relayed" /\ ~policy.inspects =>
    /\ (recorded = "failure") = (sent[Len(sent)] \in Throws)
    /\ (recorded = "success") = (sent[Len(sent)] = "ok")
=============================================================================
