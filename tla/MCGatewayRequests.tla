------------------------- MODULE MCGatewayRequests -------------------------
(***************************************************************************)
(* A request's way through the gateway for TLC: the limiter of its address *)
(* (RateLimiter), the breaker of its channel (Breaker) and the retries of  *)
(* its upstream call (FetchRetry).  The three share no state, so a         *)
(* behaviour moves one of them and leaves the others in an initial state;  *)
(* which one is chosen at the start.                                       *)
(*                                                                         *)
(* The breaker's durations keep the order of the code's: 1, 2, 3 and 6     *)
(* ticks for 5, 45, 60 and 600 seconds.  Its two requests share an         *)
(* isolate: a report whose answer is lost changes the object without       *)
(* touching the cache, as a request of another isolate would.  Four        *)
(* attempts are the longest policy but the lottery's ten, which differs in *)
(* its pacing only.  Four requests on two isolates overrun a budget of two *)
(* on either.                                                              *)
(***************************************************************************)
EXTENDS Breaker

CONSTANTS r1, r2, i1, MaxAttempts, Callers, Workers, Limit, MaxEvictions

OneIsolate == [r \in Requests |-> i1]

VARIABLES
  part,
  policy, attempt, last, detail, stage, answer, recorded, sent,
  kvSeed, counters, kv, ratePc, host, cur, admitted, refused, sights, evictions

Upstream == INSTANCE FetchRetry
Limiter == INSTANCE RateLimiter WITH Requests <- Callers, Isolates <- Workers, pc <- ratePc

ASSUME UpstreamAssumptions == Upstream!AttemptsAssumption

ASSUME LimiterAssumptions ==
  Limiter!RequestsAssumption /\ Limiter!LimitAssumption /\ Limiter!EvictionsAssumption

upstreamVars == <<policy, attempt, last, detail, stage, answer, recorded, sent>>
limiterVars == <<kvSeed, counters, kv, ratePc, host, cur, admitted, refused, sights, evictions>>
allVars == <<part, vars, upstreamVars, limiterVars>>

Moves(p) == part = p /\ UNCHANGED part

\* Of a part that does not move one initial state is enough.
MCInit ==
  /\ part \in {"breaker", "upstream", "limiter"}
  /\ Init
  /\ Upstream!Init
  /\ part # "upstream" => policy = CHOOSE p \in Upstream!Policy : TRUE
  /\ Limiter!Init
  /\ part # "limiter" => ~kvSeed /\ host = [c \in Callers |-> CHOOSE w \in Workers : TRUE]

MCNext ==
  \/ Moves("breaker") /\ Next /\ UNCHANGED <<upstreamVars, limiterVars>>
  \/ Moves("upstream") /\ Upstream!Next /\ UNCHANGED <<vars, limiterVars>>
  \/ Moves("limiter") /\ Limiter!Next /\ UNCHANGED <<vars, upstreamVars>>

\* The fairness of Breaker, for the behaviours that are its own.
MCSpec ==
  /\ MCInit /\ [][MCNext]_allVars
  /\ WF_vars(part = "breaker" /\ Tick)

\* The types of the three parts.
PartsTypeOK == TypeOK /\ Upstream!TypeOK /\ Limiter!TypeOK

\* See FetchRetry.
BilledAtMostOnce == Upstream!BilledAtMostOnce
BreakerHearsTheLastAttempt == Upstream!BreakerHearsTheLastAttempt

\* See RateLimiter.
NoEarlyRefusal == Limiter!NoEarlyRefusal
OneBudgetPerSight == Limiter!OneBudgetPerSight
=============================================================================
