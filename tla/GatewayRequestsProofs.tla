------------------------ MODULE GatewayRequestsProofs ------------------------
(***************************************************************************)
(* Proofs about a request's way through the gateway: of FetchRetry for any *)
(* budget of attempts, of RateLimiter for any finite number of requests,   *)
(* any limit and any number of isolates, and of the composition that the   *)
(* model checker runs.  Breaker's are in BreakerProofs.                    *)
(***************************************************************************)
EXTENDS MCGatewayRequests, BreakerProofs, FiniteSetTheorems

(***************************************************************************)
(* Type correctness.                                                       *)
(***************************************************************************)
LEMMA PolicyType ==
  ASSUME policy \in Upstream!Policy
  PROVE  policy.attempts \in 1..MaxAttempts
  BY DEF Upstream!Policy

LEMMA UpstreamRetryType ==
  ASSUME Upstream!TypeOK, NEW r \in Upstream!Outcome, NEW why \in Upstream!Details,
         Upstream!RetriesOr(r, why), UNCHANGED last
  PROVE  Upstream!TypeOK'
<1>1. attempt < policy.attempts => attempt + 1 \in 1..MaxAttempts
  BY PolicyType, UpstreamAssumptions DEF Upstream!TypeOK, Upstream!AttemptsAssumption
<1>2. CASE attempt < policy.attempts
  BY <1>1, <1>2 DEF Upstream!RetriesOr, Upstream!TypeOK
<1>3. CASE ~(attempt < policy.attempts)
  BY <1>3 DEF Upstream!RetriesOr, Upstream!Returns, Upstream!TypeOK
<1>4. QED
  BY <1>2, <1>3

LEMMA UpstreamStepType ==
  ASSUME Upstream!TypeOK, [Upstream!Next]_(Upstream!vars)
  PROVE  Upstream!TypeOK'
<1>1. ASSUME NEW c \in Upstream!Responses, Upstream!Answered(c) PROVE Upstream!TypeOK'
  BY <1>1 DEF Upstream!Answered, Upstream!TypeOK, Upstream!Outcome
<1>2. ASSUME NEW t \in Upstream!Throws, Upstream!Threw(t) PROVE Upstream!TypeOK'
  <2>1. sent' \in Seq(Upstream!Responses \cup Upstream!Throws)
    BY <1>2 DEF Upstream!Threw, Upstream!TypeOK
  <2>2. detail' \in Upstream!Details
    BY <1>2 DEF Upstream!Threw, Upstream!Details
  <2>3. QED
    BY <1>2, <2>1, <2>2 DEF Upstream!Threw, Upstream!TypeOK
<1>3. {"", "in-band", "status"} \subseteq Upstream!Details
  BY DEF Upstream!Details
<1>4. CASE Upstream!Accept \/ Upstream!PassOn \/ Upstream!GiveUp
  BY <1>3, <1>4 DEF Upstream!Accept, Upstream!PassOn, Upstream!GiveUp, Upstream!Returns,
                    Upstream!TypeOK
<1>5. CASE Upstream!Reject
  BY <1>3, <1>5, UpstreamRetryType DEF Upstream!Reject, Upstream!Outcome
<1>6. CASE Upstream!Retry
  BY <1>3, <1>6, UpstreamRetryType DEF Upstream!Retry, Upstream!TypeOK
<1>7. CASE Upstream!Relay
  <2>1. recorded' \in {"nothing", "failure", "success"}
    BY <1>7 DEF Upstream!Relay
  <2>2. QED
    BY <1>7, <2>1 DEF Upstream!Relay, Upstream!TypeOK
<1>8. CASE UNCHANGED Upstream!vars
  BY <1>8 DEF Upstream!vars, Upstream!TypeOK
<1>9. QED
  BY <1>1, <1>2, <1>4, <1>5, <1>6, <1>7, <1>8 DEF Upstream!Next

LEMMA UpstreamTyped ==
  Upstream!Spec => []Upstream!TypeOK
<1>1. Upstream!Init => Upstream!TypeOK
  <2>1. 1 \in 1..MaxAttempts
    BY UpstreamAssumptions DEF Upstream!AttemptsAssumption
  <2>2. <<>> \in Seq(Upstream!Responses \cup Upstream!Throws)
    OBVIOUS
  <2>3. Upstream!Nothing \in Upstream!Outcome /\ "" \in Upstream!Details
    BY DEF Upstream!Outcome, Upstream!Details
  <2>4. QED
    BY <2>1, <2>2, <2>3 DEF Upstream!Init, Upstream!TypeOK
<1>2. Upstream!TypeOK /\ [Upstream!Next]_(Upstream!vars) => Upstream!TypeOK'
  BY UpstreamStepType
<1>3. QED
  BY <1>1, <1>2, PTL DEF Upstream!Spec

(***************************************************************************)
(* What was sent before the last attempt was sent again because it cannot  *)
(* have been billed; while a request is being sent, that is true of all    *)
(* that was sent.  An answer is the last that came.                        *)
(***************************************************************************)
Sent == sent # <<>>
LastSent == sent[Len(sent)]

Unbilled(n) == ~policy.idempotent => ~Upstream!MayBeBilled(sent[n])

BillInv ==
  /\ stage # "send" => Sent
  /\ stage = "judge" => last = LastSent
  /\ \A n \in DOMAIN sent : stage = "send" \/ n # Len(sent) => Unbilled(n)

LEMMA BillStep ==
  ASSUME Upstream!TypeOK, BillInv, [Upstream!Next]_(Upstream!vars)
  PROVE  BillInv'
<1>a. sent \in Seq(Upstream!Responses \cup Upstream!Throws)
  BY DEF Upstream!TypeOK
<1> USE DEF BillInv, Sent, LastSent, Unbilled, Upstream!MayBeBilled
<1>1. ASSUME NEW c \in Upstream!Responses, Upstream!Answered(c) PROVE BillInv'
  BY <1>a, <1>1 DEF Upstream!Answered
<1>2. ASSUME NEW t \in Upstream!Throws, Upstream!Threw(t) PROVE BillInv'
  BY <1>a, <1>2 DEF Upstream!Threw
<1>3. CASE Upstream!Accept \/ Upstream!PassOn \/ Upstream!GiveUp
  BY <1>3 DEF Upstream!Accept, Upstream!PassOn, Upstream!GiveUp, Upstream!Returns
<1>4. CASE Upstream!Reject
  <2>1. Unbilled(Len(sent))
    BY <1>4 DEF Upstream!Reject
  <2>2. QED
    BY <1>4, <2>1 DEF Upstream!Reject, Upstream!RetriesOr, Upstream!Returns
<1>5. CASE Upstream!Retry
  <2>1. Unbilled(Len(sent))
    BY <1>5 DEF Upstream!Retry, Upstream!Transient, Upstream!MayRetry5xx
  <2>2. QED
    BY <1>5, <2>1 DEF Upstream!Retry, Upstream!RetriesOr, Upstream!Returns
<1>6. CASE Upstream!Relay
  BY <1>6 DEF Upstream!Relay
<1>7. CASE UNCHANGED Upstream!vars
  BY <1>7 DEF Upstream!vars
<1>8. QED
  BY <1>1, <1>2, <1>3, <1>4, <1>5, <1>6, <1>7 DEF Upstream!Next

\* However the attempts of a call go, at most the last of its requests may have
\* been billed, unless the caller says the request is idempotent.
THEOREM BilledOnce ==
  Upstream!Spec => []BilledAtMostOnce
<1>1. Upstream!Init => BillInv
  BY DOMAIN <<>> = {} DEF Upstream!Init, BillInv
<1>2. Upstream!TypeOK /\ BillInv /\ [Upstream!Next]_(Upstream!vars) => BillInv'
  BY BillStep
<1>3. BillInv => BilledAtMostOnce
  BY DEF BillInv, BilledAtMostOnce, Upstream!BilledAtMostOnce, Unbilled
<1>4. QED
  BY <1>1, <1>2, <1>3, UpstreamTyped, PTL DEF Upstream!Spec

(***************************************************************************)
(* Without inspection a 2xx is never sent again, so what the loop keeps    *)
(* while it sends is no 2xx, and what it hands back tells how the last     *)
(* attempt went.                                                           *)
(***************************************************************************)
TellsTheLast ==
  /\ LastSent \in Upstream!Throws
       <=> answer = Upstream!Nothing \/ (answer # "ok" /\ Upstream!ChannelDown)
  /\ LastSent = "ok" <=> answer = "ok"

HearInv ==
  ~policy.inspects =>
    /\ stage = "send" => last # "ok"
    /\ stage = "returned" => TellsTheLast
    /\ stage = "relayed" =>
         /\ recorded = "failure" <=> LastSent \in Upstream!Throws
         /\ recorded = "success" <=> LastSent = "ok"

LEMMA HearStep ==
  ASSUME Upstream!TypeOK, BillInv, HearInv, [Upstream!Next]_(Upstream!vars)
  PROVE  HearInv'
<1>a. /\ sent \in Seq(Upstream!Responses \cup Upstream!Throws)
      /\ last \in Upstream!Outcome
  BY DEF Upstream!TypeOK
<1>b. stage = "judge" => last = LastSent
  BY DEF BillInv
<1> USE DEF Upstream!Outcome, Upstream!Responses, Upstream!Throws, Upstream!Nothing,
            LastSent, HearInv, TellsTheLast, Upstream!ChannelDown
<1>1. ASSUME NEW c \in Upstream!Responses, Upstream!Answered(c) PROVE HearInv'
  BY <1>1 DEF Upstream!Answered
<1>2. ASSUME NEW t \in Upstream!Throws, Upstream!Threw(t) PROVE HearInv'
  <2>1. LastSent' = t
    BY <1>a, <1>2 DEF Upstream!Threw
  <2>2. QED
    BY <1>a, <1>2, <2>1 DEF Upstream!Threw
<1>3. CASE Upstream!Accept
  BY <1>a, <1>b, <1>3 DEF Upstream!Accept, Upstream!Returns
<1>4. CASE Upstream!Reject
  BY <1>4 DEF Upstream!Reject, Upstream!RetriesOr, Upstream!Returns
<1>5. CASE Upstream!PassOn
  BY <1>a, <1>b, <1>5 DEF Upstream!PassOn, Upstream!Returns
<1>6. CASE Upstream!Retry
  BY <1>a, <1>b, <1>6 DEF Upstream!Retry, Upstream!Transient, Upstream!RetriesOr,
                               Upstream!Returns
<1>7. CASE Upstream!GiveUp
  BY <1>a, <1>b, <1>7 DEF Upstream!GiveUp, Upstream!Returns
<1>8. CASE Upstream!Relay
  BY <1>8 DEF Upstream!Relay
<1>9. CASE UNCHANGED Upstream!vars
  BY <1>9 DEF Upstream!vars
<1>10. QED
  BY <1>1, <1>2, <1>3, <1>4, <1>5, <1>6, <1>7, <1>8, <1>9 DEF Upstream!Next

\* Without inspection the breaker hears of a failure exactly when the last
\* attempt threw, of a success exactly when it was answered with a 2xx.
THEOREM BreakerHears ==
  Upstream!Spec => []BreakerHearsTheLastAttempt
<1>1. Upstream!Init => BillInv /\ HearInv
  BY DOMAIN <<>> = {} DEF Upstream!Init, BillInv, HearInv, Upstream!Nothing
<1>2. Upstream!TypeOK /\ BillInv /\ HearInv /\ [Upstream!Next]_(Upstream!vars)
        => BillInv' /\ HearInv'
  BY BillStep, HearStep
<1>3. BillInv /\ HearInv => BreakerHearsTheLastAttempt
  BY DEF HearInv, BreakerHearsTheLastAttempt, Upstream!BreakerHearsTheLastAttempt, LastSent
<1>4. QED
  BY <1>1, <1>2, <1>3, UpstreamTyped, PTL DEF Upstream!Spec

-----------------------------------------------------------------------------
(***************************************************************************)
(* The limiter.  A request is decided once, and every count of the key, in *)
(* an isolate, in KV or on its way there, counts decided requests.         *)
(***************************************************************************)
Decided == admitted \cup refused

LimiterBase ==
  /\ kvSeed \in BOOLEAN
  /\ counters \in [Workers -> Nat] /\ kv \in Nat
  /\ ratePc \in [Callers -> {"new", "seeding", "storing", "done"}]
  /\ host \in [Callers -> Workers]
  /\ cur \in [Callers -> Nat]
  /\ admitted \subseteq Callers /\ refused \subseteq Callers \ admitted
  /\ sights \in [Workers -> Nat]
  /\ evictions \in [Workers -> 0..MaxEvictions]
  /\ \A c \in Decided : ratePc[c] \in {"storing", "done"}

\* The instance has its own copies of these two.
LEMMA SameCardinality ==
  ASSUME NEW S
  PROVE  /\ Limiter!IsFiniteSet(S) <=> IsFiniteSet(S)
         /\ Limiter!Cardinality(S) = Cardinality(S)
<1>1. Limiter!IsFiniteSet(S) <=> IsFiniteSet(S)
  BY DEF Limiter!IsFiniteSet, IsFiniteSet
<1>2. Limiter!Cardinality(S) = Cardinality(S)
  BY Zenon DEF Limiter!Cardinality, Cardinality
<1>3. QED
  BY <1>1, <1>2

LEMMA Finite ==
  ASSUME NEW S, S \subseteq Callers
  PROVE  IsFiniteSet(S) /\ Cardinality(S) \in Nat /\ Cardinality(S) <= Cardinality(Callers)
<1>1. IsFiniteSet(Callers)
  BY LimiterAssumptions, SameCardinality DEF Limiter!RequestsAssumption
<1>2. QED
  BY <1>1, FS_Subset, FS_CardinalityType

LEMMA Limits ==
  /\ Limit \in Nat /\ Limit > 0 /\ MaxEvictions \in Nat
  /\ Cardinality(Callers) \in Nat
  BY LimiterAssumptions, Finite DEF Limiter!LimitAssumption, Limiter!EvictionsAssumption

LEMMA Decides ==
  ASSUME LimiterBase, NEW c \in Callers, ratePc[c] \in {"new", "seeding"},
         NEW n \in Nat, Limiter!Decide(c, n >= Limit)
  PROVE  /\ c \notin Decided /\ Decided' = Decided \cup {c}
         /\ admitted' \subseteq Callers /\ refused' \subseteq Callers \ admitted'
         /\ Cardinality(Decided') = Cardinality(Decided) + 1
         /\ n >= Limit => admitted' = admitted
         /\ n < Limit => Cardinality(admitted') = Cardinality(admitted) + 1
<1>1. c \notin Decided
  BY DEF LimiterBase
<1>2. /\ admitted' = IF n >= Limit THEN admitted ELSE admitted \cup {c}
      /\ refused' = IF n >= Limit THEN refused \cup {c} ELSE refused
  BY DEF Limiter!Decide
<1>3. Decided' = Decided \cup {c}
  BY <1>2 DEF Decided
<1>4. admitted' \subseteq Callers /\ refused' \subseteq Callers \ admitted'
  BY <1>1, <1>2 DEF Decided, LimiterBase
<1>5. /\ IsFiniteSet(Decided) /\ Cardinality(Decided) \in Nat
      /\ IsFiniteSet(admitted) /\ Cardinality(admitted) \in Nat
  BY Finite DEF Decided, LimiterBase
<1>6. Cardinality(Decided') = Cardinality(Decided) + 1
  BY <1>1, <1>3, <1>5, FS_AddElement
<1>7. ASSUME n < Limit PROVE Cardinality(admitted') = Cardinality(admitted) + 1
  <2>1. admitted' = admitted \cup {c} /\ c \notin admitted
    BY <1>1, <1>2, <1>7, Limits DEF Decided
  <2>2. QED
    BY <1>5, <2>1, FS_AddElement
<1>8. QED
  BY <1>1, <1>2, <1>3, <1>4, <1>6, <1>7

(***************************************************************************)
(* A first sight, with or without a seed, is decided on the count it began *)
(* with.                                                                   *)
(***************************************************************************)
SightStep(c, n) ==
  /\ \/ ratePc[c] = "new" /\ ~kvSeed /\ counters[host[c]] = 0 /\ n = 0
        /\ ratePc' = [ratePc EXCEPT ![c] = "done"] /\ UNCHANGED cur
     \/ ratePc[c] = "seeding" /\ n \in 0..kv
        /\ ratePc' = [ratePc EXCEPT ![c] = "storing"] /\ cur' = [cur EXCEPT ![c] = n]
  /\ Limiter!FirstSight(c, n)
  /\ Limiter!Decide(c, n >= Limit)
  /\ UNCHANGED <<kvSeed, kv, host, evictions>>

LEMMA LimiterActions ==
  ASSUME LimiterBase, Limiter!Next
  PROVE  \/ \E c \in Callers : Limiter!Hit(c)
         \/ \E c \in Callers : \E n \in Nat : SightStep(c, n)
         \/ \E c \in Callers : Limiter!Seed(c) \/ Limiter!Store(c)
         \/ \E i \in Workers : Limiter!Evict(i)
<1>1. ASSUME NEW c \in Callers, Limiter!Begin(c) PROVE SightStep(c, 0)
  <2>1. counters[host[c]] = 0
    BY <1>1 DEF Limiter!Begin, Limiter!Seen, LimiterBase
  <2>2. QED
    BY <1>1, <2>1 DEF Limiter!Begin, Limiter!Over, Limiter!Goes, SightStep
<1>2. ASSUME NEW c \in Callers, Limiter!SeedReturns(c) PROVE \E n \in Nat : SightStep(c, n)
  <2>1. PICK n \in 0..kv : /\ Limiter!FirstSight(c, n)
                           /\ cur' = [cur EXCEPT ![c] = n]
                           /\ Limiter!Decide(c, Limiter!OverSeeded(n))
    BY <1>2 DEF Limiter!SeedReturns
  <2>2. n \in Nat
    BY <2>1 DEF LimiterBase
  <2>3. SightStep(c, n)
    BY <1>2, <2>1 DEF Limiter!SeedReturns, Limiter!OverSeeded, Limiter!Goes, SightStep
  <2>4. QED
    BY <2>2, <2>3
<1>3. QED
  BY <1>1, <1>2 DEF Limiter!Next

LEMMA BaseStep ==
  ASSUME LimiterBase, [Limiter!Next]_(Limiter!vars)
  PROVE  LimiterBase'
<1>1. ASSUME NEW c \in Callers, Limiter!Hit(c) PROVE LimiterBase'
  <2>1. /\ admitted' \subseteq Callers /\ refused' \subseteq Callers \ admitted'
        /\ Decided' = Decided \cup {c}
    <3>1. counters[host[c]] \in Nat
      BY DEF LimiterBase
    <3>2. ratePc[c] \in {"new", "seeding"} /\ Limiter!Decide(c, counters[host[c]] >= Limit)
      BY <1>1 DEF Limiter!Hit, Limiter!Over
    <3>3. QED
      BY <3>1, <3>2, Decides
  <2>2. counters' \in [Workers -> Nat]
    BY <1>1 DEF Limiter!Hit, LimiterBase
  <2>3. QED
    BY <1>1, <2>1, <2>2 DEF Limiter!Hit, Limiter!Goes, Limiter!history, LimiterBase
<1>2. ASSUME NEW c \in Callers, NEW n \in Nat, SightStep(c, n) PROVE LimiterBase'
  <2>1. /\ admitted' \subseteq Callers /\ refused' \subseteq Callers \ admitted'
        /\ Decided' = Decided \cup {c}
    <3>1. ratePc[c] \in {"new", "seeding"} /\ Limiter!Decide(c, n >= Limit)
      BY <1>2 DEF SightStep
    <3>2. QED
      BY <3>1, Decides
  <2>2. counters' \in [Workers -> Nat] /\ sights' \in [Workers -> Nat]
    BY <1>2 DEF SightStep, Limiter!FirstSight, LimiterBase
  <2>3. /\ ratePc' \in [Callers -> {"new", "seeding", "storing", "done"}]
        /\ cur' \in [Callers -> Nat]
        /\ \A d \in Callers : ratePc[d] \in {"storing", "done"} \/ d = c
                             => ratePc'[d] \in {"storing", "done"}
    BY <1>2 DEF SightStep, LimiterBase
  <2>4. \A d \in Decided' : ratePc'[d] \in {"storing", "done"}
    BY <2>1, <2>3 DEF LimiterBase, Decided
  <2>5. UNCHANGED <<kvSeed, kv, host, evictions>>
    BY <1>2 DEF SightStep
  <2>6. QED
    BY <2>1, <2>2, <2>3, <2>4, <2>5 DEF LimiterBase
<1>3. ASSUME NEW c \in Callers, Limiter!Seed(c) PROVE LimiterBase'
  BY <1>3 DEF Limiter!Seed, Limiter!Goes, Limiter!stores, Limiter!outcome, Limiter!history,
              LimiterBase, Decided
<1>4. ASSUME NEW c \in Callers, Limiter!Store(c) PROVE LimiterBase'
  BY <1>4 DEF Limiter!Store, Limiter!Goes, Limiter!outcome, Limiter!history,
              LimiterBase, Decided
<1>5. ASSUME NEW i \in Workers, Limiter!Evict(i) PROVE LimiterBase'
  <2>1. counters' \in [Workers -> Nat] /\ evictions' \in [Workers -> 0..MaxEvictions]
    BY <1>5, Limits DEF Limiter!Evict, LimiterBase
  <2>2. QED
    BY <1>5, <2>1 DEF Limiter!Evict, Limiter!outcome, LimiterBase, Decided
<1>6. CASE UNCHANGED Limiter!vars
  BY <1>6 DEF Limiter!vars, Limiter!stores, Limiter!outcome, Limiter!history, LimiterBase,
              Decided
<1>7. QED
  BY <1>1, <1>2, <1>3, <1>4, <1>5, <1>6, LimiterActions

(***************************************************************************)
(* No count is larger than the number of requests decided.                 *)
(***************************************************************************)
CountsInv ==
  LET decided == Cardinality(Decided)
  IN  /\ kv <= decided
      /\ \A i \in Workers : counters[i] <= decided /\ sights[i] <= decided
      /\ \A c \in Callers : /\ cur[c] <= decided
                            /\ ratePc[c] = "storing" => cur[c] + 1 <= decided

LEMMA CountsStep ==
  ASSUME LimiterBase, CountsInv, [Limiter!Next]_(Limiter!vars)
  PROVE  CountsInv'
<1>a. Decided \subseteq Callers /\ Cardinality(Decided) \in Nat
  BY Finite DEF Decided, LimiterBase
<1>1. ASSUME NEW c \in Callers, Limiter!Hit(c) PROVE CountsInv'
  <2>1. Cardinality(Decided') = Cardinality(Decided) + 1
    <3>1. counters[host[c]] \in Nat
      BY DEF LimiterBase
    <3>2. ratePc[c] \in {"new", "seeding"} /\ Limiter!Decide(c, counters[host[c]] >= Limit)
      BY <1>1 DEF Limiter!Hit, Limiter!Over
    <3>3. QED
      BY <3>1, <3>2, Decides
  <2>2. QED
    BY <1>a, <1>1, <2>1 DEF Limiter!Hit, Limiter!Goes, Limiter!history, LimiterBase, CountsInv
<1>2. ASSUME NEW c \in Callers, NEW n \in Nat, SightStep(c, n) PROVE CountsInv'
  <2>1. Cardinality(Decided') = Cardinality(Decided) + 1
    <3>1. ratePc[c] \in {"new", "seeding"} /\ Limiter!Decide(c, n >= Limit)
      BY <1>2 DEF SightStep
    <3>2. QED
      BY <3>1, Decides
  <2>2. n <= Cardinality(Decided)
    BY <1>a, <1>2 DEF SightStep, LimiterBase, CountsInv
  <2>3. QED
    BY <1>a, <1>2, <2>1, <2>2 DEF SightStep, Limiter!FirstSight, LimiterBase, CountsInv
<1>3. ASSUME NEW c \in Callers, Limiter!Seed(c) PROVE CountsInv'
  BY <1>3 DEF Limiter!Seed, Limiter!Goes, Limiter!stores, Limiter!outcome, Limiter!history,
              LimiterBase, CountsInv, Decided
<1>4. ASSUME NEW c \in Callers, Limiter!Store(c) PROVE CountsInv'
  BY <1>4 DEF Limiter!Store, Limiter!Goes, Limiter!outcome, Limiter!history,
              LimiterBase, CountsInv, Decided
<1>5. ASSUME NEW i \in Workers, Limiter!Evict(i) PROVE CountsInv'
  <2>1. /\ \A j \in Workers : counters'[j] \in {0, counters[j]}
        /\ UNCHANGED <<kv, ratePc, cur, Decided, sights>>
    BY <1>5 DEF Limiter!Evict, Limiter!outcome, LimiterBase, Decided
  <2>2. QED
    BY <1>a, <2>1 DEF CountsInv
<1>6. CASE UNCHANGED Limiter!vars
  BY <1>6 DEF Limiter!vars, Limiter!stores, Limiter!outcome, Limiter!history, CountsInv,
              Decided
<1>7. QED
  BY <1>1, <1>2, <1>3, <1>4, <1>5, <1>6, LimiterActions

LEMMA LimiterTyped ==
  Limiter!Spec => [](LimiterBase /\ CountsInv /\ Limiter!TypeOK)
<1>1. Limiter!Init => LimiterBase
  BY Limits DEF Limiter!Init, LimiterBase, Decided
<1>2. Limiter!Init => CountsInv
  <2>1. Limiter!Init => Decided = {}
    BY DEF Limiter!Init, Decided
  <2>2. QED
    BY <2>1, FS_EmptySet DEF Limiter!Init, CountsInv
<1>3. LimiterBase /\ CountsInv => Limiter!TypeOK
  <2>1. SUFFICES ASSUME LimiterBase, CountsInv PROVE Limiter!TypeOK
    OBVIOUS
  <2>2. Cardinality(Decided) \in Nat /\ Cardinality(Decided) <= Cardinality(Callers)
    BY <2>1, Finite DEF Decided, LimiterBase
  <2>3. \A n \in Nat : n <= Cardinality(Decided) => n \in Limiter!Counts
    BY <2>2, Limits, SameCardinality DEF Limiter!Counts
  <2>4. /\ counters \in [Workers -> Limiter!Counts] /\ kv \in Limiter!Counts
        /\ sights \in [Workers -> Limiter!Counts] /\ cur \in [Callers -> Limiter!Counts]
    BY <2>1, <2>3 DEF LimiterBase, CountsInv
  <2>5. QED
    BY <2>1, <2>4 DEF LimiterBase, Limiter!TypeOK
<1>4. LimiterBase /\ CountsInv /\ [Limiter!Next]_(Limiter!vars) => LimiterBase' /\ CountsInv'
  BY BaseStep, CountsStep
<1>5. QED
  BY <1>1, <1>2, <1>3, <1>4, PTL DEF Limiter!Spec

(***************************************************************************)
(* As far as the limit every count of the key counts requests that were    *)
(* let through: the refused ones were not counted, or past the limit.      *)
(***************************************************************************)
Backed(n, S) == Least(n, Limit) <= Cardinality(S)

RefusalInv ==
  /\ \A i \in Workers : Backed(counters[i], admitted)
  /\ Backed(kv, admitted)
  /\ \A c \in Callers : ratePc[c] = "storing" => Backed(cur[c] + 1, admitted)
  /\ refused # {} => Limit <= Cardinality(admitted)

LEMMA DecisionBacked ==
  ASSUME LimiterBase, RefusalInv, NEW c \in Callers, ratePc[c] \in {"new", "seeding"},
         NEW n \in Nat, Backed(n, admitted),
         Limiter!Decide(c, n >= Limit)
  PROVE  /\ \A m \in Nat : Backed(m, admitted) => Backed(m, admitted')
         /\ Backed(n, admitted') /\ Backed(n + 1, admitted')
         /\ refused' # {} => Limit <= Cardinality(admitted')
<1>1. Cardinality(admitted) \in Nat /\ Cardinality(admitted') \in Nat /\ Limit \in Nat
  BY Decides, Finite, Limits DEF LimiterBase
<1>2. CASE n >= Limit
  <2>1. admitted' = admitted
    BY <1>2, Decides
  <2>2. Limit <= Cardinality(admitted)
    BY <1>1, <1>2 DEF Backed, Least
  <2>3. QED
    BY <1>1, <2>1, <2>2 DEF Backed, Least
<1>3. CASE n < Limit
  <2>1. refused' = refused
    BY <1>1, <1>3 DEF Limiter!Decide
  <2>2. n <= Cardinality(admitted) /\ Cardinality(admitted') = Cardinality(admitted) + 1
    BY <1>1, <1>3, Decides DEF Backed, Least
  <2>3. QED
    BY <1>1, <2>1, <2>2 DEF Backed, Least, RefusalInv
<1>4. QED
  BY <1>1, <1>2, <1>3

LEMMA RefusalStep ==
  ASSUME LimiterBase, RefusalInv, [Limiter!Next]_(Limiter!vars)
  PROVE  RefusalInv'
<1>a. /\ counters \in [Workers -> Nat] /\ host \in [Callers -> Workers] /\ kv \in Nat
      /\ cur \in [Callers -> Nat] /\ Limit \in Nat /\ Cardinality(admitted) \in Nat
      /\ ratePc \in [Callers -> {"new", "seeding", "storing", "done"}]
  BY Finite, Limits DEF LimiterBase
<1>1. ASSUME NEW c \in Callers, Limiter!Hit(c) PROVE RefusalInv'
  <2> DEFINE n == counters[host[c]]
  <2>1. /\ \A m \in Nat : Backed(m, admitted) => Backed(m, admitted')
        /\ Backed(n, admitted') /\ Backed(n + 1, admitted')
        /\ refused' # {} => Limit <= Cardinality(admitted')
    <3>1. n \in Nat /\ Backed(n, admitted)
      BY <1>a DEF RefusalInv, Backed
    <3>2. ratePc[c] = "new" /\ Limiter!Decide(c, n >= Limit)
      BY <1>1 DEF Limiter!Hit, Limiter!Over
    <3>3. QED
      BY <3>1, <3>2, DecisionBacked
  <2>2. \A i \in Workers : Backed(counters'[i], admitted')
    <3>1. ASSUME NEW i \in Workers PROVE Backed(counters'[i], admitted')
      <4>1. counters'[i] \in {n, n + 1} \/ counters'[i] = counters[i]
        BY <1>a, <1>1 DEF Limiter!Hit
      <4>2. QED
        BY <1>a, <2>1, <4>1 DEF RefusalInv
    <3>2. QED
      BY <3>1
  <2>3. kv' = kv /\ cur' = cur /\ \A d \in Callers : ratePc'[d] = "storing" => ratePc[d] = "storing"
    BY <1>a, <1>1 DEF Limiter!Hit, Limiter!Goes
  <2>4. QED
    BY <1>a, <2>1, <2>2, <2>3 DEF RefusalInv
<1>2. ASSUME NEW c \in Callers, NEW n \in Nat, SightStep(c, n) PROVE RefusalInv'
  <2>1. /\ \A m \in Nat : Backed(m, admitted) => Backed(m, admitted')
        /\ Backed(n, admitted') /\ Backed(n + 1, admitted')
        /\ refused' # {} => Limit <= Cardinality(admitted')
    <3>1. Backed(n, admitted)
      BY <1>a, <1>2 DEF SightStep, RefusalInv, Backed, Least
    <3>2. ratePc[c] \in {"new", "seeding"} /\ Limiter!Decide(c, n >= Limit)
      BY <1>2 DEF SightStep
    <3>3. QED
      BY <3>1, <3>2, DecisionBacked
  <2>2. \A i \in Workers : Backed(counters'[i], admitted')
    <3>1. ASSUME NEW i \in Workers PROVE Backed(counters'[i], admitted')
      <4>1. counters'[i] \in {n + 1, counters[i]}
        BY <1>a, <1>2 DEF SightStep, Limiter!FirstSight
      <4>2. QED
        BY <1>a, <2>1, <4>1 DEF RefusalInv
    <3>2. QED
      BY <3>1
  <2>3. \A d \in Callers : ratePc'[d] = "storing" => Backed(cur'[d] + 1, admitted')
    <3>1. ASSUME NEW d \in Callers, ratePc'[d] = "storing"
          PROVE  Backed(cur'[d] + 1, admitted')
      <4>1. cur'[d] = n \/ (cur'[d] = cur[d] /\ ratePc[d] = "storing")
        BY <1>a, <1>2, <3>1 DEF SightStep
      <4>2. QED
        BY <1>a, <2>1, <4>1 DEF RefusalInv
    <3>2. QED
      BY <3>1
  <2>4. kv' = kv
    BY <1>2 DEF SightStep
  <2>5. QED
    BY <1>a, <2>1, <2>2, <2>3, <2>4 DEF RefusalInv
<1>3. ASSUME NEW c \in Callers, Limiter!Seed(c) PROVE RefusalInv'
  BY <1>a, <1>3 DEF Limiter!Seed, Limiter!Goes, Limiter!stores, Limiter!outcome, RefusalInv,
                    Backed
<1>4. ASSUME NEW c \in Callers, Limiter!Store(c) PROVE RefusalInv'
  <2>1. /\ kv' \in {kv, cur[c] + 1} /\ ratePc[c] = "storing"
        /\ UNCHANGED <<counters, cur, admitted, refused>>
        /\ \A d \in Callers : ratePc'[d] = "storing" => ratePc[d] = "storing"
    BY <1>a, <1>4 DEF Limiter!Store, Limiter!Goes, Limiter!outcome
  <2>2. QED
    BY <2>1 DEF RefusalInv, Backed
<1>5. ASSUME NEW i \in Workers, Limiter!Evict(i) PROVE RefusalInv'
  <2>1. /\ \A j \in Workers : counters'[j] \in {0, counters[j]}
        /\ UNCHANGED <<kv, ratePc, cur, admitted, refused>>
    BY <1>a, <1>5 DEF Limiter!Evict, Limiter!outcome
  <2>2. QED
    BY <1>a, <2>1 DEF RefusalInv, Backed, Least
<1>6. CASE UNCHANGED Limiter!vars
  BY <1>6 DEF Limiter!vars, Limiter!stores, Limiter!outcome, RefusalInv, Backed
<1>7. QED
  BY <1>1, <1>2, <1>3, <1>4, <1>5, <1>6, LimiterActions

\* Nobody is turned away before the address has had its budget, with any number
\* of requests, isolates, failed or stale reads of KV and evictions.
THEOREM BudgetIsHad ==
  Limiter!Spec => []NoEarlyRefusal
<1>1. Limiter!Init => RefusalInv
  BY FS_EmptySet, Limits DEF Limiter!Init, RefusalInv, Backed, Least
<1>2. LimiterBase /\ RefusalInv /\ [Limiter!Next]_(Limiter!vars) => RefusalInv'
  BY RefusalStep
<1>3. LimiterBase /\ RefusalInv => NoEarlyRefusal
  BY Limits, Finite, SameCardinality
     DEF LimiterBase, RefusalInv, NoEarlyRefusal, Limiter!NoEarlyRefusal
<1>4. QED
  BY <1>1, <1>2, <1>3, LimiterTyped, PTL DEF Limiter!Spec

(***************************************************************************)
(* What an isolate lets through is paid for by its first sights of the     *)
(* key; while it has the key, the last of them is spent as far as its      *)
(* count.  In memory only, a sight but the first follows an eviction.      *)
(***************************************************************************)
Let(i) == {c \in admitted : host[c] = i}

Budget(i) == Limit * sights[i]

BudgetInv ==
  /\ \A i \in Workers :
       /\ Cardinality(Let(i)) <= Budget(i)
       /\ counters[i] > 0 => Cardinality(Let(i)) + Limit <= Budget(i) + Least(counters[i], Limit)
       /\ ~kvSeed => sights[i] <= evictions[i] + (IF counters[i] > 0 THEN 1 ELSE 0)
  /\ ~kvSeed => \A c \in Callers : ratePc[c] \in {"new", "done"}

LEMMA LetGrows ==
  ASSUME LimiterBase, NEW c \in Callers, ratePc[c] \in {"new", "seeding"},
         NEW n \in Nat, Limiter!Decide(c, n >= Limit), host' = host, NEW i \in Workers
  PROVE  /\ Cardinality(Let(i)) \in Nat /\ Cardinality(Let(i)') \in Nat
         /\ host[c] # i \/ n >= Limit => Cardinality(Let(i)') = Cardinality(Let(i))
         /\ Cardinality(Let(i)') <= Cardinality(Let(i)) + 1
<1>1. IsFiniteSet(Let(i)) /\ Cardinality(Let(i)) \in Nat
  BY Finite DEF Let, LimiterBase
<1>2. n \in Nat /\ Limit \in Nat
  BY Limits
<1>3. CASE host[c] # i \/ n >= Limit
  <2>1. Let(i)' = Let(i)
    BY <1>2, <1>3 DEF Limiter!Decide, Let
  <2>2. QED
    BY <1>1, <2>1
<1>4. CASE host[c] = i /\ ~(n >= Limit)
  <2>1. Let(i)' = Let(i) \cup {c} /\ c \notin Let(i)
    <3>1. c \notin admitted
      BY DEF LimiterBase, Decided
    <3>2. admitted' = admitted \cup {c}
      BY <1>4 DEF Limiter!Decide
    <3>3. QED
      BY <1>4, <3>1, <3>2 DEF Let
  <2>2. Cardinality(Let(i) \cup {c}) = Cardinality(Let(i)) + 1
    BY <1>1, <2>1, FS_AddElement
  <2>3. Cardinality(Let(i)') = Cardinality(Let(i)) + 1
    BY <2>1, <2>2
  <2>4. QED
    BY <1>1, <1>4, <2>3
<1>5. QED
  BY <1>3, <1>4

LEMMA BudgetStep ==
  ASSUME LimiterBase, BudgetInv, [Limiter!Next]_(Limiter!vars)
  PROVE  BudgetInv'
<1>a. /\ counters \in [Workers -> Nat] /\ host \in [Callers -> Workers] /\ kv \in Nat
      /\ sights \in [Workers -> Nat] /\ evictions \in [Workers -> 0..MaxEvictions]
      /\ ratePc \in [Callers -> {"new", "seeding", "storing", "done"}]
      /\ Limit \in Nat /\ Limit > 0 /\ MaxEvictions \in Nat
  BY Limits DEF LimiterBase
<1>b. \A i \in Workers : Budget(i) \in Nat /\ Cardinality(Let(i)) \in Nat
  BY <1>a, Finite DEF Budget, Let, LimiterBase
<1>1. ASSUME NEW c \in Callers, Limiter!Hit(c) PROVE BudgetInv'
  <2>1. PICK n \in Nat : n = counters[host[c]] /\ n > 0
    BY <1>a, <1>1 DEF Limiter!Hit, Limiter!Seen
  <2>2. /\ counters' = [counters EXCEPT ![host[c]] = IF n >= Limit THEN n ELSE n + 1]
        /\ UNCHANGED <<kvSeed, host, sights, evictions>>
        /\ Limiter!Decide(c, n >= Limit) /\ ratePc[c] = "new"
        /\ ratePc' = [ratePc EXCEPT ![c] = "done"]
    BY <1>1, <2>1 DEF Limiter!Hit, Limiter!Over, Limiter!Goes, Limiter!history
  <2>3. ASSUME NEW i \in Workers
        PROVE  /\ Cardinality(Let(i)') <= Budget(i)
               /\ counters'[i] > 0
                    => Cardinality(Let(i)') + Limit <= Budget(i) + Least(counters'[i], Limit)
               /\ (counters'[i] > 0) = (counters[i] > 0)
    <3>1. /\ Cardinality(Let(i)) \in Nat /\ Cardinality(Let(i)') \in Nat
          /\ host[c] # i \/ n >= Limit => Cardinality(Let(i)') = Cardinality(Let(i))
          /\ Cardinality(Let(i)') <= Cardinality(Let(i)) + 1
      BY <2>2, LetGrows
    <3>2. /\ counters'[i] \in Nat /\ counters[i] \in Nat
          /\ i # host[c] => counters'[i] = counters[i]
          /\ i = host[c] => counters[i] = n /\ counters'[i] = IF n >= Limit THEN n ELSE n + 1
      BY <1>a, <2>1, <2>2
    <3>3. /\ Cardinality(Let(i)) <= Budget(i)
          /\ counters[i] > 0
                => Cardinality(Let(i)) + Limit <= Budget(i) + Least(counters[i], Limit)
      BY DEF BudgetInv
    <3>4. CASE i # host[c]
      BY <3>1, <3>2, <3>3, <3>4
    <3>5. CASE i = host[c]
      BY <1>a, <1>b, <2>1, <3>1, <3>2, <3>3, <3>5 DEF Least
    <3>6. QED
      BY <3>4, <3>5
  <2>4. \A i \in Workers : Budget(i)' = Budget(i)
    BY <2>2 DEF Budget
  <2>5. ~kvSeed => \A d \in Callers : ratePc'[d] \in {"new", "done"}
    BY <1>a, <2>2 DEF BudgetInv
  <2>6. QED
    BY <2>2, <2>3, <2>4, <2>5 DEF BudgetInv
<1>2. ASSUME NEW c \in Callers, NEW n \in Nat, SightStep(c, n) PROVE BudgetInv'
  <2>1. /\ counters' = [counters EXCEPT ![host[c]] = n + 1]
        /\ sights' = [sights EXCEPT ![host[c]] = @ + 1]
        /\ UNCHANGED <<kvSeed, host, evictions>>
        /\ Limiter!Decide(c, n >= Limit) /\ ratePc[c] \in {"new", "seeding"}
    BY <1>2 DEF SightStep, Limiter!FirstSight
  <2>2. /\ ~kvSeed => counters[host[c]] = 0
        /\ ~kvSeed => \A d \in Callers : ratePc'[d] \in {"new", "done"}
    BY <1>a, <1>2 DEF SightStep, BudgetInv
  <2>3. ASSUME NEW i \in Workers
        PROVE  /\ Cardinality(Let(i)') <= Budget(i)'
               /\ counters'[i] > 0
                    => Cardinality(Let(i)') + Limit <= Budget(i)' + Least(counters'[i], Limit)
               /\ ~kvSeed => sights'[i] <= evictions[i] + (IF counters'[i] > 0 THEN 1 ELSE 0)
    <3>1. /\ Cardinality(Let(i)) \in Nat /\ Cardinality(Let(i)') \in Nat
          /\ host[c] # i \/ n >= Limit => Cardinality(Let(i)') = Cardinality(Let(i))
          /\ Cardinality(Let(i)') <= Cardinality(Let(i)) + 1
      BY <2>1, LetGrows
    <3>2. /\ Cardinality(Let(i)) <= Budget(i)
          /\ counters[i] > 0
                => Cardinality(Let(i)) + Limit <= Budget(i) + Least(counters[i], Limit)
          /\ ~kvSeed => sights[i] <= evictions[i] + (IF counters[i] > 0 THEN 1 ELSE 0)
      BY DEF BudgetInv
    <3>3. CASE i # host[c]
      <4>1. counters'[i] = counters[i] /\ sights'[i] = sights[i] /\ Budget(i)' = Budget(i)
        BY <1>a, <2>1, <3>3 DEF Budget
      <4>2. QED
        BY <3>1, <3>2, <3>3, <4>1
    <3>4. CASE i = host[c]
      <4>1. counters'[i] = n + 1 /\ sights'[i] = sights[i] + 1
        BY <1>a, <2>1, <3>4
      <4>2. Budget(i)' = Budget(i) + Limit
        BY <1>a, <4>1 DEF Budget
      <4>3. sights[i] \in Nat /\ evictions[i] \in Nat
        BY <1>a
      <4>4. QED
        BY <1>a, <1>b, <2>2, <3>1, <3>2, <3>4, <4>1, <4>2, <4>3 DEF Least
    <3>5. QED
      BY <3>3, <3>4
  <2>4. QED
    BY <2>1, <2>2, <2>3 DEF BudgetInv
<1>3. ASSUME NEW c \in Callers, Limiter!Seed(c) PROVE BudgetInv'
  BY <1>a, <1>3 DEF Limiter!Seed, Limiter!Goes, Limiter!stores, Limiter!outcome,
                    Limiter!history, BudgetInv, Budget, Let
<1>4. ASSUME NEW c \in Callers, Limiter!Store(c) PROVE BudgetInv'
  BY <1>a, <1>4 DEF Limiter!Store, Limiter!Goes, Limiter!outcome, Limiter!history, BudgetInv,
                    Budget, Let
<1>5. ASSUME NEW j \in Workers, Limiter!Evict(j) PROVE BudgetInv'
  <2>1. /\ UNCHANGED <<kvSeed, ratePc, sights, host, admitted>> /\ counters[j] > 0
        /\ counters' = [counters EXCEPT ![j] = 0]
        /\ evictions' = [evictions EXCEPT ![j] = @ + 1]
    BY <1>5 DEF Limiter!Evict, Limiter!outcome
  <2>2. \A i \in Workers : Let(i)' = Let(i) /\ Budget(i)' = Budget(i)
    BY <2>1 DEF Let, Budget
  <2>3. ASSUME NEW i \in Workers
        PROVE  /\ counters'[i] > 0 => counters'[i] = counters[i]
               /\ ~kvSeed => sights[i] <= evictions'[i] + (IF counters'[i] > 0 THEN 1 ELSE 0)
    <3>1. sights[i] \in Nat /\ evictions[i] \in Nat /\ counters[i] \in Nat
      BY <1>a
    <3>2. ~kvSeed => sights[i] <= evictions[i] + (IF counters[i] > 0 THEN 1 ELSE 0)
      BY DEF BudgetInv
    <3>3. QED
      BY <1>a, <2>1, <3>1, <3>2
  <2>4. QED
    BY <2>1, <2>2, <2>3 DEF BudgetInv
<1>6. CASE UNCHANGED Limiter!vars
  BY <1>6 DEF Limiter!vars, Limiter!stores, Limiter!outcome, Limiter!history, BudgetInv,
              Budget, Let
<1>7. QED
  BY <1>1, <1>2, <1>3, <1>4, <1>5, <1>6, LimiterActions

\* An isolate lets through no more than one budget for every first sight it has
\* had of the key; without a seed it has one, and one more for every eviction.
THEOREM BudgetPerSight ==
  Limiter!Spec => []OneBudgetPerSight
<1>1. Limiter!Init => BudgetInv
  <2>1. Limiter!Init => \A i \in Workers : Let(i) = {} /\ Budget(i) = 0
    BY Limits DEF Limiter!Init, Let, Budget
  <2>2. QED
    BY <2>1, FS_EmptySet DEF Limiter!Init, BudgetInv
<1>2. LimiterBase /\ BudgetInv /\ [Limiter!Next]_(Limiter!vars) => BudgetInv'
  BY BudgetStep
<1>3. LimiterBase /\ BudgetInv => OneBudgetPerSight
  <2>1. SUFFICES ASSUME LimiterBase, BudgetInv, NEW i \in Workers
                 PROVE  /\ Cardinality(Let(i)) <= Limit * sights[i]
                        /\ ~kvSeed => sights[i] <= evictions[i] + 1
    BY SameCardinality DEF OneBudgetPerSight, Limiter!OneBudgetPerSight, Let
  <2>2. sights[i] \in Nat /\ evictions[i] \in Nat
    BY <2>1, Limits DEF LimiterBase
  <2>3. QED
    BY <2>1, <2>2 DEF BudgetInv, Budget
<1>4. QED
  BY <1>1, <1>2, <1>3, LimiterTyped, PTL DEF Limiter!Spec

-----------------------------------------------------------------------------
(***************************************************************************)
(* The composition: what moves is one of the three.                        *)
(***************************************************************************)
LEMMA Parts ==
  MCSpec => Spec /\ Upstream!Spec /\ Limiter!Spec
<1>1. MCInit => Init /\ Upstream!Init /\ Limiter!Init
  BY DEF MCInit
<1>2. [MCNext]_allVars
        => [Next]_vars /\ [Upstream!Next]_(Upstream!vars) /\ [Limiter!Next]_(Limiter!vars)
  <2>1. /\ upstreamVars = Upstream!vars /\ upstreamVars' = Upstream!vars'
        /\ UNCHANGED limiterVars => UNCHANGED Limiter!vars
    BY DEF upstreamVars, Upstream!vars, limiterVars, Limiter!vars, Limiter!stores,
           Limiter!outcome, Limiter!history
  <2>2. QED
    BY <2>1 DEF MCNext, allVars
<1>3. QED
  BY <1>1, <1>2, PTL DEF MCSpec, Spec, Upstream!Spec, Limiter!Spec

\* The types of the breaker, of an upstream call and of the limiter, in every
\* behaviour of the composition.
THEOREM PartsTyped ==
  ASSUME Assumptions
  PROVE  MCSpec => []PartsTypeOK
<1>1. Limiter!Spec => []Limiter!TypeOK
  BY LimiterTyped, PTL
<1>2. QED
  BY <1>1, Parts, BreakerTyped, UpstreamTyped, PTL DEF PartsTypeOK
=============================================================================
