---------------------------- MODULE RateLimiter ----------------------------
(***************************************************************************)
(* The gateway's limiter of requests per address                           *)
(* (src/gateway/src/lib/ratelimit.ts, createIpRateLimiter): one address    *)
(* within one window, over several worker isolates that count apart and,   *)
(* where the limiter is seeded, start from one KV count.                   *)
(*                                                                         *)
(* A request on a key that the isolate has seen is counted in one step;    *)
(* the first sight of a seeded limiter is split at its two awaits.  A read *)
(* of KV that fails counts as zero, and one that is stale as any earlier   *)
(* count.                                                                  *)
(*                                                                         *)
(* A definition named X_Y is X with one plausible mistake in it; no        *)
(* specification uses it.  The properties are shown to notice it.          *)
(***************************************************************************)
EXTENDS Naturals, FiniteSets

CONSTANTS
  Requests,   \* requests from the address in this window
  Isolates,   \* worker isolates
  Limit,      \* `limit`
  MaxEvictions\* bound: how often an isolate's key is pushed out by others

RequestsAssumption == IsFiniteSet(Requests)

LimitAssumption == Limit \in Nat \ {0}

EvictionsAssumption == MaxEvictions \in Nat

VARIABLES
  kvSeed,     \* the limiter's option, fixed from the start
  counters,   \* per isolate the key's count, 0 when there is none
  kv,         \* the key's count in KV
  pc,         \* where each request stands
  host,       \* the isolate a request runs on
  cur,        \* the count its first sight began with
  admitted,   \* requests let through
  refused,    \* requests turned away
  sights,     \* history: first sights of the key, per isolate
  evictions   \* history: evictions of the key, per isolate

stores == <<counters, kv>>
outcome == <<admitted, refused>>
history == <<sights, evictions>>
vars == <<kvSeed, stores, pc, host, cur, outcome, history>>

Counts == 0..Cardinality(Requests)

TypeOK ==
  /\ kvSeed \in BOOLEAN
  /\ counters \in [Isolates -> Counts] /\ kv \in Counts
  /\ pc \in [Requests -> {"new", "seeding", "storing", "done"}]
  /\ host \in [Requests -> Isolates]
  /\ cur \in [Requests -> Counts]
  /\ admitted \subseteq Requests /\ refused \subseteq Requests \ admitted
  /\ sights \in [Isolates -> Counts]
  /\ evictions \in [Isolates -> 0..MaxEvictions]

Init ==
  /\ kvSeed \in BOOLEAN
  /\ counters = [i \in Isolates |-> 0] /\ kv = 0
  /\ pc = [r \in Requests |-> "new"]
  /\ host \in [Requests -> Isolates]
  /\ cur = [r \in Requests |-> 0]
  /\ admitted = {} /\ refused = {}
  /\ sights = [i \in Isolates |-> 0]
  /\ evictions = [i \in Isolates |-> 0]

-----------------------------------------------------------------------------
Goes(r, where) == pc' = [pc EXCEPT ![r] = where]

Decide(r, over) ==
  /\ admitted' = IF over THEN admitted ELSE admitted \cup {r}
  /\ refused' = IF over THEN refused \cup {r} ELSE refused

Seen(r) == counters[host[r]] > 0

Over_AfterLimit(n) == n > Limit
Over(n) == n >= Limit

\* The key is there: count and answer without an await.
Hit(r) ==
  /\ pc[r] = "new" /\ Seen(r)
  /\ LET hit == counters[host[r]] IN
       /\ Decide(r, Over(hit))
       /\ counters' = [counters EXCEPT ![host[r]] = IF Over(hit) THEN hit ELSE hit + 1]
  /\ Goes(r, "done")
  /\ UNCHANGED <<kvSeed, kv, host, cur, history>>

FirstSight(r, n) ==
  /\ counters' = [counters EXCEPT ![host[r]] = n + 1]
  /\ sights' = [sights EXCEPT ![host[r]] = @ + 1]

\* Memory only: the first sight is one step, too.
Begin(r) ==
  /\ pc[r] = "new" /\ ~Seen(r) /\ ~kvSeed
  /\ FirstSight(r, 0)
  /\ Decide(r, Over(0))
  /\ Goes(r, "done")
  /\ UNCHANGED <<kvSeed, kv, host, cur, evictions>>

Seed(r) ==
  /\ pc[r] = "new" /\ ~Seen(r) /\ kvSeed
  /\ Goes(r, "seeding")
  /\ UNCHANGED <<kvSeed, stores, host, cur, outcome, history>>

OverSeeded_CountsItself(n) == n + 1 >= Limit
OverSeeded(n) == n >= Limit

\* The read of KV returns, and whatever the key has come to meanwhile is
\* overwritten; the request's own answer is settled here.
SeedReturns(r) ==
  /\ pc[r] = "seeding"
  /\ \E n \in 0..kv :
       /\ FirstSight(r, n)
       /\ cur' = [cur EXCEPT ![r] = n]
       /\ Decide(r, OverSeeded(n))
  /\ Goes(r, "storing")
  /\ UNCHANGED <<kvSeed, kv, host, evictions>>

\* The write of KV, which may fail.
Store(r) ==
  /\ pc[r] = "storing"
  /\ kv' \in {kv, cur[r] + 1}
  /\ Goes(r, "done")
  /\ UNCHANGED <<kvSeed, counters, host, cur, outcome, history>>

\* The 4097th key of the isolate pushes this one out.
Evict(i) ==
  /\ counters[i] > 0 /\ evictions[i] < MaxEvictions
  /\ counters' = [counters EXCEPT ![i] = 0]
  /\ evictions' = [evictions EXCEPT ![i] = @ + 1]
  /\ UNCHANGED <<kvSeed, kv, pc, host, cur, outcome, sights>>

Next ==
  \/ \E r \in Requests :
       Hit(r) \/ Begin(r) \/ Seed(r) \/ SeedReturns(r) \/ Store(r)
  \/ \E i \in Isolates : Evict(i)

Spec == Init /\ [][Next]_vars

-----------------------------------------------------------------------------
(* Properties                                                              *)

\* Nobody is turned away before the address has had its budget, however the
\* counts of the isolates and of KV overwrite each other.
NoEarlyRefusal == refused # {} => Cardinality(admitted) >= Limit

\* What the limiter does enforce: an isolate lets through one budget for every
\* first sight it has had of the key.  The memory-only limiters have one, and
\* one more for every eviction; a seeded one has as many as there were requests
\* waiting for the seed together.
OneBudgetPerSight ==
  \A i \in Isolates :
    /\ Cardinality({r \in admitted : host[r] = i}) <= Limit * sights[i]
    /\ ~kvSeed => sights[i] <= evictions[i] + 1
=============================================================================
