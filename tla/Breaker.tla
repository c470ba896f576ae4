------------------------------ MODULE Breaker ------------------------------
(***************************************************************************)
(* The circuit breaker of the gateway's og channel                         *)
(* (src/gateway/src/reliability.ts): one Durable Object that counts hard   *)
(* failures and opens the circuit, the cached check each worker isolate    *)
(* keeps in front of it, and the requests that ask, call upstream and      *)
(* report back (plugins/translate.ts).                                     *)
(*                                                                         *)
(* The object handles one request at a time (its storage awaits hold back  *)
(* other events), so a handler is one action.  The caller's side is split  *)
(* at every await: a check is sent, answered, and only later written to    *)
(* the isolate's cache.                                                    *)
(*                                                                         *)
(* Time is kept as AGES that stop growing at the limit the code compares   *)
(* them with, so no clock has to be bounded.  Durations are in ticks; what *)
(* the code fixes is only their order, DurationsAssumption.                *)
(*                                                                         *)
(* A definition named X_Y is X with one plausible mistake in it; no        *)
(* specification uses it.  The properties are shown to notice it.          *)
(***************************************************************************)
EXTENDS Naturals, Sequences, SequencesExt

CONSTANTS
  Requests,   \* requests to the og channel, health checks included
  Isolates,   \* worker isolates, each with its own cached check
  HostOf,     \* request -> the isolate that serves it
  CheckFaults,\* ways a check may fail: "unreachable", "error"
  CacheTtl,   \* DEGRADED_CACHE_TTL_MS
  MaxFail,    \* BREAKER_MAX_FAIL_MS
  Degrade,    \* BREAKER_DEGRADE_MS
  Window      \* BREAKER_WINDOW_MS

Threshold == 3      \* BREAKER_FAIL_THRESHOLD

ASSUME HostsAssumption == HostOf \in [Requests -> Isolates]

ASSUME FaultsAssumption == CheckFaults \subseteq {"unreachable", "error"}

\* 5 s, 45 s, 60 s and 600 s in the code.
ASSUME DurationsAssumption ==
  /\ {CacheTtl, MaxFail, Degrade, Window} \subseteq Nat
  /\ 0 < CacheTtl /\ CacheTtl < MaxFail /\ MaxFail < Degrade
  /\ MaxFail + Degrade < Window

VARIABLES
  count,      \* storage "fail".count, 0 when there is no record
  failAge,    \* now - "fail".firstAt, at most Window
  openLeft,   \* "degradedUntil" - now, 0 once it has passed
  succ,       \* storage "succ"
  cacheAge,   \* now - degradedCache.at of each isolate, at most CacheTtl
  cacheValue, \* degradedCache.value of each isolate
  pc,         \* where each request stands
  askAge,     \* now - the `now` the request's check began with
  reply,      \* what the object answered the request's check
  failures,   \* history: ages of the last failures recorded, newest first
  streak,     \* history: failures in a row, at most Threshold
  sinceOpen,  \* history: time since the circuit was open, at most CacheTtl
  sinceClosed \* history: time since it was closed, at most CacheTtl

object == <<count, failAge, openLeft, succ>>
caches == <<cacheAge, cacheValue>>
callers == <<pc, askAge, reply>>
records == <<failures, streak>>
observed == <<sinceOpen, sinceClosed>>
vars == <<object, caches, callers, records, observed>>

Least(a, b) == IF a < b THEN a ELSE b

CircuitOpen == openLeft > 0

TypeOK ==
  /\ count \in 0..Threshold /\ failAge \in 0..Window
  /\ openLeft \in 0..Degrade /\ succ \in 0..1
  /\ cacheAge \in [Isolates -> 0..CacheTtl]
  /\ cacheValue \in [Isolates -> BOOLEAN]
  /\ pc \in [Requests -> {"idle", "asking", "answered", "calling",
                          "tripping", "tripped", "succeeding"}]
  /\ askAge \in [Requests -> 0..CacheTtl]
  /\ reply \in [Requests -> BOOLEAN]
  /\ failures \in BoundedSeq(0..Window, Threshold)
  /\ streak \in 0..Threshold
  /\ sinceOpen \in 0..CacheTtl /\ sinceClosed \in 0..CacheTtl

Init ==
  /\ count = 0 /\ failAge = 0 /\ openLeft = 0 /\ succ = 0
  /\ cacheAge = [i \in Isolates |-> CacheTtl]
  /\ cacheValue = [i \in Isolates |-> FALSE]
  /\ pc = [r \in Requests |-> "idle"]
  /\ askAge = [r \in Requests |-> 0]
  /\ reply = [r \in Requests |-> FALSE]
  /\ failures = <<>> /\ streak = 0
  /\ sinceOpen = CacheTtl /\ sinceClosed = 0

-----------------------------------------------------------------------------
(* isChannelDegraded, split at its await.                                  *)

Fresh_Forever(i) == cacheAge[i] < CacheTtl \/ ~cacheValue[i]
Fresh(i) == cacheAge[i] < CacheTtl

\* What follows the check: an open circuit is answered 502 at once; past a
\* closed one a request goes upstream, and a health check is over.
Proceed(r, degraded) ==
  \E next \in (IF degraded THEN {"idle"} ELSE {"calling", "idle"}) :
    pc' = [pc EXCEPT ![r] = next]

ReadCache(r) ==
  /\ pc[r] = "idle" /\ Fresh(HostOf[r])
  /\ Proceed(r, cacheValue[HostOf[r]])
  /\ UNCHANGED <<object, caches, askAge, reply, records, observed>>

SendCheck(r) ==
  /\ pc[r] = "idle" /\ ~Fresh(HostOf[r])
  /\ pc' = [pc EXCEPT ![r] = "asking"]
  /\ askAge' = [askAge EXCEPT ![r] = 0]
  /\ UNCHANGED <<object, caches, reply, records, observed>>

\* The object handles /check.  An error in it is a 500 whose text is not "1".
HandleCheck(r) ==
  /\ pc[r] = "asking"
  /\ \E failed \in IF "error" \in CheckFaults THEN BOOLEAN ELSE {FALSE} :
       reply' = [reply EXCEPT ![r] = CircuitOpen /\ ~failed]
  /\ pc' = [pc EXCEPT ![r] = "answered"]
  /\ UNCHANGED <<object, caches, askAge, records, observed>>

\* The entry's age: `at` is the time read BEFORE the await.
EntryAge_AfterAwait(r) == 0
EntryAge(r) == askAge[r]

CheckReturns(r) ==
  /\ pc[r] = "answered"
  /\ cacheAge' = [cacheAge EXCEPT ![HostOf[r]] = EntryAge(r)]
  /\ cacheValue' = [cacheValue EXCEPT ![HostOf[r]] = reply[r]]
  /\ Proceed(r, reply[r])
  /\ askAge' = [askAge EXCEPT ![r] = 0]
  /\ reply' = [reply EXCEPT ![r] = FALSE]
  /\ UNCHANGED <<object, records, observed>>

\* The fetch of the object throws: the channel counts as healthy, uncached.
CheckFails(r) ==
  /\ "unreachable" \in CheckFaults
  /\ pc[r] \in {"asking", "answered"}
  /\ Proceed(r, FALSE)
  /\ askAge' = [askAge EXCEPT ![r] = 0]
  /\ reply' = [reply EXCEPT ![r] = FALSE]
  /\ UNCHANGED <<object, caches, records, observed>>

-----------------------------------------------------------------------------
(* The upstream call and what is reported of it.                           *)

\* A hard network error or a full timeout is reported, a fast 4xx or 5xx is
\* not, a 2xx is.
UpstreamAnswers(r) ==
  /\ pc[r] = "calling"
  /\ \E next \in {"tripping", "idle", "succeeding"} :
       pc' = [pc EXCEPT ![r] = next]
  /\ UNCHANGED <<object, caches, askAge, reply, records, observed>>

\* A record older than the window counts for nothing.
InWindow_Always == count > 0
InWindow == count > 0 /\ failAge < Window

Counted == IF InWindow THEN Least(count + 1, Threshold) ELSE 1

\* Outside the window the anchor moves to now.
AnchorAge_Kept == IF count > 0 THEN failAge ELSE 0
AnchorAge == IF InWindow THEN failAge ELSE 0

Opens == Counted >= Threshold \/ (Counted >= 2 /\ AnchorAge >= MaxFail)

Trip ==
  /\ count' = Counted
  /\ failAge' = AnchorAge
  /\ openLeft' = IF Opens THEN Degrade ELSE openLeft
  /\ failures' = SubSeq(<<0>> \o failures, 1, Least(Len(failures) + 1, Threshold))
  /\ streak' = Least(streak + 1, Threshold)
  /\ sinceOpen' = IF openLeft' > 0 THEN 0 ELSE sinceOpen

\* /trip
HandleTrip(r) ==
  /\ pc[r] = "tripping"
  /\ Trip
  /\ pc' = [pc EXCEPT ![r] = "tripped"]
  /\ UNCHANGED <<succ, caches, askAge, reply, sinceClosed>>

\* The rest of recordChannelFailure: drop the isolate's cached check.
TripReturns(r) ==
  /\ pc[r] = "tripped"
  /\ cacheAge' = [cacheAge EXCEPT ![HostOf[r]] = CacheTtl]
  /\ cacheValue' = [cacheValue EXCEPT ![HostOf[r]] = FALSE]
  /\ pc' = [pc EXCEPT ![r] = "idle"]
  /\ UNCHANGED <<object, askAge, reply, records, observed>>

\* The report is lost before the object handles it, or its answer after.
ReportFails(r) ==
  /\ pc[r] \in {"tripping", "tripped", "succeeding"}
  /\ pc' = [pc EXCEPT ![r] = "idle"]
  /\ UNCHANGED <<object, caches, askAge, reply, records, observed>>

\* The second success clears the count, whatever came between the two.
Clears == succ >= 1

\* /reset
HandleReset(r) ==
  /\ pc[r] = "succeeding"
  /\ IF Clears
       THEN count' = 0 /\ failAge' = 0 /\ succ' = 0
       ELSE succ' = succ + 1 /\ UNCHANGED <<count, failAge>>
  /\ streak' = 0
  /\ pc' = [pc EXCEPT ![r] = "idle"]
  /\ UNCHANGED <<openLeft, caches, askAge, reply, failures, observed>>

-----------------------------------------------------------------------------
Older(age, limit) == Least(age + 1, limit)

\* The clock moves on.
Tick ==
  /\ failAge' = IF count > 0 THEN Older(failAge, Window) ELSE 0
  /\ openLeft' = IF openLeft > 0 THEN openLeft - 1 ELSE 0
  /\ cacheAge' = [i \in Isolates |-> Older(cacheAge[i], CacheTtl)]
  /\ askAge' = [r \in Requests |->
                  IF pc[r] \in {"asking", "answered"}
                  THEN Older(askAge[r], CacheTtl) ELSE 0]
  /\ failures' = [n \in DOMAIN failures |-> Older(failures[n], Window)]
  /\ sinceOpen' = IF openLeft' > 0 THEN 0 ELSE Older(sinceOpen, CacheTtl)
  /\ sinceClosed' = IF openLeft' = 0 THEN 0 ELSE Older(sinceClosed, CacheTtl)
  /\ UNCHANGED <<count, succ, cacheValue, pc, reply, streak>>

Step(r) ==
  \/ ReadCache(r) \/ SendCheck(r) \/ HandleCheck(r)
  \/ CheckReturns(r) \/ CheckFails(r)
  \/ UpstreamAnswers(r)
  \/ HandleTrip(r) \/ TripReturns(r) \/ ReportFails(r) \/ HandleReset(r)

Next == Tick \/ \E r \in Requests : Step(r)

Spec == Init /\ [][Next]_vars

\* The clock goes on; nothing else is owed.
FairSpec == Spec /\ WF_vars(Tick)

-----------------------------------------------------------------------------
(* Properties                                                              *)

\* One failure never opens the circuit: when it opens, another failure was
\* recorded less than a window before.  (A count must not be carried over from
\* a stale record, or survive the two successes that clear it.)
OpensOnRepeatedFailure ==
  [][openLeft' > openLeft =>
       Len(failures') >= 2 /\ failures'[2] < Window]_vars

\* Three failures in a row within the time the circuit would stay open leave
\* it open, wherever the counting window began and however it was left by
\* earlier failures: a dead channel cannot stay ahead of the breaker.
StreakOpens ==
  streak = Threshold /\ failures[Threshold] < Degrade => CircuitOpen

\* A fresh cached check is recent: the circuit was as the entry says at some
\* moment no further back than the entry's age, however long the answer took
\* to arrive and whatever the object recorded in between.
CacheIsRecent ==
  \A i \in Isolates : Fresh(i) =>
    IF cacheValue[i] THEN sinceOpen <= cacheAge[i] ELSE sinceClosed <= cacheAge[i]

\* The breaker cannot keep itself open: the requests it lets through on stale
\* or late checks run out, so the circuit is closed again and again, unless
\* checks fail for ever (isChannelDegraded then lets every request through).
ClosesAgain ==
  \/ []<>(~CircuitOpen)
  \/ []<><<\E r \in Requests : CheckFails(r)>>_vars
=============================================================================
