--------------------------- MODULE BreakerProofs ---------------------------
(***************************************************************************)
(* Proofs about Breaker, for every set of requests and of isolates and any *)
(* durations in the order of the code's.                                   *)
(***************************************************************************)
EXTENDS Breaker, SequenceTheorems, TLAPS

Assumptions == HostsAssumption /\ DurationsAssumption

LEMMA Durations ==
  ASSUME Assumptions
  PROVE  /\ CacheTtl \in Nat /\ CacheTtl > 0 /\ Window \in Nat /\ Window > 0
         /\ Degrade \in Nat /\ Degrade > 0 /\ MaxFail \in Nat
  BY DEF Assumptions, DurationsAssumption

(***************************************************************************)
(* Types of what the proofs are about.                                     *)
(***************************************************************************)
Stages == {"idle", "asking", "answered", "calling", "tripping", "tripped", "succeeding"}

ObjectType ==
  /\ count \in 0..Threshold /\ failAge \in 0..Window /\ openLeft \in 0..Degrade
  /\ sinceOpen \in 0..CacheTtl /\ sinceClosed \in 0..CacheTtl

CallerType ==
  /\ cacheAge \in [Isolates -> 0..CacheTtl] /\ cacheValue \in [Isolates -> BOOLEAN]
  /\ pc \in [Requests -> Stages]
  /\ askAge \in [Requests -> 0..CacheTtl] /\ reply \in [Requests -> BOOLEAN]

Typed == ObjectType /\ CallerType

LEMMA StepType ==
  ASSUME Assumptions, Typed, NEW r \in Requests, Step(r)
  PROVE  Typed'
<1> USE DEF object, caches, callers, observed, records
<1>1. HostOf[r] \in Isolates
  BY DEF Assumptions, HostsAssumption
<1>2. CacheTtl \in Nat /\ CacheTtl > 0 /\ Degrade \in Nat /\ Window \in Nat
  BY Durations
<1>3. CASE ReadCache(r)
  BY <1>3 DEF ReadCache, Proceed, Typed, ObjectType, CallerType, Stages
<1>4. CASE SendCheck(r)
  BY <1>2, <1>4 DEF SendCheck, Typed, ObjectType, CallerType, Stages
<1>5. CASE HandleCheck(r)
  BY <1>5 DEF HandleCheck, CircuitOpen, Typed, ObjectType, CallerType, Stages
<1>6. CASE CheckReturns(r)
  <2>1. ObjectType' /\ pc' \in [Requests -> Stages]
    BY <1>6 DEF CheckReturns, Proceed, Typed, ObjectType, CallerType, Stages
  <2>2. askAge' \in [Requests -> 0..CacheTtl] /\ reply' \in [Requests -> BOOLEAN]
    BY <1>2, <1>6 DEF CheckReturns, Typed, CallerType
  <2>3. cacheAge' \in [Isolates -> 0..CacheTtl] /\ cacheValue' \in [Isolates -> BOOLEAN]
    BY <1>1, <1>6 DEF CheckReturns, EntryAge, Typed, CallerType
  <2>4. QED
    BY <2>1, <2>2, <2>3 DEF Typed, CallerType
<1>7. CASE CheckFails(r)
  BY <1>2, <1>7 DEF CheckFails, Proceed, Typed, ObjectType, CallerType, Stages
<1>8. CASE UpstreamAnswers(r)
  BY <1>8 DEF UpstreamAnswers, Typed, ObjectType, CallerType, Stages
<1>9. CASE HandleTrip(r)
  <2>1. count' \in 0..Threshold /\ failAge' \in 0..Window /\ openLeft' \in 0..Degrade
    BY <1>2, <1>9 DEF HandleTrip, Trip, Counted, AnchorAge, Least, InWindow, Threshold,
                      Typed, ObjectType
  <2>2. sinceOpen' \in 0..CacheTtl /\ sinceClosed' = sinceClosed
    BY <1>2, <1>9 DEF HandleTrip, Trip, Typed, ObjectType
  <2>3. CallerType'
    BY <1>9 DEF HandleTrip, Typed, CallerType, Stages
  <2>4. QED
    BY <2>1, <2>2, <2>3 DEF Typed, ObjectType
<1>10. CASE TripReturns(r)
  <2>1. ObjectType' /\ pc' \in [Requests -> Stages]
    BY <1>10 DEF TripReturns, Typed, ObjectType, CallerType, Stages
  <2>2. cacheAge' \in [Isolates -> 0..CacheTtl] /\ cacheValue' \in [Isolates -> BOOLEAN]
    <3>1. CacheTtl \in 0..CacheTtl
      BY <1>2
    <3>2. QED
      BY <1>1, <1>10, <3>1 DEF TripReturns, Typed, CallerType
  <2>3. QED
    BY <1>10, <2>1, <2>2 DEF TripReturns, Typed, CallerType
<1>11. CASE ReportFails(r)
  BY <1>11 DEF ReportFails, Typed, ObjectType, CallerType, Stages
<1>12. CASE HandleReset(r)
  BY <1>2, <1>12 DEF HandleReset, Typed, ObjectType, CallerType, Stages, Threshold
<1>13. QED
  BY <1>3, <1>4, <1>5, <1>6, <1>7, <1>8, <1>9, <1>10, <1>11, <1>12 DEF Step

LEMMA TickType ==
  ASSUME Assumptions, Typed, Tick
  PROVE  Typed'
<1>1. CacheTtl \in Nat /\ Degrade \in Nat /\ Window \in Nat
  BY Durations
<1>2. \A limit \in Nat : \A age \in 0..limit : Older(age, limit) \in 0..limit
  BY DEF Older, Least
<1>3. ObjectType'
  BY <1>1, <1>2 DEF Tick, Typed, ObjectType
<1>4. cacheAge' \in [Isolates -> 0..CacheTtl] /\ askAge' \in [Requests -> 0..CacheTtl]
  BY <1>1, <1>2 DEF Tick, Typed, CallerType
<1>5. QED
  BY <1>3, <1>4 DEF Tick, Typed, CallerType

LEMMA TypeAlways ==
  ASSUME Assumptions
  PROVE  Spec => []Typed
<1>1. Init => Typed
  BY Durations DEF Init, Typed, ObjectType, CallerType, Stages, Threshold
<1>2. Typed /\ [Next]_vars => Typed'
  <2>1. ASSUME Typed, UNCHANGED vars PROVE Typed'
    BY <2>1 DEF Typed, ObjectType, CallerType, vars, object, caches, callers, observed
  <2>2. QED
    BY <2>1, StepType, TickType DEF Next
<1>3. QED
  BY <1>1, <1>2, PTL DEF Spec

(***************************************************************************)
(* The cached check.  An answer on its way is already as recent as the     *)
(* entry it will become, because an entry is dated before the await.       *)
(***************************************************************************)
Recent(open, age) == IF open THEN sinceOpen <= age ELSE sinceClosed <= age

RecentInv ==
  /\ IF CircuitOpen THEN sinceOpen = 0 ELSE sinceClosed = 0
  /\ \A i \in Isolates : Recent(cacheValue[i], cacheAge[i])
  /\ \A r \in Requests : pc[r] = "answered" => Recent(reply[r], askAge[r])

LEMMA StepRecent ==
  ASSUME Assumptions, "error" \notin CheckFaults, Typed, RecentInv,
         NEW r \in Requests, Step(r)
  PROVE  RecentInv'
<1> USE DEF object, caches, callers, observed, records
<1>1. HostOf[r] \in Isolates /\ CacheTtl \in Nat
  BY Durations DEF Assumptions, HostsAssumption
<1>2. /\ ObjectType /\ CallerType
      /\ \A i \in Isolates : cacheAge[i] \in 0..CacheTtl
      /\ \A s \in Requests : askAge[s] \in 0..CacheTtl
  BY DEF Typed, CallerType
<1>3. CASE ReadCache(r) \/ SendCheck(r) \/ UpstreamAnswers(r) \/ ReportFails(r)
  <2>1. UNCHANGED <<object, caches, reply, observed>>
    BY <1>3 DEF ReadCache, SendCheck, UpstreamAnswers, ReportFails
  <2>2. \A s \in Requests : pc'[s] = "answered" => pc[s] = "answered" /\ askAge'[s] = askAge[s]
    BY <1>2, <1>3 DEF ReadCache, SendCheck, UpstreamAnswers, ReportFails, Proceed, CallerType
  <2>3. QED
    BY <2>1, <2>2 DEF RecentInv, CircuitOpen, Recent
<1>4. CASE HandleCheck(r)
  <2>0. PICK failed \in {FALSE} : reply' = [reply EXCEPT ![r] = CircuitOpen /\ ~failed]
    BY <1>4 DEF HandleCheck
  <2>1. /\ reply'[r] = CircuitOpen /\ \A s \in Requests \ {r} : reply'[s] = reply[s]
        /\ \A s \in Requests \ {r} : pc'[s] = pc[s]
        /\ UNCHANGED <<object, caches, askAge, observed>>
    <3>1. reply \in [Requests -> BOOLEAN] /\ pc \in [Requests -> Stages]
      BY <1>2 DEF CallerType
    <3>2. (CircuitOpen /\ ~failed) = CircuitOpen
      BY DEF CircuitOpen
    <3>3. QED
      BY <1>4, <2>0, <3>1, <3>2 DEF HandleCheck
  <2>2. Recent(CircuitOpen, askAge[r])
    BY <1>2 DEF RecentInv, Recent, ObjectType
  <2>3. QED
    BY <2>1, <2>2 DEF RecentInv, CircuitOpen, Recent
<1>5. CASE CheckReturns(r)
  <2>1. /\ Recent(reply[r], askAge[r]) /\ UNCHANGED <<object, observed>>
        /\ cacheAge' = [cacheAge EXCEPT ![HostOf[r]] = askAge[r]]
        /\ cacheValue' = [cacheValue EXCEPT ![HostOf[r]] = reply[r]]
    BY <1>5 DEF CheckReturns, EntryAge, RecentInv
  <2>2. \A i \in Isolates : Recent(cacheValue[i], cacheAge[i])'
    BY <1>2, <2>1 DEF RecentInv, Recent, CallerType
  <2>3. \A s \in Requests : pc'[s] = "answered" =>
          pc[s] = "answered" /\ askAge'[s] = askAge[s] /\ reply'[s] = reply[s]
    BY <1>2, <1>5 DEF CheckReturns, Proceed, CallerType
  <2>4. QED
    BY <2>1, <2>2, <2>3 DEF RecentInv, CircuitOpen, Recent
<1>6. CASE CheckFails(r)
  <2>1. UNCHANGED <<object, caches, observed>>
    BY <1>6 DEF CheckFails
  <2>2. \A s \in Requests : pc'[s] = "answered" =>
          pc[s] = "answered" /\ askAge'[s] = askAge[s] /\ reply'[s] = reply[s]
    BY <1>2, <1>6 DEF CheckFails, Proceed, CallerType
  <2>3. QED
    BY <2>1, <2>2 DEF RecentInv, CircuitOpen, Recent
<1>7. CASE HandleTrip(r)
  <2>1. /\ UNCHANGED <<caches, askAge, reply, sinceClosed>>
        /\ openLeft' = (IF Opens THEN Degrade ELSE openLeft)
        /\ sinceOpen' = (IF openLeft' > 0 THEN 0 ELSE sinceOpen)
    BY <1>7 DEF HandleTrip, Trip
  <2>2. \A s \in Requests : pc'[s] = "answered" => pc[s] = "answered"
    BY <1>2, <1>7 DEF HandleTrip, CallerType
  <2>3. sinceOpen' <= sinceOpen
    BY <1>2, <2>1 DEF ObjectType
  <2>4. IF CircuitOpen' THEN sinceOpen' = 0 ELSE sinceClosed' = 0
    BY <1>2, <2>1, Durations DEF RecentInv, CircuitOpen, ObjectType
  <2>5. \A open \in BOOLEAN : \A age \in 0..CacheTtl : Recent(open, age) => Recent(open, age)'
    BY <1>1, <1>2, <2>1, <2>3 DEF Recent, ObjectType
  <2>6. QED
    BY <1>2, <2>1, <2>2, <2>4, <2>5 DEF RecentInv, Recent, CallerType
<1>8. CASE TripReturns(r)
  <2>1. /\ UNCHANGED <<object, askAge, reply, observed>>
        /\ cacheAge' = [cacheAge EXCEPT ![HostOf[r]] = CacheTtl]
        /\ cacheValue' = [cacheValue EXCEPT ![HostOf[r]] = FALSE]
    BY <1>8 DEF TripReturns
  <2>2. \A s \in Requests : pc'[s] = "answered" => pc[s] = "answered"
    BY <1>2, <1>8 DEF TripReturns, CallerType
  <2>3. \A i \in Isolates : Recent(cacheValue[i], cacheAge[i])'
    BY <1>1, <1>2, <2>1 DEF RecentInv, Recent, CallerType, ObjectType
  <2>4. QED
    BY <2>1, <2>2, <2>3 DEF RecentInv, CircuitOpen, Recent
<1>9. CASE HandleReset(r)
  <2>1. UNCHANGED <<openLeft, caches, askAge, reply, observed>>
    BY <1>9 DEF HandleReset
  <2>2. \A s \in Requests : pc'[s] = "answered" => pc[s] = "answered"
    BY <1>2, <1>9 DEF HandleReset, CallerType
  <2>3. QED
    BY <2>1, <2>2 DEF RecentInv, CircuitOpen, Recent
<1>10. QED
  BY <1>3, <1>4, <1>5, <1>6, <1>7, <1>8, <1>9 DEF Step

LEMMA TickRecent ==
  ASSUME Assumptions, Typed, RecentInv, Tick
  PROVE  RecentInv'
<1>1. CacheTtl \in Nat /\ Degrade \in Nat
  BY Durations
<1>2. /\ openLeft \in 0..Degrade /\ openLeft' = IF openLeft > 0 THEN openLeft - 1 ELSE 0
      /\ sinceOpen \in 0..CacheTtl /\ sinceClosed \in 0..CacheTtl
      /\ sinceOpen' = IF openLeft' > 0 THEN 0 ELSE Older(sinceOpen, CacheTtl)
      /\ sinceClosed' = IF openLeft' = 0 THEN 0 ELSE Older(sinceClosed, CacheTtl)
  BY DEF Tick, Typed, ObjectType
<1>3. ASSUME NEW open \in BOOLEAN, NEW age \in 0..CacheTtl, Recent(open, age)
      PROVE  IF open THEN sinceOpen' <= Older(age, CacheTtl)
                     ELSE sinceClosed' <= Older(age, CacheTtl)
  <2>1. open => sinceOpen <= age
    BY <1>3 DEF Recent
  <2>2. ~open => sinceClosed <= age
    BY <1>3 DEF Recent
  <2>3. open => sinceOpen' <= Older(age, CacheTtl)
    BY <1>1, <1>2, <2>1 DEF Older, Least
  <2>4. ~open => sinceClosed' <= Older(age, CacheTtl)
    BY <1>1, <1>2, <2>2 DEF Older, Least
  <2>5. QED
    BY <2>3, <2>4
<1>4. \A i \in Isolates : Recent(cacheValue[i], cacheAge[i])'
  <2>1. ASSUME NEW i \in Isolates PROVE Recent(cacheValue[i], cacheAge[i])'
    <3>1. /\ cacheValue[i] \in BOOLEAN /\ cacheAge[i] \in 0..CacheTtl
          /\ cacheValue' = cacheValue /\ cacheAge'[i] = Older(cacheAge[i], CacheTtl)
          /\ Recent(cacheValue[i], cacheAge[i])
      BY DEF Tick, Typed, CallerType, RecentInv
    <3>2. IF cacheValue[i] THEN sinceOpen' <= Older(cacheAge[i], CacheTtl)
                         ELSE sinceClosed' <= Older(cacheAge[i], CacheTtl)
      BY <1>3, <3>1
    <3>3. QED
      BY <3>1, <3>2 DEF Recent
  <2>2. QED
    BY <2>1
<1>5. \A r \in Requests : pc'[r] = "answered" => Recent(reply[r], askAge[r])'
  <2>1. ASSUME NEW r \in Requests, pc'[r] = "answered"
        PROVE  Recent(reply[r], askAge[r])'
    <3>1. /\ reply[r] \in BOOLEAN /\ askAge[r] \in 0..CacheTtl
          /\ reply' = reply /\ askAge'[r] = Older(askAge[r], CacheTtl)
          /\ Recent(reply[r], askAge[r])
      BY <2>1 DEF Tick, Typed, CallerType, RecentInv
    <3>2. IF reply[r] THEN sinceOpen' <= Older(askAge[r], CacheTtl)
                         ELSE sinceClosed' <= Older(askAge[r], CacheTtl)
      BY <1>3, <3>1
    <3>3. QED
      BY <3>1, <3>2 DEF Recent
  <2>2. QED
    BY <2>1
<1>6. IF CircuitOpen' THEN sinceOpen' = 0 ELSE sinceClosed' = 0
  BY <1>1, <1>2 DEF CircuitOpen
<1>7. QED
  BY <1>4, <1>5, <1>6 DEF RecentInv

\* A check that is still fresh is recent, with any number of requests and
\* isolates, answers late by any time, as long as the object's own handler of
\* the check does not fail.
THEOREM CacheHonest ==
  ASSUME Assumptions, "error" \notin CheckFaults
  PROVE  Spec => []CacheIsRecent
<1>1. Init => RecentInv
  BY Durations DEF Init, RecentInv, CircuitOpen, Recent
<1>2. Typed /\ RecentInv /\ [Next]_vars => RecentInv'
  <2>1. ASSUME RecentInv, UNCHANGED vars PROVE RecentInv'
    BY <2>1 DEF RecentInv, CircuitOpen, Recent, vars, object, caches, callers, observed
  <2>2. QED
    BY <2>1, StepRecent, TickRecent DEF Next
<1>3. RecentInv => CacheIsRecent
  BY DEF RecentInv, Recent, CacheIsRecent
<1>4. Spec => []Typed
  BY TypeAlways
<1>5. QED
  BY <1>1, <1>2, <1>3, <1>4, PTL DEF Spec

(***************************************************************************)
(* The count.  While there is a record, the newest failure is no older     *)
(* than the moment the record is anchored at.                              *)
(***************************************************************************)
CountInv ==
  /\ failures \in Seq(0..Window) /\ Len(failures) <= Threshold
  /\ count > 0 => Len(failures) >= 1 /\ failures[1] <= failAge

LEMMA TripRecords ==
  ASSUME Assumptions, failures \in Seq(0..Window), Trip
  PROVE  /\ failures' \in Seq(0..Window)
         /\ Len(failures') = Least(Len(failures) + 1, Threshold)
         /\ failures'[1] = 0
         /\ \A n \in 2..Len(failures') : failures'[n] = failures[n - 1]
<1> DEFINE longer == <<0>> \o failures
           keep == Least(Len(failures) + 1, Threshold)
<1>1. Window \in Nat /\ failures \in Seq(0..Window) /\ Len(failures) \in Nat
  BY Durations
<1>2. /\ longer \in Seq(0..Window) /\ Len(longer) = Len(failures) + 1
      /\ longer[1] = 0 /\ \A n \in 2..Len(longer) : longer[n] = failures[n - 1]
  BY <1>1
<1>3. keep \in 1..Len(longer)
  BY <1>1, <1>2 DEF Least, Threshold
<1>4. failures' = SubSeq(longer, 1, keep)
  BY DEF Trip
<1>5. Least(Len(failures) + 1, Threshold) = keep
  OBVIOUS
<1> HIDE DEF longer, keep
<1>6. keep \in Int /\ 1 <= keep
  BY <1>2, <1>3
<1>7. \A n \in 1..keep : longer[n] \in 0..Window
  <2>1. ASSUME NEW n \in 1..keep PROVE longer[n] \in 0..Window
    <3>1. n \in 1..Len(longer)
      BY <1>1, <1>2, <1>3
    <3>2. QED
      BY <1>2, <3>1, ElementOfSeq
  <2>2. QED
    BY <2>1
<1>8. /\ SubSeq(longer, 1, keep) \in Seq(0..Window)
      /\ Len(SubSeq(longer, 1, keep)) = IF 1 <= keep THEN keep - 1 + 1 ELSE 0
      /\ \A n \in 1 .. keep - 1 + 1 : SubSeq(longer, 1, keep)[n] = longer[1 + n - 1]
  BY <1>6, <1>7, SubSeqProperties
<1>9. failures' \in Seq(0..Window) /\ Len(failures') = keep
  BY <1>4, <1>6, <1>8
<1>10. \A n \in 1..keep : failures'[n] = longer[n]
  BY <1>4, <1>6, <1>8
<1>11. QED
  BY <1>1, <1>2, <1>3, <1>5, <1>9, <1>10

LEMMA TripCounts ==
  ASSUME Assumptions, Typed, CountInv, Trip
  PROVE  /\ CountInv'
         /\ openLeft' > openLeft => Len(failures') >= 2 /\ failures'[2] < Window
<1>1. /\ Window \in Nat /\ Window > 0 /\ failures \in Seq(0..Window) /\ Len(failures) \in Nat
      /\ count \in 0..Threshold /\ failAge \in 0..Window /\ openLeft \in 0..Degrade
  BY Durations DEF Typed, ObjectType, CountInv
<1>2. /\ failures' \in Seq(0..Window) /\ Len(failures') \in 1..Threshold
      /\ failures'[1] = 0
      /\ Len(failures) >= 1 => Len(failures') >= 2 /\ failures'[2] = failures[1]
  <2>1. /\ failures' \in Seq(0..Window) /\ failures'[1] = 0
        /\ Len(failures') = Least(Len(failures) + 1, Threshold)
        /\ \A n \in 2..Len(failures') : failures'[n] = failures[n - 1]
    BY <1>1, TripRecords
  <2>2. Len(failures') \in 1..Threshold /\ (Len(failures) >= 1 => Len(failures') >= 2)
    BY <1>1, <2>1 DEF Least, Threshold
  <2>3. ASSUME Len(failures) >= 1 PROVE failures'[2] = failures[1]
    <3>1. 2 \in 2..Len(failures') /\ 2 - 1 = 1
      BY <1>1, <2>2, <2>3
    <3>2. QED
      BY <2>1, <3>1
  <2>4. QED
    BY <2>1, <2>2, <2>3
<1>3. failAge' >= 0
  BY <1>1 DEF Trip, AnchorAge
<1>4. CountInv'
  BY <1>2, <1>3 DEF CountInv
<1>5. ASSUME openLeft' > openLeft PROVE Len(failures') >= 2 /\ failures'[2] < Window
  <2>1. Opens
    BY <1>1, <1>5 DEF Trip
  <2>2. InWindow
    BY <2>1 DEF Opens, Counted, Threshold
  <2>3. Len(failures) >= 1 /\ failures[1] <= failAge /\ failAge < Window
    BY <1>1, <2>2 DEF InWindow, CountInv
  <2>4. failures[1] \in 0..Window
    BY <1>1, <2>3
  <2>5. QED
    BY <1>1, <1>2, <2>3, <2>4
<1>6. QED
  BY <1>4, <1>5

LEMMA TickCounts ==
  ASSUME Assumptions, Typed, CountInv, Tick
  PROVE  CountInv' /\ openLeft' <= openLeft
<1>1. /\ Window \in Nat /\ failures \in Seq(0..Window) /\ Len(failures) \in Nat
      /\ DOMAIN failures = 1..Len(failures)
      /\ count \in 0..Threshold /\ failAge \in 0..Window /\ openLeft \in 0..Degrade
  BY Durations DEF Typed, ObjectType, CountInv
<1>2. \A age \in 0..Window : Older(age, Window) \in 0..Window
  BY <1>1 DEF Older, Least
<1>3. failures' = [n \in 1..Len(failures) |-> Older(failures[n], Window)]
  BY <1>1 DEF Tick
<1>4. \A n \in 1..Len(failures) : Older(failures[n], Window) \in 0..Window
  BY <1>1, <1>2
<1>5. failures' \in Seq(0..Window) /\ Len(failures') = Len(failures)
  BY <1>1, <1>3, <1>4
<1>6. ASSUME count' > 0 PROVE Len(failures') >= 1 /\ failures'[1] <= failAge'
  <2>1. /\ count' = count /\ failAge' = Older(failAge, Window)
        /\ Len(failures) >= 1 /\ failures[1] <= failAge /\ failures[1] \in 0..Window
    BY <1>1, <1>6 DEF Tick, CountInv
  <2>2. failures'[1] = Older(failures[1], Window)
    BY <1>1, <1>3, <2>1
  <2>3. Older(failures[1], Window) <= Older(failAge, Window)
    BY <1>1, <2>1 DEF Older, Least
  <2>4. QED
    BY <1>5, <2>1, <2>2, <2>3
<1>7. openLeft' <= openLeft
  BY <1>1, Durations DEF Tick
<1>8. QED
  BY <1>5, <1>6, <1>7 DEF CountInv

LEMMA StepCounts ==
  ASSUME Assumptions, Typed, CountInv, NEW r \in Requests, Step(r)
  PROVE  /\ CountInv'
         /\ openLeft' > openLeft => Len(failures') >= 2 /\ failures'[2] < Window
<1>1. CASE HandleTrip(r)
  BY <1>1, TripCounts DEF HandleTrip
<1>2. CASE HandleReset(r)
  <2>1. UNCHANGED <<openLeft, failures>>
    BY <1>2 DEF HandleReset
  <2>2. count' = 0 \/ UNCHANGED <<count, failAge>>
    BY <1>2 DEF HandleReset
  <2>3. openLeft \in 0..Degrade
    BY DEF Typed, ObjectType
  <2>4. QED
    BY <2>1, <2>2, <2>3, Durations DEF CountInv
<1>3. CASE ~HandleTrip(r) /\ ~HandleReset(r)
  <2>1. UNCHANGED <<object, failures>>
    BY <1>3 DEF Step, ReadCache, SendCheck, HandleCheck, CheckReturns, CheckFails,
                UpstreamAnswers, TripReturns, ReportFails, records
  <2>2. openLeft \in 0..Degrade
    BY DEF Typed, ObjectType
  <2>3. QED
    BY <2>1, <2>2, Durations DEF CountInv, object
<1>4. QED
  BY <1>1, <1>2, <1>3

\* Whatever reports are lost or late, the circuit opens only on a second failure
\* within one window.
THEOREM OpensOnRepeat ==
  ASSUME Assumptions
  PROVE  Spec => OpensOnRepeatedFailure
<1> DEFINE Repeats == openLeft' > openLeft => Len(failures') >= 2 /\ failures'[2] < Window
<1>1. Init => CountInv
  BY DEF Init, CountInv, Threshold
<1>2. Typed /\ CountInv /\ [Next]_vars => CountInv' /\ (Repeats \/ UNCHANGED vars)
  <2>1. ASSUME CountInv, UNCHANGED vars PROVE CountInv'
    BY <2>1 DEF CountInv, vars, object, records
  <2>2. ASSUME Typed, CountInv, Tick PROVE CountInv' /\ Repeats
    <3>1. openLeft \in 0..Degrade /\ openLeft' \in 0..Degrade
      BY <2>2, TickType DEF Typed, ObjectType
    <3>2. QED
      BY <2>2, <3>1, TickCounts, Durations
  <2>3. QED
    BY <2>1, <2>2, StepCounts DEF Next
<1>3. Spec => []Typed
  BY TypeAlways
<1>4. QED
  BY <1>1, <1>2, <1>3, PTL DEF Spec, OpensOnRepeatedFailure

(***************************************************************************)
(* A row of failures.  Every failure of the row that is recent enough has  *)
(* opened the circuit, or found it open for as long; or the record counts  *)
(* all of the row and is anchored so near the last failure that the next   *)
(* one is counted, too.                                                    *)
(***************************************************************************)
Sorted ==
  \A m \in 1..Len(failures) : \A n \in 1..Len(failures) :
    m <= n => failures[m] <= failures[n]

Covered(k) ==
  \/ Degrade <= openLeft + failures[k]
  \/ k < Threshold /\ count >= k /\ failAge < MaxFail + failures[1]

StreakInv ==
  /\ succ \in 0..1
  /\ streak \in 0..Threshold /\ streak <= Len(failures)
  /\ Sorted
  /\ \A k \in 1..streak : failures[k] < Degrade => Covered(k)

LEMMA Order ==
  ASSUME Assumptions
  PROVE  /\ {CacheTtl, MaxFail, Degrade, Window} \subseteq Nat
         /\ 0 < MaxFail /\ 0 < Degrade /\ MaxFail + Degrade < Window
  BY DEF Assumptions, DurationsAssumption

LEMMA Failures ==
  ASSUME Typed, CountInv
  PROVE  /\ Len(failures) \in 0..Threshold
         /\ \A n \in 1..Len(failures) : failures[n] \in 0..Window
         /\ count \in 0..Threshold /\ failAge \in 0..Window /\ openLeft \in 0..Degrade
<1>1. failures \in Seq(0..Window)
  BY DEF CountInv
<1>2. \A n \in 1..Len(failures) : failures[n] \in 0..Window
  BY <1>1, ElementOfSeq
<1>3. Len(failures) \in 0..Threshold
  <2>1. Len(failures) \in Nat /\ Len(failures) <= Threshold
    BY <1>1 DEF CountInv
  <2>2. Threshold \in Nat
    BY DEF Threshold
  <2>3. QED
    BY <2>1, <2>2
<1>4. QED
  BY <1>2, <1>3 DEF Typed, ObjectType

LEMMA TripCovers ==
  ASSUME Assumptions, Typed, CountInv, StreakInv, Trip, UNCHANGED succ
  PROVE  StreakInv'
<1>1. /\ Len(failures) \in 0..Threshold
      /\ \A n \in 1..Len(failures) : failures[n] \in 0..Window
      /\ count \in 0..Threshold /\ failAge \in 0..Window /\ openLeft \in 0..Degrade
      /\ streak \in 0..Threshold /\ streak <= Len(failures)
  BY Failures DEF StreakInv
<1>2. /\ MaxFail \in Nat /\ Degrade \in Nat /\ Window \in Nat
      /\ 0 < MaxFail /\ 0 < Degrade /\ MaxFail + Degrade < Window
  BY Order
<1>3. /\ Len(failures') = Least(Len(failures) + 1, Threshold) /\ failures'[1] = 0
      /\ \A n \in 2..Len(failures') : failures'[n] = failures[n - 1]
  BY TripRecords DEF CountInv
<1>4. /\ Len(failures') \in 1..Threshold /\ Len(failures') <= Len(failures) + 1
      /\ streak' = Least(streak + 1, Threshold)
      /\ streak' \in 1..Threshold /\ streak' <= Len(failures') /\ streak' <= streak + 1
  BY <1>1, <1>3 DEF Trip, Least, Threshold
<1>5. Sorted'
  <2>1. ASSUME NEW m \in 1..Len(failures'), NEW n \in 1..Len(failures'), m <= n
        PROVE  failures'[m] <= failures'[n]
    <3>1. CASE n = 1
      BY <1>4, <2>1, <3>1, <1>3
    <3>2. CASE n # 1 /\ m = 1
      <4>1. failures'[n] = failures[n - 1] /\ n - 1 \in 1..Len(failures)
        BY <1>1, <1>3, <1>4, <2>1, <3>2
      <4>2. QED
        BY <1>1, <1>3, <3>2, <4>1
    <3>3. CASE n # 1 /\ m # 1
      <4>1. /\ failures'[n] = failures[n - 1] /\ n - 1 \in 1..Len(failures)
            /\ failures'[m] = failures[m - 1] /\ m - 1 \in 1..Len(failures)
        BY <1>1, <1>3, <1>4, <2>1, <3>3
      <4>2. m - 1 <= n - 1
        BY <1>4, <2>1
      <4>3. QED
        BY <4>1, <4>2 DEF StreakInv, Sorted
    <3>4. QED
      BY <3>1, <3>2, <3>3
  <2>2. QED
    BY <2>1 DEF Sorted
<1>6. /\ openLeft' = IF Opens THEN Degrade ELSE openLeft
      /\ count' = Counted /\ failAge' = AnchorAge
  BY DEF Trip
<1>7. openLeft' \in 0..Degrade /\ openLeft' >= openLeft /\ (Opens => openLeft' = Degrade)
  BY <1>1, <1>2, <1>6
\* What the record says of a failure that does not open the circuit.
<1>8. ~Opens => count' \in 1..2 /\ failAge' \in 0..Window /\ failAge' < MaxFail
  <2>1. CASE InWindow
    BY <1>1, <1>2, <1>6, <2>1 DEF Opens, Counted, AnchorAge, InWindow, Least, Threshold
  <2>2. CASE ~InWindow
    BY <1>1, <1>2, <1>6, <2>2 DEF Opens, Counted, AnchorAge, Threshold
  <2>3. QED
    BY <2>1, <2>2
<1>9. ASSUME NEW k \in 1..streak', failures'[k] < Degrade
      PROVE  Covered(k)'
  <2>1. CASE Opens
    <3>1. k \in 1..Len(failures')
      BY <1>4, <1>9
    <3>2. failures'[k] \in 0..Window
      BY <3>1, TripRecords, ElementOfSeq DEF CountInv
    <3>3. QED
      BY <1>2, <1>7, <2>1, <3>2 DEF Covered
  <2>2. CASE ~Opens /\ k = 1
    BY <1>2, <1>3, <1>8, <2>2 DEF Covered, Threshold
  <2>3. CASE ~Opens /\ k # 1
    <3>1. /\ k - 1 \in 1..streak /\ k \in 2..Len(failures') /\ k \in 2..Threshold
          /\ 1 \in 1..Len(failures) /\ k - 1 \in 1..Len(failures)
      BY <1>1, <1>4, <1>9, <2>3 DEF Threshold
    <3>2. failures'[k] = failures[k - 1]
      BY <1>3, <3>1
    <3>3. /\ failures[k - 1] \in 0..Window /\ failures[1] \in 0..Window
          /\ failures[1] <= failures[k - 1]
      BY <1>1, <3>1 DEF StreakInv, Sorted
    <3>4. Covered(k - 1)
      BY <1>9, <3>1, <3>2 DEF StreakInv
    <3>5. CASE Degrade <= openLeft + failures[k - 1]
      BY <1>1, <1>7, <1>2, <3>2, <3>3, <3>5 DEF Covered
    <3>6. CASE count >= k - 1 /\ failAge < MaxFail + failures[1]
      <4>1. InWindow
        BY <1>1, <1>2, <1>9, <3>1, <3>2, <3>3, <3>6 DEF InWindow
      <4>2. count' >= k
        BY <1>1, <1>6, <3>1, <3>6, <4>1 DEF Counted, Least, Threshold
      <4>3. k < Threshold
        BY <1>8, <2>3, <3>1, <4>2 DEF Threshold
      <4>4. QED
        BY <1>2, <1>3, <1>8, <2>3, <4>2, <4>3 DEF Covered
    <3>7. QED
      BY <3>4, <3>5, <3>6 DEF Covered
  <2>4. QED
    BY <2>1, <2>2, <2>3
<1>10. QED
  BY <1>4, <1>5, <1>9 DEF StreakInv

LEMMA TickCovers ==
  ASSUME Assumptions, Typed, CountInv, StreakInv, Tick
  PROVE  StreakInv'
<1>1. /\ Len(failures) \in 0..Threshold
      /\ \A n \in 1..Len(failures) : failures[n] \in 0..Window
      /\ count \in 0..Threshold /\ failAge \in 0..Window /\ openLeft \in 0..Degrade
      /\ streak \in 0..Threshold /\ streak <= Len(failures)
  BY Failures DEF StreakInv
<1>2. /\ MaxFail \in Nat /\ Degrade \in Nat /\ Window \in Nat
      /\ 0 < MaxFail /\ 0 < Degrade /\ MaxFail + Degrade < Window
  BY Order
<1>3. /\ Len(failures') = Len(failures)
      /\ \A n \in 1..Len(failures) : failures'[n] = Older(failures[n], Window)
  <2>1. failures \in Seq(0..Window)
    BY DEF CountInv
  <2>2. failures' = [n \in 1..Len(failures) |-> Older(failures[n], Window)]
    BY <2>1 DEF Tick
  <2>3. failures' \in Seq(0..Window)
    BY TickCounts DEF CountInv
  <2>4. QED
    BY <2>1, <2>2, <2>3
<1>4. Sorted'
  <2>1. ASSUME NEW m \in 1..Len(failures), NEW n \in 1..Len(failures), m <= n
        PROVE  Older(failures[m], Window) <= Older(failures[n], Window)
    <3>1. failures[m] <= failures[n] /\ failures[m] \in 0..Window /\ failures[n] \in 0..Window
      BY <1>1, <2>1 DEF StreakInv, Sorted
    <3>2. QED
      BY <1>2, <3>1 DEF Older, Least
  <2>2. QED
    BY <1>3, <2>1 DEF Sorted
<1>5. /\ UNCHANGED <<count, streak, succ>>
      /\ openLeft' = (IF openLeft > 0 THEN openLeft - 1 ELSE 0)
      /\ failAge' = (IF count > 0 THEN Older(failAge, Window) ELSE 0)
  BY DEF Tick
<1>6. ASSUME NEW k \in 1..streak, failures'[k] < Degrade
      PROVE  Covered(k)'
  <2>1. k \in 1..Len(failures) /\ 1 \in 1..Len(failures) /\ 1 <= k
    BY <1>1, <1>6
  <2>2. /\ failures[k] \in 0..Window /\ failures[1] \in 0..Window
        /\ failures[1] <= failures[k]
    BY <1>1, <2>1 DEF StreakInv, Sorted
  <2>3. failures'[k] = Older(failures[k], Window) /\ failures'[1] = Older(failures[1], Window)
    BY <1>3, <2>1
  <2>4. failures'[k] = failures[k] + 1 /\ failures'[1] = failures[1] + 1
    BY <1>2, <1>6, <2>2, <2>3 DEF Older, Least
  <2>5. Covered(k)
    BY <1>2, <1>6, <2>2, <2>4 DEF StreakInv
  <2>6. CASE Degrade <= openLeft + failures[k]
    BY <1>1, <1>2, <1>5, <2>2, <2>4, <2>6 DEF Covered
  <2>7. CASE k < Threshold /\ count >= k /\ failAge < MaxFail + failures[1]
    <3>1. failAge' <= failAge + 1
      BY <1>1, <1>2, <1>5 DEF Older, Least
    <3>2. failAge' \in Int
      BY <1>1, <1>2, <1>5 DEF Older, Least
    <3>3. QED
      BY <1>1, <1>2, <1>5, <2>2, <2>4, <2>7, <3>1, <3>2 DEF Covered
  <2>8. QED
    BY <2>5, <2>6, <2>7 DEF Covered
<1>7. QED
  BY <1>1, <1>3, <1>4, <1>5, <1>6 DEF StreakInv

LEMMA StepCovers ==
  ASSUME Assumptions, Typed, CountInv, StreakInv, NEW r \in Requests, Step(r)
  PROVE  StreakInv'
<1>1. CASE HandleTrip(r)
  BY <1>1, TripCovers DEF HandleTrip
<1>2. CASE HandleReset(r)
  <2>1. UNCHANGED failures /\ streak' = 0 /\ succ' \in 0..1
    BY <1>2 DEF HandleReset, Clears, StreakInv
  <2>2. Len(failures) \in Nat
    BY Failures
  <2>3. QED
    BY <2>1, <2>2 DEF StreakInv, Sorted, Threshold
<1>3. CASE ~HandleTrip(r) /\ ~HandleReset(r)
  <2>1. UNCHANGED <<object, records>>
    BY <1>3 DEF Step, ReadCache, SendCheck, HandleCheck, CheckReturns, CheckFails,
                UpstreamAnswers, TripReturns, ReportFails
  <2>2. QED
    BY <2>1 DEF StreakInv, Sorted, Covered, object, records
<1>4. QED
  BY <1>1, <1>2, <1>3

LEMMA StreakAlways ==
  ASSUME Assumptions
  PROVE  Spec => [](Typed /\ CountInv /\ StreakInv)
<1>1. Init => CountInv /\ StreakInv
  BY DEF Init, CountInv, StreakInv, Sorted, Threshold
<1>2. Typed /\ CountInv /\ StreakInv /\ [Next]_vars => CountInv' /\ StreakInv'
  <2>1. ASSUME CountInv, StreakInv, UNCHANGED vars PROVE CountInv' /\ StreakInv'
    BY <2>1 DEF CountInv, StreakInv, Sorted, Covered, vars, object, records
  <2>2. QED
    BY <2>1, StepCounts, TickCounts, StepCovers, TickCovers DEF Next
<1>3. QED
  BY <1>1, <1>2, TypeAlways, PTL DEF Spec

\* Three failures in a row within the time the circuit would stay open leave it
\* open, for any durations in the order of the code's: wherever the counting
\* window began and however stale the record was.
THEOREM DeadChannelIsCut ==
  ASSUME Assumptions
  PROVE  Spec => []StreakOpens
<1>1. Typed /\ CountInv /\ StreakInv => StreakOpens
  <2>1. SUFFICES ASSUME Typed, CountInv, StreakInv,
                        streak = Threshold, failures[Threshold] < Degrade
                 PROVE  CircuitOpen
    BY DEF StreakOpens
  <2>2. Threshold \in 1..streak /\ Threshold \in 1..Len(failures)
    BY <2>1, Failures DEF StreakInv, Threshold
  <2>3. Degrade <= openLeft + failures[Threshold]
    BY <2>1, <2>2 DEF StreakInv, Covered, Threshold
  <2>4. QED
    BY <2>1, <2>2, <2>3, Failures, Order DEF CircuitOpen
<1>2. QED
  BY <1>1, StreakAlways, PTL

\* Types: what the object, the caches and the callers keep stays in range.
THEOREM BreakerTyped ==
  ASSUME Assumptions
  PROVE  Spec => []TypeOK
<1>1. Typed /\ CountInv /\ StreakInv => TypeOK
  <2>1. SUFFICES ASSUME Typed, CountInv, StreakInv PROVE TypeOK
    OBVIOUS
  <2>2. failures \in BoundedSeq(0..Window, Threshold)
    <3>1. failures \in [1..Len(failures) -> 0..Window] /\ Len(failures) \in 0..Threshold
      BY <2>1, Failures DEF CountInv
    <3>2. QED
      BY <3>1 DEF BoundedSeq, SeqOf
  <2>3. QED
    BY <2>1, <2>2 DEF Typed, ObjectType, CallerType, Stages, StreakInv, TypeOK
<1>2. QED
  BY <1>1, StreakAlways, PTL
=============================================================================
