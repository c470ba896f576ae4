-------------------------- MODULE DeviceLiveProofs --------------------------
(***************************************************************************)
(* Proofs about what has to come to an end on a device: of ExecuteWait,    *)
(* for every set of calls, foreground and background, and commands of any  *)
(* number of lines; of DesktopShell, for any number of reloads and of      *)
(* falls of the agent.  The gate's are in ApprovalGateProofs.              *)
(***************************************************************************)
EXTENDS MCDeviceLive, ApprovalGateProofs, SequenceTheorems

(***************************************************************************)
(* What the shell is sent and what it puts out.                            *)
(***************************************************************************)
Sends(c) == [i \in 1..Lines[c] |-> c]

LEMMA SendsType ==
  ASSUME NEW c \in Runs
  PROVE  Sends(c) \in Seq(Runs) /\ Len(Sends(c)) = Lines[c]
<1>1. Lines[c] \in Nat
  BY ExecuteAssumptions DEF Execute!LinesAssumption
<1>2. Sends(c) \in [1..Lines[c] -> Runs]
  BY DEF Sends
<1>3. QED
  BY <1>1, <1>2, SeqDef DEF Sends

LEMMA ReadType ==
  ASSUME NEW c \in Runs, Execute!TypeOK, ~Execute!CaughtUp(c), readAbs[c] <= Len(output)
  PROVE  Len(output) \in Nat \ {0} /\ Execute!Last(output) = output[Len(output)]
         /\ Execute!Last(output) \in Runs
<1>1. Len(output) \in Nat /\ readAbs[c] \in Nat
  BY DEF Execute!TypeOK
<1>2. Len(output) \in 1..Len(output)
  BY <1>1 DEF Execute!CaughtUp
<1>3. QED
  BY <1>1, <1>2, ElementOfSeq DEF Execute!TypeOK, Execute!Last

\* A cursor is never beyond what the session has put out.
CursorsInside == \A c \in Runs : readAbs[c] <= Len(output)

(***************************************************************************)
(* Type correctness.                                                       *)
(***************************************************************************)
RunsTyped == Execute!TypeOK /\ CursorsInside

LEMMA RunType ==
  ASSUME RunsTyped, NEW c \in Runs, Execute!Step(c)
  PROVE  RunsTyped'
<1>a. Len(output) \in Nat /\ \A d \in Runs : readAbs[d] \in Nat /\ readAbs[d] <= Len(output)
  BY DEF RunsTyped, Execute!TypeOK, CursorsInside
<1>b. ASSUME readAbs' = [readAbs EXCEPT ![c] = Len(output)], output' = output
      PROVE  readAbs' \in [Runs -> Nat] /\ CursorsInside'
  BY <1>a, <1>b DEF RunsTyped, Execute!TypeOK, CursorsInside
<1> USE DEF RunsTyped, Execute!TypeOK, Execute!Stations, Execute!Waits, Execute!Answers,
     Execute!Goto, Execute!Answered, Execute!session, Execute!shell
<1>1. CASE Execute!Acquire(c)
  BY <1>1 DEF Execute!Acquire, CursorsInside
<1>2. CASE Execute!Refuse(c)
  BY <1>2 DEF Execute!Refuse, CursorsInside
<1>3. CASE Execute!Settle(c)
  <2>1. alone' \in [Runs -> BOOLEAN]
    BY <1>3 DEF Execute!Settle
  <2>2. readAbs' \in [Runs -> Nat] /\ CursorsInside'
    BY <1>3, <1>b DEF Execute!Settle, Execute!FirstRead
  <2>3. QED
    BY <1>3, <2>1, <2>2 DEF Execute!Settle
<1>4. CASE Execute!Write(c)
  <2>1. input' \in Seq(Runs)
    BY <1>4, SendsType, ConcatProperties DEF Execute!Write, Sends
  <2>2. QED
    BY <1>4, <2>1 DEF Execute!Write, CursorsInside
<1>5. CASE Execute!WriteFails(c)
  BY <1>5 DEF Execute!WriteFails, CursorsInside
<1>6. CASE Execute!Begin(c)
  <2>1. lastExit' \in Runs \cup {NoCall}
    BY <1>6 DEF Execute!Begin
  <2>2. CASE c \in Background
    <3>1. readAbs' \in [Runs -> Nat] /\ CursorsInside'
      BY <1>6, <2>2, <1>b DEF Execute!Begin
    <3>2. late' \in [Runs -> BOOLEAN]
      BY <1>6, <2>2 DEF Execute!Begin, Execute!CaughtUp
    <3>3. QED
      BY <1>6, <2>1, <2>2, <3>1, <3>2 DEF Execute!Begin
  <2>3. CASE c \notin Background
    BY <1>6, <2>1, <2>3 DEF Execute!Begin, CursorsInside
  <2>4. QED
    BY <2>2, <2>3
<1>7. CASE Execute!Read(c) \/ Execute!WatcherReads(c)
  <2>1. Execute!Last(output) \in Runs
    BY <1>7, <1>a, ReadType DEF Execute!Read, Execute!WatcherReads
  <2>2. readAbs' \in [Runs -> Nat] /\ CursorsInside'
    BY <1>7, <1>b DEF Execute!Read, Execute!WatcherReads
  <2>3. code' \in [Runs -> Runs \cup {NoCall}]
    <3>1. PICK d \in Runs : d = Execute!Last(output)
      BY <2>1
    <3>2. code' = [code EXCEPT ![c] = d]
      BY <1>7, <3>1 DEF Execute!Read, Execute!WatcherReads
    <3>3. QED
      BY <3>2
  <2>4. QED
    BY <1>7, <2>1, <2>2, <2>3 DEF Execute!Read, Execute!WatcherReads
<1>8. ASSUME NEW how \in Execute!Answers, Execute!Ends(c, how) PROVE RunsTyped'
  <2>1. lastExit' \in Runs \cup {NoCall}
    BY <1>8 DEF Execute!Ends
  <2>2. QED
    BY <1>8, <2>1 DEF Execute!Ends, CursorsInside
<1>9. CASE Execute!Confirmed(c) \/ Execute!Idle(c) \/ Execute!Deadline(c) \/ Execute!Closed(c)
  BY <1>8, <1>9 DEF Execute!Confirmed, Execute!Idle, Execute!Deadline, Execute!Closed
<1>10. CASE Execute!Quiet(c)
  BY <1>10 DEF Execute!Quiet, CursorsInside
<1>11. CASE Execute!WatcherEnds(c)
  BY <1>11 DEF Execute!WatcherEnds, Execute!Releases, CursorsInside
<1>12. CASE Execute!WatcherClosed(c)
  BY <1>12 DEF Execute!WatcherClosed, Execute!Releases, Execute!RecordAtClose, CursorsInside
<1>13. QED
  BY <1>1, <1>2, <1>3, <1>4, <1>5, <1>6, <1>7, <1>9, <1>10, <1>11, <1>12 DEF Execute!Step

LEMMA RunTyped ==
  Execute!Spec => []RunsTyped
<1>1. Execute!Init => RunsTyped
  <2> SUFFICES ASSUME Execute!Init PROVE RunsTyped
    OBVIOUS
  <2>1. <<>> \in Seq(Runs) /\ Len(<<>>) = 0
    BY EmptySeq
  <2>2. /\ station \in [Runs -> Execute!Stations] /\ readAbs \in [Runs -> Nat]
        /\ code \in [Runs -> Runs \cup {NoCall}] /\ state \in [Runs -> Execute!Answers]
        /\ job \in [Runs -> {"none", "running", "done"}]
        /\ alone \in [Runs -> BOOLEAN] /\ late \in [Runs -> BOOLEAN]
    BY DEF Execute!Init, Execute!Stations, Execute!Answers
  <2>3. {marks, live, locked} \subseteq BOOLEAN
    BY DEF Execute!Init
  <2>4. CursorsInside
    BY <2>1 DEF Execute!Init, CursorsInside
  <2>5. QED
    BY <2>1, <2>2, <2>3, <2>4 DEF Execute!Init, RunsTyped, Execute!TypeOK
<1>2. RunsTyped /\ [Execute!Next]_(Execute!vars) => RunsTyped'
  <2>1. ASSUME RunsTyped, Execute!End PROVE RunsTyped'
    <3>1. input' \in Seq(Runs) /\ Head(input) \in Runs
      BY <2>1, HeadTailProperties DEF RunsTyped, Execute!TypeOK, Execute!End
    <3>2. output' \in Seq(Runs) /\ Len(output) <= Len(output')
      BY <2>1, <3>1 DEF RunsTyped, Execute!TypeOK, Execute!End
    <3>3. QED
      BY <2>1, <3>1, <3>2
         DEF RunsTyped, Execute!TypeOK, CursorsInside, Execute!End, Execute!session,
             Execute!call
  <2>2. ASSUME RunsTyped, Execute!Close PROVE RunsTyped'
    BY <2>2, EmptySeq DEF RunsTyped, Execute!TypeOK, CursorsInside, Execute!Close, Execute!call
  <2>3. ASSUME RunsTyped, UNCHANGED Execute!vars PROVE RunsTyped'
    BY <2>3
       DEF Execute!vars, Execute!session, Execute!shell, Execute!call, RunsTyped,
           Execute!TypeOK, CursorsInside
  <2>4. QED
    BY <2>1, <2>2, <2>3, RunType DEF Execute!Next
<1>3. QED
  BY <1>1, <1>2, PTL DEF Execute!Spec

(***************************************************************************)
(* The lock: whoever is between acquiring and giving it up is alone there. *)
(* Until it waits, a call has read no marker.                              *)
(***************************************************************************)
Holding == {"settling", "writing", "written", "watching"} \cup Execute!Waits

RunLock ==
  /\ \A c \in Runs : station[c] \in Holding => locked
  /\ \A c, d \in Runs : station[c] \in Holding /\ station[d] \in Holding => c = d
  /\ \A c \in Runs :
       station[c] \in {"idle", "settling", "writing", "written"} => code[c] = NoCall

LEMMA RunLockStep ==
  ASSUME RunsTyped, RunLock, [Execute!Next]_(Execute!vars)
  PROVE  RunLock'
<1>a. station \in [Runs -> Execute!Stations] /\ code \in [Runs -> Runs \cup {NoCall}]
  BY DEF RunsTyped, Execute!TypeOK
<1> USE <1>a DEF RunLock, Holding, Execute!Waits, Execute!Stations, Execute!Goto
<1>1. ASSUME NEW c \in Runs, Execute!Step(c) PROVE RunLock'
  <2>1. CASE Execute!Acquire(c) \/ Execute!Refuse(c)
    BY <2>1 DEF Execute!Acquire, Execute!Refuse, Execute!MayAcquire, Execute!session
  <2>2. CASE Execute!Settle(c) \/ Execute!Write(c) \/ Execute!Begin(c)
    BY <2>2 DEF Execute!Settle, Execute!Write, Execute!Begin, Execute!session
  <2>3. CASE Execute!Quiet(c)
    BY <2>3 DEF Execute!Quiet, Execute!session
  <2>4. CASE Execute!Read(c) \/ Execute!WatcherReads(c)
    BY <2>4 DEF Execute!Read, Execute!WatcherReads, Execute!session
  <2>5. CASE Execute!WriteFails(c) \/ Execute!WatcherEnds(c) \/ Execute!WatcherClosed(c)
    BY <2>5
       DEF Execute!WriteFails, Execute!WatcherEnds, Execute!WatcherClosed, Execute!Releases
  <2>6. CASE Execute!Confirmed(c) \/ Execute!Idle(c) \/ Execute!Deadline(c) \/ Execute!Closed(c)
    BY <2>6 DEF Execute!Confirmed, Execute!Idle, Execute!Deadline, Execute!Closed, Execute!Ends
  <2>7. QED
    BY <1>1, <2>1, <2>2, <2>3, <2>4, <2>5, <2>6 DEF Execute!Step
<1>2. CASE Execute!End \/ Execute!Close \/ UNCHANGED Execute!vars
  BY <1>2 DEF Execute!End, Execute!Close, Execute!vars, Execute!session, Execute!call
<1>3. QED
  BY <1>1, <1>2 DEF Execute!Next

LEMMA RunLockAlways ==
  Execute!Spec => []RunLock
<1>1. Execute!Init => RunLock
  BY DEF Execute!Init, RunLock, Holding, Execute!Waits
<1>2. RunsTyped /\ RunLock /\ [Execute!Next]_(Execute!vars) => RunLock'
  BY RunLockStep
<1>3. QED
  BY <1>1, <1>2, RunTyped, PTL DEF Execute!Spec

(***************************************************************************)
(* Whose end it is.  After a call has found the shell at rest, all that is *)
(* left in it and all that the call has yet to read is of the call.  A     *)
(* line is in the shell or has been put out, not both.                     *)
(***************************************************************************)
LEMMA EndFacts ==
  ASSUME RunsTyped, Execute!End
  PROVE  /\ Len(input) \in Nat \ {0} /\ Len(input') = Len(input) - 1
         /\ \A i \in 1..Len(input') : input'[i] = input[i + 1]
         /\ \/ output' = output
            \/ /\ Len(output') = Len(output) + 1
               /\ \A i \in 1..Len(output) : output'[i] = output[i]
               /\ output'[Len(output')] = input[1]
<1>1. input # <<>> /\ input \in Seq(Runs) /\ output \in Seq(Runs) /\ input' = Tail(input)
  BY DEF RunsTyped, Execute!TypeOK, Execute!End
<1>2. Len(input) \in Nat \ {0} /\ Len(output) \in Nat
  BY <1>1, EmptySeq
<1>3. Len(input') = Len(input) - 1 /\ \A i \in 1..Len(input') : input'[i] = input[i + 1]
  BY <1>1, HeadTailProperties
<1>4. Head(input) = input[1]
  BY <1>1, <1>2
<1>5. output' = output \/ output' = Append(output, input[1])
  BY <1>4 DEF Execute!End
<1>6. QED
  BY <1>1, <1>2, <1>3, <1>5

LEMMA WriteFacts ==
  ASSUME RunsTyped, NEW c \in Runs, Execute!Write(c)
  PROVE  /\ Len(input) \in Nat /\ Len(input') = Len(input) + Lines[c]
         /\ \A i \in 1..Len(input') :
              input'[i] = IF i <= Len(input) THEN input[i] ELSE c
<1>1. Lines[c] \in Nat
  BY ExecuteAssumptions DEF Execute!LinesAssumption
<1>2. Len(input) \in Nat /\ input \in Seq(Runs)
  BY DEF RunsTyped, Execute!TypeOK
<1>3. /\ Len(input') = Len(input) + Lines[c]
      /\ \A i \in 1..Len(input) + Lines[c] :
           input'[i] = IF i <= Len(input) THEN input[i] ELSE Sends(c)[i - Len(input)]
  <2>1. Sends(c) \in Seq(Runs) /\ Len(Sends(c)) = Lines[c]
    BY SendsType
  <2>2. input' = input \o Sends(c)
    BY DEF Execute!Write, Sends
  <2>3. /\ Len(input \o Sends(c)) = Len(input) + Len(Sends(c))
        /\ \A i \in 1..Len(input) + Len(Sends(c)) : (input \o Sends(c))[i] =
             IF i <= Len(input) THEN input[i] ELSE Sends(c)[i - Len(input)]
    BY <1>2, <2>1, ConcatProperties
  <2>4. QED
    BY <2>1, <2>2, <2>3
<1>4. \A i \in 1..Len(input') : i <= Len(input) \/ Sends(c)[i - Len(input)] = c
  BY <1>1, <1>2, <1>3 DEF Sends
<1>5. QED
  BY <1>2, <1>3, <1>4

Settled == {"writing", "written", "watching"} \cup Execute!Waits

EndsOwn ==
  /\ \A c \in Runs : station[c] \in Settled /\ alone[c] =>
       /\ \A i \in 1..Len(input) : input[i] = c
       /\ \A i \in 1..Len(output) : readAbs[c] < i => output[i] = c
  /\ \A c \in Runs : alone[c] => code[c] \in {c, NoCall}

LEMMA EndsOwnStep ==
  ASSUME RunsTyped, RunLock, EndsOwn, [Execute!Next]_(Execute!vars)
  PROVE  EndsOwn'
<1>a. /\ station \in [Runs -> Execute!Stations] /\ code \in [Runs -> Runs \cup {NoCall}]
      /\ alone \in [Runs -> BOOLEAN] /\ readAbs \in [Runs -> Nat]
      /\ Len(output) \in Nat /\ Len(input) \in Nat
  BY DEF RunsTyped, Execute!TypeOK
<1>b. \A c, d \in Runs : station[c] \in Settled /\ station[d] \in Settled => c = d
  BY DEF RunLock, Settled, Holding
<1> USE <1>a DEF EndsOwn, Settled, Execute!Waits, Execute!Stations, Execute!Goto
<1>1. ASSUME NEW c \in Runs, Execute!Step(c) PROVE EndsOwn'
  <2>1. CASE Execute!Acquire(c) \/ Execute!Refuse(c)
    BY <2>1, SMTT(30) DEF Execute!Acquire, Execute!Refuse, Execute!shell
  <2>2. CASE Execute!Settle(c)
    <3>1. alone'[c] => Len(input') = 0
      BY <2>2, EmptySeq DEF Execute!Settle, Execute!shell
    <3>2. readAbs'[c] = Len(output') /\ code' = code /\ code[c] = NoCall
      BY <2>2 DEF Execute!Settle, Execute!FirstRead, Execute!shell, RunLock
    <3>3. \A d \in Runs \ {c} : /\ station'[d] = station[d] /\ alone'[d] = alone[d]
                                 /\ readAbs'[d] = readAbs[d]
      BY <2>2 DEF Execute!Settle
    <3>4. input' = input /\ output' = output
      BY <2>2 DEF Execute!Settle, Execute!shell
    <3>5. ASSUME NEW d \in Runs, station'[d] \in Settled, alone'[d]
          PROVE  /\ \A i \in 1..Len(input') : input'[i] = d
                 /\ \A i \in 1..Len(output') : readAbs'[d] < i => output'[i] = d
      <4>1. CASE d = c
        BY <3>1, <3>2, <3>4, <3>5, <4>1
      <4>2. CASE d # c
        BY <3>3, <3>4, <3>5, <4>2
      <4>3. QED
        BY <4>1, <4>2
    <3>6. \A d \in Runs : alone'[d] => code'[d] \in {d, NoCall}
      BY <3>2, <3>3
    <3>7. QED
      BY <3>5, <3>6
  <2>3. CASE Execute!Write(c)
    <3>1. /\ Len(input') = Len(input) + Lines[c]
          /\ \A i \in 1..Len(input') :
               input'[i] = IF i <= Len(input) THEN input[i] ELSE c
      BY <2>3, WriteFacts
    <3>2. \A d \in Runs \ {c} : station[d] \notin Settled /\ station'[d] = station[d]
      BY <2>3, <1>b DEF Execute!Write
    <3>3. station[c] \in Settled
      BY <2>3 DEF Execute!Write
    <3>4. /\ alone' = alone /\ code' = code /\ readAbs' = readAbs /\ output' = output
          /\ \A d \in Runs : station'[d] \in Settled => d = c
      BY <2>3, <3>2 DEF Execute!Write
    <3>5. alone[c] => \A i \in 1..Len(input') : input'[i] = c
      BY <3>1, <3>3
    <3>6. QED
      BY <3>3, <3>4, <3>5
  <2>4. CASE Execute!Begin(c)
    <3>1. readAbs' = readAbs \/ readAbs' = [readAbs EXCEPT ![c] = Len(output)]
      BY <2>4 DEF Execute!Begin
    <3>2. /\ alone' = alone /\ code' = code /\ input' = input /\ output' = output
          /\ \A d \in Runs : station'[d] \in Settled => station[d] \in Settled
      BY <2>4 DEF Execute!Begin, Execute!shell
    <3>3. \A d \in Runs : \A i \in 1..Len(output) : readAbs'[d] < i => readAbs[d] < i
      <4>1. SUFFICES ASSUME NEW d \in Runs, NEW i \in 1..Len(output), readAbs'[d] < i
                     PROVE  readAbs[d] < i
        OBVIOUS
      <4>2. Len(output) \in Nat /\ readAbs \in [Runs -> Nat]
        BY DEF RunsTyped, Execute!TypeOK
      <4>3. readAbs'[d] = readAbs[d] \/ readAbs'[d] = Len(output)
        BY <3>1, <4>2
      <4>4. i \in Nat /\ ~(Len(output) < i)
        BY <4>2
      <4>5. QED
        BY <4>1, <4>3, <4>4
    <3>4. QED
      BY <3>2, <3>3
  <2>5. CASE Execute!Quiet(c)
    BY <2>5 DEF Execute!Quiet, Execute!shell
  <2>6. CASE Execute!Read(c) \/ Execute!WatcherReads(c)
    <3>1. station[c] \in Settled /\ ~Execute!CaughtUp(c)
      BY <2>6 DEF Execute!Read, Execute!WatcherReads
    <3>2. Len(output) \in Nat \ {0} /\ Execute!Last(output) = output[Len(output)]
      BY <3>1, ReadType DEF RunsTyped, CursorsInside
    <3>3. readAbs[c] < Len(output)
      BY <3>1 DEF Execute!CaughtUp, RunsTyped, CursorsInside
    <3>4. alone[c] => Execute!Last(output) = c
      BY <3>1, <3>2, <3>3
    <3>5. /\ readAbs' = [readAbs EXCEPT ![c] = Len(output)]
          /\ code' = [code EXCEPT ![c] = Execute!Last(output)]
          /\ station' = station /\ alone' = alone /\ input' = input /\ output' = output
      BY <2>6 DEF Execute!Read, Execute!WatcherReads, Execute!shell
    <3>6. \A d \in Runs : alone'[d] => code'[d] \in {d, NoCall}
      BY <3>4, <3>5
    <3>7. QED
      BY <3>5, <3>6
  <2>7. CASE Execute!WriteFails(c) \/ Execute!WatcherEnds(c) \/ Execute!WatcherClosed(c)
    BY <2>7
       DEF Execute!WriteFails, Execute!WatcherEnds, Execute!WatcherClosed,
           Execute!Releases, Execute!shell
  <2>8. CASE Execute!Confirmed(c) \/ Execute!Idle(c) \/ Execute!Deadline(c) \/ Execute!Closed(c)
    BY <2>8
       DEF Execute!Confirmed, Execute!Idle, Execute!Deadline, Execute!Closed, Execute!Ends,
           Execute!shell
  <2>9. QED
    BY <1>1, <2>1, <2>2, <2>3, <2>4, <2>5, <2>6, <2>7, <2>8 DEF Execute!Step
<1>2. CASE Execute!End
  BY <1>2, EndFacts DEF Execute!End, Execute!call
<1>3. CASE Execute!Close
  BY <1>3, EmptySeq DEF Execute!Close, Execute!call
<1>4. CASE UNCHANGED Execute!vars
  BY <1>4 DEF Execute!vars, Execute!shell, Execute!call
<1>5. QED
  BY <1>1, <1>2, <1>3, <1>4 DEF Execute!Next

Has(lines, c) == \E i \in 1..Len(lines) : lines[i] = c

EndsOnce ==
  /\ \A c \in Runs : station[c] \in {"idle", "settling", "writing"} =>
       ~Has(input, c) /\ ~Has(output, c)
  /\ \A c \in Runs : Lines[c] = 1 =>
       /\ \A i, j \in 1..Len(input) : input[i] = c /\ input[j] = c => i = j
       /\ Has(output, c) => ~Has(input, c)
  /\ \A c \in Runs : code[c] # NoCall => Has(output, code[c])
  /\ \A c \in Runs : state[c] = "done" => code[c] # NoCall

LEMMA EndsOnceStep ==
  ASSUME RunsTyped, EndsOnce, [Execute!Next]_(Execute!vars)
  PROVE  EndsOnce'
<1>a. /\ station \in [Runs -> Execute!Stations] /\ code \in [Runs -> Runs \cup {NoCall}]
      /\ state \in [Runs -> Execute!Answers]
      /\ Len(output) \in Nat /\ Len(input) \in Nat
  BY DEF RunsTyped, Execute!TypeOK
<1> USE <1>a DEF EndsOnce, Has, Execute!Waits, Execute!Stations, Execute!Goto
<1>1. ASSUME NEW c \in Runs, Execute!Step(c) PROVE EndsOnce'
  <2>1. CASE Execute!Acquire(c) \/ Execute!Refuse(c)
    BY <2>1 DEF Execute!Acquire, Execute!Refuse, Execute!Answered, Execute!shell
  <2>2. CASE Execute!Settle(c) \/ Execute!Quiet(c)
    BY <2>2 DEF Execute!Settle, Execute!Quiet, Execute!shell
  <2>3. CASE Execute!Write(c)
    <3>1. /\ Len(input') = Len(input) + Lines[c]
          /\ \A i \in 1..Len(input') :
               input'[i] = IF i <= Len(input) THEN input[i] ELSE c
      BY <2>3, WriteFacts
    <3>2. ~Has(input, c) /\ ~Has(output, c)
      BY <2>3 DEF Execute!Write
    <3>3. \A d \in Runs \ {c} : Has(input, d)' => Has(input, d)
      BY <2>3, <3>1
    <3>4. \A d \in Runs \ {c} : \A i \in 1..Len(input') :
            input'[i] = d => i \in 1..Len(input) /\ input[i] = d
      BY <2>3, <3>1
    <3>5. Lines[c] = 1 => \A i \in 1..Len(input') : input'[i] = c => i = Len(input')
      BY <3>1, <3>2
    <3>6. /\ output' = output /\ code' = code /\ state' = state
          /\ station' = [station EXCEPT ![c] = "written"]
      BY <2>3 DEF Execute!Write
    <3>7. ASSUME NEW d \in Runs, station'[d] \in {"idle", "settling", "writing"}
          PROVE  ~Has(input, d)' /\ ~Has(output, d)'
      BY <3>3, <3>6, <3>7
    <3>8. ASSUME NEW d \in Runs, Lines[d] = 1
          PROVE  /\ \A i, j \in 1..Len(input') : input'[i] = d /\ input'[j] = d => i = j
                 /\ Has(output, d)' => ~Has(input, d)'
      <4>1. CASE d = c
        BY <3>2, <3>5, <3>6, <3>8, <4>1
      <4>2. CASE d # c
        BY <3>3, <3>4, <3>6, <3>8, <4>2
      <4>3. QED
        BY <4>1, <4>2
    <3>9. QED
      BY <3>6, <3>7, <3>8
  <2>4. CASE Execute!WriteFails(c) \/ Execute!Begin(c)
    BY <2>4 DEF Execute!WriteFails, Execute!Begin, Execute!Answered, Execute!shell
  <2>5. CASE Execute!Read(c) \/ Execute!WatcherReads(c)
    <3>1. Len(output) \in Nat \ {0} /\ Execute!Last(output) = output[Len(output)]
          /\ Execute!Last(output) \in Runs
      BY <2>5, ReadType DEF Execute!Read, Execute!WatcherReads, RunsTyped, CursorsInside
    <3>2. Has(output, Execute!Last(output)) /\ Execute!Last(output) # NoCall
      BY <3>1, ExecuteAssumptions DEF Execute!CallsAssumption
    <3>3. PICK d \in Runs : d = Execute!Last(output)
      BY <3>1
    <3>4. code' = [code EXCEPT ![c] = d] /\ UNCHANGED <<input, output, station, state>>
      BY <2>5, <3>3 DEF Execute!Read, Execute!WatcherReads, Execute!shell
    <3>5. Has(output, d) /\ d # NoCall
      BY <3>2, <3>3
    <3>6. QED
      BY <3>4, <3>5, SMTT(30)
  <2>6. CASE Execute!WatcherEnds(c) \/ Execute!WatcherClosed(c)
    BY <2>6, SMTT(30)
       DEF Execute!WatcherEnds, Execute!WatcherClosed, Execute!Releases, Execute!shell
  <2>7. CASE Execute!Confirmed(c) \/ Execute!Idle(c) \/ Execute!Deadline(c) \/ Execute!Closed(c)
    BY <2>7, SMTT(30)
       DEF Execute!Confirmed, Execute!Idle, Execute!Deadline, Execute!Closed, Execute!Ends,
           Execute!Answered, Execute!shell
  <2>8. QED
    BY <1>1, <2>1, <2>2, <2>3, <2>4, <2>5, <2>6, <2>7 DEF Execute!Step
<1>2. CASE Execute!End
  <2>1. \A c \in Runs : Has(input, c)' => Has(input, c)
    BY <1>2, EndFacts
  <2>2. \A c \in Runs : Has(output, c) => Has(output, c)'
    BY <1>2, EndFacts
  <2>3. \A c \in Runs : Has(output, c)' => Has(output, c) \/ input[1] = c
    BY <1>2, EndFacts
  <2>4. \A c \in Runs : Has(output, c)' => Has(output, c) \/ Has(input, c)
    BY <1>2, <2>3, EndFacts
  <2>5. ASSUME NEW c \in Runs, Lines[c] = 1
        PROVE  /\ \A i, j \in 1..Len(input') : input'[i] = c /\ input'[j] = c => i = j
               /\ input[1] = c => ~Has(input, c)'
    <3>1. \A i, j \in 1..Len(input) : input[i] = c /\ input[j] = c => i = j
      BY <2>5
    <3>2. /\ Len(input) \in Nat \ {0} /\ Len(input') = Len(input) - 1
          /\ \A i \in 1..Len(input') : input'[i] = input[i + 1]
      BY <1>2, EndFacts
    <3>3. \A i \in 1..Len(input') : i + 1 \in 1..Len(input) /\ i + 1 # 1
      BY <3>2
    <3>4. ASSUME NEW i \in 1..Len(input'), NEW j \in 1..Len(input'),
                 input'[i] = c, input'[j] = c
          PROVE  i = j
      <4>1. i + 1 = j + 1
        BY <3>1, <3>2, <3>3, <3>4, SMTT(30)
      <4>2. QED
        BY <3>2, <4>1
    <3>5. ASSUME input[1] = c, NEW i \in 1..Len(input')
          PROVE  input'[i] # c
      <4>1. 1 \in 1..Len(input)
        BY <3>2
      <4>2. QED
        BY <3>1, <3>2, <3>3, <3>5, <4>1
    <3>6. QED
      BY <3>4, <3>5
  <2>6. QED
    <3>1. UNCHANGED <<station, code, state>>
      BY <1>2 DEF Execute!End, Execute!call
    <3>2. QED
      BY <2>1, <2>2, <2>3, <2>4, <2>5, <3>1, SMTT(30)
<1>3. CASE Execute!Close
  <2>1. Len(input') = 0
    BY <1>3, EmptySeq DEF Execute!Close
  <2>2. UNCHANGED <<output, station, code, state>>
    BY <1>3 DEF Execute!Close, Execute!call
  <2>3. QED
    BY <2>1, <2>2
<1>4. CASE UNCHANGED Execute!vars
  <2>1. UNCHANGED <<input, output, station, code, state>>
    BY <1>4 DEF Execute!vars, Execute!shell, Execute!call
  <2>2. QED
    BY <2>1
<1>5. QED
  BY <1>1, <1>2, <1>3, <1>4 DEF Execute!Next

LEMMA EndsAlways ==
  Execute!Spec => [](EndsOwn /\ EndsOnce)
<1>1. Execute!Init => EndsOwn /\ EndsOnce
  BY EmptySeq DEF Execute!Init, EndsOwn, EndsOnce, Has, Settled, Execute!Waits
<1>2. RunsTyped /\ RunLock /\ (EndsOwn /\ EndsOnce) /\ [Execute!Next]_(Execute!vars)
        => (EndsOwn /\ EndsOnce)'
  BY EndsOwnStep, EndsOnceStep
<1>3. QED
  BY <1>1, <1>2, RunTyped, RunLockAlways, PTL DEF Execute!Spec

\* A call that found the shell at rest is answered with a marker of its own
\* command; if that has one line, the shell has ended it when the call is
\* answered "done".
THEOREM DoneOwn ==
  Execute!Spec => []DoneIsItsOwn
<1>1. RunsTyped /\ EndsOwn /\ EndsOnce => DoneIsItsOwn
  <2> SUFFICES ASSUME RunsTyped, EndsOwn, EndsOnce, NEW c \in Runs, alone[c], state[c] = "done",
                      Lines[c] = 1
               PROVE  c \notin Execute!ToSet(input)
    BY DEF EndsOwn, DoneIsItsOwn, Execute!DoneIsItsOwn
  <2>1. code[c] = c /\ Has(output, c)
    BY DEF EndsOwn, EndsOnce
  <2>2. ~Has(input, c)
    BY <2>1 DEF EndsOnce
  <2>3. DOMAIN input = 1..Len(input)
    BY DEF RunsTyped, Execute!TypeOK
  <2>4. QED
    BY <2>2, <2>3 DEF Has, Execute!ToSet
<1>2. QED
  BY <1>1, RunTyped, EndsAlways, PTL

(***************************************************************************)
(* The row.  Whoever waits or watches was the last to begin, so every      *)
(* marker noted in the row is noted by that call; what it reads is its own *)
(* by EndsOwn.                                                             *)
(***************************************************************************)
Noting == {"watching"} \cup Execute!Waits

RowInv ==
  /\ latest # NoCall => station[latest] \in Noting \cup {"over"}
  /\ \A c \in Runs : station[c] \in Noting => latest = c
  /\ Execute!RowIsCurrent

LEMMA RowStep ==
  ASSUME RunsTyped, RunLock, EndsOwn, RowInv, [Execute!Next]_(Execute!vars)
  PROVE  RowInv'
<1>a. /\ station \in [Runs -> Execute!Stations] /\ code \in [Runs -> Runs \cup {NoCall}]
      /\ alone \in [Runs -> BOOLEAN] /\ latest \in Runs \cup {NoCall}
  BY DEF RunsTyped, Execute!TypeOK
<1>b. \A c \in Runs : alone[c] => code[c] \in {c, NoCall}
  BY DEF EndsOwn
<1>c. \A c, d \in Runs : station[c] \in Holding /\ station[d] \in Holding => c = d
  BY DEF RunLock
<1>d. NoCall \notin Runs
  BY ExecuteAssumptions DEF Execute!CallsAssumption
<1> USE <1>a, <1>b, <1>c, <1>d DEF Noting, Holding, Execute!Waits, Execute!Stations,
     Execute!Goto, RowInv, Execute!RowIsCurrent
<1>1. ASSUME NEW c \in Runs, Execute!Step(c) PROVE RowInv'
  <2>1. CASE Execute!Acquire(c) \/ Execute!Refuse(c)
    BY <2>1 DEF Execute!Acquire, Execute!Refuse, Execute!session
  <2>2. CASE Execute!Settle(c) \/ Execute!Write(c) \/ Execute!WriteFails(c)
    BY <2>2 DEF Execute!Settle, Execute!Write, Execute!WriteFails, Execute!session
  <2>3. CASE Execute!Begin(c)
    BY <2>3 DEF Execute!Begin
  <2>4. CASE Execute!Quiet(c)
    BY <2>4 DEF Execute!Quiet, Execute!session
  <2>5. CASE Execute!Read(c)
    BY <2>5 DEF Execute!Read, Execute!session
  <2>6. CASE Execute!WatcherReads(c)
    <3>1. station[c] = "watching" /\ ~Execute!CaughtUp(c) /\ lastExit' = Execute!Last(output)
      BY <2>6 DEF Execute!WatcherReads
    <3>2. readAbs[c] \in Nat /\ readAbs[c] <= Len(output)
      BY DEF RunsTyped, Execute!TypeOK, CursorsInside
    <3>3. /\ Len(output) \in Nat \ {0} /\ Execute!Last(output) = output[Len(output)]
      BY <3>1, <3>2, ReadType DEF RunsTyped
    <3>4. Len(output) \in 1..Len(output) /\ readAbs[c] < Len(output)
      BY <3>1, <3>2, <3>3 DEF Execute!CaughtUp
    <3>5. alone[c] => Execute!Last(output) = c
      <4>1. alone[c] => \A i \in 1..Len(output) : readAbs[c] < i => output[i] = c
        BY <3>1 DEF EndsOwn, Settled
      <4>2. QED
        BY <3>3, <3>4, <4>1
    <3>6. UNCHANGED <<station, alone, latest, live>>
      BY <2>6 DEF Execute!WatcherReads, Execute!shell
    <3>7. QED
      BY <3>1, <3>5, <3>6
  <2>7. CASE Execute!WatcherEnds(c) \/ Execute!WatcherClosed(c)
    BY <2>7 DEF Execute!WatcherEnds, Execute!WatcherClosed, Execute!Releases
  <2>8. CASE Execute!Confirmed(c) \/ Execute!Idle(c) \/ Execute!Deadline(c) \/ Execute!Closed(c)
    BY <2>8 DEF Execute!Confirmed, Execute!Idle, Execute!Deadline, Execute!Closed, Execute!Ends
  <2>9. QED
    BY <1>1, <2>1, <2>2, <2>3, <2>4, <2>5, <2>6, <2>7, <2>8 DEF Execute!Step
<1>2. CASE Execute!End \/ Execute!Close \/ UNCHANGED Execute!vars
  BY <1>2 DEF Execute!End, Execute!Close, Execute!vars, Execute!session, Execute!call
<1>3. QED
  BY <1>1, <1>2 DEF Execute!Next

\* While a call waits, the row of its session tells nothing; and it tells of no
\* other command's end than that of the last one to begin, if that one found the
\* shell without an earlier line.
THEOREM RowCurrent ==
  Execute!Spec => []RowIsCurrent
<1>1. Execute!Init => RowInv
  BY DEF Execute!Init, RowInv, Execute!RowIsCurrent, Noting, Execute!Waits
<1>2. RunsTyped /\ RunLock /\ EndsOwn /\ RowInv /\ [Execute!Next]_(Execute!vars) => RowInv'
  BY RowStep
<1>3. RowInv => RowIsCurrent
  BY DEF RowInv, RowIsCurrent
<1>4. QED
  BY <1>1, <1>2, <1>3, RunTyped, RunLockAlways, EndsAlways, PTL DEF Execute!Spec

-----------------------------------------------------------------------------
(***************************************************************************)
(* DesktopShell: types.                                                    *)
(***************************************************************************)
LEMMA Waits ==
  /\ Cap \in Nat \ {0} /\ Shell!Longest \in Nat /\ Shell!Longest <= Cap
  /\ TrayEvery \in Nat /\ Misses \in Nat \ {0} /\ MinGap \in Nat /\ Swap \in Nat \ {0}
  /\ MaxFalls \in Nat /\ Cap >= 6 /\ Swap <= 3
  BY ShellAssumptions DEF Shell!TimesAssumption, Shell!Longest

\* A retry waits at least a tick less than twice the one before, up to the cap.
LEMMA Backoff ==
  ASSUME Shell!TypeOK
  PROVE  /\ Shell!NextRetry \in 1..Cap /\ Shell!NextRetry \div 2 \in 0..Shell!Longest
         /\ Shell!NextRetry = IF 2 * retry < Cap THEN 2 * retry ELSE Cap
<1>1. retry \in Nat /\ retry >= 1
  BY Waits DEF Shell!TypeOK
<1>2. Shell!NextRetry \in 1..Cap
  BY <1>1, Waits DEF Shell!NextRetry
<1>3. Shell!NextRetry \div 2 \in 0..(Cap \div 2)
  BY <1>2, Waits
<1>4. QED
  BY <1>2, <1>3 DEF Shell!Longest, Shell!NextRetry

LEMMA RetryType ==
  ASSUME Shell!TypeOK, Shell!Retry
  PROVE  /\ retry' \in 1..Cap /\ retry' = Shell!NextRetry
         /\ timers' \in [0..Shell!Longest -> Nat]
         /\ \A t \in 0..Shell!Longest :
              timers'[t] = IF t = Shell!NextRetry \div 2 THEN timers[t] + 1 ELSE timers[t]
<1>1. PICK n : n = Shell!NextRetry \div 2
  OBVIOUS
<1>2. n \in 0..Shell!Longest /\ timers \in [0..Shell!Longest -> Nat]
  BY <1>1, Backoff DEF Shell!TypeOK
<1>3. retry' = Shell!NextRetry /\ timers' = [timers EXCEPT ![n] = @ + 1]
  BY <1>1 DEF Shell!Retry
<1>4. timers[n] + 1 \in Nat
  BY <1>2
<1>5. retry' \in 1..Cap
  BY <1>3, Backoff
<1>6. QED
  BY <1>1, <1>2, <1>3, <1>4, <1>5

\* What counts against an agent that falls is a number.
LEMMA AgainstType ==
  ASSUME Shell!TypeOK
  PROVE  Shell!Due \in Nat /\ Shell!Against \in Nat
<1>1. 3 <= Cap \div 2
  BY Waits
<1>2. 0 \in 0..Shell!Longest /\ 1 \in 0..Shell!Longest /\ 2 \in 0..Shell!Longest
  BY <1>1, Waits DEF Shell!Longest
<1>3. timers[0] \in Nat /\ timers[1] \in Nat /\ timers[2] \in Nat
  BY <1>2 DEF Shell!TypeOK
<1>4. Shell!Due \in Nat
  BY <1>3, Waits DEF Shell!Due
<1>5. QED
  BY <1>4 DEF Shell!Against, Shell!TypeOK

LEMMA ShellType ==
  ASSUME Shell!TypeOK, [Shell!Next]_(Shell!vars)
  PROVE  Shell!TypeOK'
<1>1. CASE Shell!TimerFires
  <2>1. 0 \in 0..Shell!Longest
    BY Waits
  <2>2. timers' \in [0..Shell!Longest -> Nat] /\ probes' \in Nat
    BY <1>1, <2>1 DEF Shell!TimerFires, Shell!TypeOK
  <2>3. QED
    BY <1>1, <2>2 DEF Shell!TimerFires, Shell!TypeOK
<1>2. CASE Shell!ProbeAnswered
  BY <1>2, Waits DEF Shell!ProbeAnswered, Shell!TypeOK
<1>3. CASE Shell!ProbeMissed
  <2>1. retry' \in 1..Cap /\ timers' \in [0..Shell!Longest -> Nat]
    BY <1>3, RetryType DEF Shell!ProbeMissed, Shell!Again
  <2>2. misses' \in Nat /\ probes' \in Nat /\ sinceStart' \in 0..MinGap
    BY <1>3, Waits DEF Shell!ProbeMissed, Shell!TypeOK
  <2>3. QED
    BY <1>3, <2>1, <2>2 DEF Shell!ProbeMissed, Shell!TypeOK
<1>4. CASE Shell!Loaded \/ Shell!Reload
  BY <1>4 DEF Shell!Loaded, Shell!Reload, Shell!TypeOK
<1>5. CASE Shell!LoadFails
  <2>1. retry' \in 1..Cap /\ timers' \in [0..Shell!Longest -> Nat]
    BY <1>5, RetryType DEF Shell!LoadFails, Shell!Failed
  <2>2. QED
    BY <1>5, <2>1 DEF Shell!LoadFails, Shell!TypeOK
<1>6. CASE Shell!TrayPoll
  <2>1. tray' \in 0..TrayEvery
    BY <1>6, Waits DEF Shell!TrayPoll
  <2>2. probes' \in Nat
    BY <1>6 DEF Shell!TrayPoll, Shell!TypeOK
  <2>3. watching' \in BOOLEAN
    BY <1>6 DEF Shell!TrayPoll, Shell!TypeOK
  <2>4. QED
    BY <1>6, <2>1, <2>2, <2>3 DEF Shell!TrayPoll, Shell!TypeOK
<1>7. CASE Shell!AgentFalls \/ Shell!AgentRises
  <2>1. falls' \in 0..MaxFalls
    BY <1>7, Waits DEF Shell!AgentFalls, Shell!AgentRises, Shell!TypeOK
  <2>2. downFor' \in 0..Swap
    BY <1>7, Waits DEF Shell!AgentFalls, Shell!AgentRises
  <2>3. answers' \in BOOLEAN
    BY <1>7 DEF Shell!AgentFalls, Shell!AgentRises
  <2>4. owed' \in 0..2
    <3>1. CASE Shell!AgentFalls
      BY <3>1, AgainstType DEF Shell!AgentFalls
    <3>2. CASE Shell!AgentRises
      BY <3>2 DEF Shell!AgentRises, Shell!TypeOK
    <3>3. QED
      BY <1>7, <3>1, <3>2
  <2>5. QED
    BY <1>7, <2>1, <2>2, <2>3, <2>4 DEF Shell!AgentFalls, Shell!AgentRises, Shell!TypeOK
<1>8. CASE Shell!Tick
  <2>1. \A t \in 0..Shell!Longest : t < Shell!Longest => t + 1 \in 0..Shell!Longest
    BY Waits
  <2>2. timers' \in [0..Shell!Longest -> Nat]
    BY <1>8, <2>1 DEF Shell!Tick, Shell!TypeOK
  <2>3. tray' \in 0..TrayEvery /\ sinceStart' \in 0..MinGap /\ downFor' \in 0..Swap
    BY <1>8, Waits DEF Shell!Tick, Shell!Later, Shell!TypeOK
  <2>4. QED
    BY <1>8, <2>2, <2>3 DEF Shell!Tick, Shell!TypeOK
<1>9. CASE UNCHANGED Shell!vars
  BY <1>9 DEF Shell!vars, Shell!TypeOK
<1>10. QED
  BY <1>1, <1>2, <1>3, <1>4, <1>5, <1>6, <1>7, <1>8, <1>9 DEF Shell!Next, Shell!Shell

LEMMA ShellTyped ==
  Shell!Spec => []Shell!TypeOK
<1>1. Shell!Init => Shell!TypeOK
  <2>1. /\ 1 \in 1..Cap /\ MinGap \in 0..MinGap /\ 0 \in 0..TrayEvery /\ Swap \in 0..Swap
        /\ 0 \in 0..MaxFalls /\ 0 \in 0..2
    BY Waits
  <2>2. Shell!Init => timers \in [0..Shell!Longest -> Nat] /\ probes \in Nat /\ misses \in Nat
    BY DEF Shell!Init
  <2>3. Shell!Init => answers \in BOOLEAN /\ watching \in BOOLEAN
    BY DEF Shell!Init
  <2>4. Shell!Init => /\ retry \in 1..Cap /\ sinceStart \in 0..MinGap
                      /\ tray \in 0..TrayEvery /\ downFor \in 0..Swap
                      /\ owed \in 0..2 /\ falls \in 0..MaxFalls
    BY <2>1 DEF Shell!Init
  <2>5. QED
    BY <2>2, <2>3, <2>4 DEF Shell!Init, Shell!TypeOK
<1>2. QED
  BY <1>1, ShellType, PTL DEF Shell!Spec

(***************************************************************************)
(* The wait page.                                                          *)
(***************************************************************************)

\* A retry, drawn by a miss or by a failed load, is a call to come back.
LEMMA RetryPends ==
  ASSUME Shell!TypeOK, Shell!Retry
  PROVE  Shell!Pending'
<1>1. Shell!NextRetry \div 2 \in 0..Shell!Longest
  BY Backoff
<1>2. timers'[Shell!NextRetry \div 2] = timers[Shell!NextRetry \div 2] + 1
  BY <1>1, RetryType
<1>3. timers[Shell!NextRetry \div 2] \in Nat
  BY <1>1 DEF Shell!TypeOK
<1>4. QED
  BY <1>1, <1>2, <1>3 DEF Shell!Pending

\* A call comes back only by an answer; time brings it nearer.
LEMMA PendingStays ==
  ASSUME Shell!TypeOK, Shell!Pending, [Shell!Next]_(Shell!vars)
  PROVE  Shell!Pending' \/ Shell!ProbeAnswered
<1>1. CASE Shell!TimerFires
  BY <1>1 DEF Shell!TimerFires, Shell!Pending, Shell!TypeOK
<1>2. CASE Shell!ProbeMissed \/ Shell!LoadFails
  BY <1>2, RetryPends DEF Shell!ProbeMissed, Shell!Again, Shell!LoadFails, Shell!Failed
<1>3. CASE Shell!TrayPoll
  BY <1>3 DEF Shell!TrayPoll, Shell!Pending, Shell!TypeOK
<1>4. CASE Shell!Tick
  <2>1. PICK t \in 0..Shell!Longest : timers[t] > 0
    BY <1>4 DEF Shell!Tick, Shell!Pending
  <2>2. t # 0
    BY <1>4, <2>1 DEF Shell!Tick
  <2>3. t - 1 \in 0..Shell!Longest /\ t - 1 < Shell!Longest /\ (t - 1) + 1 = t
    BY <2>2, Waits
  <2>4. timers'[t - 1] = timers[t]
    BY <1>4, <2>3 DEF Shell!Tick
  <2>5. QED
    BY <2>1, <2>3, <2>4 DEF Shell!Pending
<1>5. CASE UNCHANGED <<timers, probes>>
  BY <1>5 DEF Shell!Pending
<1>6. QED
  BY <1>1, <1>2, <1>3, <1>4, <1>5
     DEF Shell!Next, Shell!Shell, Shell!Loaded, Shell!Reload, Shell!AgentFalls,
         Shell!AgentRises, Shell!vars

LEMMA WaitPageStep ==
  ASSUME Shell!TypeOK, WaitPageIsAlive, [Shell!Next]_(Shell!vars)
  PROVE  WaitPageIsAlive'
<1> DEFINE Shown == IF loading = "nothing" THEN page ELSE loading
<1> USE DEF WaitPageIsAlive, Shell!WaitPageIsAlive
<1>1. CASE Shell!ProbeAnswered
  BY <1>1 DEF Shell!ProbeAnswered
<1>2. CASE Shell!ProbeMissed
  BY <1>2, RetryPends DEF Shell!ProbeMissed, Shell!Again
<1>3. CASE Shell!LoadFails
  BY <1>3 DEF Shell!LoadFails
<1>4. ASSUME Shown' = "wait" => Shown = "wait", ~Shell!ProbeAnswered PROVE WaitPageIsAlive'
  BY <1>4, PendingStays
<1>5. CASE Shell!Loaded \/ Shell!Reload
  <2>1. Shown' = "wait" => Shown = "wait"
    BY <1>5 DEF Shell!Loaded, Shell!Reload
  <2>2. UNCHANGED <<timers, probes>>
    BY <1>5 DEF Shell!Loaded, Shell!Reload
  <2>3. QED
    BY <2>1, <2>2 DEF Shell!Pending
<1>6. CASE UNCHANGED <<page, loading>>
  BY <1>1, <1>4, <1>6
<1>7. QED
  BY <1>1, <1>2, <1>3, <1>5, <1>6
     DEF Shell!Next, Shell!Shell, Shell!TimerFires, Shell!TrayPoll, Shell!AgentFalls,
         Shell!AgentRises, Shell!Tick, Shell!vars

\* As long as the wait page is shown, a retry is pending.
THEOREM WaitPageAlive ==
  Shell!Spec => []WaitPageIsAlive
<1>1. Shell!Init => WaitPageIsAlive
  BY DEF Shell!Init, WaitPageIsAlive, Shell!WaitPageIsAlive
<1>2. Shell!TypeOK /\ WaitPageIsAlive /\ [Shell!Next]_(Shell!vars) => WaitPageIsAlive'
  BY WaitPageStep
<1>3. QED
  BY <1>1, <1>2, ShellTyped, PTL DEF Shell!Spec

(***************************************************************************)
(* The watchdog.  The first two retries drawn after the agent fell wait    *)
(* one tick and two at least, and every later one three or more: with the  *)
(* tray's own probe that makes three misses before the third tick is over, *)
(* however many calls are drawing, and what counted against the agent when *)
(* it fell is to be added.  SwapInv counts them: the misses there are, the *)
(* probes under way, the retries due in time, and those that the tray and  *)
(* the next draws may still add.                                           *)
(***************************************************************************)
StillDue ==
  LET due(t) == IF t + downFor < Swap THEN timers[t] ELSE 0
  IN  due(0) + due(1) + due(2)

Draws == IF retry = 1 THEN 2 ELSE IF retry = 2 THEN 1 ELSE 0

TrayMayProbe == IF watching THEN 0 ELSE 1

SwapInv ==
  downFor < Swap =>
    ~answers /\ (owed < 2 => misses + probes + StillDue + Draws + TrayMayProbe <= 4)

LEMMA Counts ==
  ASSUME Shell!TypeOK
  PROVE  /\ 0 \in 0..Shell!Longest /\ 1 \in 0..Shell!Longest /\ 2 \in 0..Shell!Longest
         /\ 3 <= Shell!Longest
         /\ timers[0] \in Nat /\ timers[1] \in Nat /\ timers[2] \in Nat
         /\ misses \in Nat /\ probes \in Nat /\ retry \in Nat /\ retry >= 1
         /\ downFor \in Nat /\ StillDue \in Nat /\ Draws \in Nat /\ TrayMayProbe \in Nat
<1>1. 3 <= Cap \div 2
  BY Waits
<1>2. /\ 0 \in 0..Shell!Longest /\ 1 \in 0..Shell!Longest /\ 2 \in 0..Shell!Longest
      /\ 3 <= Shell!Longest
  BY <1>1, Waits DEF Shell!Longest
<1>3. /\ timers[0] \in Nat /\ timers[1] \in Nat /\ timers[2] \in Nat
  BY <1>2 DEF Shell!TypeOK
<1>4. /\ misses \in Nat /\ probes \in Nat /\ retry \in Nat /\ retry >= 1 /\ downFor \in Nat
  BY Waits DEF Shell!TypeOK
<1>5. QED
  BY <1>2, <1>3, <1>4 DEF StillDue, Draws, TrayMayProbe

LEMMA NextCounts ==
  ASSUME Shell!TypeOK'
  PROVE  /\ StillDue' \in Nat /\ Draws' \in Nat /\ probes' \in Nat
         /\ TrayMayProbe' \in Nat /\ TrayMayProbe' <= 1
<1>1. 3 <= Cap \div 2
  BY Waits
<1>2. 0 \in 0..Shell!Longest /\ 1 \in 0..Shell!Longest /\ 2 \in 0..Shell!Longest
  BY <1>1, Waits DEF Shell!Longest
<1>3. timers'[0] \in Nat /\ timers'[1] \in Nat /\ timers'[2] \in Nat /\ probes' \in Nat
  BY <1>2 DEF Shell!TypeOK
<1>4. QED
  BY <1>3 DEF StillDue, Draws, TrayMayProbe

LEMMA Sums ==
  ASSUME NEW m \in Nat, NEW p \in Nat, NEW d \in Nat, NEW w \in Nat, NEW t \in Nat,
         NEW m1 \in Nat, NEW p1 \in Nat, NEW d1 \in Nat, NEW w1 \in Nat, NEW t1 \in Nat,
         m1 + p1 <= m + p, d1 + w1 <= d + w, t1 = t
  PROVE  m1 + p1 + d1 + w1 + t1 <= m + p + d + w + t
OBVIOUS

LEMMA MissSum ==
  ASSUME NEW m \in Nat, NEW p \in Nat, NEW m1 \in Nat, NEW p1 \in Nat,
         m1 <= m + 1, p1 = p - 1
  PROVE  m1 + p1 <= m + p
OBVIOUS

LEMMA TraySums ==
  ASSUME NEW m \in Nat, NEW p \in Nat, NEW d \in Nat, NEW w \in Nat, NEW t \in Nat,
         NEW m1 \in Nat, NEW p1 \in Nat, NEW d1 \in Nat, NEW w1 \in Nat, NEW t1 \in Nat,
         m1 = m, p1 + t1 <= p + t, d1 + w1 = d + w
  PROVE  m1 + p1 + d1 + w1 + t1 <= m + p + d + w + t
OBVIOUS

LEMMA RetryCounts ==
  ASSUME Shell!TypeOK, Shell!Retry, downFor' = downFor
  PROVE  StillDue' + Draws' <= StillDue + Draws
<1>a. /\ retry' = Shell!NextRetry
      /\ Shell!NextRetry = IF 2 * retry < Cap THEN 2 * retry ELSE Cap
      /\ timers'[0] = IF 0 = Shell!NextRetry \div 2 THEN timers[0] + 1 ELSE timers[0]
      /\ timers'[1] = IF 1 = Shell!NextRetry \div 2 THEN timers[1] + 1 ELSE timers[1]
      /\ timers'[2] = IF 2 = Shell!NextRetry \div 2 THEN timers[2] + 1 ELSE timers[2]
  BY RetryType, Backoff, Counts
<1>1. CASE retry = 1
  <2>1. Shell!NextRetry = 2 /\ 2 \div 2 = 1
    BY <1>a, <1>1, Waits
  <2>2. timers'[0] = timers[0] /\ timers'[1] = timers[1] + 1 /\ timers'[2] = timers[2]
    BY <1>a, <2>1
  <2>3. Draws = 2 /\ Draws' = 1
    BY <1>1, <1>a, <2>1 DEF Draws
  <2>4. QED
    BY <2>2, <2>3, Counts DEF StillDue
<1>2. CASE retry = 2
  <2>1. Shell!NextRetry = 4 /\ 4 \div 2 = 2
    BY <1>a, <1>2, Waits
  <2>2. timers'[0] = timers[0] /\ timers'[1] = timers[1] /\ timers'[2] = timers[2] + 1
    BY <1>a, <2>1
  <2>3. Draws = 1 /\ Draws' = 0
    BY <1>2, <1>a, <2>1 DEF Draws
  <2>4. QED
    BY <2>2, <2>3, Counts DEF StillDue
<1>3. CASE retry > 2
  <2>1. Shell!NextRetry \in Nat /\ Shell!NextRetry >= 6
    BY <1>a, <1>3, Counts, Waits
  <2>2. Shell!NextRetry \div 2 >= 3
    BY <2>1
  <2>3. timers'[0] = timers[0] /\ timers'[1] = timers[1] /\ timers'[2] = timers[2]
    BY <1>a, <2>1, <2>2
  <2>4. Draws = 0 /\ Draws' = 0
    BY <1>3, <1>a, <2>1, Counts DEF Draws
  <2>5. QED
    BY <2>3, <2>4, Counts DEF StillDue
<1>4. QED
  BY <1>1, <1>2, <1>3, Counts

LEMMA SwapStep ==
  ASSUME Shell!TypeOK, Shell!TypeOK', SwapInv, [Shell!Next]_(Shell!vars)
  PROVE  SwapInv'
<1>a. /\ timers[0] \in Nat /\ timers[1] \in Nat /\ timers[2] \in Nat
      /\ misses \in Nat /\ probes \in Nat /\ StillDue \in Nat /\ Draws \in Nat
      /\ TrayMayProbe \in Nat /\ downFor \in Nat /\ downFor' \in 0..Swap
      /\ 0 \in 0..Shell!Longest
  BY Counts DEF Shell!TypeOK
<1>1. CASE Shell!TimerFires
  <2>1. timers[0] > 0 /\ timers' = [timers EXCEPT ![0] = timers[0] - 1] /\ probes' = probes + 1
    BY <1>1 DEF Shell!TimerFires
  <2>2. timers'[0] = timers[0] - 1 /\ timers'[1] = timers[1] /\ timers'[2] = timers[2]
    BY <1>a, <2>1 DEF Shell!TypeOK
  <2>3. UNCHANGED <<answers, misses, retry, watching, downFor, owed>>
    BY <1>1 DEF Shell!TimerFires
  <2>4. (downFor < Swap => StillDue' = StillDue - 1) /\ Draws' = Draws /\ TrayMayProbe' = TrayMayProbe
    BY <1>a, <2>2, <2>3 DEF StillDue, Draws, TrayMayProbe
  <2>5. QED
    BY <1>a, <2>1, <2>3, <2>4 DEF SwapInv
<1>2. CASE Shell!ProbeAnswered
  BY <1>2 DEF Shell!ProbeAnswered, SwapInv
<1>3. CASE Shell!ProbeMissed
  <2>1. /\ probes' = probes - 1 /\ misses' \in Nat /\ misses' <= misses + 1
        /\ UNCHANGED <<answers, watching, downFor, owed>> /\ Shell!Retry
    BY <1>3, <1>a DEF Shell!ProbeMissed, Shell!Again
  <2>2. StillDue' + Draws' <= StillDue + Draws /\ TrayMayProbe' = TrayMayProbe
    BY <2>1, RetryCounts DEF TrayMayProbe
  <2>3. StillDue' \in Nat /\ Draws' \in Nat
    BY NextCounts
  <2>4. misses' + probes' + StillDue' + Draws' + TrayMayProbe'
          <= misses + probes + StillDue + Draws + TrayMayProbe
    <3>1. probes' = probes - 1 /\ misses' \in Nat /\ misses' <= misses + 1
      BY <2>1
    <3>2. misses' \in Nat /\ probes' \in Nat /\ TrayMayProbe' \in Nat
      BY <1>a, <3>1, NextCounts
    <3>3. misses' + probes' <= misses + probes
      BY <1>a, <3>1, <3>2, MissSum
    <3>4. QED
      BY <1>a, <2>2, <2>3, <3>2, <3>3, Sums
  <2>5. misses' + probes' + StillDue' + Draws' + TrayMayProbe' \in Nat
    BY NextCounts, <2>1, <1>a, <2>2
  <2>6. downFor < Swap /\ owed < 2 => misses' + probes' + StillDue' + Draws' + TrayMayProbe' <= 4
    BY <1>a, <2>4, <2>5 DEF SwapInv
  <2>7. QED
    BY <2>1, <2>6 DEF SwapInv
<1>4. CASE Shell!Loaded \/ Shell!Reload \/ UNCHANGED Shell!vars
  BY <1>4 DEF Shell!Loaded, Shell!Reload, Shell!vars, SwapInv, StillDue, Draws, TrayMayProbe
<1>5. CASE Shell!LoadFails
  <2>1. UNCHANGED <<answers, probes, misses, watching, downFor, owed>> /\ Shell!Retry
    BY <1>5 DEF Shell!LoadFails, Shell!Failed
  <2>2. StillDue' + Draws' <= StillDue + Draws /\ TrayMayProbe' = TrayMayProbe
    BY <2>1, RetryCounts DEF TrayMayProbe
  <2>3. StillDue' \in Nat /\ Draws' \in Nat
    BY NextCounts
  <2>4. misses' + probes' + StillDue' + Draws' + TrayMayProbe'
          <= misses + probes + StillDue + Draws + TrayMayProbe
    <3>1. probes' = probes /\ misses' = misses
      BY <2>1
    <3>2. misses' + probes' <= misses + probes
      BY <1>a, <3>1
    <3>3. misses' \in Nat /\ probes' \in Nat /\ TrayMayProbe' \in Nat
      BY <1>a, <3>1, NextCounts
    <3>4. QED
      BY <1>a, <2>2, <2>3, <3>2, <3>3, Sums
  <2>5. misses' + probes' + StillDue' + Draws' + TrayMayProbe' \in Nat
    BY NextCounts, <2>1, <1>a, <2>2
  <2>6. downFor < Swap /\ owed < 2 => misses' + probes' + StillDue' + Draws' + TrayMayProbe' <= 4
    BY <1>a, <2>4, <2>5 DEF SwapInv
  <2>7. QED
    BY <2>1, <2>6 DEF SwapInv
<1>6. CASE Shell!TrayPoll
  <2>1. /\ UNCHANGED <<answers, timers, misses, retry, downFor, owed>>
        /\ answers \/ probes' + TrayMayProbe' <= probes + TrayMayProbe
    BY <1>6, <1>a DEF Shell!TrayPoll, TrayMayProbe
  <2>2. StillDue' = StillDue /\ Draws' = Draws
    BY <2>1 DEF StillDue, Draws
  <2>3. probes' \in Nat /\ TrayMayProbe' \in Nat /\ TrayMayProbe' <= 1
    BY NextCounts
  <2>4. downFor < Swap => ~answers
    BY DEF SwapInv
  <2>5. downFor < Swap /\ owed < 2 => misses' + probes' + StillDue' + Draws' + TrayMayProbe' <= 4
    <3>1. SUFFICES ASSUME downFor < Swap, owed < 2
                   PROVE  misses' + probes' + StillDue' + Draws' + TrayMayProbe' <= 4
      OBVIOUS
    <3>2. probes' + TrayMayProbe' <= probes + TrayMayProbe
      BY <2>1, <2>4, <3>1
    <3>3. misses + probes + StillDue + Draws + TrayMayProbe <= 4
      BY <3>1 DEF SwapInv
    <3>4. misses' = misses
      BY <2>1
    <3>5. /\ misses' \in Nat /\ probes' \in Nat /\ StillDue' \in Nat /\ Draws' \in Nat
          /\ TrayMayProbe' \in Nat
      BY <1>a, <3>4, NextCounts
    <3>6. StillDue' + Draws' = StillDue + Draws
      BY <2>2
    <3>7. misses' + probes' + StillDue' + Draws' + TrayMayProbe'
            <= misses + probes + StillDue + Draws + TrayMayProbe
      BY <1>a, <3>2, <3>4, <3>5, <3>6, TraySums
    <3>8. misses' + probes' + StillDue' + Draws' + TrayMayProbe' \in Nat
      BY <1>a, <2>1, <2>2, <3>4, NextCounts
    <3>9. QED
      BY <1>a, <3>3, <3>7, <3>8
  <2>6. QED
    BY <2>1, <2>4, <2>5 DEF SwapInv
<1>7. CASE Shell!AgentFalls
  <2>1. /\ UNCHANGED <<timers, probes, misses, retry, watching>> /\ downFor' = 0
        /\ answers' = FALSE /\ owed' = IF Shell!Against < 2 THEN Shell!Against ELSE 2
    BY <1>7 DEF Shell!AgentFalls
  <2>2. misses' = misses /\ probes' = probes /\ StillDue' = Shell!Due
    BY <2>1, Waits DEF StillDue, Shell!Due
  <2>3. /\ Draws' \in Nat /\ Draws' <= 2 /\ TrayMayProbe' \in Nat /\ TrayMayProbe' <= 1
    BY NextCounts DEF Draws
  <2>4. owed' < 2 => misses + probes + Shell!Due <= 1
    BY <1>a, <2>1, AgainstType DEF Shell!Against
  <2>5. owed' < 2 => misses' + probes' + StillDue' + Draws' + TrayMayProbe' <= 4
    BY <1>a, <2>2, <2>3, <2>4, AgainstType
  <2>6. QED
    BY <2>1, <2>5 DEF SwapInv
<1>8. CASE Shell!AgentRises
  BY <1>8, Waits DEF Shell!AgentRises, SwapInv
<1>9. CASE Shell!Tick
  <2>1. /\ timers[0] = 0 /\ UNCHANGED <<answers, probes, misses, retry, watching, owed>>
        /\ downFor' = IF downFor < Swap THEN downFor + 1 ELSE downFor
    BY <1>9 DEF Shell!Tick, Shell!Later
  <2>2. timers'[0] = timers[1] /\ timers'[1] = timers[2]
    <3>1. 0 + 1 = 1 /\ 1 + 1 = 2 /\ 0 < Shell!Longest /\ 1 < Shell!Longest
      BY Counts, Waits
    <3>2. QED
      BY <1>9, <3>1, Counts DEF Shell!Tick
  <2>3. Draws' = Draws /\ TrayMayProbe' = TrayMayProbe
    BY <2>1 DEF Draws, TrayMayProbe
  <2>4. downFor' < Swap => downFor < Swap /\ StillDue' <= StillDue /\ StillDue' \in Nat
    BY <1>a, <2>1, <2>2, Waits, NextCounts DEF StillDue
  <2>5. QED
    BY <1>a, <2>1, <2>3, <2>4 DEF SwapInv
<1>10. QED
  BY <1>1, <1>2, <1>3, <1>4, <1>5, <1>6, <1>7, <1>8, <1>9 DEF Shell!Next, Shell!Shell

\* The watchdog does not start an agent that has been down for less than a swap
\* takes, however often the window is reloaded meanwhile, unless two misses at
\* least counted against it when it fell: with five misses and three ticks (an
\* update of 12 s; waits of 4, 8, 16 and 30 s).
THEOREM UpdateLeftAlone ==
  ASSUME Misses >= 5
  PROVE  Shell!Spec => SwapIsLeftAlone
<1>1. Shell!Init => SwapInv
  BY Waits DEF Shell!Init, SwapInv
<1>2. Shell!TypeOK /\ Shell!TypeOK' /\ SwapInv /\ [Shell!Next]_(Shell!vars) => SwapInv'
  BY SwapStep
<1>3. Shell!TypeOK /\ SwapInv /\ [Shell!Next]_(Shell!vars)
        => [sinceStart' < sinceStart /\ downFor < Swap => owed >= 2]_(Shell!vars)
  <2>1. SUFFICES ASSUME Shell!TypeOK, SwapInv, Shell!Next, sinceStart' < sinceStart,
                        downFor < Swap
                 PROVE  owed >= 2
    OBVIOUS
  <2>2. sinceStart \in Nat /\ owed \in Nat
    BY <2>1, Waits DEF Shell!TypeOK
  <2>3. Shell!ProbeMissed /\ Shell!StartsAgent
    BY <2>1, <2>2, Waits
       DEF Shell!Next, Shell!Shell, Shell!TimerFires, Shell!ProbeAnswered, Shell!ProbeMissed,
           Shell!Loaded, Shell!LoadFails, Shell!TrayPoll, Shell!Reload, Shell!AgentFalls,
           Shell!AgentRises, Shell!Tick, Shell!Later, Shell!TypeOK
  <2>4. misses + probes >= 5
    <3>1. misses \in Nat /\ probes \in Nat
      BY <2>1, Counts
    <3>2. probes > 0 /\ misses + 1 >= Misses
      BY <2>3 DEF Shell!ProbeMissed, Shell!StartsAgent
    <3>3. QED
      BY <3>1, <3>2, Waits
  <2>5. misses + probes + StillDue + Draws + TrayMayProbe >= 5
    BY <2>1, <2>4, Counts
  <2>6. QED
    BY <2>1, <2>2, <2>5, Counts DEF SwapInv
<1>4. QED
  BY <1>1, <1>2, <1>3, ShellTyped, PTL
     DEF Shell!Spec, SwapIsLeftAlone, Shell!SwapIsLeftAlone
=============================================================================
