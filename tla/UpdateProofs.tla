---------------------------- MODULE UpdateProofs ----------------------------
(***************************************************************************)
(* Proofs about Update, for every number of commands and of calls of the   *)
(* tool, every set of releases and whatever the two channels offer, with   *)
(* any number of faults.                                                   *)
(***************************************************************************)
EXTENDS Update, TLAPS

(***************************************************************************)
(* Type correctness.                                                       *)
(***************************************************************************)
LEMMA StepType ==
  ASSUME TypeOK, Observe, Orderly \/ Fault
  PROVE  TypeOK'
<1> USE ReleasesAssumption, ChannelAssumption, CallsAssumption, BoundAssumption
    DEF TypeOK, Version, Marker, Steps, Working, Ended, ScriptSteps, Updates, files
<1>a. faults' \in 0..MaxFaults
  BY DEF Orderly, Fault
<1>b. overlapped' \in BOOLEAN
  BY DEF Observe
<1>c. release' \in Releases \cup {release} => proven' \subseteq Releases
  BY DEF Observe
<1>1. ASSUME NEW u \in Updates, NEW v \in Releases, Command(u, v) PROVE TypeOK'
  BY <1>1, <1>a, <1>b, <1>c DEF Command, Goto
<1>2. ASSUME NEW u \in Updates, Ask(u) PROVE TypeOK'
  BY <1>2, <1>a, <1>b, <1>c DEF Ask, Goto
<1>3. ASSUME NEW u \in Updates, CheckChannel(u) PROVE TypeOK'
  <2>1. pc' \in [Updates -> Steps]
    BY <1>3 DEF CheckChannel, Goto
  <2>2. QED
    BY <1>3, <2>1, <1>a, <1>b, <1>c DEF CheckChannel
<1>4. ASSUME NEW u \in Updates, CheckDevice(u) PROVE TypeOK'
  BY <1>4, <1>a, <1>b, <1>c DEF CheckDevice, Goto
<1>5. ASSUME NEW u \in Updates, Create(u) PROVE TypeOK'
  BY <1>5, <1>a, <1>b, <1>c DEF Create, Goto, Mine
<1>6. ASSUME NEW u \in Updates, Exists(u) PROVE TypeOK'
  BY <1>6, <1>a, <1>b, <1>c DEF Exists, Goto
<1>7. ASSUME NEW u \in Updates, Stat(u) PROVE TypeOK'
  BY <1>7, <1>a, <1>b, <1>c DEF Stat, Goto
<1>8. ASSUME NEW u \in Updates, Reclaim(u) PROVE TypeOK'
  <2>1. pc' \in [Updates -> Steps]
    BY <1>8 DEF Reclaim, Goto
  <2>2. marker' \in Marker \cup {None}
    <3>1. Mine(u) \in Marker
      BY DEF Mine
    <3>2. QED
      BY <1>8, <3>1 DEF Reclaim
  <2>3. excused' \subseteq Updates
    BY <1>8 DEF Reclaim
  <2>4. QED
    BY <1>8, <2>1, <2>2, <2>3, <1>a, <1>b, <1>c DEF Reclaim
<1>9. ASSUME NEW u \in Updates, Stage(u) PROVE TypeOK'
  <2>1. pc' \in [Updates -> Steps]
    BY <1>9 DEF Stage, Goto
  <2>2. QED
    BY <1>9, <2>1, <1>a, <1>b, <1>c DEF Stage
<1>10. ASSUME NEW u \in Updates, StageFails(u) PROVE TypeOK'
  BY <1>10, <1>a, <1>b, <1>c DEF StageFails, Leftover, GiveUp, Goto
<1>11. ASSUME NEW u \in Updates, Handoff(u) PROVE TypeOK'
  <2>1. pc' \in [Updates -> Steps]
    BY <1>11 DEF Handoff, Goto
  <2>2. script' \in [Updates -> ScriptSteps]
    BY <1>11 DEF Handoff, Script
  <2>3. QED
    BY <1>11, <2>1, <2>2, <1>a, <1>b, <1>c DEF Handoff, Launched
<1>12. ASSUME NEW u \in Updates, HandoffFails(u) PROVE TypeOK'
  <2>1. pc' \in [Updates -> Steps]
    BY <1>12 DEF HandoffFails, Leftover, GiveUp, Goto
  <2>2. script' \in [Updates -> ScriptSteps]
    BY <1>12 DEF HandoffFails, Script
  <2>3. QED
    BY <1>12, <2>1, <2>2, <1>a, <1>b, <1>c DEF HandoffFails, Leftover, GiveUp
<1>13. ASSUME NEW u \in Updates, Await(u) PROVE TypeOK'
  <2>1. pc' \in [Updates -> Steps]
    BY <1>13 DEF Await, Goto
  <2>2. QED
    BY <1>13, <2>1, <1>a, <1>b, <1>c DEF Await
<1>14. ASSUME NEW u \in Updates, CheckPin(u) PROVE TypeOK'
  <2>1. pc' \in [Updates -> Steps]
    BY <1>14 DEF CheckPin, Goto
  <2>2. pin' \in Version
    BY <1>14 DEF CheckPin
  <2>3. QED
    BY <1>14, <2>1, <2>2, <1>a, <1>b, <1>c DEF CheckPin
<1>15. ASSUME NEW u \in Updates, Conflict(u) PROVE TypeOK'
  BY <1>15, <1>a, <1>b, <1>c DEF Conflict, Goto
<1>16. ASSUME NEW u \in Updates, Choose(u) PROVE TypeOK'
  <2>1. pc' \in [Updates -> Steps]
    BY <1>16 DEF Choose, Goto
  <2>2. ver' \in [Updates -> Releases]
    BY <1>16 DEF Choose, Offers
  <2>3. QED
    BY <1>16, <2>1, <2>2, <1>a, <1>b, <1>c DEF Choose
<1>17. ASSUME NEW u \in Updates, Abort(u) PROVE TypeOK'
  BY <1>17, <1>a, <1>b, <1>c DEF Abort, Script
<1>18. ASSUME NEW u \in Updates, Stop(u) PROVE TypeOK'
  BY <1>18, <1>a, <1>b, <1>c DEF Stop, Script, AgentGone
<1>19. ASSUME NEW u \in Updates, Copy(u) PROVE TypeOK'
  BY <1>19, <1>a, <1>b, <1>c DEF Copy, Script
<1>20. ASSUME NEW u \in Updates, Stamp(u) PROVE TypeOK'
  <2>1. ver[u] \in Releases
    BY <1>20
  <2>2. release' \in Releases \cup {release}
    BY <1>20, <2>1 DEF Stamp
  <2>3. QED
    BY <1>20, <2>2, <1>a, <1>b, <1>c DEF Stamp, Script
<1>21. ASSUME NEW u \in Updates, StartTask(u) PROVE TypeOK'
  BY <1>21, <1>a, <1>b, <1>c DEF StartTask, Starts, Script
<1>22. ASSUME NEW u \in Updates, Release(u) PROVE TypeOK'
  BY <1>22, <1>a, <1>b, <1>c DEF Release, Script
<1>23. ASSUME NEW u \in Updates, CliDies(u) PROVE TypeOK'
  BY <1>23, <1>a, <1>b, <1>c DEF CliDies, Goto
<1>24. ASSUME NEW v \in Releases, Begin(v) PROVE TypeOK'
  BY <1>24, <1>a, <1>b, <1>c DEF Begin, Goto
<1>25. CASE UpdateExits
  BY <1>25, <1>a, <1>b, <1>c DEF UpdateExits, Goto
<1>26. CASE CheckMarker
  BY <1>26, <1>a, <1>b, <1>c DEF CheckMarker, Earned, Shows
<1>27. CASE WritePin
  BY <1>27, <1>a, <1>b, <1>c DEF WritePin
<1>28. CASE Clear
  BY <1>28, <1>a, <1>b, <1>c DEF Clear
<1>29. CASE TaskStarts
  BY <1>29, <1>a, <1>b, <1>c DEF TaskStarts, Starts
<1>30. CASE Age
  BY <1>30, <1>a, <1>b, <1>c DEF Age
<1>31. CASE AgentDies
  BY <1>31, <1>a, <1>b, <1>c DEF AgentDies, AgentGone
<1>32. CASE PowerLoss
  BY <1>32, <1>a, <1>b, <1>c DEF PowerLoss
<1>33. QED
  BY <1>1, <1>2, <1>3, <1>4, <1>5, <1>6, <1>7, <1>8, <1>9, <1>10, <1>11, <1>12,
     <1>13, <1>14, <1>15, <1>16, <1>17, <1>18, <1>19, <1>20, <1>21, <1>22,
     <1>23, <1>24, <1>25, <1>26, <1>27, <1>28, <1>29, <1>30, <1>31, <1>32
     DEF Orderly, CliStep, AgentStep, ScriptStep, RollbackStep, Fault

LEMMA TypeAlways == Spec => []TypeOK
<1>1. Init => TypeOK
  <2> SUFFICES ASSUME Init PROVE TypeOK
    OBVIOUS
  <2>1. /\ pc \in [Updates -> Steps] /\ script \in [Updates -> ScriptSteps]
        /\ ver \in [Updates -> Releases] /\ local \in [Updates -> Version]
        /\ copied \in [Updates -> BOOLEAN]
    BY ChannelAssumption DEF Init, Steps, ScriptSteps, Version
  <2>2. faults \in 0..MaxFaults
    BY BoundAssumption DEF Init
  <2>3. QED
    BY <2>1, <2>2, ChannelAssumption DEF Init, TypeOK, Version
<1>2. TypeOK /\ [Next]_vars => TypeOK'
  <2>1. ASSUME TypeOK, Next PROVE TypeOK'
    BY <2>1, StepType DEF Next
  <2>2. ASSUME TypeOK, UNCHANGED vars PROVE TypeOK'
    BY <2>2 DEF vars, TypeOK
  <2>3. QED
    BY <2>1, <2>2
<1>3. QED
  BY <1>1, <1>2, PTL DEF Spec

(***************************************************************************)
(* The busy marker.  An update leaves its work before its script starts,   *)
(* and, until a marker was taken over, whoever is at work holds the        *)
(* marker.                                                                 *)
(***************************************************************************)
ScriptFollows ==
  \A u \in Updates : script[u] # "none" => pc[u] \in {"await"} \cup Ended

HoldsMarker ==
  excused = {} => \A u \in Updates : AtWork(u) => marker # None /\ marker.by = u

MarkerInv == ScriptFollows /\ HoldsMarker

LEMMA MarkerStep ==
  ASSUME TypeOK, MarkerInv, Orderly \/ Fault
  PROVE  MarkerInv'
<1> USE CallsAssumption, NoneAssumption
    DEF TypeOK, Marker, Steps, Working, Ended, ScriptSteps, Updates, ScriptFollows,
        HoldsMarker, MarkerInv, AtWork, files
<1>1. ASSUME NEW u \in Updates, NEW v \in Releases, Command(u, v) PROVE MarkerInv'
  BY <1>1 DEF Command, Goto
<1>2. ASSUME NEW u \in Updates, Ask(u) PROVE MarkerInv'
  BY <1>2 DEF Ask, Goto
<1>3. ASSUME NEW u \in Updates, CheckChannel(u) PROVE MarkerInv'
  BY <1>3 DEF CheckChannel, Goto
<1>4. ASSUME NEW u \in Updates, CheckDevice(u) PROVE MarkerInv'
  BY <1>4 DEF CheckDevice, Goto
<1>5. ASSUME NEW u \in Updates, Create(u) PROVE MarkerInv'
  <2>1. marker' # None /\ marker'.by = u
    <3>1. Mine(u) \in Marker /\ Mine(u).by = u
      BY DEF Mine
    <3>2. QED
      BY <1>5, <3>1 DEF Create
  <2>2. \A w \in Updates \ {u} : pc'[w] = pc[w] /\ script'[w] = script[w]
    BY <1>5 DEF Create, Goto
  <2>3. excused = {} => \A w \in Updates : ~AtWork(w)
    BY <1>5 DEF Create
  <2>4. ScriptFollows' /\ excused' = excused
    BY <1>5 DEF Create, Goto
  <2>5. ASSUME excused' = {}, NEW w \in Updates \ {u} PROVE ~AtWork(w)'
    BY <2>2, <2>3, <2>4, <2>5
  <2>6. HoldsMarker'
    BY <2>1, <2>5
  <2>7. QED
    BY <2>4, <2>6
<1>6. ASSUME NEW u \in Updates, Exists(u) PROVE MarkerInv'
  BY <1>6 DEF Exists, Goto
<1>7. ASSUME NEW u \in Updates, Stat(u) PROVE MarkerInv'
  BY <1>7 DEF Stat, Goto
<1>8. ASSUME NEW u \in Updates, Reclaim(u) PROVE MarkerInv'
  BY <1>8 DEF Reclaim, Goto, Mine
<1>9. ASSUME NEW u \in Updates, Stage(u) PROVE MarkerInv'
  BY <1>9 DEF Stage, Goto
<1>10. ASSUME NEW u \in Updates, StageFails(u) PROVE MarkerInv'
  BY <1>10 DEF StageFails, Leftover, GiveUp, Goto
<1>11. ASSUME NEW u \in Updates, Handoff(u) PROVE MarkerInv'
  BY <1>11 DEF Handoff, Launched, Script, Goto
<1>12. ASSUME NEW u \in Updates, HandoffFails(u) PROVE MarkerInv'
  BY <1>12 DEF HandoffFails, Leftover, GiveUp, Script, Goto
<1>13. ASSUME NEW u \in Updates, Await(u) PROVE MarkerInv'
  BY <1>13 DEF Await, Goto
<1>14. ASSUME NEW u \in Updates, CheckPin(u) PROVE MarkerInv'
  BY <1>14 DEF CheckPin, Goto
<1>15. ASSUME NEW u \in Updates, Conflict(u) PROVE MarkerInv'
  BY <1>15 DEF Conflict, Goto
<1>16. ASSUME NEW u \in Updates, Choose(u) PROVE MarkerInv'
  BY <1>16 DEF Choose, Offers, Goto
<1>17. ASSUME NEW u \in Updates, Abort(u) PROVE MarkerInv'
  BY <1>17 DEF Abort, Script
<1>18. ASSUME NEW u \in Updates, Stop(u) PROVE MarkerInv'
  BY <1>18 DEF Stop, Script, AgentGone
<1>19. ASSUME NEW u \in Updates, Copy(u) PROVE MarkerInv'
  BY <1>19 DEF Copy, Script
<1>20. ASSUME NEW u \in Updates, Stamp(u) PROVE MarkerInv'
  BY <1>20 DEF Stamp, Stamps, Script
<1>21. ASSUME NEW u \in Updates, StartTask(u) PROVE MarkerInv'
  BY <1>21 DEF StartTask, Starts, Script
<1>22. ASSUME NEW u \in Updates, Release(u) PROVE MarkerInv'
  BY <1>22 DEF Release, Script
<1>23. ASSUME NEW u \in Updates, CliDies(u) PROVE MarkerInv'
  BY <1>23 DEF CliDies, Goto
<1>24. ASSUME NEW v \in Releases, Begin(v) PROVE MarkerInv'
  BY <1>24 DEF Begin, Goto
<1>25. CASE UpdateExits
  BY <1>25 DEF UpdateExits, Goto
<1>26. CASE CheckMarker
  BY <1>26 DEF CheckMarker, Earned, Shows
<1>27. CASE WritePin
  BY <1>27 DEF WritePin
<1>28. CASE Clear
  BY <1>28 DEF Clear
<1>29. CASE TaskStarts
  BY <1>29 DEF TaskStarts, Starts
<1>30. CASE Age
  BY <1>30 DEF Age
<1>31. CASE AgentDies
  BY <1>31 DEF AgentDies, AgentGone
<1>32. CASE PowerLoss
  BY <1>32 DEF PowerLoss
<1>33. QED
  BY <1>1, <1>2, <1>3, <1>4, <1>5, <1>6, <1>7, <1>8, <1>9, <1>10, <1>11, <1>12,
     <1>13, <1>14, <1>15, <1>16, <1>17, <1>18, <1>19, <1>20, <1>21, <1>22,
     <1>23, <1>24, <1>25, <1>26, <1>27, <1>28, <1>29, <1>30, <1>31, <1>32
     DEF Orderly, CliStep, AgentStep, ScriptStep, RollbackStep, Fault

LEMMA ExcusedGrows == Orderly \/ Fault => excused \subseteq excused'
  BY DEF Orderly, CliStep, AgentStep, ScriptStep, RollbackStep, Fault, Command,
         Ask, CheckChannel, CheckDevice, Create, Exists, Stat, Reclaim, Stage,
         StageFails, Handoff, HandoffFails, Await, CheckPin, Conflict, Choose,
         Abort, Stop, Copy, Stamp, StartTask, Release, CliDies, Begin,
         UpdateExits, CheckMarker, WritePin, Clear, TaskStarts, Age, AgentDies,
         PowerLoss

\* No two updates are at work at once before one took over a marker it found
\* stale, or gave up a handoff that had worked.
THEOREM OneAtATime == Spec => []OneUpdateAtATime
<1> DEFINE IInv == MarkerInv /\ OneUpdateAtATime
<1>1. Init => IInv
  BY DEF Init, MarkerInv, ScriptFollows, HoldsMarker, AtWork, Working, OneUpdateAtATime
<1>2. TypeOK /\ IInv /\ [Next]_vars => IInv'
  <2>1. ASSUME TypeOK, IInv, Next PROVE IInv'
    <3>1. MarkerInv' /\ excused \subseteq excused'
      BY <2>1, MarkerStep, ExcusedGrows DEF Next
    <3>2. excused' = {} => ~Overlap'
      BY <3>1 DEF MarkerInv, HoldsMarker, Overlap
    <3>3. overlapped' => overlapped \/ Overlap'
      BY <2>1 DEF Next, Observe
    <3>4. QED
      BY <2>1, <3>1, <3>2, <3>3 DEF OneUpdateAtATime
  <2>2. ASSUME IInv, UNCHANGED vars PROVE IInv'
    BY <2>2 DEF vars, MarkerInv, ScriptFollows, HoldsMarker, AtWork, OneUpdateAtATime
  <2>3. QED
    BY <2>1, <2>2
<1>3. QED
  BY <1>1, <1>2, TypeAlways, PTL DEF Spec

(***************************************************************************)
(* The release marker.  While updates keep apart, what is staged is the    *)
(* release of the update whose script is to copy it, and a proven copy is  *)
(* that release.                                                           *)
(***************************************************************************)
CopiedInStamp == \A u \in Updates : copied[u] => script[u] = "stamp"

StagedIsMine ==
  \A u \in Updates :
    /\ pc[u] = "handoff" \/ script[u] \in {"begin", "copy"} => staged \in {ver[u], None}
    /\ copied[u] => exe = ver[u]

SwapInv ==
  /\ MarkerInv /\ CopiedInStamp
  /\ ~overlapped => ~Overlap /\ StagedIsMine

LEMMA CopiedStep ==
  ASSUME TypeOK, CopiedInStamp, ScriptFollows, Orderly \/ Fault
  PROVE  CopiedInStamp'
<1> USE CallsAssumption DEF TypeOK, Updates, ScriptSteps, CopiedInStamp, ScriptFollows, Ended
<1>1. ASSUME NEW u \in Updates, NEW v \in Releases, Command(u, v) PROVE CopiedInStamp'
  BY <1>1 DEF Command, Goto
<1>2. ASSUME NEW u \in Updates, Ask(u) PROVE CopiedInStamp'
  BY <1>2 DEF Ask, Goto
<1>3. ASSUME NEW u \in Updates, CheckChannel(u) PROVE CopiedInStamp'
  BY <1>3 DEF CheckChannel, Goto
<1>4. ASSUME NEW u \in Updates, CheckDevice(u) PROVE CopiedInStamp'
  BY <1>4 DEF CheckDevice, Goto
<1>5. ASSUME NEW u \in Updates, Create(u) PROVE CopiedInStamp'
  BY <1>5 DEF Create, Goto, Mine
<1>6. ASSUME NEW u \in Updates, Exists(u) PROVE CopiedInStamp'
  BY <1>6 DEF Exists, Goto
<1>7. ASSUME NEW u \in Updates, Stat(u) PROVE CopiedInStamp'
  BY <1>7 DEF Stat, Goto
<1>8. ASSUME NEW u \in Updates, Reclaim(u) PROVE CopiedInStamp'
  BY <1>8 DEF Reclaim, Goto, Mine
<1>9. ASSUME NEW u \in Updates, Stage(u) PROVE CopiedInStamp'
  BY <1>9 DEF Stage, Goto
<1>10. ASSUME NEW u \in Updates, StageFails(u) PROVE CopiedInStamp'
  BY <1>10 DEF StageFails, Leftover, GiveUp, Goto
<1>11. ASSUME NEW u \in Updates, Handoff(u) PROVE CopiedInStamp'
  BY <1>11 DEF Handoff, Launched, Script, Goto
<1>12. ASSUME NEW u \in Updates, HandoffFails(u) PROVE CopiedInStamp'
  BY <1>12 DEF HandoffFails, Leftover, GiveUp, Script, Goto
<1>13. ASSUME NEW u \in Updates, Await(u) PROVE CopiedInStamp'
  BY <1>13 DEF Await, Goto
<1>14. ASSUME NEW u \in Updates, CheckPin(u) PROVE CopiedInStamp'
  BY <1>14 DEF CheckPin, Goto
<1>15. ASSUME NEW u \in Updates, Conflict(u) PROVE CopiedInStamp'
  BY <1>15 DEF Conflict, Goto
<1>16. ASSUME NEW u \in Updates, Choose(u) PROVE CopiedInStamp'
  BY <1>16 DEF Choose, Offers, Goto
<1>17. ASSUME NEW u \in Updates, Abort(u) PROVE CopiedInStamp'
  BY <1>17 DEF Abort, Script
<1>18. ASSUME NEW u \in Updates, Stop(u) PROVE CopiedInStamp'
  BY <1>18 DEF Stop, Script, AgentGone
<1>19. ASSUME NEW u \in Updates, Copy(u) PROVE CopiedInStamp'
  BY <1>19 DEF Copy, Script
<1>20. ASSUME NEW u \in Updates, Stamp(u) PROVE CopiedInStamp'
  BY <1>20 DEF Stamp, Stamps, Script
<1>21. ASSUME NEW u \in Updates, StartTask(u) PROVE CopiedInStamp'
  BY <1>21 DEF StartTask, Starts, Script
<1>22. ASSUME NEW u \in Updates, Release(u) PROVE CopiedInStamp'
  BY <1>22 DEF Release, Script
<1>23. ASSUME NEW u \in Updates, CliDies(u) PROVE CopiedInStamp'
  BY <1>23 DEF CliDies, Goto
<1>24. ASSUME NEW v \in Releases, Begin(v) PROVE CopiedInStamp'
  BY <1>24 DEF Begin, Goto
<1>25. CASE UpdateExits
  BY <1>25 DEF UpdateExits, Goto
<1>26. CASE CheckMarker
  BY <1>26 DEF CheckMarker, Earned, Shows
<1>27. CASE WritePin
  BY <1>27 DEF WritePin
<1>28. CASE Clear
  BY <1>28 DEF Clear
<1>29. CASE TaskStarts
  BY <1>29 DEF TaskStarts, Starts
<1>30. CASE Age
  BY <1>30 DEF Age
<1>31. CASE AgentDies
  BY <1>31 DEF AgentDies, AgentGone
<1>32. CASE PowerLoss
  BY <1>32 DEF PowerLoss
<1>33. QED
  BY <1>1, <1>2, <1>3, <1>4, <1>5, <1>6, <1>7, <1>8, <1>9, <1>10, <1>11, <1>12,
     <1>13, <1>14, <1>15, <1>16, <1>17, <1>18, <1>19, <1>20, <1>21, <1>22,
     <1>23, <1>24, <1>25, <1>26, <1>27, <1>28, <1>29, <1>30, <1>31, <1>32
     DEF Orderly, CliStep, AgentStep, ScriptStep, RollbackStep, Fault
LEMMA SwapStep ==
  ASSUME TypeOK, ScriptFollows, CopiedInStamp, ~Overlap, StagedIsMine, Orderly \/ Fault
  PROVE  StagedIsMine'
<1> USE CallsAssumption
    DEF TypeOK, Version, Steps, Working, Ended, ScriptSteps, Updates, ScriptFollows,
        CopiedInStamp, StagedIsMine, Overlap, AtWork, files
<1>1. ASSUME NEW u \in Updates, NEW v \in Releases, Command(u, v) PROVE StagedIsMine'
  BY <1>1 DEF Command, Goto
<1>2. ASSUME NEW u \in Updates, Ask(u) PROVE StagedIsMine'
  BY <1>2 DEF Ask, Goto
<1>3. ASSUME NEW u \in Updates, CheckChannel(u) PROVE StagedIsMine'
  BY <1>3 DEF CheckChannel, Goto
<1>4. ASSUME NEW u \in Updates, CheckDevice(u) PROVE StagedIsMine'
  BY <1>4 DEF CheckDevice, Goto
<1>5. ASSUME NEW u \in Updates, Create(u) PROVE StagedIsMine'
  BY <1>5 DEF Create, Goto, Mine
<1>6. ASSUME NEW u \in Updates, Exists(u) PROVE StagedIsMine'
  BY <1>6 DEF Exists, Goto
<1>7. ASSUME NEW u \in Updates, Stat(u) PROVE StagedIsMine'
  BY <1>7 DEF Stat, Goto
<1>8. ASSUME NEW u \in Updates, Reclaim(u) PROVE StagedIsMine'
  BY <1>8 DEF Reclaim, Goto, Mine
<1>9. ASSUME NEW u \in Updates, Stage(u) PROVE StagedIsMine'
  BY <1>9 DEF Stage, Goto
<1>10. ASSUME NEW u \in Updates, StageFails(u) PROVE StagedIsMine'
  BY <1>10 DEF StageFails, Leftover, GiveUp, Goto
<1>11. ASSUME NEW u \in Updates, Handoff(u) PROVE StagedIsMine'
  BY <1>11 DEF Handoff, Launched, Script, Goto
<1>12. ASSUME NEW u \in Updates, HandoffFails(u) PROVE StagedIsMine'
  BY <1>12 DEF HandoffFails, Leftover, GiveUp, Script, Goto
<1>13. ASSUME NEW u \in Updates, Await(u) PROVE StagedIsMine'
  BY <1>13 DEF Await, Goto
<1>14. ASSUME NEW u \in Updates, CheckPin(u) PROVE StagedIsMine'
  BY <1>14 DEF CheckPin, Goto
<1>15. ASSUME NEW u \in Updates, Conflict(u) PROVE StagedIsMine'
  BY <1>15 DEF Conflict, Goto
<1>16. ASSUME NEW u \in Updates, Choose(u) PROVE StagedIsMine'
  BY <1>16 DEF Choose, Offers, Goto
<1>17. ASSUME NEW u \in Updates, Abort(u) PROVE StagedIsMine'
  BY <1>17 DEF Abort, Script
<1>18. ASSUME NEW u \in Updates, Stop(u) PROVE StagedIsMine'
  BY <1>18 DEF Stop, Script, AgentGone
<1>19. ASSUME NEW u \in Updates, Copy(u) PROVE StagedIsMine'
  BY <1>19 DEF Copy, Script
<1>20. ASSUME NEW u \in Updates, Stamp(u) PROVE StagedIsMine'
  BY <1>20 DEF Stamp, Stamps, Script
<1>21. ASSUME NEW u \in Updates, StartTask(u) PROVE StagedIsMine'
  BY <1>21 DEF StartTask, Starts, Script
<1>22. ASSUME NEW u \in Updates, Release(u) PROVE StagedIsMine'
  BY <1>22 DEF Release, Script
<1>23. ASSUME NEW u \in Updates, CliDies(u) PROVE StagedIsMine'
  BY <1>23 DEF CliDies, Goto
<1>24. ASSUME NEW v \in Releases, Begin(v) PROVE StagedIsMine'
  BY <1>24 DEF Begin, Goto
<1>25. CASE UpdateExits
  BY <1>25 DEF UpdateExits, Goto
<1>26. CASE CheckMarker
  BY <1>26 DEF CheckMarker, Earned, Shows
<1>27. CASE WritePin
  BY <1>27 DEF WritePin
<1>28. CASE Clear
  BY <1>28 DEF Clear
<1>29. CASE TaskStarts
  BY <1>29 DEF TaskStarts, Starts
<1>30. CASE Age
  BY <1>30 DEF Age
<1>31. CASE AgentDies
  BY <1>31 DEF AgentDies, AgentGone
<1>32. CASE PowerLoss
  BY <1>32 DEF PowerLoss
<1>33. QED
  BY <1>1, <1>2, <1>3, <1>4, <1>5, <1>6, <1>7, <1>8, <1>9, <1>10, <1>11, <1>12,
     <1>13, <1>14, <1>15, <1>16, <1>17, <1>18, <1>19, <1>20, <1>21, <1>22,
     <1>23, <1>24, <1>25, <1>26, <1>27, <1>28, <1>29, <1>30, <1>31, <1>32
     DEF Orderly, CliStep, AgentStep, ScriptStep, RollbackStep, Fault

LEMMA SwapAlways == Spec => []SwapInv
<1>1. Init => SwapInv
  BY DEF Init, SwapInv, MarkerInv, ScriptFollows, HoldsMarker, AtWork, Working,
         CopiedInStamp, StagedIsMine, Overlap
<1>2. TypeOK /\ SwapInv /\ [Next]_vars => SwapInv'
  <2>1. ASSUME TypeOK, SwapInv, Next PROVE SwapInv'
    <3>1. MarkerInv'
      BY <2>1, MarkerStep DEF Next, SwapInv
    <3>2. CopiedInStamp'
      BY <2>1, CopiedStep DEF Next, SwapInv, MarkerInv
    <3>3. ASSUME ~overlapped' PROVE ~Overlap' /\ StagedIsMine'
      <4>1. ~overlapped /\ ~Overlap'
        BY <2>1, <3>3 DEF Next, Observe
      <4>2. ~Overlap /\ StagedIsMine
        BY <2>1, <4>1 DEF SwapInv
      <4>3. StagedIsMine'
        BY <2>1, <4>2, SwapStep DEF Next, SwapInv, MarkerInv
      <4>4. QED
        BY <4>1, <4>3
    <3>4. QED
      BY <3>1, <3>2, <3>3 DEF SwapInv
  <2>2. ASSUME SwapInv, UNCHANGED vars PROVE SwapInv'
    BY <2>2 DEF vars, SwapInv, MarkerInv, ScriptFollows, HoldsMarker, AtWork,
                CopiedInStamp, StagedIsMine, Overlap
  <2>3. QED
    BY <2>1, <2>2
<1>3. QED
  BY <1>1, <1>2, TypeAlways, PTL DEF Spec

LEMMA OnlyStamps ==
  ASSUME Orderly \/ Fault, release' # release
  PROVE  \E u \in Updates : Stamp(u)
  BY DEF Orderly, CliStep, AgentStep, ScriptStep, RollbackStep, Fault, Command,
         Ask, CheckChannel, CheckDevice, Create, Exists, Stat, Reclaim, Stage,
         StageFails, Handoff, HandoffFails, Await, CheckPin, Conflict, Choose,
         Abort, Stop, Copy, StartTask, Release, CliDies, Begin, UpdateExits,
         CheckMarker, WritePin, Clear, TaskStarts, Age, AgentDies, PowerLoss,
         files

\* Unless updates have overlapped, the release marker only ever becomes the
\* release whose executable is in place.
THEOREM ReleaseEarned == Spec => ReleaseIsEarned
<1>1. TypeOK /\ SwapInv /\ [Next]_vars => [release' # release => release' = exe \/ overlapped]_vars
  <2> SUFFICES ASSUME TypeOK, SwapInv, Next, release' # release, ~overlapped
               PROVE  release' = exe
    BY DEF vars
  <2>1. PICK u \in Updates : Stamp(u)
    BY OnlyStamps DEF Next
  <2>2. copied[u] /\ release' = ver[u]
    BY <2>1 DEF Stamp, Stamps
  <2>3. QED
    BY <2>2 DEF SwapInv, StagedIsMine
<1>2. QED
  BY <1>1, TypeAlways, SwapAlways, PTL DEF Spec, ReleaseIsEarned

(***************************************************************************)
(* The pin.  Past its look at the device the rollback's update sees the    *)
(* release it is to deliver in the marker only if that was stamped since.  *)
(***************************************************************************)
BeforeCreate == {"idle", "channel", "device"}

PinInv ==
  /\ pc[Rollback] # "idle" => rollback # "idle"
  /\ pc[Rollback] # "choose"
  /\ rollback = "checking" => pc[Rollback] = "complete"
  /\ pc[Rollback] \notin BeforeCreate \cup {"refused", "killed", "unproven"}
       => (release = ver[Rollback] => release \in proven)
  /\ rollback = "pinning" => ver[Rollback] \in proven

LEMMA PinStep ==
  ASSUME TypeOK, PinInv, Observe, Orderly \/ Fault
  PROVE  PinInv'
<1> USE CallsAssumption
    DEF TypeOK, Version, Steps, Working, Ended, Updates, BeforeCreate, PinInv, Observe,
        files
<1>1. ASSUME NEW u \in Updates, NEW v \in Releases, Command(u, v) PROVE PinInv'
  BY <1>1 DEF Command, Goto
<1>2. ASSUME NEW u \in Updates, Ask(u) PROVE PinInv'
  BY <1>2 DEF Ask, Goto
<1>3. ASSUME NEW u \in Updates, CheckChannel(u) PROVE PinInv'
  BY <1>3 DEF CheckChannel, Goto
<1>4. ASSUME NEW u \in Updates, CheckDevice(u) PROVE PinInv'
  BY <1>4 DEF CheckDevice, Goto
<1>5. ASSUME NEW u \in Updates, Create(u) PROVE PinInv'
  BY <1>5 DEF Create, Goto, Mine
<1>6. ASSUME NEW u \in Updates, Exists(u) PROVE PinInv'
  BY <1>6 DEF Exists, Goto
<1>7. ASSUME NEW u \in Updates, Stat(u) PROVE PinInv'
  BY <1>7 DEF Stat, Goto
<1>8. ASSUME NEW u \in Updates, Reclaim(u) PROVE PinInv'
  BY <1>8 DEF Reclaim, Goto, Mine
<1>9. ASSUME NEW u \in Updates, Stage(u) PROVE PinInv'
  BY <1>9 DEF Stage, Goto
<1>10. ASSUME NEW u \in Updates, StageFails(u) PROVE PinInv'
  BY <1>10 DEF StageFails, Leftover, GiveUp, Goto
<1>11. ASSUME NEW u \in Updates, Handoff(u) PROVE PinInv'
  BY <1>11 DEF Handoff, Launched, Script, Goto
<1>12. ASSUME NEW u \in Updates, HandoffFails(u) PROVE PinInv'
  BY <1>12 DEF HandoffFails, Leftover, GiveUp, Script, Goto
<1>13. ASSUME NEW u \in Updates, Await(u) PROVE PinInv'
  BY <1>13 DEF Await, Goto
<1>14. ASSUME NEW u \in Updates, CheckPin(u) PROVE PinInv'
  BY <1>14 DEF CheckPin, Goto
<1>15. ASSUME NEW u \in Updates, Conflict(u) PROVE PinInv'
  BY <1>15 DEF Conflict, Goto
<1>16. ASSUME NEW u \in Updates, Choose(u) PROVE PinInv'
  BY <1>16 DEF Choose, Offers, Goto
<1>17. ASSUME NEW u \in Updates, Abort(u) PROVE PinInv'
  BY <1>17 DEF Abort, Script
<1>18. ASSUME NEW u \in Updates, Stop(u) PROVE PinInv'
  BY <1>18 DEF Stop, Script, AgentGone
<1>19. ASSUME NEW u \in Updates, Copy(u) PROVE PinInv'
  BY <1>19 DEF Copy, Script
<1>20. ASSUME NEW u \in Updates, Stamp(u) PROVE PinInv'
  BY <1>20 DEF Stamp, Stamps, Script
<1>21. ASSUME NEW u \in Updates, StartTask(u) PROVE PinInv'
  BY <1>21 DEF StartTask, Starts, Script
<1>22. ASSUME NEW u \in Updates, Release(u) PROVE PinInv'
  BY <1>22 DEF Release, Script
<1>23. ASSUME NEW u \in Updates, CliDies(u) PROVE PinInv'
  BY <1>23 DEF CliDies, Goto
<1>24. ASSUME NEW v \in Releases, Begin(v) PROVE PinInv'
  BY <1>24 DEF Begin, Goto
<1>25. CASE UpdateExits
  BY <1>25 DEF UpdateExits, Goto
<1>26. CASE CheckMarker
  BY <1>26 DEF CheckMarker, Earned, Shows
<1>27. CASE WritePin
  BY <1>27 DEF WritePin
<1>28. CASE Clear
  BY <1>28 DEF Clear
<1>29. CASE TaskStarts
  BY <1>29 DEF TaskStarts, Starts
<1>30. CASE Age
  BY <1>30 DEF Age
<1>31. CASE AgentDies
  BY <1>31 DEF AgentDies, AgentGone
<1>32. CASE PowerLoss
  BY <1>32 DEF PowerLoss
<1>33. QED
  BY <1>1, <1>2, <1>3, <1>4, <1>5, <1>6, <1>7, <1>8, <1>9, <1>10, <1>11, <1>12,
     <1>13, <1>14, <1>15, <1>16, <1>17, <1>18, <1>19, <1>20, <1>21, <1>22,
     <1>23, <1>24, <1>25, <1>26, <1>27, <1>28, <1>29, <1>30, <1>31, <1>32
     DEF Orderly, CliStep, AgentStep, ScriptStep, RollbackStep, Fault

LEMMA OnlyPins ==
  ASSUME Orderly \/ Fault, pin' # pin, pin' # None
  PROVE  WritePin
  BY DEF Orderly, CliStep, AgentStep, ScriptStep, RollbackStep, Fault, Command,
         Ask, CheckChannel, CheckDevice, Create, Exists, Stat, Reclaim, Stage,
         StageFails, Handoff, HandoffFails, Await, CheckPin, Conflict, Choose,
         Abort, Stop, Copy, Stamp, StartTask, Release, CliDies, Begin,
         UpdateExits, CheckMarker, Clear, TaskStarts, Age, AgentDies,
         PowerLoss, files

\* The pin only ever becomes a release that was stamped on this device since
\* the rollback began: with overlapping updates and lost machines too.
THEOREM PinEarned == Spec => PinIsEarned
<1>1. Init => PinInv
  BY CallsAssumption DEF Init, PinInv, BeforeCreate, Updates
<1>2. TypeOK /\ PinInv /\ [Next]_vars => PinInv'
  BY PinStep DEF Next, vars, PinInv
<1>3. TypeOK /\ PinInv /\ [Next]_vars
        => [pin' # pin /\ pin' # None => pin' \in proven]_vars
  <2> SUFFICES ASSUME PinInv, Next, pin' # pin, pin' # None
               PROVE  pin' \in proven
    BY DEF vars
  <2>1. WritePin
    BY OnlyPins DEF Next
  <2>2. QED
    BY <2>1 DEF WritePin, PinInv
<1>4. QED
  BY <1>1, <1>2, <1>3, TypeAlways, PTL DEF Spec, PinIsEarned
=============================================================================
