-------------------------- MODULE DeviceFilesProofs --------------------------
(***************************************************************************)
(* Proofs about the files of a device: of RunJournal for any table of      *)
(* files, any window and a disk that may refuse every call, and of         *)
(* BootHistory for any number of starts.  Update's are in UpdateProofs.    *)
(***************************************************************************)
EXTENDS MCDeviceFiles, UpdateProofs, FiniteSetTheorems, SequenceTheorems, TLAPS

(***************************************************************************)
(* A create finds a file that nobody uses.                                 *)
(***************************************************************************)
LEMMA OneMore ==
  ASSUME NEW S, IsFiniteSet(S), NEW n \in Nat, Cardinality(S) <= n, NEW e
  PROVE  /\ IsFiniteSet(S \cup {e}) /\ Cardinality(S \cup {e}) \in Nat
         /\ Cardinality(S \cup {e}) <= n + 1
<1>1. Cardinality(S) \in Nat
  BY FS_CardinalityType
<1>2. /\ IsFiniteSet(S \cup {e})
      /\ Cardinality(S \cup {e}) = IF e \in S THEN Cardinality(S) ELSE Cardinality(S) + 1
  BY FS_AddElement
<1>3. QED
  BY <1>1, <1>2

LEMMA FewInUse ==
  ASSUME NEW a, NEW b, NEW c, NEW d
  PROVE  /\ IsFiniteSet({a} \cup {b} \cup {c} \cup {d})
         /\ Cardinality({a} \cup {b} \cup {c} \cup {d}) \in Nat
         /\ Cardinality({a} \cup {b} \cup {c} \cup {d}) <= 4
<1>1. IsFiniteSet({a}) /\ Cardinality({a}) <= 1
  BY FS_Singleton
<1>2. IsFiniteSet({a} \cup {b}) /\ Cardinality({a} \cup {b}) <= 2
  <2>1. IsFiniteSet({a} \cup {b}) /\ Cardinality({a} \cup {b}) <= 1 + 1
    BY <1>1, OneMore
  <2>2. QED
    BY <2>1
<1>3. IsFiniteSet({a} \cup {b} \cup {c}) /\ Cardinality({a} \cup {b} \cup {c}) <= 3
  <2> DEFINE S == {a} \cup {b}
  <2>1. IsFiniteSet(S) /\ Cardinality(S) <= 2
    BY <1>2
  <2> HIDE DEF S
  <2>2. IsFiniteSet(S \cup {c}) /\ Cardinality(S \cup {c}) <= 2 + 1
    BY <2>1, OneMore
  <2>3. QED
    BY <2>2 DEF S
<1>4. QED
  <2> DEFINE S == {a} \cup {b} \cup {c}
  <2>1. IsFiniteSet(S) /\ Cardinality(S) <= 3
    BY <1>3
  <2> HIDE DEF S
  <2>2. /\ IsFiniteSet(S \cup {d}) /\ Cardinality(S \cup {d}) \in Nat
        /\ Cardinality(S \cup {d}) <= 3 + 1
    BY <2>1, OneMore
  <2>3. QED
    BY <2>2 DEF S

\* The instance has its own copies of these two.
LEMMA SameCardinality ==
  /\ Journal!IsFiniteSet(Files) <=> IsFiniteSet(Files)
  /\ Journal!Cardinality(Files) = Cardinality(Files)
<1>1. Journal!IsFiniteSet(Files) <=> IsFiniteSet(Files)
  BY DEF Journal!IsFiniteSet, IsFiniteSet
<1>2. Journal!Cardinality(Files) = Cardinality(Files)
  BY Zenon DEF Journal!Cardinality, Cardinality
<1>3. QED
  BY <1>1, <1>2

LEMMA Constants ==
  /\ Files \subseteq Nat /\ Journal!NoFile \notin Files
  /\ IsFiniteSet(Files) /\ Cardinality(Files) \in Nat /\ Cardinality(Files) > 4
  /\ ReplacedWithin \in Nat /\ Journal!Late \in Nat /\ Journal!Late > 0
<1>1. /\ Files \subseteq Nat /\ Journal!NoFile \notin Files
      /\ IsFiniteSet(Files) /\ Cardinality(Files) > 4
  BY JournalAssumptions, SameCardinality DEF Journal!FilesAssumption
<1>2. ReplacedWithin \in Nat /\ ReplacedWithin + 1 \in Nat /\ ReplacedWithin + 1 > 0
  BY JournalAssumptions DEF Journal!WindowAssumption
<1>3. QED
  BY <1>1, <1>2, FS_CardinalityType DEF Journal!Late

LEMMA FreeFile ==
  ASSUME temp = Journal!NoFile
  PROVE  (CHOOSE f \in Journal!Free : TRUE) \in Journal!Free
<1> DEFINE used == {journal} \cup {handle["begin"]} \cup {handle["beat"]} \cup {handle["mark"]}
<1>1. IsFiniteSet(used) /\ Cardinality(used) <= 4 /\ Cardinality(used) \in Nat
  BY FewInUse
<1>2. ~(Files \subseteq used)
  <2> HIDE DEF used
  <2>1. ASSUME Files \subseteq used PROVE FALSE
    <3>1. Cardinality(Files) <= Cardinality(used)
      BY <1>1, <2>1, FS_Subset
    <3>2. QED
      BY <1>1, <3>1, Constants
  <2>2. QED
    BY <2>1
<1>3. Journal!Free = Files \ used
  BY Constants DEF Journal!Free, Journal!Writers
<1> HIDE DEF used
<1>4. QED
  BY <1>2, <1>3

(***************************************************************************)
(* Types.                                                                  *)
(***************************************************************************)
Held == Journal!Record \cup {Journal!Empty}

LEMMA Records ==
  /\ Journal!NewState \in Journal!Record /\ Journal!NewState.mark = "no"
  /\ \A m \in Journal!Marks : /\ [Journal!NewState EXCEPT !.mark = m] \in Journal!Record
                            /\ [Journal!NewState EXCEPT !.mark = m].mark = m
  /\ Journal!Empty.mark = "empty"
<1>1. 0 \in 0..Journal!Late
  BY Constants
<1>2. QED
  BY <1>1 DEF Journal!Record, Journal!NewState, Journal!Marks, Journal!Empty

\* What time and a restart of the host do to a record.
LEMMA Aged ==
  ASSUME NEW r \in Held
  PROVE  /\ Journal!Older(r) \in Held /\ Journal!Older(r).mark = r.mark
         /\ Journal!Older(r).hostBooted = r.hostBooted
         /\ (Journal!Older(r) = Journal!Empty) <=> (r = Journal!Empty)
<1>1. CASE r = Journal!Empty
  BY <1>1 DEF Journal!Older, Held
<1>2. CASE r \in Journal!Record /\ r # Journal!Empty
  <2> DEFINE age == IF r.age < Journal!Late THEN r.age + 1 ELSE r.age
  <2>1. age \in 0..Journal!Late /\ r.mark \in Journal!Marks /\ r.hostBooted \in BOOLEAN
    BY <1>2, Constants DEF Journal!Record
  <2>2. Journal!Older(r) = [r EXCEPT !.age = age]
    BY <1>2 DEF Journal!Older
  <2> HIDE DEF age
  <2>3. Journal!Older(r) = [age |-> age, mark |-> r.mark, hostBooted |-> r.hostBooted]
    BY <1>2, <2>2 DEF Journal!Record
  <2>4. Journal!Older(r) \in Journal!Record
    BY <2>1, <2>3 DEF Journal!Record
  <2>5. Journal!Older(r).mark = r.mark /\ Journal!Older(r).hostBooted = r.hostBooted
    BY <2>3
  <2>6. Journal!Older(r) # Journal!Empty
    BY <2>1, <2>5 DEF Journal!Marks, Journal!Empty
  <2>7. QED
    BY <1>2, <2>4, <2>5, <2>6 DEF Held
<1>3. QED
  BY <1>1, <1>2 DEF Held

LEMMA Booted ==
  ASSUME NEW r \in Held, r # Journal!Empty
  PROVE  /\ [r EXCEPT !.hostBooted = TRUE] \in Held
         /\ [r EXCEPT !.hostBooted = TRUE].mark = r.mark
         /\ [r EXCEPT !.hostBooted = TRUE].hostBooted = TRUE
<1>1. r \in Journal!Record
  BY DEF Held
<1>2. [r EXCEPT !.hostBooted = TRUE] \in Journal!Record
  BY <1>1 DEF Journal!Record
<1>3. QED
  BY <1>1, <1>2 DEF Held, Journal!Record

Stations == {"idle", "create", "write", "rename"}

LEMMA JournalTypes ==
  ASSUME Journal!TypeOK
  PROVE  /\ journal \in Files \cup {Journal!NoFile} /\ temp \in Files \cup {Journal!NoFile}
         /\ contents \in [Files -> Held]
         /\ step \in [Journal!Writers -> Stations]
         /\ handle \in [Journal!Writers -> Files \cup {Journal!NoFile}]
         /\ saved \in [Journal!Writers -> Held]
  BY DEF Journal!TypeOK, Held, Stations

LEMMA NamesType ==
  ASSUME Journal!TypeOK, [Journal!Next]_(Journal!vars)
  PROVE  journal' \in Files \cup {Journal!NoFile} /\ temp' \in Files \cup {Journal!NoFile}
<1>1. Journal!Free \subseteq Files
  BY DEF Journal!Free
<1>2. ASSUME NEW w \in Journal!Writers,
             Journal!SaveCreates(w) \/ Journal!SaveWrites(w) \/ Journal!SaveRenames(w)
               \/ Journal!SaveFails(w)
      PROVE  journal' \in Files \cup {Journal!NoFile} /\ temp' \in Files \cup {Journal!NoFile}
  BY <1>1, <1>2, JournalTypes, FreeFile
     DEF Journal!SaveCreates, Journal!SaveWrites, Journal!SaveRenames, Journal!SaveFails
<1>3. CASE UNCHANGED <<journal, temp>>
  BY <1>3, JournalTypes
<1>4. QED
  BY <1>2, <1>3
     DEF Journal!Next, Journal!Boot, Journal!Beat, Journal!Mark, Journal!Kill,
         Journal!HostRestarts, Journal!Dies, Journal!Tick, Journal!vars, Journal!disk

LEMMA SweepType ==
  ASSUME NEW table \in [Files -> Held], NEW names
  PROVE  /\ Journal!Sweep(table, names) \in [Files -> Held]
         /\ \A f \in Files : Journal!Sweep(table, names)[f]
                            = IF f \in names THEN table[f] ELSE Journal!Empty
  BY DEF Journal!Sweep, Held

LEMMA ContentsType ==
  ASSUME Journal!TypeOK, [Journal!Next]_(Journal!vars)
  PROVE  contents' \in [Files -> Held]
<1>1. ASSUME NEW w \in Journal!Writers, Journal!SaveCreates(w) \/ Journal!SaveWrites(w)
      PROVE  contents' \in [Files -> Held]
  BY <1>1, JournalTypes DEF Journal!SaveCreates, Journal!SaveWrites, Held
<1>2. ASSUME NEW w \in Journal!Writers, Journal!SaveRenames(w) \/ Journal!SaveFails(w)
      PROVE  contents' \in [Files -> Held]
  BY <1>2, JournalTypes, SweepType DEF Journal!SaveRenames, Journal!SaveFails
<1>3. CASE Journal!Kill
  BY <1>3, JournalTypes, SweepType DEF Journal!Kill
<1>4. CASE Journal!HostRestarts
  <2>1. ASSUME NEW f \in Files
        PROVE  (IF contents[f] = Journal!Empty \/ f \notin {journal, temp} THEN Journal!Empty
                ELSE [contents[f] EXCEPT !.hostBooted = TRUE]) \in Held
    <3>1. contents[f] \in Held
      BY JournalTypes
    <3>2. QED
      BY <3>1, Booted DEF Held
  <2>2. QED
    BY <1>4, <2>1 DEF Journal!HostRestarts
<1>5. CASE Journal!Tick
  BY <1>5, JournalTypes, Aged DEF Journal!Tick
<1>6. CASE UNCHANGED contents
  BY <1>6, JournalTypes
<1>7. QED
  BY <1>1, <1>2, <1>3, <1>4, <1>5, <1>6
     DEF Journal!Next, Journal!Boot, Journal!Beat, Journal!Mark, Journal!vars, Journal!disk

LEMMA StageType ==
  ASSUME Journal!TypeOK, NEW w \in Journal!Writers, NEW r \in Journal!Record,
         Journal!Stage(w, r)
  PROVE  /\ step' \in [Journal!Writers -> Stations] /\ saved' \in [Journal!Writers -> Held]
         /\ handle' = handle
         /\ \A v \in Journal!Writers : (step'[v] = "write") <=> (step[v] = "write")
         /\ \A v \in Journal!Writers : step'[v] = "idle" <=> v # w /\ step[v] = "idle"
  BY JournalTypes DEF Journal!Stage, Stations, Held

\* A writer holds a file while it writes; a start is over with its save.
Steady ==
  /\ process \in {"down", "booting", "up"}
  /\ step \in [Journal!Writers -> Stations]
  /\ handle \in [Journal!Writers -> Files \cup {Journal!NoFile}]
  /\ saved \in [Journal!Writers -> Held]
  /\ \A w \in Journal!Writers : (handle[w] # Journal!NoFile) = (step[w] = "write")
  /\ (step["begin"] # "idle") = (process = "booting")

LEMMA WriterType ==
  ASSUME Journal!TypeOK, NEW w \in Journal!Writers,
         Journal!SaveCreates(w) \/ Journal!SaveWrites(w) \/ Journal!SaveRenames(w)
           \/ Journal!SaveFails(w)
  PROVE  Steady'
<1>1. Steady
  BY JournalTypes DEF Journal!TypeOK, Steady
<1>2. CASE Journal!SaveCreates(w)
  <2>1. temp' \in Files /\ temp' # Journal!NoFile
    <3>1. Journal!Free \subseteq Files
      BY DEF Journal!Free
    <3>2. QED
      BY <1>2, <3>1, FreeFile, JournalTypes, Constants DEF Journal!SaveCreates
  <2>2. QED
    BY <1>1, <1>2, <2>1 DEF Journal!SaveCreates, Journal!history, Steady, Stations
<1>3. CASE Journal!SaveWrites(w)
  BY <1>1, <1>3 DEF Journal!SaveWrites, Journal!history, Steady, Stations
<1>4. CASE Journal!SaveRenames(w)
  BY <1>1, <1>4 DEF Journal!SaveRenames, Journal!Ends, Steady, Stations, Held
<1>5. CASE Journal!SaveFails(w)
  BY <1>1, <1>5 DEF Journal!SaveFails, Journal!Ends, Steady, Stations, Held
<1>6. QED
  BY <1>2, <1>3, <1>4, <1>5

LEMMA SteadyStep ==
  ASSUME Journal!TypeOK, [Journal!Next]_(Journal!vars)
  PROVE  Steady'
<1>1. Steady
  BY JournalTypes DEF Journal!TypeOK, Steady
<1>2. CASE Journal!Boot
  <2>1. Journal!Stage("begin", Journal!NewState) /\ process = "down" /\ process' = "booting"
    BY <1>2 DEF Journal!Boot, Journal!Claim
  <2>2. QED
    BY <1>1, <2>1, Records, StageType DEF Steady, Journal!Writers
<1>3. CASE Journal!Beat
  <2>1. Journal!Stage("beat", Journal!NewState) /\ process' = process
    BY <1>3 DEF Journal!Beat
  <2>2. QED
    BY <1>1, <2>1, Records, StageType DEF Steady, Journal!Writers
<1>4. ASSUME NEW m \in Journal!Marks, Journal!Mark(m) PROVE Steady'
  <2>1. /\ Journal!Stage("mark", [Journal!NewState EXCEPT !.mark = m]) /\ process' = process
        /\ [Journal!NewState EXCEPT !.mark = m] \in Journal!Record
    BY <1>4, Records DEF Journal!Mark
  <2>2. QED
    BY <1>1, <2>1, StageType DEF Steady, Journal!Writers
<1>5. ASSUME NEW how, Journal!Dies(how) PROVE Steady'
  BY <1>5 DEF Journal!Dies, Steady, Stations, Held, Journal!Writers
<1>6. CASE Journal!Tick
  <2>1. saved' \in [Journal!Writers -> Held]
    BY <1>1, <1>6, Aged DEF Journal!Tick, Steady
  <2>2. QED
    BY <1>1, <1>6, <2>1 DEF Journal!Tick, Steady
<1>7. CASE UNCHANGED Journal!vars
  BY <1>1, <1>7 DEF Journal!vars, Journal!saves, Steady
<1>8. QED
  BY <1>2, <1>3, <1>4, <1>5, <1>6, <1>7, WriterType
     DEF Journal!Next, Journal!Kill, Journal!HostRestarts, Journal!Marks

LEMMA VerdictStep ==
  ASSUME Journal!TypeOK, [Journal!Next]_(Journal!vars)
  PROVE  /\ verdict' \in Journal!Kinds
         /\ claimed' \in BOOLEAN /\ wanted' \in Journal!Marks /\ asked' \in Journal!Marks
         /\ endedBy' \in {"nothing", "kill", "host"}
<1>1. Journal!Judgement \in Journal!Kinds
  BY DEF Journal!Judgement, Journal!Classify, Journal!Kinds
<1> USE DEF Journal!TypeOK, Journal!history
<1>2. CASE Journal!Boot
  BY <1>1, <1>2 DEF Journal!Boot, Journal!Marks
<1>3. ASSUME NEW m \in Journal!Marks, Journal!Mark(m)
      PROVE  /\ verdict' = verdict /\ claimed' = claimed /\ endedBy' = endedBy
             /\ wanted' \in Journal!Marks /\ asked' \in Journal!Marks
  BY <1>3 DEF Journal!Mark
<1>4. ASSUME NEW w \in Journal!Writers, Journal!SaveRenames(w)
      PROVE  /\ UNCHANGED <<verdict, wanted, endedBy>> /\ claimed' = TRUE
             /\ asked' \in Journal!Marks
  BY <1>4 DEF Journal!SaveRenames
<1>5. ASSUME NEW how \in {"kill", "host"}, Journal!Dies(how)
      PROVE  /\ UNCHANGED <<verdict, claimed, wanted, asked>>
             /\ endedBy' \in {"nothing", "kill", "host"}
  BY <1>5 DEF Journal!Dies
<1>6. CASE UNCHANGED <<verdict, claimed, wanted, asked, endedBy>>
  BY <1>6
<1>7. QED
  BY <1>2, <1>3, <1>4, <1>5, <1>6
     DEF Journal!Next, Journal!Beat, Journal!SaveCreates, Journal!SaveWrites,
         Journal!SaveFails, Journal!Kill, Journal!HostRestarts, Journal!Tick, Journal!vars,
         Journal!Marks

LEMMA JournalTyped ==
  Journal!Spec => []Journal!TypeOK
<1>1. Journal!Init => Journal!TypeOK
  <2>1. SUFFICES ASSUME Journal!Init PROVE Journal!TypeOK
    OBVIOUS
  <2>2. /\ contents \in [Files -> Held] /\ saved \in [Journal!Writers -> Held]
        /\ step \in [Journal!Writers -> Stations]
        /\ handle \in [Journal!Writers -> Files \cup {Journal!NoFile}]
        /\ \A w \in Journal!Writers : step[w] = "idle" /\ handle[w] = Journal!NoFile
    BY <2>1 DEF Journal!Init, Held, Stations
  <2>3. step["begin"] = "idle" /\ process = "down"
    BY <2>1, <2>2 DEF Journal!Init, Journal!Writers
  <2>4. /\ verdict \in Journal!Kinds /\ claimed \in BOOLEAN /\ {wanted, asked} \subseteq Journal!Marks
        /\ endedBy \in {"nothing", "kill", "host"}
        /\ {journal, temp} \subseteq Files \cup {Journal!NoFile}
    BY <2>1 DEF Journal!Init, Journal!Kinds, Journal!Marks
  <2>5. QED
    BY <2>2, <2>3, <2>4 DEF Journal!TypeOK, Held, Stations
<1>2. Journal!TypeOK /\ [Journal!Next]_(Journal!vars) => Journal!TypeOK'
  <2>1. SUFFICES ASSUME Journal!TypeOK, [Journal!Next]_(Journal!vars)
                 PROVE  Journal!TypeOK'
    OBVIOUS
  <2>2. Steady'
    BY <2>1, SteadyStep
  <2>3. {journal', temp'} \subseteq Files \cup {Journal!NoFile} /\ contents' \in [Files -> Held]
    BY <2>1, NamesType, ContentsType
  <2>4. QED
    BY <2>1, <2>2, <2>3, VerdictStep DEF Steady, Stations, Held, Journal!TypeOK
<1>3. QED
  BY <1>1, <1>2, PTL DEF Journal!Spec

(***************************************************************************)
(* What a mark on file says.  A mark in the journal is the one its owner   *)
(* was asked for; a mark in the temp file is the one this process was      *)
(* asked for, and its save is not over: a temp file that an earlier        *)
(* process left is truncated or removed before anything else.  Only the    *)
(* journal's owner can have it open.                                       *)
(***************************************************************************)
TempIsOld == process = "down" \/ step["begin"] = "create"

Marked(r) == r.mark \in {"stop", "update"}

NamesInv ==
  /\ journal # Journal!NoFile => journal # temp
  /\ \A w \in Journal!Writers : handle[w] # Journal!NoFile /\ handle[w] = journal => claimed
  /\ process # "up" => step["beat"] = "idle" /\ step["mark"] = "idle"
  /\ claimed => asked = wanted /\ journal # Journal!NoFile
  /\ endedBy # "nothing" => journal # Journal!NoFile

MarkInv ==
  /\ journal # Journal!NoFile /\ Marked(contents[journal]) => contents[journal].mark = asked
  /\ temp # Journal!NoFile /\ ~TempIsOld /\ Marked(contents[temp])
       => contents[temp].mark = wanted /\ step["mark"] = "rename"
  /\ \A w \in Journal!Writers :
       step[w] # "idle" => saved[w].mark = IF w = "mark" THEN wanted ELSE "no"

LEMMA NamesStep ==
  ASSUME Journal!TypeOK, NamesInv, [Journal!Next]_(Journal!vars)
  PROVE  NamesInv'
<1>a. /\ step \in [Journal!Writers -> Stations]
      /\ handle \in [Journal!Writers -> Files \cup {Journal!NoFile}]
      /\ journal \in Files \cup {Journal!NoFile} /\ temp \in Files \cup {Journal!NoFile}
      /\ (step["begin"] # "idle") = (process = "booting")
      /\ \A w \in Journal!Writers : (handle[w] # Journal!NoFile) = (step[w] = "write")
      /\ claimed \in BOOLEAN
  BY JournalTypes DEF Journal!TypeOK
<1> USE DEF NamesInv
<1>1. CASE Journal!Boot
  <2>1. /\ process = "down" /\ claimed' = FALSE /\ UNCHANGED <<journal, temp, handle, endedBy>>
        /\ step' = [step EXCEPT !["begin"] = "create"]
    BY <1>1 DEF Journal!Boot, Journal!Stage, Journal!disk
  <2>2. \A w \in Journal!Writers : handle[w] = Journal!NoFile
    BY <1>a, <2>1 DEF Journal!Writers
  <2>3. QED
    BY <1>a, <2>1, <2>2 DEF Journal!Writers
<1>2. CASE Journal!Beat
  BY <1>a, <1>2 DEF Journal!Beat, Journal!Stage, Journal!disk, Journal!history, Journal!Writers
<1>3. ASSUME NEW m, Journal!Mark(m) PROVE NamesInv'
  BY <1>a, <1>3 DEF Journal!Mark, Journal!Stage, Journal!disk, Journal!Writers
<1>4. ASSUME NEW w \in Journal!Writers, Journal!SaveCreates(w) PROVE NamesInv'
  <2>1. temp' \in Files /\ temp' # Journal!NoFile /\ (journal # Journal!NoFile => temp' # journal)
    <3>1. Journal!Free \subseteq Files \ {journal}
      BY DEF Journal!Free
    <3>2. QED
      BY <1>4, <1>a, <3>1, FreeFile, Constants DEF Journal!SaveCreates
  <2>2. /\ handle' = [handle EXCEPT ![w] = temp'] /\ step' = [step EXCEPT ![w] = "write"]
        /\ step[w] = "create"
        /\ UNCHANGED <<process, journal, claimed, asked, wanted, endedBy>>
    BY <1>4 DEF Journal!SaveCreates, Journal!history
  <2>3. QED
    BY <1>a, <2>1, <2>2 DEF Journal!Writers
<1>5. ASSUME NEW w \in Journal!Writers, Journal!SaveWrites(w) PROVE NamesInv'
  BY <1>a, <1>5 DEF Journal!SaveWrites, Journal!history, Journal!Writers
<1>6. ASSUME NEW w \in Journal!Writers, Journal!SaveRenames(w) PROVE NamesInv'
  <2>1. /\ temp # Journal!NoFile /\ journal' = temp /\ temp' = Journal!NoFile
        /\ claimed' = TRUE /\ asked' = (IF claimed THEN asked ELSE wanted)
        /\ UNCHANGED <<wanted, endedBy>>
    BY <1>6 DEF Journal!SaveRenames
  <2>2. process' # "up" => step'["beat"] = "idle" /\ step'["mark"] = "idle"
    BY <1>a, <1>6 DEF Journal!SaveRenames, Journal!Ends, Journal!Writers
  <2>3. QED
    BY <1>a, <2>1, <2>2
<1>7. ASSUME NEW w \in Journal!Writers, Journal!SaveFails(w) PROVE NamesInv'
  <2>1. process' # "up" => step'["beat"] = "idle" /\ step'["mark"] = "idle"
    BY <1>a, <1>7 DEF Journal!SaveFails, Journal!Ends, Journal!Writers
  <2>2. QED
    BY <1>a, <1>7, <2>1 DEF Journal!SaveFails, Journal!history
<1>8. ASSUME NEW how, Journal!Dies(how) PROVE NamesInv'
  BY <1>a, <1>8 DEF Journal!Dies, Journal!Writers
<1>9. CASE Journal!Tick
  BY <1>9 DEF Journal!Tick, Journal!history
<1>10. CASE UNCHANGED Journal!vars
  BY <1>10 DEF Journal!vars, Journal!disk, Journal!saves, Journal!history
<1>11. QED
  BY <1>1, <1>2, <1>3, <1>4, <1>5, <1>6, <1>7, <1>8, <1>9, <1>10
     DEF Journal!Next, Journal!Kill, Journal!HostRestarts

LEMMA MarkStep ==
  ASSUME Journal!TypeOK, NamesInv, MarkInv, [Journal!Next]_(Journal!vars)
  PROVE  MarkInv'
<1>a. /\ contents \in [Files -> Held] /\ saved \in [Journal!Writers -> Held]
      /\ step \in [Journal!Writers -> Stations]
      /\ handle \in [Journal!Writers -> Files \cup {Journal!NoFile}]
      /\ journal \in Files \cup {Journal!NoFile} /\ temp \in Files \cup {Journal!NoFile}
      /\ (step["begin"] # "idle") = (process = "booting")
      /\ \A w \in Journal!Writers : (handle[w] # Journal!NoFile) = (step[w] = "write")
      /\ process \in {"down", "booting", "up"}
  BY JournalTypes DEF Journal!TypeOK
<1>b. \A table \in [Files -> Held] : \A names : \A f \in Files :
        /\ Journal!Sweep(table, names)[f] \in {table[f], Journal!Empty}
        /\ f \in names => Journal!Sweep(table, names)[f] = table[f]
  BY SweepType
<1>c. ~Marked(Journal!Empty)
  BY Records DEF Marked
<1>d. /\ journal' \in Files \cup {Journal!NoFile} /\ temp' \in Files \cup {Journal!NoFile}
  BY NamesType
<1>1. CASE Journal!Boot
  <2>1. /\ UNCHANGED <<journal, temp, contents, asked>> /\ process = "down"
        /\ step' = [step EXCEPT !["begin"] = "create"]
        /\ saved' = [saved EXCEPT !["begin"] = Journal!NewState]
    BY <1>1 DEF Journal!Boot, Journal!Stage, Journal!Claim, Journal!disk
  <2>2. TempIsOld' /\ \A w \in Journal!Writers : step'[w] # "idle" => w = "begin"
    BY <1>a, <2>1 DEF TempIsOld, NamesInv, Journal!Writers
  <2>3. saved'["begin"].mark = "no"
    BY <1>a, <2>1, Records DEF Journal!Writers
  <2>4. QED
    BY <2>1, <2>2, <2>3 DEF MarkInv
<1>2. CASE Journal!Beat
  <2>1. /\ UNCHANGED <<process, journal, temp, contents, asked, wanted>> /\ process = "up"
        /\ step' = [step EXCEPT !["beat"] = "create"]
        /\ saved' = [saved EXCEPT !["beat"] = Journal!NewState]
    BY <1>2 DEF Journal!Beat, Journal!Stage, Journal!disk, Journal!history
  <2>2. TempIsOld' = TempIsOld /\ step'["mark"] = step["mark"]
    BY <1>a, <2>1 DEF TempIsOld, Journal!Writers
  <2>3. \A w \in Journal!Writers :
          step'[w] # "idle" => saved'[w].mark = IF w = "mark" THEN wanted ELSE "no"
    BY <1>a, <2>1, Records DEF MarkInv, Journal!Writers
  <2>4. QED
    BY <2>1, <2>2, <2>3 DEF MarkInv
<1>3. ASSUME NEW m \in {"stop", "update"}, Journal!Mark(m) PROVE MarkInv'
  <2>1. /\ UNCHANGED <<process, journal, temp, contents>> /\ process = "up"
        /\ step["mark"] = "idle" /\ contents[journal].mark = "no" /\ wanted' = m
        /\ step' = [step EXCEPT !["mark"] = "create"]
        /\ saved' = [saved EXCEPT !["mark"] = [Journal!NewState EXCEPT !.mark = m]]
    BY <1>3 DEF Journal!Mark, Journal!Stage, Journal!disk
  <2>2. TempIsOld' = TempIsOld
    BY <1>a, <2>1 DEF TempIsOld, Journal!Writers
  <2>3. \A w \in Journal!Writers :
          step'[w] # "idle" => saved'[w].mark = IF w = "mark" THEN m ELSE "no"
    <3>1. [Journal!NewState EXCEPT !.mark = m].mark = m
      BY Records DEF Journal!Marks
    <3>2. QED
      BY <1>a, <2>1, <3>1 DEF MarkInv, Journal!Writers
  <2>4. ~Marked(contents'[journal'])
    BY <2>1 DEF Marked
  <2>5. temp' # Journal!NoFile /\ ~TempIsOld' => ~Marked(contents'[temp'])
    BY <2>1, <2>2 DEF MarkInv
  <2>6. QED
    BY <2>1, <2>3, <2>4, <2>5 DEF MarkInv
<1>4. ASSUME NEW w \in Journal!Writers, Journal!SaveCreates(w) PROVE MarkInv'
  <2>1. /\ temp' \in Files /\ contents' = [contents EXCEPT ![temp'] = Journal!Empty]
        /\ (journal # Journal!NoFile => temp' # journal)
    <3>1. Journal!Free \subseteq Files \ {journal}
      BY DEF Journal!Free
    <3>2. QED
      BY <1>4, <1>a, <3>1, FreeFile, Constants DEF Journal!SaveCreates, NamesInv
  <2>2. /\ step' = [step EXCEPT ![w] = "write"] /\ step[w] = "create"
        /\ UNCHANGED <<journal, asked, wanted, saved>>
    BY <1>4 DEF Journal!SaveCreates, Journal!history
  <2>3. contents'[temp'] = Journal!Empty
    BY <1>a, <2>1
  <2>4. journal # Journal!NoFile => contents'[journal] = contents[journal]
    BY <1>a, <2>1
  <2>5. \A v \in Journal!Writers : step'[v] # "idle" => step[v] # "idle"
    BY <1>a, <2>2
  <2>6. QED
    BY <1>c, <2>2, <2>3, <2>4, <2>5 DEF MarkInv
<1>5. ASSUME NEW w \in Journal!Writers, Journal!SaveWrites(w) PROVE MarkInv'
  <2>1. /\ step[w] = "write" /\ step' = [step EXCEPT ![w] = "rename"]
        /\ contents' = [contents EXCEPT ![handle[w]] = saved[w]]
        /\ UNCHANGED <<process, journal, temp, saved, claimed, asked, wanted>>
    BY <1>5 DEF Journal!SaveWrites, Journal!history
  <2>2. handle[w] \in Files /\ handle[w] # Journal!NoFile
    BY <1>a, <2>1
  <2>3. saved[w].mark = IF w = "mark" THEN wanted ELSE "no"
    BY <2>1 DEF MarkInv
  <2>4. ASSUME journal # Journal!NoFile, Marked(contents'[journal])
        PROVE  contents'[journal].mark = asked
    <3>1. CASE handle[w] = journal
      BY <1>a, <2>1, <2>2, <2>3, <2>4, <3>1 DEF NamesInv, Marked
    <3>2. CASE handle[w] # journal
      BY <1>a, <2>1, <2>4, <3>2 DEF MarkInv
    <3>3. QED
      BY <3>1, <3>2
  <2>5. ASSUME temp # Journal!NoFile, ~TempIsOld', Marked(contents'[temp])
        PROVE  contents'[temp].mark = wanted /\ step'["mark"] = "rename"
    <3>1. ~TempIsOld
      BY <1>a, <2>1, <2>5 DEF TempIsOld, Journal!Writers
    <3>2. CASE handle[w] = temp
      <4>1. contents'[temp] = saved[w]
        BY <1>a, <2>1, <2>2, <3>2
      <4>2. w = "mark"
        BY <2>3, <2>5, <4>1 DEF Marked
      <4>3. QED
        BY <1>a, <2>1, <2>3, <4>1, <4>2
    <3>3. CASE handle[w] # temp
      <4>1. contents'[temp] = contents[temp]
        BY <1>a, <2>1, <3>3
      <4>2. contents[temp].mark = wanted /\ step["mark"] = "rename"
        BY <2>5, <3>1, <4>1 DEF MarkInv
      <4>3. step'["mark"] = "rename"
        BY <1>a, <2>1, <4>2 DEF Journal!Writers
      <4>4. QED
        BY <4>1, <4>2, <4>3
    <3>4. QED
      BY <3>2, <3>3
  <2>6. \A v \in Journal!Writers : step'[v] # "idle" => step[v] # "idle"
    BY <1>a, <2>1
  <2>7. QED
    BY <2>1, <2>4, <2>5, <2>6 DEF MarkInv
<1>6. ASSUME NEW w \in Journal!Writers, Journal!SaveRenames(w) PROVE MarkInv'
  <2>1. /\ step[w] = "rename" /\ temp # Journal!NoFile /\ journal' = temp
        /\ temp' = Journal!NoFile /\ wanted' = wanted
        /\ contents' = Journal!Sweep(contents, {temp} \cup {handle[v] : v \in Journal!Writers})
        /\ asked' = (IF claimed THEN asked ELSE wanted)
        /\ step' = [step EXCEPT ![w] = "idle"]
        /\ saved' = [saved EXCEPT ![w] = Journal!Empty]
    BY <1>6 DEF Journal!SaveRenames, Journal!Ends
  <2>2. ~TempIsOld
    BY <1>a, <2>1 DEF TempIsOld, NamesInv, Journal!Writers
  <2>3. contents'[journal'] = contents[temp]
    BY <1>a, <1>b, <2>1
  <2>4. Marked(contents[temp]) => contents[temp].mark = wanted
    BY <2>1, <2>2 DEF MarkInv
  <2>5. asked' = wanted
    BY <1>a, <2>1 DEF NamesInv
  <2>6. \A v \in Journal!Writers : step'[v] # "idle" => step[v] # "idle" /\ saved'[v] = saved[v]
    BY <1>a, <2>1
  <2>7. QED
    BY <2>1, <2>3, <2>4, <2>5, <2>6 DEF MarkInv
<1>7. ASSUME NEW w \in Journal!Writers, Journal!SaveFails(w) PROVE MarkInv'
  <2>1. /\ temp' = Journal!NoFile /\ UNCHANGED <<journal, wanted, asked>>
        /\ contents' = Journal!Sweep(contents,
                          {journal} \cup {handle[v] : v \in Journal!Writers \ {w}})
        /\ step' = [step EXCEPT ![w] = "idle"]
        /\ saved' = [saved EXCEPT ![w] = Journal!Empty]
    BY <1>7 DEF Journal!SaveFails, Journal!Ends, Journal!history
  <2>2. journal # Journal!NoFile => contents'[journal] = contents[journal]
    BY <1>a, <1>b, <2>1
  <2>3. \A v \in Journal!Writers : step'[v] # "idle" => step[v] # "idle" /\ saved'[v] = saved[v]
    BY <1>a, <2>1
  <2>4. QED
    BY <2>1, <2>2, <2>3 DEF MarkInv
<1>8. ASSUME NEW how, Journal!Dies(how),
             journal # Journal!NoFile => contents'[journal].mark = contents[journal].mark
      PROVE  MarkInv'
  <2>1. /\ process' = "down" /\ UNCHANGED <<journal, temp, asked>>
        /\ \A v \in Journal!Writers : step'[v] = "idle"
    BY <1>8 DEF Journal!Dies
  <2>2. QED
    BY <1>8, <2>1 DEF MarkInv, Marked, TempIsOld
<1>9. CASE Journal!Kill
  <2>1. journal # Journal!NoFile => contents'[journal].mark = contents[journal].mark
    BY <1>a, <1>b, <1>9 DEF Journal!Kill
  <2>2. QED
    BY <1>8, <1>9, <2>1 DEF Journal!Kill
<1>10. CASE Journal!HostRestarts
  <2>1. ASSUME journal # Journal!NoFile PROVE contents'[journal].mark = contents[journal].mark
    <3>1. /\ contents'[journal] = IF contents[journal] = Journal!Empty THEN Journal!Empty
                                  ELSE [contents[journal] EXCEPT !.hostBooted = TRUE]
          /\ contents[journal] \in Held /\ journal \in Files
      BY <1>a, <1>10, <2>1 DEF Journal!HostRestarts, Journal!Dies
    <3>2. QED
      BY <3>1, Booted
  <2>2. Journal!Dies("host")
    BY <1>10 DEF Journal!HostRestarts
  <2>3. QED
    BY <1>8, <2>1, <2>2
<1>11. CASE Journal!Tick
  <2>1. /\ UNCHANGED <<process, journal, temp, step, asked, wanted>>
        /\ \A f \in Files : contents'[f].mark = contents[f].mark
        /\ \A w \in Journal!Writers : saved'[w].mark = saved[w].mark
    BY <1>a, <1>11, Aged DEF Journal!Tick, Journal!history
  <2>2. QED
    BY <1>a, <2>1 DEF MarkInv, Marked, TempIsOld
<1>12. CASE UNCHANGED Journal!vars
  BY <1>12 DEF Journal!vars, Journal!disk, Journal!saves, Journal!history, MarkInv, Marked,
               TempIsOld
<1>13. QED
  BY <1>1, <1>2, <1>3, <1>4, <1>5, <1>6, <1>7, <1>9, <1>10, <1>11, <1>12 DEF Journal!Next

(***************************************************************************)
(* A host that went down with the journal's owner left its boot behind in  *)
(* the journal, and nothing but the next owner's first save covers it.     *)
(***************************************************************************)
HostInv ==
  endedBy = "host" /\ (claimed => process = "down") /\ Journal!Readable
    => contents[journal].hostBooted

LEMMA HostStep ==
  ASSUME Journal!TypeOK, NamesInv, HostInv, [Journal!Next]_(Journal!vars)
  PROVE  HostInv'
<1>a. /\ contents \in [Files -> Held] /\ saved \in [Journal!Writers -> Held]
      /\ step \in [Journal!Writers -> Stations]
      /\ handle \in [Journal!Writers -> Files \cup {Journal!NoFile}]
      /\ journal \in Files \cup {Journal!NoFile} /\ temp \in Files \cup {Journal!NoFile}
      /\ (step["begin"] # "idle") = (process = "booting")
      /\ \A w \in Journal!Writers : (handle[w] # Journal!NoFile) = (step[w] = "write")
  BY JournalTypes DEF Journal!TypeOK
<1>b. \A table \in [Files -> Held] : \A names : \A f \in Files :
        f \in names => Journal!Sweep(table, names)[f] = table[f]
  BY SweepType
<1>c. \A w \in Journal!Writers : step[w] # "idle" => process # "down"
  BY <1>a DEF NamesInv, Journal!Writers
\* While nobody saves over the journal, only the end of its owner counts.
<1>d. ASSUME UNCHANGED <<journal, endedBy>>,
             (claimed' => process' = "down") => (claimed => process = "down"),
             Journal!Readable' => /\ journal # Journal!NoFile
                                  /\ contents[journal] # Journal!Empty
                                  /\ contents'[journal].hostBooted = contents[journal].hostBooted
      PROVE  HostInv'
  BY <1>d DEF HostInv, Journal!Readable
<1>1. CASE Journal!Boot
  BY <1>1, <1>d DEF Journal!Boot, Journal!disk, Journal!Readable
<1>2. CASE UNCHANGED <<process, journal, contents, claimed, endedBy>>
  BY <1>2, <1>d DEF Journal!Readable
<1>3. ASSUME NEW w \in Journal!Writers, Journal!SaveCreates(w) PROVE HostInv'
  <2>1. journal # Journal!NoFile => temp' # journal
    <3>1. Journal!Free \subseteq Files \ {journal}
      BY DEF Journal!Free
    <3>2. QED
      BY <1>3, <1>a, <3>1, FreeFile, Constants DEF Journal!SaveCreates, NamesInv
  <2>2. /\ contents' = [contents EXCEPT ![temp'] = Journal!Empty]
        /\ UNCHANGED <<process, journal, claimed, endedBy>>
    BY <1>3 DEF Journal!SaveCreates, Journal!history
  <2>3. journal # Journal!NoFile => contents'[journal] = contents[journal]
    BY <1>a, <2>1, <2>2
  <2>4. QED
    BY <1>d, <2>2, <2>3 DEF Journal!Readable
<1>4. ASSUME NEW w \in Journal!Writers, Journal!SaveWrites(w) PROVE HostInv'
  <2>1. /\ step[w] = "write" /\ contents' = [contents EXCEPT ![handle[w]] = saved[w]]
        /\ UNCHANGED <<process, journal, claimed, endedBy>>
    BY <1>4 DEF Journal!SaveWrites, Journal!history
  <2>2. CASE handle[w] = journal
    <3>1. claimed /\ process # "down"
      BY <1>a, <1>c, <2>1, <2>2 DEF NamesInv
    <3>2. QED
      BY <2>1, <3>1 DEF HostInv
  <2>3. CASE handle[w] # journal
    <3>1. contents'[journal] = contents[journal]
      BY <1>a, <2>1, <2>3
    <3>2. QED
      BY <1>d, <2>1, <3>1 DEF Journal!Readable
  <2>4. QED
    BY <2>2, <2>3
<1>5. ASSUME NEW w \in Journal!Writers, Journal!SaveRenames(w) PROVE HostInv'
  <2>1. claimed' = TRUE /\ process' # "down"
    BY <1>5, <1>c DEF Journal!SaveRenames, Journal!Ends
  <2>2. QED
    BY <2>1 DEF HostInv
<1>6. ASSUME NEW w \in Journal!Writers, Journal!SaveFails(w) PROVE HostInv'
  <2>1. /\ UNCHANGED <<journal, claimed, endedBy>> /\ process' \in {process, "up"}
        /\ contents' = Journal!Sweep(contents,
                          {journal} \cup {handle[v] : v \in Journal!Writers \ {w}})
    BY <1>6 DEF Journal!SaveFails, Journal!Ends, Journal!history
  <2>2. journal # Journal!NoFile => contents'[journal] = contents[journal]
    BY <1>a, <1>b, <2>1
  <2>3. QED
    BY <1>d, <2>1, <2>2 DEF Journal!Readable
<1>7. CASE Journal!Kill
  <2>1. /\ process # "down" /\ process' = "down" /\ UNCHANGED <<journal, claimed>>
        /\ endedBy' = (IF claimed THEN "kill" ELSE endedBy)
        /\ contents' = Journal!Sweep(contents, {journal, temp})
    BY <1>7 DEF Journal!Kill, Journal!Dies
  <2>2. journal # Journal!NoFile => contents'[journal] = contents[journal]
    BY <1>a, <1>b, <2>1
  <2>3. CASE claimed
    BY <2>1, <2>3 DEF HostInv
  <2>4. CASE ~claimed
    BY <1>d, <2>1, <2>2, <2>4 DEF Journal!Readable
  <2>5. QED
    BY <2>3, <2>4
<1>8. CASE Journal!HostRestarts
  <2>1. /\ journal' = journal
        /\ contents' = [f \in Files |->
                          IF contents[f] = Journal!Empty \/ f \notin {journal, temp}
                          THEN Journal!Empty
                          ELSE [contents[f] EXCEPT !.hostBooted = TRUE]]
    BY <1>8 DEF Journal!HostRestarts, Journal!Dies
  <2>2. ASSUME journal # Journal!NoFile, contents'[journal] # Journal!Empty
        PROVE  contents'[journal].hostBooted
    <3>1. journal \in Files /\ contents[journal] \in Held
      BY <1>a, <2>2
    <3>2. /\ contents[journal] # Journal!Empty
          /\ contents'[journal] = [contents[journal] EXCEPT !.hostBooted = TRUE]
      BY <2>1, <2>2, <3>1
    <3>3. QED
      BY <3>1, <3>2, Booted
  <2>3. QED
    BY <2>1, <2>2 DEF HostInv, Journal!Readable
<1>9. CASE Journal!Tick
  <2>1. /\ UNCHANGED <<process, journal, claimed, endedBy>>
        /\ contents' = [f \in Files |-> Journal!Older(contents[f])]
    BY <1>9 DEF Journal!Tick, Journal!history
  <2>2. journal # Journal!NoFile =>
          /\ contents'[journal].hostBooted = contents[journal].hostBooted
          /\ (contents'[journal] = Journal!Empty) <=> (contents[journal] = Journal!Empty)
    BY <1>a, <2>1, Aged
  <2>3. QED
    BY <1>d, <2>1, <2>2 DEF Journal!Readable
<1>10. QED
  BY <1>1, <1>2, <1>3, <1>4, <1>5, <1>6, <1>7, <1>8, <1>9
     DEF Journal!Next, Journal!Beat, Journal!Mark, Journal!vars, Journal!disk, Journal!history

JInv == Journal!TypeOK /\ NamesInv /\ MarkInv /\ HostInv

LEMMA JournalInvariant ==
  Journal!Spec => []JInv
<1>1. Journal!Init => NamesInv /\ MarkInv /\ HostInv
  <2>1. SUFFICES ASSUME Journal!Init PROVE NamesInv /\ MarkInv /\ HostInv
    OBVIOUS
  <2>2. /\ journal = Journal!NoFile /\ temp = Journal!NoFile /\ ~claimed /\ endedBy = "nothing"
        /\ \A w \in Journal!Writers : step[w] = "idle" /\ handle[w] = Journal!NoFile
    BY <2>1 DEF Journal!Init
  <2>3. step["beat"] = "idle" /\ step["mark"] = "idle"
    BY <2>2 DEF Journal!Writers
  <2>4. QED
    BY <2>2, <2>3 DEF NamesInv, MarkInv, HostInv
<1>2. Journal!TypeOK /\ (NamesInv /\ MarkInv /\ HostInv) /\ [Journal!Next]_(Journal!vars)
        => (NamesInv /\ MarkInv /\ HostInv)'
  BY NamesStep, MarkStep, HostStep
<1>3. QED
  BY <1>1, <1>2, JournalTyped, PTL DEF Journal!Spec, JInv

\* A process appears by a start, and by nothing else.
LEMMA OnlyBootJudges ==
  ASSUME Journal!TypeOK, [Journal!Next]_(Journal!vars), Journal!Judges
  PROVE  verdict' = Journal!Judgement
<1>1. ASSUME NEW w, Journal!Ends(w) PROVE process' \in {process, "up"}
  BY <1>1 DEF Journal!Ends
<1>2. QED
  BY <1>1
     DEF Journal!Judges, Journal!Next, Journal!Boot, Journal!Beat, Journal!Mark,
         Journal!SaveCreates, Journal!SaveWrites, Journal!SaveRenames, Journal!SaveFails,
         Journal!Kill, Journal!HostRestarts, Journal!Dies, Journal!Tick, Journal!vars

\* What a start finds in the journal of a run that ended.
LEMMA Verdicts ==
  ASSUME JInv, [Journal!Next]_(Journal!vars), Journal!Judges
  PROVE  /\ verdict' = "clean-exit" => asked = "stop"
         /\ verdict' = "first-run" => endedBy = "nothing"
         /\ endedBy = "host" /\ asked = "no" /\ Journal!Readable /\ HostTellsBoot
              => verdict' = "machine-restart"
<1>1. /\ Journal!TypeOK /\ NamesInv /\ MarkInv /\ HostInv /\ process = "down"
      /\ verdict' = Journal!Judgement
  BY OnlyBootJudges DEF JInv, Journal!Judges
<1>2. CASE ~Journal!Readable
  BY <1>1, <1>2 DEF Journal!Judgement, NamesInv, Journal!Readable
<1>3. CASE Journal!Readable
  <2>1. journal # Journal!NoFile /\ verdict' = Journal!Classify(contents[journal])
    BY <1>1, <1>3 DEF Journal!Judgement, Journal!Readable
  <2>2. contents[journal] \in Journal!Record /\ contents[journal].mark \in Journal!Marks
    <3>1. contents[journal] \in Held
      BY <1>1, <2>1, JournalTypes
    <3>2. QED
      BY <1>3, <3>1 DEF Held, Journal!Readable, Journal!Record
  <2>3. Marked(contents[journal]) => contents[journal].mark = asked
    BY <1>1, <2>1 DEF MarkInv
  <2>4. verdict' # "first-run"
    BY <2>1 DEF Journal!Classify
  <2>5. verdict' = "clean-exit" => contents[journal].mark = "stop"
    BY <2>1 DEF Journal!Classify
  <2>6. ASSUME endedBy = "host", asked = "no", HostTellsBoot PROVE verdict' = "machine-restart"
    <3>1. contents[journal].hostBooted
      BY <1>1, <1>3, <2>6 DEF HostInv
    <3>2. contents[journal].mark = "no"
      BY <2>2, <2>3, <2>6 DEF Marked, Journal!Marks
    <3>3. QED
      BY <2>1, <2>6, <3>1, <3>2 DEF Journal!Classify
  <2>7. QED
    BY <2>3, <2>4, <2>5, <2>6 DEF Marked
<1>4. QED
  BY <1>2, <1>3

\* A start reports a clean exit only of a run that an operator stopped, whichever
\* saves of it or of runs before it failed, collided or were cut short.
THEOREM StopWasAskedFor ==
  Journal!Spec => NoInventedExit
<1>1. JInv /\ [Journal!Next]_(Journal!vars)
        => [Journal!Judges /\ verdict' = "clean-exit" => asked = "stop"]_(Journal!vars)
  BY Verdicts
<1>2. QED
  BY <1>1, JournalInvariant, PTL DEF Journal!Spec, NoInventedExit, Journal!NoInventedExit

\* A start takes itself for the first run only if no run has had the journal: the
\* temp file is renamed over it whole, and no failed save takes it away.
THEOREM JournalIsNeverLost ==
  Journal!Spec => FirstRunIsFirst
<1>1. JInv /\ [Journal!Next]_(Journal!vars)
        => [Journal!Judges /\ verdict' = "first-run" => endedBy = "nothing"]_(Journal!vars)
  BY Verdicts
<1>2. QED
  BY <1>1, JournalInvariant, PTL DEF Journal!Spec, FirstRunIsFirst, Journal!FirstRunIsFirst

\* The first start after a restart of the host that ended an unmarked run says so,
\* whatever starts in between died before their first save.
THEOREM HostRestartIsReported ==
  Journal!Spec => HostRestartIsSeen
<1>1. JInv /\ [Journal!Next]_(Journal!vars)
        => [Journal!Judges /\ endedBy = "host" /\ asked = "no" /\ Journal!Readable
              /\ HostTellsBoot => verdict' = "machine-restart"]_(Journal!vars)
  BY Verdicts
<1>2. QED
  BY <1>1, JournalInvariant, PTL DEF Journal!Spec, HostRestartIsSeen, Journal!HostRestartIsSeen

-----------------------------------------------------------------------------
(***************************************************************************)
(* The history of starts.  Its readers take the records of a file line by  *)
(* line: the n-th of them stands at the n-th smallest line that is a       *)
(* record.  Ranks says that there is exactly one such line, which is what  *)
(* the CHOOSE of Nth needs; the lemmas after it say what the records of a  *)
(* file become when a line is appended and when the file is pruned.        *)
(***************************************************************************)
Rank(S, n) == Cardinality({k \in S : k <= n})

LEMMA RankStep ==
  ASSUME NEW S \in SUBSET Nat, IsFiniteSet(S), NEW m \in S, NEW n \in S, m < n
  PROVE  Rank(S, m) < Rank(S, n)
<1> DEFINE M == {k \in S : k <= m}
           N == {k \in S : k <= n}
<1>1. M \subseteq N /\ n \in N /\ n \notin M
  <2>1. m \in Nat /\ n \in Nat /\ \A k \in S : k \in Nat
    OBVIOUS
  <2>2. \A k \in S : k <= m => k <= n
    BY <2>1
  <2>3. n <= n /\ ~(n <= m)
    BY <2>1
  <2>4. QED
    BY <2>2, <2>3
<1>2. IsFiniteSet(N)
  <2>1. N \in SUBSET S
    OBVIOUS
  <2>2. QED
    BY <2>1, FS_Subset
<1> HIDE DEF M, N
<1>3. Cardinality(M) <= Cardinality(N) /\ (Cardinality(N) = Cardinality(M) => N = M)
      /\ IsFiniteSet(M)
  BY <1>1, <1>2, FS_Subset
<1>4. Cardinality(M) \in Nat /\ Cardinality(N) \in Nat
  BY <1>2, <1>3, FS_CardinalityType
<1>5. QED
  BY <1>1, <1>3, <1>4 DEF Rank, M, N

LEMMA RankType ==
  ASSUME NEW S \in SUBSET Nat, IsFiniteSet(S), NEW n \in S
  PROVE  Rank(S, n) \in 1..Cardinality(S)
<1> DEFINE N == {k \in S : k <= n}
<1>1. N \in SUBSET S /\ n \in N
  OBVIOUS
<1> HIDE DEF N
<1>2. IsFiniteSet(N) /\ Cardinality(N) <= Cardinality(S)
  BY <1>1, FS_Subset
<1>3. Cardinality(N) \in Nat /\ Cardinality(S) \in Nat /\ Cardinality(N) # 0
  BY <1>1, <1>2, FS_CardinalityType, FS_EmptySet
<1>4. QED
  BY <1>2, <1>3 DEF Rank, N

\* Of the lines with a rank Nth chooses one.
LEMMA NthFits ==
  ASSUME NEW S, NEW n \in S
  PROVE  /\ History!Nth(S, Rank(S, n)) \in S
         /\ Rank(S, History!Nth(S, Rank(S, n))) = Rank(S, n)
<1> DEFINE i == Rank(S, n)
           Fits(m) == m \in S /\ Rank(S, m) = i
<1>1. \A m : History!Cardinality({k \in S : k <= m}) = Rank(S, m)
  BY Zenon DEF History!Cardinality, Cardinality, Rank
<1>2. History!Nth(S, i) = CHOOSE m : Fits(m)
  BY <1>1 DEF History!Nth
<1>3. Fits(n)
  OBVIOUS
<1> HIDE DEF Fits, i
<1>4. Fits(CHOOSE m : Fits(m))
  BY <1>3, Zenon
<1>5. Fits(History!Nth(S, i))
  BY <1>2, <1>4
<1>6. QED
  BY <1>5 DEF Fits, i

\* Of a finite set of lines each rank is taken by one line.
LEMMA Ranks ==
  ASSUME NEW S \in SUBSET Nat, IsFiniteSet(S)
  PROVE  /\ Cardinality(S) \in Nat
         /\ \A i \in 1..Cardinality(S) :
              History!Nth(S, i) \in S /\ Rank(S, History!Nth(S, i)) = i
         /\ \A n \in S : History!Nth(S, Rank(S, n)) = n
<1> DEFINE f == [n \in S |-> Rank(S, n)]
           c == Cardinality(S)
<1>1. c \in Nat
  BY FS_CardinalityType
<1>2. f \in [S -> 1..c]
  BY RankType
<1>3. \A m, n \in S : Rank(S, m) = Rank(S, n) => m = n
  <2>1. SUFFICES ASSUME NEW m \in S, NEW n \in S, m # n
                 PROVE  Rank(S, m) # Rank(S, n)
    OBVIOUS
  <2>2. Rank(S, m) \in Nat /\ Rank(S, n) \in Nat
    BY <1>1, RankType
  <2>3. m < n \/ n < m
    BY <2>1
  <2>4. QED
    BY <2>2, <2>3, RankStep
<1>4. f \in Injection(S, 1..c)
  BY <1>2, <1>3 DEF Injection, IsInjective
<1>5. IsFiniteSet(1..c) /\ Cardinality(1..c) = c
  <2>1. IsFiniteSet(1..c) /\ Cardinality(1..c) = IF 1 > c THEN 0 ELSE c - 1 + 1
    BY <1>1, FS_Interval
  <2>2. QED
    BY <1>1, <2>1
<1>6. f \in Surjection(S, 1..c)
  BY <1>4, <1>5, FS_Injection
<1>7. \A i \in 1..c : \E n \in S : Rank(S, n) = i
  BY <1>6 DEF Surjection
<1>8. \A n \in S : History!Nth(S, Rank(S, n)) = n
  BY <1>3, NthFits
<1>9. \A i \in 1..c : History!Nth(S, i) \in S /\ Rank(S, History!Nth(S, i)) = i
  <2>1. SUFFICES ASSUME NEW i \in 1..c
                 PROVE  History!Nth(S, i) \in S /\ Rank(S, History!Nth(S, i)) = i
    OBVIOUS
  <2>2. PICK n \in S : Rank(S, n) = i
    BY <1>7
  <2>3. QED
    BY <2>2, NthFits
<1>10. QED
  BY <1>1, <1>8, <1>9

LEMMA RecordLines ==
  ASSUME NEW lines \in Seq(History!Lines)
  PROVE  /\ History!RecordsAt(lines) \in SUBSET (1..Len(lines))
         /\ History!RecordsAt(lines) \in SUBSET Nat
         /\ IsFiniteSet(History!RecordsAt(lines))
         /\ Cardinality(History!RecordsAt(lines)) \in Nat
         /\ Cardinality(History!RecordsAt(lines)) <= Len(lines)
<1>1. Len(lines) \in Nat /\ DOMAIN lines = 1..Len(lines)
  OBVIOUS
<1>2. History!RecordsAt(lines) \in SUBSET (1..Len(lines))
  BY <1>1 DEF History!RecordsAt
<1>3. IsFiniteSet(1..Len(lines)) /\ Cardinality(1..Len(lines)) = Len(lines)
  <2>1. /\ IsFiniteSet(1..Len(lines))
        /\ Cardinality(1..Len(lines)) = IF 1 > Len(lines) THEN 0 ELSE Len(lines) - 1 + 1
    BY <1>1, FS_Interval
  <2>2. QED
    BY <1>1, <2>1
<1>4. IsFiniteSet(History!RecordsAt(lines)) /\ Cardinality(History!RecordsAt(lines)) <= Len(lines)
  BY <1>2, <1>3, FS_Subset
<1>5. QED
  BY <1>1, <1>2, <1>4, FS_CardinalityType

\* The number of records, and which line the n-th of them is.
LEMMA RecordsShape ==
  ASSUME NEW lines \in Seq(History!Lines)
  PROVE  /\ History!Records(lines) \in Seq(History!Boots)
         /\ Len(History!Records(lines)) = Cardinality(History!RecordsAt(lines))
         /\ \A i \in 1..Len(History!Records(lines)) :
              History!Records(lines)[i] = lines[History!Nth(History!RecordsAt(lines), i)]
<1>1. PICK S : S = History!RecordsAt(lines)
  OBVIOUS
<1>2. PICK c : c = Cardinality(S)
  OBVIOUS
<1>3. S \in SUBSET Nat /\ IsFiniteSet(S)
  BY <1>1, RecordLines
<1>4. c \in Nat /\ \A i \in 1..c : History!Nth(S, i) \in S
  BY <1>2, <1>3, Ranks
<1>5. \A n \in S : lines[n] \in History!Boots
  BY <1>1 DEF History!RecordsAt, History!IsRecord
<1>6. History!Cardinality(S) = Cardinality(S)
  BY Zenon DEF History!Cardinality, Cardinality
<1>7. History!Records(lines) = [i \in 1..c |-> lines[History!Nth(S, i)]]
  BY <1>1, <1>2, <1>6 DEF History!Records
<1>8. \A i \in 1..c : lines[History!Nth(S, i)] \in History!Boots
  BY <1>4, <1>5
<1>9. Len(History!Records(lines)) = c /\ History!Records(lines) \in Seq(History!Boots)
  BY <1>4, <1>7, <1>8
<1>10. QED
  BY <1>1, <1>2, <1>7, <1>9

\* A line appended is one record more if it is a record; no other line counts.
LEMMA RecordsOfAppend ==
  ASSUME NEW lines \in Seq(History!Lines), NEW line \in History!Lines
  PROVE  History!Records(Append(lines, line)) =
           IF History!IsRecord(line) THEN Append(History!Records(lines), line)
           ELSE History!Records(lines)
<1>1. PICK longer : longer = Append(lines, line)
  OBVIOUS
<1>2. PICK S : S = History!RecordsAt(lines)
  OBVIOUS
<1>3. PICK T : T = History!RecordsAt(longer)
  OBVIOUS
<1>4. PICK e : e = Len(lines) + 1
  OBVIOUS
<1>5. /\ longer \in Seq(History!Lines) /\ Len(lines) \in Nat /\ Len(longer) = e
      /\ longer[e] = line /\ \A n \in 1..Len(lines) : longer[n] = lines[n]
  BY <1>1, <1>4, AppendProperties
<1>6. /\ S \in SUBSET (1..Len(lines)) /\ S \in SUBSET Nat /\ IsFiniteSet(S)
      /\ Cardinality(S) \in Nat
  BY <1>2, RecordLines
<1>7. T \in SUBSET Nat /\ IsFiniteSet(T)
  BY <1>3, <1>5, RecordLines
<1>8. /\ History!Records(lines) \in Seq(History!Boots)
      /\ Len(History!Records(lines)) = Cardinality(S)
      /\ \A i \in 1..Cardinality(S) :
           History!Records(lines)[i] = lines[History!Nth(S, i)]
  BY <1>2, RecordsShape
<1>9. /\ History!Records(longer) \in Seq(History!Boots)
      /\ Len(History!Records(longer)) = Cardinality(T)
      /\ \A i \in 1..Cardinality(T) :
           History!Records(longer)[i] = longer[History!Nth(T, i)]
  BY <1>3, <1>5, RecordsShape
<1>10. T = IF History!IsRecord(line) THEN S \cup {e} ELSE S
  <2>1. DOMAIN longer = 1..e /\ DOMAIN lines = 1..Len(lines)
    BY <1>5
  <2>2. \A n : n \in 1..e <=> n \in 1..Len(lines) \/ n = e
    BY <1>4, <1>5
  <2>3. \A n : n \in T <=> \/ n \in S
                           \/ n = e /\ History!IsRecord(line)
    BY <1>2, <1>3, <1>4, <1>5, <2>1, <2>2 DEF History!RecordsAt
  <2>4. QED
    BY <2>3
<1>11. CASE ~History!IsRecord(line)
  <2>1. T = S
    BY <1>10, <1>11
  <2>2. \A i \in 1..Cardinality(S) : History!Nth(S, i) \in S
    BY <1>6, Ranks
  <2>3. \A i \in 1..Cardinality(S) : History!Records(longer)[i] = History!Records(lines)[i]
    BY <1>5, <1>6, <1>8, <1>9, <2>1, <2>2
  <2>4. History!Records(longer) = History!Records(lines)
    BY <1>8, <1>9, <2>1, <2>3, SeqEqual
  <2>5. QED
    BY <1>1, <1>11, <2>4
<1>12. CASE History!IsRecord(line)
  <2>1. T = S \cup {e} /\ e \notin S /\ \A k \in S : k <= e /\ ~(e <= k)
    BY <1>4, <1>5, <1>6, <1>10, <1>12
  <2>2. Cardinality(T) = Cardinality(S) + 1
    BY <1>6, <2>1, FS_AddElement
  <2>3. \A n \in S : Rank(T, n) = Rank(S, n)
    <3>1. SUFFICES ASSUME NEW n \in S PROVE Rank(T, n) = Rank(S, n)
      OBVIOUS
    <3>2. {k \in T : k <= n} = {k \in S : k <= n}
      BY <2>1
    <3>3. QED
      BY <3>2 DEF Rank
  <2>4. Rank(T, e) = Cardinality(S) + 1
    <3>1. {k \in T : k <= e} = T
      BY <1>4, <1>5, <2>1
    <3>2. QED
      BY <2>2, <3>1 DEF Rank
  <2>5. \A i \in 1..Cardinality(S) : History!Nth(S, i) \in S /\ Rank(S, History!Nth(S, i)) = i
    BY <1>6, Ranks
  <2>6. \A n \in T : History!Nth(T, Rank(T, n)) = n
    BY <1>7, Ranks
  <2>7. \A i \in 1..Cardinality(S) : History!Nth(T, i) = History!Nth(S, i)
    BY <2>1, <2>3, <2>5, <2>6
  <2>8. History!Nth(T, Cardinality(S) + 1) = e
    BY <2>1, <2>4, <2>6
  <2> DEFINE r == History!Records(lines)
  <2>9. line \in History!Boots
    BY <1>12 DEF History!IsRecord
  <2>10. /\ Append(r, line) \in Seq(History!Boots) /\ Len(Append(r, line)) = Cardinality(S) + 1
         /\ \A i \in 1..Cardinality(S) : Append(r, line)[i] = r[i]
         /\ Append(r, line)[Cardinality(S) + 1] = line
    BY <1>8, <2>9, AppendProperties
  <2>11. \A i \in 1..Cardinality(S) : History!Records(longer)[i] = r[i]
    <3>1. SUFFICES ASSUME NEW i \in 1..Cardinality(S)
                   PROVE  History!Records(longer)[i] = r[i]
      OBVIOUS
    <3>2. i \in 1..Cardinality(T)
      BY <1>6, <2>2
    <3>3. History!Nth(T, i) = History!Nth(S, i) /\ History!Nth(S, i) \in 1..Len(lines)
      BY <1>6, <2>5, <2>7
    <3>4. QED
      BY <1>5, <1>8, <1>9, <3>2, <3>3
  <2>12. History!Records(longer)[Cardinality(S) + 1] = line
    BY <1>5, <1>6, <1>9, <2>2, <2>8
  <2>13. \A i \in 1..Cardinality(S) + 1 : History!Records(longer)[i] = Append(r, line)[i]
    BY <1>6, <2>10, <2>11, <2>12
  <2>14. History!Records(longer) = Append(r, line)
    BY <1>9, <2>2, <2>10, <2>13, SeqEqual
  <2>15. QED
    BY <1>1, <1>12, <2>14
<1>13. QED
  BY <1>11, <1>12

LEMMA NoRecords == History!Records(<<>>) = <<>>
<1>1. <<>> \in Seq(History!Lines) /\ Len(<<>>) = 0
  OBVIOUS
<1>2. History!RecordsAt(<<>>) = {}
  BY <1>1 DEF History!RecordsAt
<1>3. Len(History!Records(<<>>)) = 0 /\ History!Records(<<>>) \in Seq(History!Boots)
  BY <1>1, <1>2, RecordsShape, FS_EmptySet
<1>4. QED
  BY <1>3

\* Records written below a header are the records of the file.
LEMMA RecordsOfRewrite ==
  ASSUME NEW r \in Seq(History!Boots)
  PROVE  History!Records(<<History!Header>> \o r) = r
<1>1. PICK lines : lines = <<History!Header>> \o r
  OBVIOUS
<1>2. PICK S : S = History!RecordsAt(lines)
  OBVIOUS
<1>3. /\ lines \in Seq(History!Lines) /\ Len(r) \in Nat /\ Len(lines) = Len(r) + 1
      /\ lines[1] = History!Header /\ \A n \in 2..Len(r) + 1 : lines[n] = r[n - 1]
  <2>1. /\ <<History!Header>> \in Seq(History!Lines) /\ Len(<<History!Header>>) = 1
        /\ <<History!Header>>[1] = History!Header
    BY DEF History!Lines
  <2>2. r \in Seq(History!Lines)
    BY SeqMonotonic DEF History!Lines
  <2>3. /\ lines \in Seq(History!Lines) /\ Len(lines) = 1 + Len(r)
        /\ \A i \in 1..1 + Len(r) : lines[i] = IF i <= 1 THEN <<History!Header>>[i] ELSE r[i - 1]
    BY <1>1, <2>1, <2>2, ConcatProperties
  <2>4. Len(r) \in Nat
    OBVIOUS
  <2>5. QED
    BY <2>1, <2>3, <2>4
<1>4. S = 2..Len(r) + 1
  <2>1. DOMAIN lines = 1..Len(r) + 1
    BY <1>3
  <2>2. \A n \in 2..Len(r) + 1 : lines[n] \in History!Boots
    BY <1>3
  <2>3. ~History!IsRecord(lines[1])
    BY <1>3 DEF History!IsRecord, History!Header, History!Boots
  <2>4. \A n : n \in S <=> n \in 1..Len(r) + 1 /\ lines[n] \in History!Boots
    BY <1>2, <2>1 DEF History!RecordsAt, History!IsRecord
  <2>5. \A n : n \in S <=> n \in 2..Len(r) + 1
    BY <1>3, <2>2, <2>3, <2>4 DEF History!IsRecord
  <2>6. QED
    BY <2>5
<1>5. \A i \in 1..Len(r) + 1 : IsFiniteSet(2..i) /\ Cardinality(2..i) = i - 1
  <2>1. SUFFICES ASSUME NEW i \in 1..Len(r) + 1
                 PROVE  IsFiniteSet(2..i) /\ Cardinality(2..i) = i - 1
    OBVIOUS
  <2>2. i \in Int /\ i >= 1
    BY <1>3
  <2>3. IsFiniteSet(2..i) /\ Cardinality(2..i) = IF 2 > i THEN 0 ELSE i - 2 + 1
    BY <2>2, FS_Interval
  <2>4. QED
    BY <2>2, <2>3
<1>6. IsFiniteSet(S) /\ Cardinality(S) = Len(r) /\ S \in SUBSET Nat
  BY <1>3, <1>4, <1>5
<1>7. \A i \in 1..Len(r) : History!Nth(S, i) = i + 1
  <2>1. SUFFICES ASSUME NEW i \in 1..Len(r) PROVE History!Nth(S, i) = i + 1
    OBVIOUS
  <2>2. i + 1 \in S /\ {k \in S : k <= i + 1} = 2..i + 1 /\ i + 1 \in 1..Len(r) + 1
    BY <1>3, <1>4
  <2>3. Rank(S, i + 1) = i
    <3>1. Cardinality(2..i + 1) = i + 1 - 1
      BY <1>5, <2>2
    <3>2. Rank(S, i + 1) = Cardinality(2..i + 1)
      BY <2>2 DEF Rank
    <3>3. i \in Nat
      BY <1>3
    <3>4. QED
      BY <3>1, <3>2, <3>3
  <2>4. QED
    BY <1>6, <2>2, <2>3, Ranks
<1>8. /\ History!Records(lines) \in Seq(History!Boots) /\ Len(History!Records(lines)) = Len(r)
      /\ \A i \in 1..Len(r) : History!Records(lines)[i] = lines[History!Nth(S, i)]
  BY <1>2, <1>3, <1>6, RecordsShape
<1>9. \A i \in 1..Len(r) : History!Records(lines)[i] = r[i]
  BY <1>3, <1>7, <1>8
<1>10. History!Records(lines) = r
  BY <1>8, <1>9, SeqEqual
<1>11. QED
  BY <1>1, <1>10

(***************************************************************************)
(* KeepsTheNewest, spelled out by positions: the records found are a tail  *)
(* of those written, and all of them or at least MaxRecords.               *)
(***************************************************************************)
Kept(found, all) ==
  /\ Len(found) <= Len(all)
  /\ \A i \in 1..Len(found) : found[i] = all[Len(all) - Len(found) + i]
  /\ Len(found) >= MaxRecords \/ Len(found) >= Len(all)

LEMMA SuffixByPosition ==
  ASSUME NEW s \in Seq(History!Boots), NEW t \in Seq(History!Boots)
  PROVE  History!IsSuffix(s, t) <=>
           /\ Len(s) <= Len(t)
           /\ \A i \in 1..Len(s) : s[i] = t[Len(t) - Len(s) + i]
<1>1. PICK m : m = Len(s)
  OBVIOUS
<1>2. PICK n : n = Len(t)
  OBVIOUS
<1>3. PICK p : p = History!Reverse(s)
  OBVIOUS
<1>4. PICK q : q = History!Reverse(t)
  OBVIOUS
<1>5. m \in Nat /\ n \in Nat
  BY <1>1, <1>2
<1>6. /\ p \in Seq(History!Boots) /\ Len(p) = m
      /\ \A i \in 1..m : p[i] = s[m - i + 1]
  BY <1>1, <1>3, <1>5 DEF History!Reverse
<1>7. /\ q \in Seq(History!Boots) /\ Len(q) = n
      /\ \A i \in 1..n : q[i] = t[n - i + 1]
  BY <1>2, <1>4, <1>5 DEF History!Reverse
<1>8. History!IsSuffix(s, t) <=> m <= n /\ SubSeq(p, 1, m) = SubSeq(q, 1, m)
  BY <1>3, <1>4, <1>6, <1>7 DEF History!IsSuffix, History!IsPrefix
<1>9. ASSUME m <= n
      PROVE  SubSeq(p, 1, m) = SubSeq(q, 1, m) <=> \A i \in 1..m : s[i] = t[n - m + i]
  <2>1. SubSeq(p, 1, m) = p
    BY <1>6, SubSeqFull
  <2>2. \A i \in 1..m : q[i] \in History!Boots
    BY <1>5, <1>7, <1>9
  <2>4. /\ SubSeq(q, 1, m) \in Seq(History!Boots) /\ Len(SubSeq(q, 1, m)) = m
        /\ \A i \in 1..m : SubSeq(q, 1, m)[i] = q[i]
    BY <1>5, <1>7, <1>9, <2>2
  <2>5. p = SubSeq(q, 1, m) <=> \A i \in 1..m : p[i] = q[i]
    BY <1>6, <2>4, SeqEqual
  <2>6. (\A i \in 1..m : p[i] = q[i]) <=> \A i \in 1..m : s[m - i + 1] = t[n - i + 1]
    <3>1. \A i \in 1..m : p[i] = s[m - i + 1] /\ q[i] = t[n - i + 1]
      BY <1>5, <1>6, <1>7, <1>9
    <3>2. QED
      BY <3>1
  <2>7. ASSUME \A i \in 1..m : s[m - i + 1] = t[n - i + 1], NEW i \in 1..m
        PROVE  s[i] = t[n - m + i]
    <3>1. m - i + 1 \in 1..m /\ m - (m - i + 1) + 1 = i /\ n - (m - i + 1) + 1 = n - m + i
      BY <1>5
    <3>2. s[m - (m - i + 1) + 1] = t[n - (m - i + 1) + 1]
      BY <2>7, <3>1
    <3>3. QED
      BY <3>1, <3>2
  <2>8. ASSUME \A i \in 1..m : s[i] = t[n - m + i], NEW i \in 1..m
        PROVE  s[m - i + 1] = t[n - i + 1]
    <3>1. m - i + 1 \in 1..m /\ n - m + (m - i + 1) = n - i + 1
      BY <1>5
    <3>2. s[m - i + 1] = t[n - m + (m - i + 1)]
      BY <2>8, <3>1
    <3>3. QED
      BY <3>1, <3>2
  <2>9. QED
    BY <2>1, <2>5, <2>6, <2>7, <2>8
<1>10. QED
  BY <1>1, <1>2, <1>8, <1>9

LEMMA MaxRecordsType == MaxRecords \in Nat /\ MaxRecords >= 1 /\ MaxBoots \in Nat
BY HistoryAssumptions DEF History!MaxRecordsAssumption, History!MaxBootsAssumption

\* The newest records are a tail, of MaxRecords if there are as many.
LEMMA NewestShape ==
  ASSUME NEW r \in Seq(History!Boots)
  PROVE  /\ History!Newest(r) \in Seq(History!Boots)
         /\ Len(History!Newest(r)) = IF Len(r) > MaxRecords THEN MaxRecords ELSE Len(r)
         /\ \A i \in 1..Len(History!Newest(r)) :
              History!Newest(r)[i] = r[Len(r) - Len(History!Newest(r)) + i]
<1>1. PICK n : n = Len(r)
  OBVIOUS
<1>2. n \in Nat
  BY <1>1
<1>3. CASE n > MaxRecords
  <2>1. PICK a : a = n - MaxRecords + 1
    OBVIOUS
  <2>2. a \in 1..n + 1 /\ n \in (a - 1)..n /\ n - a + 1 = MaxRecords /\ a <= n
    BY <1>2, <1>3, <2>1, MaxRecordsType
  <2>3. History!Newest(r) = SubSeq(r, a, n)
    BY <1>1, <1>3, <2>1 DEF History!Newest
  <2>4. /\ SubSeq(r, a, n) \in Seq(History!Boots) /\ Len(SubSeq(r, a, n)) = MaxRecords
        /\ \A i \in 1..MaxRecords : SubSeq(r, a, n)[i] = r[a + i - 1]
    BY <1>1, <2>2, SubSeqProperties
  <2>5. \A i \in 1..MaxRecords : a + i - 1 = n - MaxRecords + i
    BY <1>2, <2>1, MaxRecordsType
  <2>6. QED
    BY <1>1, <1>3, <2>3, <2>4, <2>5
<1>4. CASE ~(n > MaxRecords)
  <2>1. History!Newest(r) = r
    BY <1>1, <1>4, SubSeqFull DEF History!Newest
  <2>2. \A i \in 1..n : n - n + i = i
    BY <1>2
  <2>3. QED
    BY <1>1, <1>4, <2>1, <2>2
<1>5. QED
  BY <1>3, <1>4

LEMMA KeptIsKeepsTheNewest ==
  ASSUME file \in Seq(History!Lines), recorded \in Seq(History!Boots)
  PROVE  History!KeepsTheNewest <=> Kept(History!Records(file), recorded)
<1>1. PICK r : r = History!Records(file)
  OBVIOUS
<1>2. r \in Seq(History!Boots)
  BY <1>1, RecordsShape
<1>3. Len(r) \in Nat /\ Len(recorded) \in Nat
  BY <1>2
<1>4. Len(r) >= Len(History!Newest(recorded))
        <=> Len(r) >= MaxRecords \/ Len(r) >= Len(recorded)
  BY <1>3, NewestShape, MaxRecordsType
<1>5. History!KeepsTheNewest
        <=> History!IsSuffix(r, recorded) /\ Len(r) >= Len(History!Newest(recorded))
  BY <1>1 DEF History!KeepsTheNewest
<1>6. QED
  BY <1>1, <1>2, <1>4, <1>5, SuffixByPosition DEF Kept

LEMMA KeptByAppend ==
  ASSUME NEW r \in Seq(History!Boots), NEW q \in Seq(History!Boots), NEW b \in History!Boots,
         Kept(r, q)
  PROVE  Kept(Append(r, b), Append(q, b))
<1>1. PICK m : m = Len(r)
  OBVIOUS
<1>2. PICK n : n = Len(q)
  OBVIOUS
<1>3. m \in Nat /\ n \in Nat
  BY <1>1, <1>2
<1>4. /\ m <= n /\ \A i \in 1..m : r[i] = q[n - m + i]
      /\ m >= MaxRecords \/ m >= n
  BY <1>1, <1>2 DEF Kept
<1>5. PICK R : R = Append(r, b)
  OBVIOUS
<1>6. PICK Q : Q = Append(q, b)
  OBVIOUS
<1>7. Len(R) = m + 1 /\ R[m + 1] = b /\ \A i \in 1..m : R[i] = r[i]
  BY <1>1, <1>5, AppendProperties
<1>8. Len(Q) = n + 1 /\ Q[n + 1] = b /\ \A i \in 1..n : Q[i] = q[i]
  BY <1>2, <1>6, AppendProperties
<1>9. ASSUME NEW i \in 1..m + 1
      PROVE  R[i] = Q[(n + 1) - (m + 1) + i]
  <2>1. (n + 1) - (m + 1) + i = n - m + i /\ n - m + (m + 1) = n + 1
    BY <1>3, <1>9
  <2>2. CASE i = m + 1
    BY <1>7, <1>8, <2>1, <2>2
  <2>3. CASE i # m + 1
    <3>1. i \in 1..m /\ n - m + i \in 1..n
      BY <1>3, <1>4, <1>9, <2>3
    <3>2. QED
      BY <1>4, <1>7, <1>8, <2>1, <3>1
  <2>4. QED
    BY <2>2, <2>3
<1>10. m + 1 <= n + 1 /\ (m + 1 >= MaxRecords \/ m + 1 >= n + 1)
  BY <1>3, <1>4, MaxRecordsType
<1>11. Kept(R, Q)
  BY <1>7, <1>8, <1>9, <1>10 DEF Kept
<1>12. QED
  BY <1>5, <1>6, <1>11

LEMMA KeptByPruning ==
  ASSUME NEW r \in Seq(History!Boots), NEW q \in Seq(History!Boots), Kept(r, q)
  PROVE  Kept(History!Newest(r), q)
<1>1. PICK m : m = Len(r)
  OBVIOUS
<1>2. PICK n : n = Len(q)
  OBVIOUS
<1>3. m \in Nat /\ n \in Nat
  BY <1>1, <1>2
<1>4. /\ m <= n /\ \A i \in 1..m : r[i] = q[n - m + i]
      /\ m >= MaxRecords \/ m >= n
  BY <1>1, <1>2 DEF Kept
<1>5. PICK w : w = History!Newest(r)
  OBVIOUS
<1>6. PICK k : k = Len(w)
  OBVIOUS
<1>7. /\ k = IF m > MaxRecords THEN MaxRecords ELSE m
      /\ \A i \in 1..k : w[i] = r[m - k + i]
  BY <1>1, <1>5, <1>6, NewestShape
<1>8. k \in Nat /\ k <= m /\ k <= n /\ (k >= MaxRecords \/ k >= n)
  BY <1>3, <1>4, <1>7, MaxRecordsType
<1>9. ASSUME NEW i \in 1..k
      PROVE  w[i] = q[n - k + i]
  <2>1. m - k + i \in 1..m /\ n - m + (m - k + i) = n - k + i
    BY <1>3, <1>8, <1>9
  <2>2. r[m - k + i] = q[n - m + (m - k + i)]
    BY <1>4, <2>1
  <2>3. QED
    BY <1>7, <1>9, <2>1, <2>2
<1>10. Kept(w, q)
  BY <1>2, <1>6, <1>8, <1>9 DEF Kept
<1>11. QED
  BY <1>5, <1>10

(***************************************************************************)
(* The inductive invariant: no line is torn once the start has readied the *)
(* file, and the start is one that was counted.                            *)
(***************************************************************************)
HistoryInv ==
  /\ file \in Seq(History!Lines)
  /\ torn \in BOOLEAN /\ (torn => file # <<>>)
  /\ stage \in {"down", "ready", "write", "prune", "up", "dropped"}
  /\ boots \in 0..MaxBoots
  /\ recorded \in Seq(History!Boots)
  /\ stage \in {"write", "prune", "up"} => ~torn
  /\ stage # "down" => boots \in History!Boots
  /\ stage = "up" => Len(file) <= MaxRecords + 1
  /\ Kept(History!Records(file), recorded)

LEMMA SmallLines ==
  /\ \A b \in History!Boots : b \in History!Lines /\ History!IsRecord(b)
  /\ History!Header \in History!Lines /\ ~History!IsRecord(History!Header)
  /\ History!Junk \in History!Lines /\ ~History!IsRecord(History!Junk)
BY MaxRecordsType
   DEF History!Lines, History!Boots, History!Header, History!Junk, History!IsRecord

\* What a line does to a file of which the newest records are kept.
LEMMA LineAppended ==
  ASSUME NEW f \in Seq(History!Lines), NEW q \in Seq(History!Boots),
         Kept(History!Records(f), q)
  PROVE  /\ \A line \in {History!Header, History!Junk} :
              /\ Append(f, line) \in Seq(History!Lines) /\ Append(f, line) # <<>>
              /\ Kept(History!Records(Append(f, line)), q)
         /\ \A b \in History!Boots :
              /\ Append(f, b) \in Seq(History!Lines) /\ Append(f, b) # <<>>
              /\ Append(q, b) \in Seq(History!Boots)
              /\ Kept(History!Records(Append(f, b)), Append(q, b))
<1>1. ASSUME NEW line \in {History!Header, History!Junk}
      PROVE  /\ Append(f, line) \in Seq(History!Lines) /\ Append(f, line) # <<>>
             /\ Kept(History!Records(Append(f, line)), q)
  <2>1. line \in History!Lines /\ ~History!IsRecord(line)
    BY <1>1, SmallLines
  <2>2. Append(f, line) \in Seq(History!Lines) /\ Append(f, line) # <<>>
    BY <2>1, AppendProperties
  <2>3. History!Records(Append(f, line)) = History!Records(f)
    BY <2>1, RecordsOfAppend
  <2>4. QED
    BY <2>2, <2>3
<1>2. ASSUME NEW b \in History!Boots
      PROVE  /\ Append(f, b) \in Seq(History!Lines) /\ Append(f, b) # <<>>
             /\ Append(q, b) \in Seq(History!Boots)
             /\ Kept(History!Records(Append(f, b)), Append(q, b))
  <2>1. b \in History!Lines /\ History!IsRecord(b)
    BY <1>2, SmallLines
  <2>2. /\ Append(f, b) \in Seq(History!Lines) /\ Append(f, b) # <<>>
        /\ Append(q, b) \in Seq(History!Boots)
    BY <2>1, AppendProperties
  <2>3. History!Records(Append(f, b)) = Append(History!Records(f), b)
    BY <2>1, RecordsOfAppend
  <2>4. History!Records(f) \in Seq(History!Boots)
    BY RecordsShape
  <2>5. Kept(Append(History!Records(f), b), Append(q, b))
    BY <2>4, KeptByAppend
  <2>6. QED
    BY <2>2, <2>3, <2>5
<1>3. QED
  BY <1>1, <1>2

\* A new file holds its header only.
LEMMA HeaderOnly ==
  ASSUME NEW q \in Seq(History!Boots), NEW f \in Seq(History!Lines), f = <<>>,
         Kept(History!Records(f), q)
  PROVE  /\ <<History!Header>> \in Seq(History!Lines)
         /\ Kept(History!Records(<<History!Header>>), q)
<1>1. Append(f, History!Header) = <<History!Header>>
  OBVIOUS
<1>2. /\ Append(f, History!Header) \in Seq(History!Lines)
      /\ Kept(History!Records(Append(f, History!Header)), q)
  BY LineAppended
<1>3. QED
  BY <1>1, <1>2

LEMMA HistoryStep ==
  HistoryInv /\ [History!Next]_(History!vars) => HistoryInv'
<1> SUFFICES ASSUME HistoryInv, [History!Next]_(History!vars)
             PROVE  HistoryInv'
  OBVIOUS
<1>1. CASE History!Start
  <2>1. boots' \in History!Boots /\ boots' \in 0..MaxBoots
    BY <1>1, MaxRecordsType DEF HistoryInv, History!Start, History!Boots
  <2>2. QED
    BY <1>1, <2>1 DEF HistoryInv, History!Start
<1>2. CASE History!Ready
  <2>1. /\ file' \in Seq(History!Lines)
        /\ Kept(History!Records(file'), recorded)
    <3>1. CASE file = <<>>
      BY <1>2, <3>1, HeaderOnly DEF HistoryInv, History!Ready
    <3>2. CASE file # <<>>
      BY <1>2, <3>2 DEF HistoryInv, History!Ready
    <3>3. QED
      BY <3>1, <3>2
  <2>2. QED
    BY <1>2, <2>1 DEF HistoryInv, History!Ready
<1>3. CASE History!Write
  <2>1. /\ file' = Append(file, boots) /\ recorded' = Append(recorded, boots)
        /\ boots \in History!Boots
    BY <1>3 DEF HistoryInv, History!Write, History!Appended
  <2>2. /\ file' \in Seq(History!Lines) /\ recorded' \in Seq(History!Boots)
        /\ Kept(History!Records(file'), recorded')
    BY <2>1, LineAppended DEF HistoryInv
  <2>3. QED
    BY <1>3, <2>2 DEF HistoryInv, History!Write
<1>4. CASE History!Prune
  <2>1. CASE History!Sound
    <3>1. file' = file /\ Len(file) <= MaxRecords + 1
      BY <1>4, <2>1 DEF History!Prune, History!Sound
    <3>2. QED
      BY <1>4, <3>1 DEF HistoryInv, History!Prune
  <2>2. CASE ~History!Sound
    <3>1. PICK r : r = History!Newest(History!Records(file))
      OBVIOUS
    <3>2. History!Records(file) \in Seq(History!Boots)
      BY RecordsShape DEF HistoryInv
    <3>3. r \in Seq(History!Boots) /\ Len(r) <= MaxRecords
      BY <3>1, <3>2, NewestShape, MaxRecordsType
    <3>4. Kept(r, recorded)
      BY <3>1, <3>2, KeptByPruning DEF HistoryInv
    <3>5. file' = <<History!Header>> \o r
      BY <1>4, <2>2, <3>1 DEF History!Prune
    <3>6. History!Records(file') = r
      BY <3>3, <3>5, RecordsOfRewrite
    <3>7. file' \in Seq(History!Lines) /\ Len(file') = 1 + Len(r)
      <4>1. <<History!Header>> \in Seq(History!Lines) /\ Len(<<History!Header>>) = 1
        BY SmallLines
      <4>2. r \in Seq(History!Lines)
        BY <3>3, SeqMonotonic DEF History!Lines
      <4>3. QED
        BY <3>5, <4>1, <4>2, ConcatProperties
    <3>8. Len(file') <= MaxRecords + 1
      BY <3>3, <3>7, MaxRecordsType
    <3>9. QED
      BY <1>4, <3>4, <3>6, <3>7, <3>8 DEF HistoryInv, History!Prune
  <2>3. QED
    BY <2>1, <2>2
<1>5. CASE History!AppendFails
  BY <1>5 DEF HistoryInv, History!AppendFails
<1>6. CASE History!Crash
  <2>1. stage' = "down" /\ boots' = boots /\ boots \in History!Boots
    BY <1>6 DEF HistoryInv, History!Crash
  <2>2. CASE UNCHANGED <<file, torn, recorded>>
    BY <2>1, <2>2 DEF HistoryInv
  <2>3. CASE /\ stage = "ready" /\ file = <<>>
             /\ file' \in History!Cut(file, History!Header)
             /\ torn' = TRUE
             /\ UNCHANGED recorded
    <3>1. file' \in Seq(History!Lines) /\ file' # <<>> /\ Kept(History!Records(file'), recorded)
      BY <2>3, LineAppended DEF HistoryInv, History!Cut
    <3>2. QED
      BY <2>1, <2>3, <3>1 DEF HistoryInv
  <2>4. CASE /\ stage = "write"
             /\ file' \in History!Cut(file, boots)
             /\ torn' = TRUE
             /\ recorded' = IF file' = Append(file, boots) THEN Append(recorded, boots)
                            ELSE recorded
    <3>1. /\ file' \in Seq(History!Lines) /\ file' # <<>> /\ recorded' \in Seq(History!Boots)
          /\ Kept(History!Records(file'), recorded')
      BY <2>1, <2>4, LineAppended DEF HistoryInv, History!Cut
    <3>2. QED
      BY <2>1, <2>4, <3>1 DEF HistoryInv
  <2>5. QED
    BY <1>6, <2>2, <2>3, <2>4 DEF History!Crash
<1>7. CASE UNCHANGED History!vars
  BY <1>7 DEF HistoryInv, History!vars
<1>8. QED
  BY <1>1, <1>2, <1>3, <1>4, <1>5, <1>6, <1>7 DEF History!Next

LEMMA HistoryInvariant == History!Spec => []HistoryInv
<1>1. History!Init => HistoryInv
  <2>1. ASSUME History!Init PROVE Kept(History!Records(file), recorded)
    BY <2>1, NoRecords DEF History!Init, Kept
  <2>2. <<>> \in Seq(History!Lines) /\ <<>> \in Seq(History!Boots)
    OBVIOUS
  <2>3. 0 \in 0..MaxBoots
    BY MaxRecordsType
  <2>4. ASSUME History!Init
        PROVE  /\ file \in Seq(History!Lines) /\ recorded \in Seq(History!Boots)
               /\ torn = FALSE /\ stage = "down" /\ boots \in 0..MaxBoots
    BY <2>2, <2>3, <2>4 DEF History!Init
  <2>5. QED
    BY <2>1, <2>4 DEF HistoryInv
<1>2. QED
  BY <1>1, HistoryStep, PTL DEF History!Spec

\* No whole record of a start is lost but the oldest, for any number of starts and
\* any length of the history: not to a crash inside a write, to a line torn by one,
\* to an append that fails or to the pruning.
THEOREM NewestAreKept == History!Spec => []KeepsTheNewest
<1>1. HistoryInv => KeepsTheNewest
  BY KeptIsKeepsTheNewest DEF HistoryInv, KeepsTheNewest
<1>2. QED
  BY <1>1, HistoryInvariant, PTL

LEMMA HistoryTyped == HistoryInv => History!TypeOK
BY DEF HistoryInv, History!TypeOK

-----------------------------------------------------------------------------
\* A behaviour of the files is one of each of the three parts.
LEMMA Parts == MCSpec => Spec /\ Journal!Spec /\ History!Spec
<1>1. MCInit => Init /\ Journal!Init /\ History!Init
  BY DEF MCInit
<1>2. [MCNext]_allVars
        => [Next]_vars /\ [Journal!Next]_(Journal!vars) /\ [History!Next]_(History!vars)
  <2>1. ASSUME UNCHANGED vars PROVE [Next]_vars
    BY <2>1
  <2>2. ASSUME UNCHANGED journalVars PROVE [Journal!Next]_(Journal!vars)
    BY <2>2 DEF journalVars, Journal!vars, Journal!disk, Journal!saves, Journal!history
  <2>3. ASSUME UNCHANGED historyVars PROVE [History!Next]_(History!vars)
    BY <2>3 DEF historyVars, History!vars
  <2>4. QED
    BY <2>1, <2>2, <2>3 DEF MCNext, allVars
<1>3. QED
  BY <1>1, <1>2, PTL DEF MCSpec, Spec, Journal!Spec, History!Spec

\* The types of the executables, of the journal and of the history, in every
\* behaviour of the composition.
THEOREM PartsTyped == MCSpec => []PartsTypeOK
BY Parts, TypeAlways, JournalTyped, HistoryInvariant, HistoryTyped, PTL DEF PartsTypeOK
=============================================================================
