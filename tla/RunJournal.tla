----------------------------- MODULE RunJournal -----------------------------
(***************************************************************************)
(* The run journal of the agent (src/agent/src/runstate.rs): the file a    *)
(* start reads to say how the run before it ended, and which that run kept *)
(* up to date.  Three writers save it: `begin` at a start, the heartbeat   *)
(* task of main.rs every minute, and the operator's stop mark, taken by an *)
(* HTTP handler (web/mod.rs).  The last two run on different threads, and  *)
(* every save goes through atomic.rs: create `<name>.tmp`, write it,       *)
(* rename it over the journal.  The process may be killed, and the host    *)
(* may restart, between any two of those steps.                            *)
(*                                                                         *)
(* The file system is a table of files and two names that point into it,   *)
(* because a handle goes on writing to the file it opened whatever its     *)
(* name became.  A record keeps what classify compares: its age, the stop  *)
(* mark, and whether the host has booted since.  The start stamp only      *)
(* feeds the wording and is left out.                                      *)
(*                                                                         *)
(* A definition named X_Y is X with one plausible mistake in it; no        *)
(* specification uses it.  The properties are shown to notice it.          *)
(***************************************************************************)
EXTENDS Naturals, FiniteSets

CONSTANTS
  Files,          \* the file table (1..n)
  ReplacedWithin, \* REPLACED_WITHIN_SECS, in ticks
  HostTellsBoot,  \* machine_boot_secs answers (Windows)
  SavesMayFail    \* the disk may refuse a create, a write or a rename

Writers == {"begin", "beat", "mark"}

NoFile == 0  \* a name that points to no file, a writer that holds no handle

\* More files than a journal and three handles take: a create finds a free one.
FilesAssumption ==
  Files \subseteq Nat \ {NoFile} /\ IsFiniteSet(Files) /\ Cardinality(Files) > 4

WindowAssumption == ReplacedWithin \in Nat \ {0}

FlagsAssumption == {HostTellsBoot, SavesMayFail} \subseteq BOOLEAN

Late == ReplacedWithin + 1   \* ages are counted up to here

Marks == {"no", "stop", "update"}   \* exited and reason
Record == [age: 0..Late, mark: Marks, hostBooted: BOOLEAN]
Empty == [age |-> 0, mark |-> "empty", hostBooted |-> FALSE]
Kinds == {"first-run", "clean-exit", "replaced", "machine-restart", "crashed",
          "unreadable"}  \* the last is `crashed` with a line of its own

VARIABLES
  process,   \* "down", "booting", "up"
  journal,   \* the file run-state.txt names
  temp,      \* the file run-state.txt.tmp names
  contents,  \* what each file holds
  step,      \* where each writer's save stands
  handle,    \* the file each writer has open
  staged,    \* the state each writer saves
  verdict,   \* what the last start said of the run before it
  claimed,   \* history: a save of this process has landed
  wanted,    \* history: the mark an operator asked this process for
  asked,     \* history: the same for the process that owns the journal
  endedBy    \* history: how the journal's owner ended

disk == <<journal, temp, contents>>
saves == <<step, handle, staged>>
history == <<claimed, wanted, asked, endedBy>>
vars == <<process, disk, saves, verdict, history>>

TypeOK ==
  /\ process \in {"down", "booting", "up"}
  /\ {journal, temp} \subseteq Files \cup {NoFile}
  /\ contents \in [Files -> Record \cup {Empty}]
  /\ step \in [Writers -> {"idle", "create", "write", "rename"}]
  /\ handle \in [Writers -> Files \cup {NoFile}]
  /\ staged \in [Writers -> Record \cup {Empty}]
  /\ \A w \in Writers : (handle[w] # NoFile) = (step[w] = "write")
  /\ (step["begin"] # "idle") = (process = "booting")
  /\ verdict \in Kinds
  /\ claimed \in BOOLEAN /\ {wanted, asked} \subseteq Marks
  /\ endedBy \in {"nothing", "kill", "host"}

Init ==
  /\ process = "down" /\ journal = NoFile /\ temp = NoFile
  /\ contents = [f \in Files |-> Empty]
  /\ step = [w \in Writers |-> "idle"]
  /\ handle = [w \in Writers |-> NoFile]
  /\ staged = [w \in Writers |-> Empty]
  /\ verdict = "first-run"
  /\ claimed = FALSE /\ wanted = "no" /\ asked = "no" /\ endedBy = "nothing"

NewState == [age |-> 0, mark |-> "no", hostBooted |-> FALSE]

-----------------------------------------------------------------------------
(* Reading: read_journal and classify                                      *)

Readable == journal # NoFile /\ contents[journal] # Empty

FreshBeat(r) == r.age <= ReplacedWithin

Classify_FreshFirst(r) ==
  CASE r.mark = "update" -> "replaced"
    [] r.mark = "stop" -> "clean-exit"
    [] r.mark = "no" /\ FreshBeat(r) -> "replaced"
    [] r.mark = "no" /\ ~FreshBeat(r) /\ r.hostBooted /\ HostTellsBoot -> "machine-restart"
    [] OTHER -> "crashed"

\* The host's boot time is asked before the heartbeat's freshness.
Classify(r) ==
  CASE r.mark = "update" -> "replaced"
    [] r.mark = "stop" -> "clean-exit"
    [] r.mark = "no" /\ r.hostBooted /\ HostTellsBoot -> "machine-restart"
    [] r.mark = "no" /\ ~(r.hostBooted /\ HostTellsBoot) /\ FreshBeat(r) -> "replaced"
    [] OTHER -> "crashed"

\* A journal that does not parse is a crash of unknown cause, no first run.
Judgement_TornIsNone ==
  IF Readable THEN Classify(contents[journal]) ELSE "first-run"
Judgement ==
  IF journal = NoFile THEN "first-run"
  ELSE IF Readable THEN Classify(contents[journal]) ELSE "unreadable"

-----------------------------------------------------------------------------
(* Saving: atomic::replace, one step per file-system call                  *)

\* A file without a name and without a handle is gone.
Sweep(table, names) ==
  [f \in Files |-> IF f \in names THEN table[f] ELSE Empty]

Free == Files \ ({journal, temp} \cup {handle[w] : w \in Writers})

Stage(w, state) ==
  /\ step[w] = "idle"
  /\ step' = [step EXCEPT ![w] = "create"]
  /\ staged' = [staged EXCEPT ![w] = state]
  /\ UNCHANGED handle

\* File::create opens the temp if it is there, truncating it.
SaveCreates(w) ==
  /\ step[w] = "create"
  /\ temp' = IF temp # NoFile THEN temp ELSE CHOOSE f \in Free : TRUE
  /\ contents' = [contents EXCEPT ![temp'] = Empty]
  /\ handle' = [handle EXCEPT ![w] = temp']
  /\ step' = [step EXCEPT ![w] = "write"]
  /\ UNCHANGED <<process, journal, staged, verdict, history>>

SaveWrites(w) ==
  /\ step[w] = "write"
  /\ contents' = [contents EXCEPT ![handle[w]] = staged[w]]
  /\ handle' = [handle EXCEPT ![w] = NoFile]
  /\ step' = [step EXCEPT ![w] = "rename"]
  /\ UNCHANGED <<process, journal, temp, staged, verdict, history>>

Ends_Waits(w) ==
  /\ step' = [step EXCEPT ![w] = "idle"]
  /\ staged' = [staged EXCEPT ![w] = Empty]
  /\ process' = process

\* A start goes on when its save is over, however it ended.
Ends(w) ==
  /\ step' = [step EXCEPT ![w] = "idle"]
  /\ staged' = [staged EXCEPT ![w] = Empty]
  /\ process' = IF w = "begin" THEN "up" ELSE process

\* The first save of a process makes the journal its own.
SaveRenames(w) ==
  /\ step[w] = "rename" /\ temp # NoFile
  /\ journal' = temp /\ temp' = NoFile
  /\ contents' = Sweep(contents, {temp} \cup {handle[v] : v \in Writers})
  /\ Ends(w)
  /\ claimed' = TRUE
  /\ asked' = IF claimed THEN asked ELSE wanted
  /\ UNCHANGED <<handle, verdict, wanted, endedBy>>

\* A failed step removes the temp, whoever created it, and is not reported.
SaveFails(w) ==
  /\ \/ SavesMayFail /\ step[w] # "idle"
     \/ step[w] = "rename" /\ temp = NoFile
  /\ temp' = NoFile
  /\ handle' = [handle EXCEPT ![w] = NoFile]
  /\ contents' = Sweep(contents, {journal} \cup {handle[v] : v \in Writers \ {w}})
  /\ Ends(w)
  /\ UNCHANGED <<journal, verdict, history>>

-----------------------------------------------------------------------------
(* The writers                                                             *)

\* begin: judge the run before, then claim the journal.
Claim_KeepsMark == [NewState EXCEPT !.mark = IF Readable THEN contents[journal].mark ELSE "no"]
Claim == NewState

Boot ==
  /\ process = "down"
  /\ process' = "booting"
  /\ verdict' = Judgement
  /\ Stage("begin", Claim)
  /\ claimed' = FALSE /\ wanted' = "no"
  /\ UNCHANGED <<disk, asked, endedBy>>

Beat ==
  /\ process = "up"
  /\ Stage("beat", NewState)
  /\ UNCHANGED <<process, disk, verdict, history>>

\* mark_deliberate_stop: nothing to do for a run that is not on record or is
\* already marked.
Mark(reason) ==
  /\ process = "up" /\ Readable /\ contents[journal].mark = "no"
  /\ Stage("mark", [NewState EXCEPT !.mark = reason])
  /\ wanted' = reason
  /\ asked' = IF claimed THEN reason ELSE asked
  /\ UNCHANGED <<process, disk, verdict, claimed, endedBy>>

-----------------------------------------------------------------------------
(* The world                                                               *)

Dies(how) ==
  /\ process' = "down"
  /\ step' = [w \in Writers |-> "idle"]
  /\ handle' = [w \in Writers |-> NoFile]
  /\ staged' = [w \in Writers |-> Empty]
  /\ endedBy' = IF claimed THEN how ELSE endedBy
  /\ UNCHANGED <<journal, temp, verdict, claimed, wanted, asked>>

\* A crash, an operator's kill or an update swap.
Kill ==
  /\ process # "down"
  /\ Dies("kill")
  /\ contents' = Sweep(contents, {journal, temp})

HostRestarts ==
  /\ process # "down"
  /\ Dies("host")
  /\ contents' = [f \in Files |-> IF contents[f] = Empty \/ f \notin {journal, temp}
                                  THEN Empty
                                  ELSE [contents[f] EXCEPT !.hostBooted = TRUE]]

Older(r) == IF r = Empty THEN r ELSE [r EXCEPT !.age = IF @ < Late THEN @ + 1 ELSE @]

Tick ==
  /\ contents' = [f \in Files |-> Older(contents[f])]
  /\ staged' = [w \in Writers |-> Older(staged[w])]
  /\ UNCHANGED <<process, journal, temp, step, handle, verdict, history>>

Next ==
  \/ Boot \/ Beat \/ Mark("stop") \/ Mark("update")
  \/ \E w \in Writers :
       SaveCreates(w) \/ SaveWrites(w) \/ SaveRenames(w) \/ SaveFails(w)
  \/ Kill \/ HostRestarts \/ Tick

Spec == Init /\ [][Next]_vars

-----------------------------------------------------------------------------
(* Properties                                                              *)

Judges == process = "down" /\ process' = "booting"

\* A start reports a clean exit only if an operator asked for the end of the
\* run that owns the journal: a mark does not outlive its run, whichever saves
\* failed, collided or were cut short in between.
NoInventedExit ==
  [][Judges /\ verdict' = "clean-exit" => asked = "stop"]_vars

\* A start reports a first run only if no run before it ever saved the journal,
\* whatever was cut short or failed in between ("a journal we cannot read is not
\* a first run", runstate.rs:598): no save takes the journal away without putting
\* another in its place.
FirstRunIsFirst ==
  [][Judges /\ verdict' = "first-run" => endedBy = "nothing"]_vars

\* A host that went down with the run is reported as that, however soon the
\* agent is back, unless somebody marked the run or its journal is damaged.
HostRestartIsSeen ==
  [][Judges /\ endedBy = "host" /\ asked = "no" /\ Readable /\ HostTellsBoot
       => verdict' = "machine-restart"]_vars
=============================================================================
