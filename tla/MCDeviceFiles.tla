--------------------------- MODULE MCDeviceFiles ---------------------------
(***************************************************************************)
(* What a device keeps in files, for TLC: its executables with their       *)
(* marker and pin (Update), the journal a start reads of the run before it *)
(* (RunJournal) and the history of starts (BootHistory).  The three share  *)
(* no state, so a behaviour moves one of them and leaves the others in an  *)
(* initial state; which one is chosen at the start.                        *)
(*                                                                         *)
(* One update of each kind; the registry is a release ahead of the site.   *)
(* Five files are enough for the journal's two names and three handles.  A *)
(* history of two records over six starts drops some by pruning, after     *)
(* torn headers and torn records too.                                      *)
(***************************************************************************)
EXTENDS Update

CONSTANTS cli, agent, rb,
          Files, ReplacedWithin, HostTellsBoot, SavesMayFail,
          MaxRecords, MaxBoots

VARIABLES
  part,
  process, journal, temp, contents, step, handle, saved, verdict, claimed, wanted, asked, endedBy,
  file, torn, stage, boots, recorded

Journal == INSTANCE RunJournal WITH staged <- saved
History == INSTANCE BootHistory

ASSUME JournalAssumptions ==
  Journal!FilesAssumption /\ Journal!WindowAssumption /\ Journal!FlagsAssumption

ASSUME HistoryAssumptions ==
  History!MaxRecordsAssumption /\ History!MaxBootsAssumption

MCLineOf == [v \in Releases |-> "new"]
MCFiles == 1..5

journalVars == <<process, journal, temp, contents, step, handle, saved, verdict,
                 claimed, wanted, asked, endedBy>>
historyVars == <<file, torn, stage, boots, recorded>>
allVars == <<part, vars, journalVars, historyVars>>

Moves(p) == part = p /\ UNCHANGED part

MCInit == part \in {"update", "journal", "history"} /\ Init /\ Journal!Init /\ History!Init

MCNext ==
  \/ Moves("update") /\ Next /\ UNCHANGED <<journalVars, historyVars>>
  \/ Moves("journal") /\ Journal!Next /\ UNCHANGED <<vars, historyVars>>
  \/ Moves("history") /\ History!Next /\ UNCHANGED <<vars, journalVars>>

MCSpec == MCInit /\ [][MCNext]_allVars

\* Bound: a behaviour is followed until two updates have overlapped.  Nothing is
\* said of the release marker after that; of the pin, UpdateProofs says the same.
Apart == ~overlapped

\* The types of the three parts.
PartsTypeOK == TypeOK /\ Journal!TypeOK /\ History!TypeOK

\* See RunJournal.
NoInventedExit == Journal!NoInventedExit
FirstRunIsFirst == Journal!FirstRunIsFirst
HostRestartIsSeen == Journal!HostRestartIsSeen

\* See BootHistory.
KeepsTheNewest == History!KeepsTheNewest
=============================================================================
