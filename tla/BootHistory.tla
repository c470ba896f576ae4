----------------------------- MODULE BootHistory -----------------------------
(***************************************************************************)
(* The restart history of the agent: record_boot and prune_history of      *)
(* src/agent/src/runstate.rs over the append-only JSONL rules of           *)
(* src/agent/src/jsonl.rs.  Each start readies the file (a header into an  *)
(* empty one, a newline after a torn line), appends its record and prunes  *)
(* the file to the newest records.  The machine may go down inside any of  *)
(* these writes, which leaves the text written so far.                     *)
(*                                                                         *)
(* A line is its meaning: the header, the record of the n-th start, or     *)
(* junk no reader can use.  `torn` says that the last line has no newline. *)
(*                                                                         *)
(* A definition named X_Y is X with one plausible mistake in it; no        *)
(* specification uses it.  The properties are shown to notice it.          *)
(***************************************************************************)
EXTENDS Naturals, FiniteSets, Sequences, SequencesExt

CONSTANTS
  MaxRecords,  \* BOOT_HISTORY_MAX
  MaxBoots     \* bound: starts of the instance

MaxRecordsAssumption == MaxRecords \in Nat \ {0}

MaxBootsAssumption == MaxBoots \in Nat

Boots == 1..MaxBoots
Header == 0
Junk == MaxBoots + 1
Lines == {Header, Junk} \cup Boots

VARIABLES
  file,     \* the lines of boot-history.jsonl
  torn,     \* the last of them is not terminated
  stage,    \* "down", "ready", "write", "prune", "up", "dropped"
  boots,    \* how many starts there have been
  recorded  \* history: the starts whose record reached the disk whole

vars == <<file, torn, stage, boots, recorded>>

TypeOK ==
  /\ file \in Seq(Lines)
  /\ torn \in BOOLEAN /\ (torn => file # <<>>)
  /\ stage \in {"down", "ready", "write", "prune", "up", "dropped"}
  /\ boots \in 0..MaxBoots
  /\ recorded \in Seq(Boots)
  /\ stage = "up" => Len(file) <= MaxRecords + 1

Init ==
  /\ file = <<>> /\ torn = FALSE /\ stage = "down"
  /\ boots = 0 /\ recorded = <<>>

-----------------------------------------------------------------------------
(* Readers                                                                 *)

\* parse_record: the header and junk are no records.
IsRecord(line) == line \in Boots

\* The lines that are records, and the n-th of a set of lines.
RecordsAt(lines) == {n \in DOMAIN lines : IsRecord(lines[n])}

Nth(S, n) == CHOOSE m \in S : Cardinality({k \in S : k <= m}) = n

\* Every reader takes the records in the order of their lines.
Records(lines) ==
  LET at == RecordsAt(lines) IN [n \in 1..Cardinality(at) |-> lines[Nth(at, n)]]

Newest_OneMore(records) ==
  SubSeq(records, IF Len(records) > MaxRecords THEN Len(records) - MaxRecords ELSE 1,
         Len(records))

\* The last MaxRecords of them.
Newest(records) ==
  SubSeq(records, IF Len(records) > MaxRecords THEN Len(records) - MaxRecords + 1 ELSE 1,
         Len(records))

-----------------------------------------------------------------------------
(* Writers                                                                 *)

\* The text written so far when a line is cut short: a fragment, or the whole
\* text but its newline.
Cut(lines, line) == {Append(lines, Junk), Append(lines, line)}

\* A line appended after a torn one becomes part of it.
Appended(line) ==
  IF torn THEN Append(Front(file), Junk) ELSE Append(file, line)

Start ==
  /\ stage = "down" /\ boots < MaxBoots
  /\ boots' = boots + 1
  /\ stage' = "ready"
  /\ UNCHANGED <<file, torn, recorded>>

Ready_TrustsTail ==
  /\ stage = "ready"
  /\ stage' = "write"
  /\ file' = IF file = <<>> THEN <<Header>> ELSE file
  /\ UNCHANGED <<torn, boots, recorded>>

\* prepare_append
Ready ==
  /\ stage = "ready"
  /\ stage' = "write"
  /\ file' = IF file = <<>> THEN <<Header>> ELSE file
  /\ torn' = FALSE
  /\ UNCHANGED <<boots, recorded>>

Write ==
  /\ stage = "write"
  /\ stage' = "prune"
  /\ file' = Appended(boots)
  /\ torn' = FALSE
  /\ recorded' = IF torn THEN recorded ELSE Append(recorded, boots)
  /\ UNCHANGED boots

\* The file is left alone if it is short and every line is a record.
Sound == Len(file) <= MaxRecords + 1 /\ \A n \in DOMAIN file : IsRecord(file[n])

\* prune_history, whose rewrite is atomic (a crash in it is a crash before it).
Prune ==
  /\ stage = "prune"
  /\ stage' = "up"
  /\ file' = IF Sound THEN file ELSE <<Header>> \o Newest(Records(file))
  /\ UNCHANGED <<torn, boots, recorded>>

\* An append that fails is dropped, and then nothing is pruned.
AppendFails ==
  /\ stage \in {"ready", "write"}
  /\ stage' = "dropped"
  /\ UNCHANGED <<file, torn, boots, recorded>>

\* The process ends, in the middle of a write or anywhere else.
Crash ==
  /\ stage # "down"
  /\ stage' = "down"
  /\ \/ UNCHANGED <<file, torn, recorded>>
     \/ /\ stage = "ready" /\ file = <<>>
        /\ file' \in Cut(file, Header)
        /\ torn' = TRUE
        /\ UNCHANGED recorded
     \/ /\ stage = "write"
        /\ file' \in Cut(file, boots)
        /\ torn' = TRUE
        /\ recorded' = IF file' = Append(file, boots) THEN Append(recorded, boots) ELSE recorded
  /\ UNCHANGED boots

Next == Start \/ Ready \/ Write \/ Prune \/ AppendFails \/ Crash

Spec == Init /\ [][Next]_vars

-----------------------------------------------------------------------------
(* Properties                                                              *)

\* No whole record is lost to a crash, a torn line or the pruning but the
\* oldest: what a reader finds is a tail of all records ever written, of at
\* least MaxRecords if there were that many.
KeepsTheNewest ==
  /\ IsSuffix(Records(file), recorded)
  /\ Len(Records(file)) >= Len(Newest(recorded))
=============================================================================
