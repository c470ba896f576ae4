---------------------------- MODULE ExecuteWait ----------------------------
(***************************************************************************)
(* terminal_execute in one session, from the execute lock to the answer:   *)
(* the settle, the write, the wait for the shell's end marker or for       *)
(* quiet, the deadline, and the watcher of a background command with its   *)
(* job record (src/agent/src/plugins/terminal/tools/exec.rs).  The gate    *)
(* between lock and write is ApprovalGate.                                 *)
(*                                                                         *)
(* The shell runs the lines it is sent in turn.  Of its output only the    *)
(* ends of lines are kept, each with the call whose line it ends, which    *)
(* stands for the exit code as well; the code cannot see whose it is.      *)
(* Old prompt markers that an unmarked shell may still print are left out. *)
(* Time is left out: a quiet period, a confirm window and a deadline may   *)
(* run out whenever what is there has been read.  A person who types into  *)
(* the session and cancelled calls are left out too.                       *)
(*                                                                         *)
(* A definition named X_Y is X with one plausible mistake in it; no        *)
(* specification uses it.  The properties are shown to notice it.          *)
(***************************************************************************)
EXTENDS Naturals, Sequences, SequencesExt

CONSTANTS
  Calls,       \* calls of terminal_execute
  Background,  \* those with run_in_background
  Lines,       \* the number of lines of each call's command
  NoCall

CallsAssumption == Background \subseteq Calls /\ NoCall \notin Calls
LinesAssumption == Lines \in [Calls -> Nat \ {0}]

VARIABLES
  marks,    \* shell_633: the shell marks the end of every line
  open,     \* the manager knows the session
  busy,     \* its execute lock
  lastExit, \* its row's last_exit_code: whose, or NoCall for None
  input,    \* lines the shell has yet to end, by their call
  output,   \* the end markers it has put out, by their call
  pc,       \* where each call, or the watcher it left behind, stands
  readAbs,  \* markers before its cursor
  code,     \* marker_code: the last marker it has read, or NoCall
  answer,   \* the state it was answered with
  job,      \* the job record of a background call
  alone,    \* history: no earlier line was left in the shell when its output
            \* began to be counted
  late,     \* history: the markers put out between its write and the watcher's cursor
  latest    \* history: the call that was the last to begin, or NoCall

session == <<marks, open, busy, lastExit>>
shell == <<input, output>>
call == <<pc, readAbs, code, answer, job, alone, late>>
vars == <<session, shell, call, latest>>

Waits == {"waiting", "extended"}
Stations == {"idle", "settling", "writing", "written", "watching", "over"} \cup Waits
Answers == {"none", "done", "partial", "timeout", "running", "failed"}

TypeOK ==
  /\ {marks, open, busy} \subseteq BOOLEAN
  /\ lastExit \in Calls \cup {NoCall}
  /\ input \in Seq(Calls) /\ output \in Seq(Calls)
  /\ pc \in [Calls -> Stations]
  /\ readAbs \in [Calls -> Nat]
  /\ code \in [Calls -> Calls \cup {NoCall}]
  /\ answer \in [Calls -> Answers]
  /\ job \in [Calls -> {"none", "running", "done"}]
  /\ alone \in [Calls -> BOOLEAN] /\ late \in [Calls -> BOOLEAN]
  /\ latest \in Calls \cup {NoCall}

Init ==
  /\ marks \in BOOLEAN /\ open = TRUE /\ busy = FALSE /\ lastExit = NoCall
  /\ input = <<>> /\ output = <<>>
  /\ pc = [c \in Calls |-> "idle"]
  /\ readAbs = [c \in Calls |-> 0] /\ code = [c \in Calls |-> NoCall]
  /\ answer = [c \in Calls |-> "none"] /\ job = [c \in Calls |-> "none"]
  /\ alone = [c \in Calls |-> TRUE] /\ late = [c \in Calls |-> FALSE]
  /\ latest = NoCall

Goto(c, station) == pc' = [pc EXCEPT ![c] = station]
Answered(c, state) == answer' = [answer EXCEPT ![c] = state]

\* Nothing the session has put out is unread.
CaughtUp(c) == readAbs[c] = Len(output)

-----------------------------------------------------------------------------
(* The lock and the write                                                  *)

MayAcquire_WhileWatched == ~busy \/ \E c \in Calls : pc[c] = "watching"
MayAcquire == ~busy

Acquire(c) ==
  /\ pc[c] = "idle" /\ open /\ MayAcquire
  /\ busy' = TRUE
  /\ Goto(c, "settling")
  /\ UNCHANGED <<marks, open, lastExit, shell, readAbs, code, answer, job, alone, late,
                 latest>>

\* SessionBusy, or no such session.
Refuse(c) ==
  /\ pc[c] = "idle" /\ (open => ~MayAcquire)
  /\ Goto(c, "over") /\ Answered(c, "failed")
  /\ UNCHANGED <<session, shell, readAbs, code, job, alone, late, latest>>

FirstRead_OfBuffer == 0
FirstRead == Len(output)

\* The drain has settled (or had its 600 ms); the cursor is taken.
Settle(c) ==
  /\ pc[c] = "settling"
  /\ readAbs' = [readAbs EXCEPT ![c] = FirstRead]
  /\ alone' = [alone EXCEPT ![c] = input = <<>>]
  /\ Goto(c, "writing")
  /\ UNCHANGED <<session, shell, code, answer, job, late, latest>>

Write(c) ==
  /\ pc[c] = "writing" /\ open
  /\ input' = input \o [i \in 1..Lines[c] |-> c]
  /\ Goto(c, "written")
  /\ UNCHANGED <<session, output, readAbs, code, answer, job, alone, late, latest>>

WriteFails(c) ==
  /\ pc[c] = "writing" /\ ~open
  /\ busy' = FALSE
  /\ Goto(c, "over") /\ Answered(c, "failed")
  /\ UNCHANGED <<marks, open, lastExit, shell, readAbs, code, job, alone, late, latest>>

\* The row forgets the command before; a background call takes its cursor
\* again, opens its record and leaves the lock to its watcher.
Begin(c) ==
  /\ pc[c] = "written"
  /\ lastExit' = IF open THEN NoCall ELSE lastExit
  /\ latest' = c
  /\ IF c \in Background
       THEN /\ readAbs' = [readAbs EXCEPT ![c] = Len(output)]
            /\ late' = [late EXCEPT ![c] = ~CaughtUp(c)]
            /\ job' = [job EXCEPT ![c] = "running"]
            /\ Answered(c, "running") /\ Goto(c, "watching")
       ELSE /\ Goto(c, "waiting")
            /\ UNCHANGED <<readAbs, late, job, answer>>
  /\ UNCHANGED <<marks, open, busy, shell, code, alone>>

-----------------------------------------------------------------------------
(* The wait of a foreground call                                           *)

\* Every marker moves the answer to itself.
Read(c) ==
  /\ pc[c] \in Waits /\ open /\ ~CaughtUp(c)
  /\ readAbs' = [readAbs EXCEPT ![c] = Len(output)]
  /\ code' = [code EXCEPT ![c] = Last(output)]
  /\ UNCHANGED <<session, shell, pc, answer, job, alone, late, latest>>

\* Whatever ended the wait: the row gets the marker's code, if there was one.
Ends(c, state) ==
  /\ lastExit' = IF open THEN code[c] ELSE lastExit
  /\ busy' = FALSE
  /\ Goto(c, "over") /\ Answered(c, state)
  /\ UNCHANGED <<marks, open, shell, readAbs, code, job, alone, late, latest>>

\* No marker followed within marker_confirm.
Confirmed(c) ==
  /\ pc[c] \in Waits /\ open /\ CaughtUp(c) /\ code[c] # NoCall
  /\ Ends(c, "done")

MayIdle(c) == ~marks /\ code[c] = NoCall

\* The first quiet period is granted a second.
Quiet(c) ==
  /\ pc[c] = "waiting" /\ open /\ CaughtUp(c) /\ MayIdle(c)
  /\ Goto(c, "extended")
  /\ UNCHANGED <<session, shell, readAbs, code, answer, job, alone, late, latest>>

Idle(c) ==
  /\ pc[c] = "extended" /\ open /\ CaughtUp(c) /\ MayIdle(c)
  /\ Ends(c, "partial")

\* ^C goes to the shell: what it runs may end, which End allows for anyway.
Deadline(c) ==
  /\ pc[c] \in Waits /\ open /\ CaughtUp(c)
  /\ Ends(c, "timeout")

Closed(c) ==
  /\ pc[c] \in Waits /\ ~open
  /\ Ends(c, "partial")

-----------------------------------------------------------------------------
(* The watcher of a background call                                        *)

WatcherReads(c) ==
  /\ pc[c] = "watching" /\ open /\ ~CaughtUp(c)
  /\ readAbs' = [readAbs EXCEPT ![c] = Len(output)]
  /\ code' = [code EXCEPT ![c] = Last(output)]
  /\ job' = [job EXCEPT ![c] = "done"]
  /\ lastExit' = Last(output)
  /\ UNCHANGED <<marks, open, busy, shell, pc, answer, alone, late, latest>>

Releases(c) ==
  /\ busy' = FALSE
  /\ Goto(c, "over")
  /\ UNCHANGED <<marks, open, lastExit, shell, readAbs, code, answer, alone, late, latest>>

\* A marker is confirmed, or an unmarked shell has been quiet.  Only a marker
\* closes the record.
WatcherEnds(c) ==
  /\ pc[c] = "watching" /\ open /\ CaughtUp(c)
  /\ marks => code[c] # NoCall
  /\ Releases(c) /\ UNCHANGED job

RecordAtClose_Left(c) == job[c]
RecordAtClose(c) == "done"

WatcherClosed(c) ==
  /\ pc[c] = "watching" /\ ~open
  /\ job' = [job EXCEPT ![c] = RecordAtClose(c)]
  /\ Releases(c)

-----------------------------------------------------------------------------
(* The shell and the session                                               *)

\* The shell ends the line it runs.
End ==
  /\ open /\ input # <<>>
  /\ input' = Tail(input)
  /\ output' = IF marks THEN Append(output, Head(input)) ELSE output
  /\ UNCHANGED <<session, call, latest>>

\* The session is closed: by hand, by the sweeper, at the cap, by its process.
Close ==
  /\ open
  /\ open' = FALSE /\ input' = <<>>
  /\ UNCHANGED <<marks, busy, lastExit, output, call, latest>>

\* What the code does of its own accord.
Step(c) ==
  \/ Acquire(c) \/ Refuse(c) \/ Settle(c) \/ Write(c) \/ WriteFails(c) \/ Begin(c)
  \/ Read(c) \/ Confirmed(c) \/ Quiet(c) \/ Idle(c) \/ Deadline(c) \/ Closed(c)
  \/ WatcherReads(c) \/ WatcherEnds(c) \/ WatcherClosed(c)

Next == (\E c \in Calls : Step(c)) \/ End \/ Close

Spec == Init /\ [][Next]_vars

Watch(c) == WatcherReads(c) \/ WatcherEnds(c) \/ WatcherClosed(c)

\* A watcher polls every 50 ms; nothing is asked of the shell.
FairSpec == Spec /\ \A c \in Calls : WF_vars(Watch(c))

-----------------------------------------------------------------------------
(* Properties                                                              *)

\* As long as a call waits, the row of its session tells nothing
\* (exec.rs:1051-1058).  Once a command has begun in a shell that had no earlier
\* line left, the row tells of no other command's end, whoever notes it, until
\* the next one begins.  (Where a line was left, its late end is taken for this
\* command's; see README.)
RowIsCurrent ==
  open =>
    /\ \A c \in Calls : pc[c] \in Waits => lastExit = NoCall
    /\ latest # NoCall /\ alone[latest] => lastExit \in {latest, NoCall}

\* A call whose command is alone in the shell is answered with a marker of that
\* command, never with the end of an earlier one; if the command is one line, the
\* shell has ended it when the call is answered "done".
DoneIsItsOwn ==
  \A c \in Calls :
    alone[c] =>
      /\ code[c] \in {c, NoCall}
      /\ answer[c] = "done" /\ Lines[c] = 1 => c \notin ToSet(input)

\* A background job's record is closed once its marker is there to be read or
\* its session is gone.  (A marker put out before the watcher took its cursor is
\* not there to be read; see README.)
JobsClose ==
  \A c \in Calls :
    marks /\ pc[c] = "watching" /\ (~open \/ (input = <<>> /\ ~late[c])) ~> job[c] = "done"

\* No record says that a job runs in a session that is gone, but for the moment
\* until its watcher notices.
NoJobOutlivesItsSession ==
  \A c \in Calls : ~open /\ job[c] = "running" => pc[c] = "watching"
=============================================================================
