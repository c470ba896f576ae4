---------------------------- MODULE MCDeviceLive ----------------------------
(***************************************************************************)
(* What has to come to an end on a device, for TLC: the calls at the gate  *)
(* of a session (ApprovalGate), the commands that run in it (ExecuteWait)  *)
(* and the desktop shell's wait for the agent (DesktopShell).  A behaviour *)
(* moves one of them and leaves the others in an initial state; which one  *)
(* is chosen at the start.                                                 *)
(*                                                                         *)
(* Four commands follow each other in the session: two in the background,  *)
(* of which one has two lines.  A tick of the shell is four seconds: its   *)
(* retries wait 4, 8, 16 and 28 (30 in the code), the tray polls every 28, *)
(* a swap takes at most 12.                                                *)
(***************************************************************************)
EXTENDS MCApprovalGate

CONSTANTS e1, e2, e3, e4, Runs, Background, Lines,
          Cap, TrayEvery, Misses, MinGap, Swap, MaxChains, MaxFalls

VARIABLES
  part,
  marks, live, locked, lastExit, input, output, station, readAbs, code, state, job,
  alone, late, latest,
  answers, page, loading, timers, probes, misses, retry, sinceStart, watching, tray,
  downFor, owed, falls

Execute == INSTANCE ExecuteWait WITH
  Calls <- Runs, open <- live, busy <- locked, pc <- station, answer <- state
Shell == INSTANCE DesktopShell

ASSUME ExecuteAssumptions == Execute!CallsAssumption /\ Execute!LinesAssumption

ASSUME ShellAssumptions == Shell!TimesAssumption

MCLines == [c \in Runs |-> IF c = e4 THEN 2 ELSE 1]

executeVars == <<marks, live, locked, lastExit, input, output, station, readAbs, code,
                 state, job, alone, late, latest>>
shellVars == <<answers, page, loading, timers, probes, misses, retry, sinceStart,
               watching, tray, downFor, owed, falls>>
allVars == <<part, vars, executeVars, shellVars>>

Moves(p) == part = p /\ UNCHANGED part

MCInit ==
  /\ part \in {"gate", "execute", "shell"}
  /\ Init
  /\ Execute!Init /\ (part # "execute" => ~marks)
  /\ Shell!Init /\ (part # "shell" => ~answers)

MCNext ==
  \/ Moves("gate") /\ Next /\ UNCHANGED <<executeVars, shellVars>>
  \/ Moves("execute") /\ Execute!Next /\ UNCHANGED <<vars, shellVars>>
  \/ Moves("shell") /\ Shell!Next /\ UNCHANGED <<vars, executeVars>>

Shows(A) == part = "shell" /\ A

\* The fairness of each part, for the behaviours that are its own.
MCSpec ==
  /\ MCInit /\ [][MCNext]_allVars
  /\ \A e \in Calls : WF_vars(part = "gate" /\ CallStep(e))
  /\ \A c \in Runs : WF_executeVars(part = "execute" /\ Execute!Watch(c))
  /\ WF_shellVars(Shows(Shell!TimerFires))
  /\ WF_shellVars(Shows(Shell!ProbeAnswered \/ Shell!ProbeMissed))
  /\ WF_shellVars(Shows(Shell!Loaded \/ Shell!LoadFails)) /\ WF_shellVars(Shows(Shell!TrayPoll))
  /\ SF_shellVars(Shows(Shell!Tick))

\* See ExecuteWait.
RowIsCurrent == Execute!RowIsCurrent
DoneIsItsOwn == Execute!DoneIsItsOwn
JobsClose == Execute!JobsClose

\* See DesktopShell.
WaitPageIsAlive == Shell!WaitPageIsAlive
SwapIsLeftAlone == Shell!SwapIsLeftAlone
WindowRecovers == Shell!WindowRecovers
=============================================================================
