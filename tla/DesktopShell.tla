---------------------------- MODULE DesktopShell ----------------------------
(***************************************************************************)
(* How the desktop shell keeps its window alive and the agent running:     *)
(* loadDesktop, did-fail-load and refreshTray of                           *)
(* src/agent/summrise-desktop-electron/src/main.ts.  The agent stops and   *)
(* starts to answer as it likes (crashes, stalls, updates, the pulse of    *)
(* its task).                                                              *)
(*                                                                         *)
(* Time is counted in ticks; what is due happens before the next one.  The *)
(* menu bridge, the browser windows and the navigation tripwire are left   *)
(* out, and so is a reload of the window in the middle of a load.          *)
(*                                                                         *)
(* A definition named X_Y is X with one plausible mistake in it; no        *)
(* specification uses it.  The properties are shown to notice it.          *)
(***************************************************************************)
EXTENDS Naturals, Folds

CONSTANTS
  Cap,        \* the longest wait of nextRetry, in half ticks
  TrayEvery,  \* the tray's polling interval
  Misses,     \* AUTO_START_AFTER_MISSES
  MinGap,     \* AUTO_START_MIN_GAP_MS
  Swap,       \* how long an update keeps the agent down, three ticks at most
  MaxChains,  \* bound: reloads stop at so many pending loadDesktop calls
  MaxFalls    \* bound: times the agent stops answering

TimesAssumption ==
  /\ {Cap, TrayEvery, Misses, MinGap, Swap, MaxChains, MaxFalls} \subseteq Nat \ {0}
  /\ Cap >= 6 /\ Swap <= 3

Longest == Cap \div 2

VARIABLES
  answers,    \* the agent answers a probe in time
  page,       \* what the window shows
  loading,    \* what it has been told to load
  timers,     \* retries waiting, by the ticks they have left
  probes,     \* loadDesktop calls awaiting their probe
  misses,     \* agentMissCount
  retry,      \* retryMs, in half ticks
  sinceStart, \* since lastAutoStartAt, up to MinGap
  watching,   \* agentWatchActive
  tray,       \* until the next poll of the tray
  downFor,    \* history: since the agent fell, up to Swap
  owed,       \* history: what counted against it when it fell, up to 2
  falls       \* bound

vars == <<answers, page, loading, timers, probes, misses, retry, sinceStart,
          watching, tray, downFor, owed, falls>>

Waiting == MapThenFoldSet(+, 0, LAMBDA t : timers[t], LAMBDA S : CHOOSE t \in S : TRUE,
                          0..Longest)

\* Calls of loadDesktop that are still to come back, for the bound on reloads.
Chains == Waiting + probes

\* One of them at least.
Pending == probes > 0 \/ \E t \in 0..Longest : timers[t] > 0

TypeOK ==
  /\ answers \in BOOLEAN
  /\ page \in {"blank", "wait", "desktop", "error"}
  /\ loading \in {"nothing", "wait", "desktop"}
  /\ timers \in [0..Longest -> Nat] /\ probes \in Nat
  /\ misses \in Nat /\ retry \in 1..Cap
  /\ sinceStart \in 0..MinGap
  /\ watching \in BOOLEAN
  /\ tray \in 0..TrayEvery /\ downFor \in 0..Swap /\ owed \in 0..2
  /\ falls \in 0..MaxFalls

Init ==
  /\ answers \in BOOLEAN
  /\ page = "blank" /\ loading = "nothing"
  /\ timers = [t \in 0..Longest |-> 0] /\ probes = 1
  /\ misses = 0 /\ retry = 1 /\ sinceStart = MinGap
  /\ watching = FALSE /\ tray = 0
  /\ downFor = Swap /\ owed = 0 /\ falls = 0

-----------------------------------------------------------------------------
(* loadDesktop                                                             *)

NextRetry_Flat == 2
\* The wait doubles up to its cap, and every chain draws from it.
NextRetry == IF 2 * retry < Cap THEN 2 * retry ELSE Cap

Retry ==
  /\ retry' = NextRetry
  /\ timers' = [timers EXCEPT ![NextRetry \div 2] = @ + 1]

TimerFires ==
  /\ timers[0] > 0
  /\ timers' = [timers EXCEPT ![0] = @ - 1]
  /\ probes' = probes + 1
  /\ UNCHANGED <<answers, page, loading, misses, retry, sinceStart, watching, tray,
                 downFor, owed, falls>>

ProbeAnswered ==
  /\ probes > 0 /\ answers
  /\ probes' = probes - 1
  /\ misses' = 0 /\ retry' = 1
  /\ loading' = "desktop"
  /\ UNCHANGED <<answers, page, timers, sinceStart, watching, tray, downFor, owed, falls>>

StartsAgent == misses + 1 >= Misses /\ sinceStart = MinGap

Again_Once == UNCHANGED <<timers, retry>>
Again == Retry

\* The wait page, perhaps a run of the agent's task, and another try.
ProbeMissed ==
  /\ probes > 0 /\ ~answers
  /\ probes' = probes - 1
  /\ loading' = "wait"
  /\ misses' = IF StartsAgent THEN 0
               ELSE IF misses < Misses THEN misses + 1 ELSE misses
  /\ sinceStart' = IF StartsAgent THEN 0 ELSE sinceStart
  /\ Again
  /\ UNCHANGED <<answers, page, watching, tray, downFor, owed, falls>>

-----------------------------------------------------------------------------
(* The window                                                              *)

\* The wait page is a data: URL and always loads.
Loaded ==
  /\ \/ loading = "wait"
     \/ loading = "desktop" /\ answers
  /\ page' = loading
  /\ loading' = "nothing"
  /\ UNCHANGED <<answers, timers, probes, misses, retry, sinceStart, watching, tray,
                 downFor, owed, falls>>

Failed_Ignored == UNCHANGED <<timers, retry>>
\* did-fail-load schedules a retry of its own.
Failed == Retry

LoadFails ==
  /\ loading = "desktop" /\ ~answers
  /\ page' = "error"
  /\ loading' = "nothing"
  /\ Failed
  /\ UNCHANGED <<answers, probes, misses, sinceStart, watching, tray, downFor, owed,
                 falls>>

Reload ==
  /\ page # "blank" /\ loading = "nothing"
  /\ Chains < MaxChains
  /\ loading' = IF page = "wait" THEN "wait" ELSE "desktop"
  /\ UNCHANGED <<answers, page, timers, probes, misses, retry, sinceStart, watching,
                 tray, downFor, owed, falls>>

-----------------------------------------------------------------------------
(* The tray                                                                *)

\* A failed load leaves the window on the URL it was for.
OnBaseOrigin == page \in {"desktop", "error"}

\* refreshTray, first called when the first loadDesktop is through.
TrayPoll ==
  /\ tray = 0 /\ (page # "blank" \/ loading # "nothing")
  /\ tray' = TrayEvery
  /\ \/ /\ answers
        /\ watching' = FALSE
        /\ UNCHANGED probes
     \/ /\ ~answers
        /\ IF ~watching /\ OnBaseOrigin
             THEN watching' = TRUE /\ probes' = probes + 1
             ELSE UNCHANGED <<watching, probes>>
  /\ UNCHANGED <<answers, page, loading, timers, misses, retry, sinceStart, downFor,
                 owed, falls>>

-----------------------------------------------------------------------------
(* The agent and the clock                                                 *)

\* Retries due within the ticks of a swap.
Due ==
  LET due(t) == IF t < Swap THEN timers[t] ELSE 0
  IN  due(0) + due(1) + due(2)

\* The misses that are counted already, and those that calls under way will add
\* before a swap is over.
Against == misses + probes + Due

AgentFalls ==
  /\ answers /\ falls < MaxFalls
  /\ answers' = FALSE
  /\ falls' = falls + 1
  /\ downFor' = 0
  /\ owed' = IF Against < 2 THEN Against ELSE 2
  /\ UNCHANGED <<page, loading, timers, probes, misses, retry, sinceStart, watching, tray>>

AgentRises ==
  /\ ~answers
  /\ answers' = TRUE
  /\ downFor' = Swap
  /\ UNCHANGED <<page, loading, timers, probes, misses, retry, sinceStart, watching,
                 tray, owed, falls>>

Later(age, bound) == IF age < bound THEN age + 1 ELSE age

\* A tick: nothing is due.
Tick ==
  /\ timers[0] = 0 /\ probes = 0 /\ loading = "nothing" /\ tray > 0
  /\ timers' = [t \in 0..Longest |-> IF t < Longest THEN timers[t + 1] ELSE 0]
  /\ tray' = tray - 1
  /\ sinceStart' = Later(sinceStart, MinGap)
  /\ downFor' = Later(downFor, Swap)
  /\ UNCHANGED <<answers, page, loading, probes, misses, retry, watching, owed, falls>>

Shell == TimerFires \/ ProbeAnswered \/ ProbeMissed \/ Loaded \/ LoadFails \/ TrayPoll

Next == Shell \/ Reload \/ AgentFalls \/ AgentRises \/ Tick

Spec == Init /\ [][Next]_vars

\* Timers fire, probes and loads come back; time passes, however often the
\* window is reloaded.
FairSpec ==
  /\ Spec
  /\ WF_vars(TimerFires) /\ WF_vars(ProbeAnswered \/ ProbeMissed)
  /\ WF_vars(Loaded \/ LoadFails) /\ WF_vars(TrayPoll) /\ SF_vars(Tick)

-----------------------------------------------------------------------------
(* Properties                                                              *)

\* The wait page is never a dead end: as long as it is shown, a retry is
\* pending or the desktop is being loaded (main.ts:913-918).
WaitPageIsAlive ==
  "wait" = (IF loading = "nothing" THEN page ELSE loading) => Pending

\* The watchdog leaves an update alone (main.ts:966-975): it starts an agent that
\* has been down for less than a swap takes only if two misses at least counted
\* against it when it fell, made before or about to be made by calls under way.
\* (Then it may, at the first probe even; see README.)
SwapIsLeftAlone ==
  [][sinceStart' < sinceStart /\ downFor < Swap => owed >= 2]_vars

\* Once the agent keeps answering, the window gets to show the desktop
\* (main.ts:900-904).
WindowRecovers == <>[]answers => []<>(page = "desktop")
=============================================================================
