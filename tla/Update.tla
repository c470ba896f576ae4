------------------------------- MODULE Update -------------------------------
(***************************************************************************)
(* Updates of a device: `summrise update` and `summrise rollback` of       *)
(* src/agent/summrise-agent-npm/src/summrise.ts, the agent_update tool of  *)
(* src/agent/src/plugins/update/tools.rs, and the swap script each of them *)
(* hands to WMI.  They share the staged and the installed executable, the  *)
(* release marker `etc\.summrise-release`, the pin `etc\.rollback-pin` and *)
(* the `update-busy` marker that is to keep them apart.                    *)
(*                                                                         *)
(* An executable is the release it was built from.  Copy-Item is taken to  *)
(* be atomic, and an update at work to be done within the ten minutes      *)
(* after which its marker counts as stale.                                 *)
(*                                                                         *)
(* A definition named X_Y is X with one plausible mistake in it; no        *)
(* specification uses it.  The properties are shown to notice it.          *)
(***************************************************************************)
EXTENDS Naturals

CONSTANTS
  Clis,       \* calls of `summrise update`
  Agents,     \* calls of agent_update
  Rollback,   \* the update that `summrise rollback` runs
  Releases,   \* published releases, in their order
  LineOf,     \* the release line (major.minor) of each
  Site, Npm,  \* the latest release of the two channels
  Installed,  \* the release the device starts with
  None,       \* no such file
  Failing,    \* whether what the code does not control may fail
  MaxFaults   \* bound: processes killed, machine lost

ASSUME ReleasesAssumption == Releases \subseteq Nat /\ None \notin Releases
ASSUME ChannelAssumption == {Site, Npm, Installed} \subseteq Releases
ASSUME CallsAssumption == Clis \cap Agents = {} /\ Rollback \notin Clis \cup Agents
ASSUME BoundAssumption == Failing \in BOOLEAN /\ MaxFaults \in Nat

Updates == Clis \cup Agents \cup {Rollback}

Marker == [by: Updates, fresh: BOOLEAN]

ASSUME NoneAssumption == None \notin Marker

VARIABLES
  exe,         \* the release of summrise-agent.exe
  staged,      \* the release of summrise-agent.new.exe, or None
  release,     \* etc\.summrise-release
  pin,         \* etc\.rollback-pin
  marker,      \* update-busy: who wrote it and whether it is under ten minutes old
  agentUp,     \* the agent runs (and locks its executable)
  pc,          \* where each updating process is
  ver,         \* the release each update delivers
  local,       \* the release agent_update took the device to be on, while it asks
  script,      \* where the swap script of each update is
  copied,      \* $ok of the script
  rollback,    \* where `summrise rollback` is
  faults,      \* bound
  excused,     \* history: updates that took over a stale marker, or whose script
               \* was launched by a handoff that was given up
  overlapped,  \* history: two updates have been at work at once
  proven       \* history: releases stamped since the rollback began

files == <<exe, staged, release, pin>>
vars == <<exe, staged, release, pin, marker, agentUp, pc, ver, local, script,
          copied, rollback, faults, excused, overlapped, proven>>

Version == Releases \cup {None}
Ended == {"complete", "unproven", "refused", "killed"}
Working == {"choose", "stage", "handoff"}
Steps == {"idle", "channel", "device", "create", "stat", "reclaim", "recreate",
          "await"} \cup Working \cup Ended
ScriptSteps == {"none", "begin", "copy", "stamp", "start", "release"}

TypeOK ==
  /\ exe \in Releases /\ {staged, release, pin} \subseteq Version
  /\ marker \in Marker \cup {None}
  /\ agentUp \in BOOLEAN
  /\ pc \in [Updates -> Steps]
  /\ ver \in [Updates -> Releases] /\ local \in [Updates -> Version]
  /\ script \in [Updates -> ScriptSteps]
  /\ copied \in [Updates -> BOOLEAN]
  /\ rollback \in {"idle", "updating", "checking", "pinning", "pinned", "failed"}
  /\ faults \in 0..MaxFaults
  /\ excused \subseteq Updates /\ overlapped \in BOOLEAN
  /\ proven \subseteq Releases

Init ==
  /\ exe = Installed /\ release = Installed /\ staged = None /\ pin = None
  /\ marker = None /\ agentUp = TRUE
  /\ pc = [u \in Updates |-> "idle"] /\ script = [u \in Updates |-> "none"]
  /\ ver = [u \in Updates |-> Installed] /\ local = [u \in Updates |-> None]
  /\ copied = [u \in Updates |-> FALSE]
  /\ rollback = "idle" /\ faults = 0
  /\ excused = {} /\ overlapped = FALSE /\ proven = {}

IsBehind(v, latest) == LineOf[v] = LineOf[latest] /\ v < latest

Goto(u, step) == pc' = [pc EXCEPT ![u] = step]
Script(u, step) == script' = [script EXCEPT ![u] = step]

\* Between taking the marker and the end of the script.
AtWork(u) == pc[u] \in Working \/ script[u] # "none"

-----------------------------------------------------------------------------
(* The busy marker                                                         *)

Mine(u) == [by |-> u, fresh |-> TRUE]

\* busyIsFresh and stale_of
Stale == marker # None /\ ~marker.fresh

\* openSync "wx" and create_new
Create(u) ==
  /\ pc[u] \in {"create", "recreate"} /\ marker = None
  /\ marker' = Mine(u)
  /\ Goto(u, IF u \in Agents THEN "choose" ELSE "stage")
  /\ UNCHANGED <<files, agentUp, ver, local, script, copied, rollback, excused>>

\* The file exists: the command reads its age.
Exists(u) ==
  /\ pc[u] = "create" /\ marker # None
  /\ Goto(u, "stat")
  /\ UNCHANGED <<files, marker, agentUp, ver, local, script, copied, rollback, excused>>

Stat(u) ==
  /\ pc[u] = "stat"
  /\ Goto(u, IF Stale THEN "reclaim" ELSE "refused")
  /\ UNCHANGED <<files, marker, agentUp, ver, local, script, copied, rollback, excused>>

\* The command overwrites the marker it found stale; the tool removes it and
\* creates its own.
Reclaim(u) ==
  /\ pc[u] = "reclaim"
  /\ IF u \in Agents
       THEN marker' = None /\ Goto(u, "recreate")
       ELSE marker' = Mine(u) /\ Goto(u, "stage")
  /\ excused' = excused \cup {u}
  /\ UNCHANGED <<files, agentUp, ver, local, script, copied, rollback>>

\* The tool meets a marker again: it must not spin.
Conflict(u) ==
  /\ pc[u] = "recreate" /\ marker # None
  /\ Goto(u, "refused")
  /\ UNCHANGED <<files, marker, agentUp, ver, local, script, copied, rollback, excused>>

\* Ten minutes pass.
Age ==
  /\ marker # None /\ marker.fresh /\ ~AtWork(marker.by)
  /\ marker' = [marker EXCEPT !.fresh = FALSE]
  /\ UNCHANGED <<files, agentUp, pc, ver, local, script, copied, rollback, excused>>

\* The update ends and says so; the marker, whoever's it is by now, goes.
GiveUp(u) ==
  /\ Goto(u, "refused")
  /\ marker' = None

-----------------------------------------------------------------------------
(* summrise update                                                         *)

Command(u, v) ==
  /\ u \in Clis /\ pc[u] = "idle"
  /\ Goto(u, "channel")
  /\ ver' = [ver EXCEPT ![u] = v]
  /\ UNCHANGED <<files, marker, agentUp, local, script, copied, rollback, excused>>

\* What latestReleaseVersion may answer: either channel may be silent.
Latest ==
  {IF Npm > Site THEN Npm ELSE Site} \cup (IF Failing THEN {Site, Npm, None} ELSE {})

\* It refuses to deliver a release the channel has a newer one of its line for.
CheckChannel(u) ==
  /\ pc[u] = "channel"
  /\ \E latest \in Latest :
       Goto(u, IF latest # None /\ IsBehind(ver[u], latest) THEN "refused" ELSE "device")
  /\ UNCHANGED <<files, marker, agentUp, ver, local, script, copied, rollback, excused>>

\* updateWouldNotMove
CheckDevice(u) ==
  /\ pc[u] = "device"
  /\ Goto(u, IF release = ver[u] THEN "refused" ELSE "create")
  /\ UNCHANGED <<files, marker, agentUp, ver, local, script, copied, rollback, excused>>

Stage(u) ==
  /\ pc[u] = "stage"
  /\ staged' = ver[u]
  /\ Goto(u, "handoff")
  /\ UNCHANGED <<exe, release, pin, marker, agentUp, ver, local, script, copied,
                 rollback, excused>>

\* The tool sweeps what is staged when it fails, if it can; the command does not.
Leftover(u) == {staged} \cup (IF u \in Agents THEN {None} ELSE {})

\* A full disk, a locked file, perhaps after the executable has been staged; for
\* the tool also a failed download.
StageFails(u) ==
  /\ Failing /\ pc[u] = "stage"
  /\ GiveUp(u)
  /\ staged' \in Leftover(u) \cup {ver[u]}
  /\ UNCHANGED <<exe, release, pin, agentUp, ver, local, script, copied, rollback,
                 excused>>

Launched_Unlocks(u) == marker' = None
\* The script is to release the marker.
Launched(u) == UNCHANGED marker

\* An older release, run by a rollback, exits here.
Handoff(u) ==
  /\ pc[u] = "handoff" /\ script[u] = "none"
  /\ Launched(u)
  /\ Script(u, "begin")
  /\ \/ Goto(u, IF u \in Agents THEN "complete" ELSE "await")
     \/ Failing /\ u = Rollback /\ Goto(u, "complete")
  /\ UNCHANGED <<files, agentUp, ver, local, copied, rollback, excused>>

\* WMI refuses, or does not answer in twenty seconds and may have started the
\* script all the same.
HandoffFails(u) ==
  /\ Failing /\ pc[u] = "handoff"
  /\ GiveUp(u)
  /\ \/ UNCHANGED <<script, excused>>
     \/ u \notin Agents /\ Script(u, "begin") /\ excused' = excused \cup {u}
  /\ staged' \in Leftover(u)
  /\ UNCHANGED <<exe, release, pin, agentUp, ver, local, copied, rollback>>

\* awaitReleaseMarker reads the release that was to be installed.
Shows(u) == release = ver[u]

Await(u) ==
  /\ pc[u] = "await"
  /\ \/ Shows(u) /\ Goto(u, "complete")
     \/ Failing /\ ~Shows(u) /\ Goto(u, "unproven")
  /\ UNCHANGED <<files, marker, agentUp, ver, local, script, copied, rollback, excused>>

CliStep(u) ==
  \/ CheckChannel(u) \/ CheckDevice(u) \/ Create(u) \/ Exists(u) \/ Stat(u)
  \/ Reclaim(u) \/ Stage(u) \/ StageFails(u) \/ Handoff(u) \/ HandoffFails(u)
  \/ Await(u)

-----------------------------------------------------------------------------
(* agent_update                                                            *)

\* The tool reads the installed release, then asks the site.
Ask(u) ==
  /\ u \in Agents /\ pc[u] = "idle" /\ agentUp
  /\ local' = [local EXCEPT ![u] = release]
  /\ Goto(u, "channel")
  /\ UNCHANGED <<files, marker, agentUp, ver, script, copied, rollback, excused>>

PinBlocks(force) == ~force /\ pin # None /\ pin # Site

Newer(v, installed) == installed = None \/ v > installed

CheckPin(u) ==
  /\ u \in Agents /\ pc[u] = "channel"
  /\ \E force \in BOOLEAN :
       /\ pin' = IF force THEN None ELSE pin
       /\ Goto(u, IF PinBlocks(force) \/ ~(force \/ Newer(Site, local[u]))
                    THEN "refused" ELSE "create")
  /\ ver' = [ver EXCEPT ![u] = Site]
  /\ local' = [local EXCEPT ![u] = None]
  /\ UNCHANGED <<exe, release, staged, marker, agentUp, script, copied, rollback, excused>>

\* npm_release: a newer release of the registry is taken instead, unless the
\* registry cannot be read.
Offers == {IF Npm > Site THEN Npm ELSE Site} \cup (IF Failing THEN {Site} ELSE {})

Choose(u) ==
  /\ pc[u] = "choose"
  /\ \E v \in Offers : ver' = [ver EXCEPT ![u] = v]
  /\ Goto(u, "stage")
  /\ UNCHANGED <<files, marker, agentUp, local, script, copied, rollback, excused>>

AgentStep(u) ==
  \/ CheckPin(u) \/ Create(u) \/ Exists(u) \/ Stat(u) \/ Reclaim(u)
  \/ Conflict(u) \/ Choose(u) \/ Stage(u) \/ StageFails(u) \/ Handoff(u)
  \/ HandoffFails(u)

-----------------------------------------------------------------------------
(* The swap script                                                         *)

\* Whoever runs inside the agent ends with it.
AgentGone ==
  /\ agentUp' = FALSE
  /\ pc' = [u \in Updates |->
             IF u \in Agents /\ pc[u] \notin Ended \cup {"idle"} THEN "killed" ELSE pc[u]]

\* The boot task cannot be repointed, or the device is not on layout 2: the old
\* release keeps running.  The tool's script leaves the marker in the latter.
Abort(u) ==
  /\ Failing /\ script[u] = "begin"
  /\ Script(u, "none")
  /\ \/ marker' = None
     \/ u \in Agents /\ UNCHANGED marker
  /\ UNCHANGED <<files, agentUp, pc, ver, local, copied, rollback, excused>>

Stop(u) ==
  /\ script[u] = "begin"
  /\ Script(u, "copy")
  /\ AgentGone
  /\ UNCHANGED <<files, marker, ver, local, copied, rollback, excused>>

\* A running executable cannot be overwritten, and the task may have started it
\* again; a dozen tries decide.
Copy(u) ==
  /\ script[u] = "copy"
  /\ Script(u, "stamp")
  /\ \/ /\ ~agentUp /\ staged # None
        /\ exe' = staged
        /\ copied' = [copied EXCEPT ![u] = TRUE]
     \/ /\ Failing \/ agentUp \/ staged = None
        /\ UNCHANGED <<exe, copied>>
  /\ UNCHANGED <<staged, release, pin, marker, agentUp, pc, ver, local, rollback, excused>>

Stamps_Anyway(u) == TRUE
\* Only a proven copy is stamped.
Stamps(u) == copied[u]

\* The stamp itself may fail silently; what was staged goes either way.
Stamp(u) ==
  /\ script[u] = "stamp"
  /\ Script(u, "start")
  /\ \/ Stamps(u) /\ release' = ver[u]
     \/ (Failing \/ ~Stamps(u)) /\ UNCHANGED release
  /\ staged' = None
  /\ copied' = [copied EXCEPT ![u] = FALSE]
  /\ UNCHANGED <<exe, pin, marker, agentUp, pc, ver, local, rollback, excused>>

\* An agent that starts sweeps what it finds staged, if it can.
Starts ==
  /\ agentUp' = TRUE
  /\ staged' \in {staged} \cup (IF agentUp THEN {} ELSE {None})

StartTask(u) ==
  /\ script[u] = "start"
  /\ Script(u, "release")
  /\ Starts
  /\ UNCHANGED <<exe, release, pin, marker, pc, ver, local, copied, rollback, excused>>

Release(u) ==
  /\ script[u] = "release"
  /\ Script(u, "none")
  /\ marker' = None
  /\ UNCHANGED <<files, agentUp, pc, ver, local, copied, rollback, excused>>

ScriptStep(u) ==
  Abort(u) \/ Stop(u) \/ Copy(u) \/ Stamp(u) \/ StartTask(u) \/ Release(u)

\* The boot task starts the agent at boot and every five minutes.
TaskStarts ==
  /\ ~agentUp
  /\ Starts
  /\ UNCHANGED <<exe, release, pin, marker, pc, ver, local, script, copied, rollback,
                 excused>>

-----------------------------------------------------------------------------
(* summrise rollback                                                       *)

\* The release is on the channel and npm installed it: its own update is run.
Begin(v) ==
  /\ rollback = "idle" /\ pc[Rollback] = "idle"
  /\ rollback' = "updating"
  /\ ver' = [ver EXCEPT ![Rollback] = v]
  /\ Goto(Rollback, "channel")
  /\ UNCHANGED <<files, marker, agentUp, local, script, copied, excused>>

\* The update exits, with 0 or not; it is killed after two minutes.
UpdateExits ==
  /\ rollback = "updating"
  /\ \/ /\ pc[Rollback] \in Ended
        /\ rollback' = IF pc[Rollback] = "complete" THEN "checking" ELSE "failed"
        /\ UNCHANGED pc
     \/ /\ Failing /\ pc[Rollback] = "await"
        /\ rollback' = "failed"
        /\ Goto(Rollback, "killed")
  /\ UNCHANGED <<files, marker, agentUp, ver, local, script, copied, excused>>

Earned_Trusting == TRUE
\* Exit code 0 is the handoff: only the marker is evidence of the swap.
Earned == Shows(Rollback)

CheckMarker ==
  /\ rollback = "checking"
  /\ \/ Earned /\ rollback' = "pinning"
     \/ Failing /\ ~Earned /\ rollback' = "failed"
  /\ UNCHANGED <<files, marker, agentUp, pc, ver, local, script, copied, excused>>

WritePin ==
  /\ rollback = "pinning"
  /\ \/ pin' = ver[Rollback] /\ rollback' = "pinned"
     \/ Failing /\ rollback' = "failed" /\ UNCHANGED pin
  /\ UNCHANGED <<exe, staged, release, marker, agentUp, pc, ver, local, script, copied,
                 excused>>

RollbackStep == UpdateExits \/ CheckMarker \/ WritePin

\* summrise rollback --clear
Clear ==
  /\ pin # None
  /\ pin' = None
  /\ UNCHANGED <<exe, staged, release, marker, agentUp, pc, ver, local, script, copied,
                 rollback, excused>>

-----------------------------------------------------------------------------
(* Faults                                                                  *)

\* The agent crashes, a terminal takes its command with it, or the device
\* loses power.
AgentDies ==
  /\ agentUp
  /\ AgentGone
  /\ UNCHANGED <<files, marker, ver, local, script, copied, rollback, excused>>

CliDies(u) ==
  /\ u \notin Agents /\ pc[u] \notin Ended \cup {"idle"}
  /\ Goto(u, "killed")
  /\ UNCHANGED <<files, marker, agentUp, ver, local, script, copied, rollback, excused>>

PowerLoss ==
  /\ agentUp' = FALSE
  /\ pc' = [u \in Updates |-> IF pc[u] \in Ended \cup {"idle"} THEN pc[u] ELSE "killed"]
  /\ script' = [u \in Updates |-> "none"]
  /\ copied' = [u \in Updates |-> FALSE]
  /\ rollback' = IF rollback \in {"idle", "pinned"} THEN rollback ELSE "failed"
  /\ UNCHANGED <<files, marker, ver, local, excused>>

Fault ==
  /\ faults < MaxFaults
  /\ faults' = faults + 1
  /\ AgentDies \/ PowerLoss \/ \E u \in Updates : CliDies(u)

-----------------------------------------------------------------------------
Orderly ==
  /\ \/ \E u \in Updates :
          \/ \E v \in Releases : Command(u, v)
          \/ Ask(u) \/ CliStep(u) \/ AgentStep(u) \/ ScriptStep(u)
     \/ \E v \in Releases : Begin(v)
     \/ RollbackStep \/ Clear \/ TaskStarts \/ Age
  /\ UNCHANGED faults

Overlap == \E u, w \in Updates : u # w /\ AtWork(u) /\ AtWork(w)

\* What the histories remember.
Observe ==
  /\ overlapped' = (overlapped \/ Overlap')
  /\ proven' = IF rollback = "idle" THEN {}
               ELSE IF release' # release THEN proven \cup {release'} ELSE proven

Next == (Orderly \/ Fault) /\ Observe

Spec == Init /\ [][Next]_vars

Unbroken(A) == A /\ UNCHANGED faults /\ Observe

\* Processes that run are scheduled, and so is the boot task.
Fairness ==
  /\ WF_vars(Unbroken(RollbackStep))
  /\ WF_vars(Unbroken(TaskStarts))
  /\ \A u \in Updates : WF_vars(Unbroken(CliStep(u) \/ AgentStep(u)))
                        /\ WF_vars(Unbroken(ScriptStep(u)))

FairSpec == Spec /\ Fairness

-----------------------------------------------------------------------------
(* Properties                                                              *)

\* Two updates are at work at once only if one of them took over a marker it
\* found stale, or gave up a handoff that had worked
\* (summrise.ts:2946-2954, tools.rs:635-640).
OneUpdateAtATime == overlapped => excused # {}

\* The release marker is earned: unless updates have overlapped, it only ever
\* becomes the release whose executable is in place (summrise.ts:1344-1362).
ReleaseIsEarned ==
  [][release' # release => release' = exe \/ overlapped]_vars

\* The pin is earned: it names a release that was stamped on this device since
\* the rollback began, even when the update it ran says no more than that it
\* handed over.
PinIsEarned ==
  [][pin' # pin /\ pin' # None => pin' \in proven]_vars

\* A rollback to another release runs that release's own swap, if nothing fails
\* and no other update is at work (summrise.ts:3375-3376).
RollbackSwaps ==
  rollback = "updating" /\ pc[Rollback] = "channel" /\ ver[Rollback] # release
    ~> script[Rollback] # "none"
=============================================================================
