# Vale: a TLA+ development

This directory specifies the parts of Vale whose correctness depends on order:
concurrent calls, an operator who answers late, processes that die in the
middle of a write, answers that arrive after the state they describe is gone.
TLC checks every module on small instances; TLAPS proves the results that
matter most for every instance. `PROJECT.json` is the index: components, runs,
the source lines behind every definition, findings, hazards and theorems.

Paths below are relative to the repository's `src/`-level directories
(`agent/`, `gateway/`, `relay/`); `PROJECT.json` writes the same paths with
`src/` in front.

    tlasany ApprovalGate.tla
    tlc -config MCApprovalGate_safety.cfg MCApprovalGate
    tlapm ApprovalGateProofs.tla


## 1. The system

Vale lets an AI client work on a person's machines. An **agent** (Rust) on the
machine offers tools over MCP and a local panel; the most important of them runs
commands in terminal sessions that a person can watch, take over, and gate with
approvals. A **gateway** (TypeScript on Workers) authenticates people, proxies
calls to their devices and translates model requests to upstream channels. A
**relay** hands out one-time downloads. Around them: an Electron shell, an npm
command line, an index page and egress proxies.

| Part | State it keeps | Operations | Modelled in |
|---|---|---|---|
| Approval gate and execute lock (`agent/src/tools/terminal/mod.rs`, `plugins/terminal/tools/exec.rs`) | per session: busy flag, keyboard holder, armed flag, one pending question, grants, permits | acquire, check, ask, poll, park, permit, write, finish, release; cancel, hang-up; arm, disarm, decide, revoke, hand over the keyboard, close | `ApprovalGate`, `OneShotApproval` |
| Commands in a session (`exec.rs`) | the shell's input and end markers, the row's exit code, job records | settle, write, wait for marker, quiet or deadline, watch, record, close | `ExecuteWait` |
| Other terminal I/O (`pty.rs`, `ssh.rs`, `serial.rs`, sessions, connections, secrets) | session table, buffers, saved connections | open, evict, sweep, save | not modelled but for closing |
| Run journal (`agent/src/runstate.rs`, `atomic.rs`) | `run-state.txt` and its temp file | begin, heartbeat, stop mark | `RunJournal` |
| Boot history (`agent/src/runstate.rs`, `jsonl.rs`) | `boot-history.jsonl` | record, prune | `BootHistory` |
| Device updates (`agent/src/plugins/update/tools.rs`, `agent/summrise-agent-npm/src/summrise.ts`) | installed and staged executable, release marker, rollback pin, busy marker | update, agent_update, rollback, swap script, boot task | `Update` |
| Desktop shell (`agent/summrise-desktop-electron/src/main.ts`) | window, retries, watchdog, tray | load, retry, probe, poll, start the agent | `DesktopShell` |
| Runs log, session log, memory store, transfer, tunnel, relay client, monitor | JSONL files, connections, series | append, trim, upload, reconnect, sample | not modelled |
| Circuit breaker (`gateway/src/reliability.ts`) | one Durable Object's counters, one cached check per isolate | trip, reset, check | `Breaker` |
| Upstream retry (`gateway/src/reliability.ts`, `plugins/translate.ts`) | one call's loop | attempt, judge, retry, relay | `FetchRetry` |
| Rate limiter (`gateway/src/lib/ratelimit.ts`) | counters per isolate, a KV count | hit, first sight, evict | `RateLimiter` |
| Accounts, KV cache and key locks (`gateway/src/store/users.ts`, `cache.ts`) | record and token mappings in KV, caches and promise chains per isolate | enable, disable, regenerate, rotate, revoke; look up; expire, evict | `Accounts` |
| Standing choice of a model (`gateway/src/route-do.ts`, `users.ts`) | the object's record, the old KV key | read and migrate, choose, clear | `UserRoute` |
| Other gateway stores, sessions, device proxy, MCP endpoint, translation | users' devices, keys, grants, cookies | read-modify-write of one key, forward, convert | not modelled |
| Relay (`relay/src/claim.js`, `index.js`) | one-time files | upload, claim, expire | `TempClaim` |
| Panel, console, index page, egress proxies | display state | render, forward | not modelled |

### How the parts interact

A client's `terminal_execute` reaches the agent over MCP (where the client may
cancel it) or over the panel's HTTP route (where the connection may close). It
queues for the session's busy flag, looks at the approval mode, and, if the mode
is armed, asks the operator and polls for the answer. The operator answers
through other HTTP handlers, which take the same manager mutex but share nothing
else with the waiting call. Every manager method is one critical section;
everything between two of them can interleave. `ApprovalGate` is the call up to
its write and from its end on, `ExecuteWait` is the call from the lock to the
answer with the shell in it; the busy flag is in both.

A gateway request is counted by its address, asks the breaker (through a
five-second cache of its isolate), then calls upstream through `fetchWithRetry`,
and reports a hard failure or a success back to the breaker. `FetchRetry`
produces the reports that `Breaker` consumes; the two share only that report,
and `BreakerHearsTheLastAttempt` is the contract between them.

At a start the agent reads its run journal, judges how the run before it ended,
claims the journal, and appends the verdict to the boot history. From then on
the heartbeat task and the HTTP handler of the operator's stop mark save the
journal from different threads. An update stages an executable and leaves the
swap to a script that outlives it; the command line, the agent's own tool and
rollback (which runs an update) are kept apart by a marker file with an age. The
desktop shell sees the agent go away for the length of a swap and must tell that
from a crash.

### What is hard about it

`PROJECT.json` lists the hazards line by line. In short:

- answers that cross a deadline (approval against its wait, a check of the
  breaker against a trip, an end marker against the next command), and retries
  that carry an id from before;
- a future dropped anywhere (MCP cancellation, HTTP disconnect) between taking
  something and giving it back;
- two savers of one file through one temp name, two updaters of one executable,
  and a kill or a power cut at any of their steps;
- counting windows: what is forgotten when a window ends, and what is not;
- reads and writes separated by awaits in the gateway: cache fills that race
  writes, counts that overwrite each other, a copy moved between two stores
  while one of them goes away, requests that take effect and are answered as
  failed.

### What correctness means, part by part

- Approval gate: nothing runs past an armed gate without the operator's yes to
  that command; one yes runs one thing; a yes that landed is worth something;
  the session has one user at a time and never stays taken by nobody; every call
  is answered.
- Commands: "done" is the end of this command, the session's row tells of the
  last one, a job's record is closed.
- Journal: a start never invents a clean exit or a first run, and tells a host's
  restart from a crash. Boot history: bounded, and loses only its oldest
  records, whatever crashes.
- Update: one at a time; what the files claim has happened.
- Desktop shell: the wait page is not a dead end, and a swap is left alone.
- Breaker: opens on repeated failures, never on one; a dead channel cannot stay
  ahead of it; it closes by itself; caches do not lie about their age. Retry:
  what may have been billed is not sent again. Limiter: nobody is refused early.
- Accounts: no update is lost, the tokens are those of the record, caches catch
  up. Standing choice: a copy of it survives every
  failure and every move. Relay: a file is had once.


## 2. The modules

In every module a definition named `X_Y` is `X` with one plausible mistake in
it. No specification uses it; putting it in the place of `X` breaks the property
that `PROJECT.json` names under `mutants`, which shows that the property depends
on what the code does there.

### ApprovalGate

One session, any number of `terminal_execute` calls, one operator.

| Variable | Code |
|---|---|
| `open`, `busy`, `held`, `armed`, `pending`, `grants`, `permits` | fields of `Session` (`tools/terminal/mod.rs`) |
| `pc` | where a call's future stands in `tool_execute`; one station between two critical sections |
| `command`, `presents` | the call's parameters `command` and `approval_id` |
| `auth`, `said` | history: what let a call through, what the operator answered |

| Actions | Code |
|---|---|
| `Issue`, `Acquire`, `AcquireFails`, `CheckGate` | `tool_execute`, `term_acquire_execute`, `term_approval_required` |
| `ConsumePermit`, `NoPermit` | `term_consume_permit` |
| `GrantedWithoutAsking`, `CannotAsk`, `Register` | `term_await_approval`, first critical section |
| `PollAnswered`, `PollDeadline`, `Granted`, `Denied`, `Park` | its polling loop and its last critical section |
| `Write`, `WriteFails`, `Finish`, `WatcherEnds`, `Release` | the rest of `tool_execute`, its background watcher, `term_release_execute` |
| `Cancel`, `CancelReleases` | `notifications/cancelled` in `mcp/server.rs` |
| `HangUp` | the panel's tool route in `web/mod.rs`, dropped |
| `SetControl`, `Arm`, `Disarm`, `Decide`, `DecideTooLate`, `Revoke` | the operator's routes and the manager methods behind them |
| `Expire`, `Close` | `APPROVAL_TTL_MS`; `term_close`, the sweeper, the session cap |

Abstractions. An approval id is unique per call, so the call stands for it. A
command is a model value, and `GrantOf` is `grant_for`: the word a standing
grant would consist of, or none for a command that is not simple. Deadlines are
choices: a poll that finds nothing may be the last one. The one fact about
durations that is kept is that a question outlives its waiter (the TTL is
fifteen times the wait). What a command does to the shell, and how its end is
recognised, is left to `ExecuteWait`.

`Cancellable` and `Droppable` say which calls can be cut short, and so separate
what the code guarantees from what it does not (section 3).

### OneShotApproval

The abstract promise about one question: put once, approved once, used once,
and, once closed, closed for ever; a new question may take the place of an old
one in the same step. `ApprovalGate!PhaseOf` reads the phase of a question off
the session and the calls, and `ImplementsOneShot` says the gate refines it.

### Breaker

The Durable Object handles one request at a time, so `/trip`, `/reset` and
`/check` are atomic; the worker's side is split at every await (`SendCheck`,
`HandleCheck`, `CheckReturns`; `HandleTrip`, `TripReturns`). Any report or answer
may be lost (`CheckFails`, `ReportFails`). Time is kept as ages that stop growing
at the limit the code compares them with, so the state space is finite without a
bound on the clock. History: ages of the last three failures, the run of
failures in a row, and how long ago the circuit was last open and last closed.

`/clear` has no caller and is left out. The fault `"error"` (the object answers
500) is in the model and in no run: such an answer is cached as "closed", so
`CacheIsRecent` is stated of checks that are answered or lost.

### FetchRetry

One call of `fetchWithRetry` under every policy, with an upstream that may
answer anew at every attempt, and what `relayUpstreamResult` tells the breaker.
A response is the class the code tells it apart by. Waiting times are left out.

### RunJournal

The journal at file-system level: a table of files, the two names that point
into it, and the handles of three savers, each save being create (truncate),
write, rename. A handle keeps writing to the file it opened, whatever became of
its name. `Kill` and `HostRestarts` may come between any two steps; a failed
step removes the temp file, whoever made it. A record keeps what `classify`
compares.

Not modelled: a power cut that loses data the code has synced, and a read of the
journal that the operating system refuses.

### BootHistory

The file as a sequence of lines and a flag for a missing last newline. A crash
inside a write leaves a fragment, or the whole text without its newline.
`Records` is what every reader makes of the file, the lines that parse in their
order, written with positions (`RecordsAt`, `Nth`). `MaxBoots` bounds the
instance.

### Update

| Variables | Code |
|---|---|
| `exe`, `staged`, `release`, `pin` | `summrise-agent.exe`, `summrise-agent.new.exe`, `etc\.summrise-release`, `etc\.rollback-pin` |
| `marker` | `update-busy`: who wrote it, and whether it is under ten minutes old |
| `agentUp` | the agent runs and locks its executable |
| `pc`, `ver`, `local` | each updating process: `summrise update`, `agent_update`, the update a rollback runs |
| `script`, `copied` | the swap script each hands to WMI, and its `$ok` |
| `rollback` | where `summrise rollback` stands |
| `excused`, `overlapped`, `proven` | history: stale markers taken and handoffs given up; two updates at work at once; releases stamped since the rollback began |

`Command` to `Await` are the command line's `update` in the order of the code,
`Ask` to `Choose` the agent's tool, `Create`, `Exists`, `Stat`, `Reclaim`,
`Conflict` the marker protocol both share, `Stop` to `Release` the script,
`Begin` to `WritePin` the rollback. An agent that starts sweeps what it finds
staged (`Starts`), and a failed tool its own (`Leftover`); either sweep may
fail. With `Failing`, each step the code guards with a check or a `try` may
fail; `AgentDies`, `CliDies` and `PowerLoss` may come at any point, `MaxFaults`
of them in all. Copying the executable is one step, and an update at work is
taken to be done within the ten minutes after which a marker counts as stale: a
slower one is a case of its own (section 3, Observed).

### ExecuteWait

The shell is a queue of lines still to be ended and the sequence of end markers
put out, each with the call whose line it ends; the code sees the markers and not
whose they are, and no guard looks. A call settles the shell, writes, clears the
row's exit code and reads markers until one is confirmed, the shell is quiet or
the deadline passes; a background call leaves a watcher. `marks` is whether the
shell was injected with 633 markers. Time is left out: quiet periods, confirm
windows and deadlines may run out whenever what is there has been read. `alone`
and `late` are history: whether an earlier line was left in the shell, and
whether markers lie between the write and the watcher's cursor; `latest` is the
command that was the last to begin, which the row should be about. The gate
between lock and write is `ApprovalGate`; cancelled calls, a person typing into
the session and the old prompt markers of a shell without 633 markers are left
out.

### DesktopShell

`loadDesktop` with its probe and backoff (`NextRetry`), `did-fail-load`
(`LoadFails`), the tray's poll (`TrayPoll`) and the watchdog that starts the
agent (`StartsAgent`), against an agent that falls and rises. Time is counted in
ticks and what is due happens before the next one. `downFor` and `owed` are
history: how long the agent has been down, counted at every fall, and what
counted against it when it fell (misses already counted, probes under way,
retries due within the time of an update).

### RateLimiter

One address in one window over several isolates. The first sight of a seeded
limiter is split at its two awaits (`Begin`, `Seed`, `SeedReturns`, `Store`);
everything else is one step (`Hit`). A failed read of KV counts as zero and a
stale one as any earlier count.

### Accounts

One account in KV with the token mappings that name its user, the per-isolate
cache in front of them (`users`, `tokens`), and the promise chain of
`withKeyLock` (`tail`, `before`). Writers are split at every await: `Issue`,
`Read`, `Unmap`, `PutRecord`, `PutToken`, `Settle` (the write-through), `Sweep`;
`Fails` is a request to KV that fails or that takes effect and is not answered,
the read included, after which the next in the chain goes on.
`Leaves` prunes the chain, `Forget` is its eviction at the bound of 512 keys.
Readers (`FindUser`, `FillToken`, `FillUser`) fill the cache from what they read
before a write. KV is one strongly consistent store, which it is not: what goes
wrong here goes wrong with the real one too.

### UserRoute

`getUserRoute` with its migration (read object, read KV, write object, drop KV)
and `setUserRoute` with its fallback, split at every await. The object may go
out of reach between any two steps, any request to it may be answered with an
error, and a write may take effect and be answered as failed. `found` and
`excused` are history: which readers the object has answered, and whether one of
the two things has happened in which the code does drop the last copy
(`SomeCopySurvives`; section 3, Observed).

### TempClaim

Both uploads with their size checks, and the claim split at its `get` and
`delete`, either of which may fail or take effect unanswered. `Serial` is the
Durable Object's handling of one claim at a time, which the code relies on.


## 3. What the runs show

| Run | Module | Instance | Result |
|---|---|---|---|
| `gate_safety` | `MCApprovalGate` | 2 calls, both cancellable and droppable; 3 commands, of which two share a first word and one cannot be granted | `TypeOK`, `Authorised`, `ImplementsOneShot` hold: whatever is cut short, the gate is not passed without a yes |
| `gate_lock` | `MCApprovalGate` | 3 calls left to run, 1 command | `OneRunPerYes`, `ExclusiveLock`, `BusyHasOwner`, `QuestionHasWaiter` hold |
| `device_live` | `MCDeviceLive` | gate: 2 calls, one cancellable; execute: 4 calls, 2 in the background, one of two lines; shell: ticks of 4 s, 2 loads, 2 falls; fair | `EveryCallAnswered`, `LockIsReturned`; `RowIsCurrent`, `DoneIsItsOwn`, `JobsClose`; `WaitPageIsAlive`, `SwapIsLeftAlone`, `WindowRecovers` hold |
| `device_files` | `MCDeviceFiles` | update: one updater of each kind, 2 releases, failures and one fault; journal: 5 files, saves may fail; history: 2 records, 6 starts | `OneUpdateAtATime`, `ReleaseIsEarned`, `PinIsEarned`; `NoInventedExit`, `FirstRunIsFirst`, `HostRestartIsSeen`; `KeepsTheNewest` hold |
| `gateway_requests` | `MCGatewayRequests` | breaker: 2 requests, checks and reports lost, fair clock; retry: every policy up to 4 attempts; limiter: 4 requests, 2 isolates, a budget of 2 | `StreakOpens`, `OpensOnRepeatedFailure`, `CacheIsRecent`, `ClosesAgain`; `BilledAtMostOnce`, `BreakerHearsTheLastAttempt`; `NoEarlyRefusal`, `OneBudgetPerSight` hold |
| `stores` | `MCStores` | account: 2 operations of any kind but enabling, 1 reader, 1 isolate; choice: 2 readers, 1 writer; file: 3 claims | `NoLostUpdate`, `TokensAreTheRecords`, `CachesCatchUp`; `SomeCopySurvives` (but for the two cases it names); `DownloadedOnce`, `GoneForAReason`, `StoredFits` hold |
| `gate_lost_yes` | `MCApprovalGate` | 2 calls left to run | `YesIsUsable` fails |
| `gate_cancel_lock` | `MCApprovalGate` | 3 calls, one cancellable | `ExclusiveLock` fails |
| `job_forever` | `MCExecuteWait` | 1 background call | `NoJobOutlivesItsSession` fails |
| `update_rollback` | `MCUpdate` | 1 rollback, no failures; fair | `RollbackSwaps` fails |
| `route_outage` | `MCUserRoute` | 1 writer | `ChoiceSurvives` fails |
| `accounts_hot` | `MCAccounts` | 1 operation, 1 reader, 1 isolate | `HotIsolateIsCurrent` fails |

`MCDeviceLive`, `MCDeviceFiles`, `MCGatewayRequests` and `MCStores` each check
three components that share no state. They are not products: an initial state
picks the component that moves (`part`), the others rest in an initial state.
The state space is the sum of the three, and every property is the component's
own, fairness included.

`PartsTypeOK` joins the types of a sum's parts. `ExecuteWait!TypeOK` is not in a
run, and neither is `DesktopShell!TypeOK`; `DeviceLiveProofs` proves both
(`RunTyped`, `ShellTyped`).

### The bounds, and why they are enough

- Two calls show every pair of them in the gate; three are needed where a third
  party matters: a permit spent by two later calls, and a cancelled call that
  frees the lock of a second one for a third. Three commands are the three ways
  commands can relate: same first word, no common grant, not grantable. The
  proofs of section 4 remove these bounds.
- Four commands in one session are two foreground and two background ones in
  any order, with markers of a two-line command left behind for others.
- One updater of each kind is enough for every pair; a third one that takes over
  a marker is the rollback's. `Apart` stops a behaviour at the first overlap:
  `ReleaseIsEarned` says nothing of what comes after it, and what it would hide
  of `PinIsEarned` is covered by the theorem `PinEarned`, which has no such bound.
- Five files are the journal's two names and three open handles. Ages are told
  apart up to one tick past `REPLACED_WITHIN_SECS`. Six starts against two kept
  records: the history overflows repeatedly, with torn headers and torn records.
- The shell's ticks keep the order of its intervals: retries of 4, 8, 16 and 28
  seconds, a poll of 28, a swap of at most 12, five misses.
- The breaker's durations are 1, 2, 3 and 6 ticks for 5, 45, 60 and 600 seconds.
  `DurationsAssumption` states what the code relies on: their order, and that the
  window is longer than the other two together. Two requests of one isolate
  stand for requests of others too: a report whose answer is lost changes the
  object and leaves the cache alone, which is all that a foreign isolate can do.
- Four attempts are the longest policy apart from the lottery's ten, which
  differs in its pacing only. Four requests on two isolates overrun a budget of
  two on either.
- Two operations and a reader on one isolate are every race of the queue and the
  cache. A second isolate would disable `OneQueue`, which the two lost-update
  properties ask for (two isolates do lose updates: section 3, Observed). For
  `CachesCatchUp` the run shows the isolate that writes; another one hears of no
  write, so its cache catches up by its entries running out alone, the same step
  as here, and that it does so is an argument, not a run. Three
  claims are two that race and one that finds what they left. Enabling a user
  differs from disabling one in the value it writes only; `accounts_hot` has both.

### Fairness

The gate assumes that the runtime keeps polling calls (`WF` of each call's own
steps), since every wait of a call is bounded by a deadline of its own. Nothing
is assumed of clients, of the operator, or of background commands, which may run
for ever; `LockIsReturned` names them as the only ones that may keep the lock.
`ExecuteWait` assumes that a spawned watcher, which polls every 50 ms, is polled;
nothing is asked of the shell. `DesktopShell` assumes that timers fire, probes
and loads come back (they have time-outs) and, because reloads may push a tick
away without end, strong fairness of the clock. `Breaker` assumes only that the
clock goes on; requests may stop, hang or fail for ever. `ClosesAgain` excepts
checks that fail for ever, because a failed check lets its request through.
`Accounts` assumes that cached entries run out. `Update` assumes, for
`update_rollback` only, that running processes are scheduled.

### Findings

Each is a run whose counterexample follows the code, against a comment of the
repository that `PROJECT.json` quotes.

1. **A yes can be lost** (`gate_lost_yes`). Between the waiter's last poll and
   its park the mutex is free. A yes that lands there is recorded as a waiter's
   answer, the request is then parked without looking at it, no permit is
   minted, and the call that comes back with the id finds nothing to spend.
2. **Cancelling a queued call frees somebody else's lock** (`gate_cancel_lock`).
3. **A background job can say "running" for ever** (`job_forever`). In a shell
   without markers the watcher leaves its loop after a quiet period, gives the
   lock back and never touches the record again.
4. **A rollback within the release line is refused** (`update_rollback`): the
   update it runs will not deliver what the channel has a newer release for, so
   the swap the rollback is for never comes to its script.
5. **A choice that the object did not take is shadowed** (`route_outage`): if the
   object was away, or answered with an error, the choice is in the KV key, and
   the object's older choice hides it.
6. **A late cache fill undoes the write-through** (`accounts_hot`): the isolate
   that disabled a user may go on serving the enabled record until it expires.

### Observed

Further differences between code and comments, or limits of a property, that no
run carries.

Gate and commands:

- Cancelling a call that waits for the operator leaves its question registered
  with nobody waiting (`mcp/server.rs:120`). Later gated calls of the session are
  refused as busy, and not only for the question's time to live: the refusal does
  not look at it (`mod.rs:1678`). The operator's answer ends it while the panel
  shows the question; afterwards an answer that comes too late, which sweeps it,
  or the end of the session.
- A panel connection that closes drops its call's future and leaves the session
  busy (`web/mod.rs:1725`); `BusyHasOwner` fails as soon as `Droppable` is not
  empty.
- The mode is read in one critical section and the question registered in
  another: a disarm in between is not seen, and the question, a grant made of it
  and permits survive in a session that is not armed (`mod.rs:1693`, `1323`).
- The gate may be passed up to twelve seconds before the write
  (`exec.rs:1035`); arming it or taking the keyboard in between changes nothing.
- A late end marker of a timed-out command, or the second line of a multi-line
  command, makes the next call answer "done" for another command's end; a
  multi-line command is itself answered "done" after its first line
  (against the tool's description, `exec.rs:687`). This is why `DoneIsItsOwn`
  speaks of a command that found the shell at rest. The row's exit code goes the
  same way, and `RowIsCurrent` has the same condition: the end of a line that was
  left behind is noted as the next command's.
- The watcher's cursor is taken after the write (`exec.rs:1073`): a quick
  command's marker behind it is never seen, and in a shell with markers lock and
  job stay taken until the session closes (against `1064-1069`).
- Unfinished job records are never pruned; the map's cap of 64 is soft.

Journal, history, updates:

- The heartbeat saves what it loaded and so erases the operator's stop mark
  (`runstate.rs:639`, against `303-304`); heartbeat and mark share
  `run-state.txt.tmp`, and one can rename the file the other has just truncated.
- A journal that exists and cannot be read is taken for a first run
  (`runstate.rs:323`, against 598).
- A healthy boot history is rewritten at every start, because the header is not a
  record (`runstate.rs:522`, against 520-521). Harmless, since it is atomic.
- Two updaters that find one stale marker can both take it over, although "two
  racing updaters cannot both pass" (`summrise.ts:2947-2949`); a handoff that
  times out releases the marker while its script runs; a Rust-side gate failure
  keeps the marker for ten minutes; setup removes it unconditionally.
- A rollback waits 120 s and then reports a failure of an update that may still
  succeed; between its swap and its pin the agent's updater may undo it; the npm
  registry may raise a version after the pin was checked (`tools.rs:1055`); a
  power cut between copy and stamp leaves an executable the marker does not name.
- The boot task may start the agent between the script's stop and its copy: the
  copy fails on the locked executable, and the agent's boot sweep deletes what
  was staged (`winmain.rs:299`). The update is over and nothing is stamped.

Desktop shell:

- The watchdog's guard stays set after a loop that ended on an answer, so an
  agent that falls again before a tray poll sees it running is not watched
  (`main.ts:1133-1145`).
- The miss count is reset by an answered probe only. An agent that was away for
  four probes, comes back between two of them and then stops for an update is
  started at the first probe that misses, in the middle of the swap, which "no
  race with the sanctioned updater" rules out (`main.ts:966-975`). Two misses
  that count against a fall can be enough, with a third from the tray's loop and
  two retries; one never is (`SwapIsLeftAlone`, `UpdateLeftAlone`).
- The navigation tripwire ignores a second stray navigation within two seconds;
  the menu queue is flushed by the wait page's load as well; `embeddedRecover`
  never shows its view again; browser ids may collide.

Gateway and relay:

- `succ` counts successes that are not consecutive, so failures that alternate
  with successes are forgotten (`reliability.ts:365`, against 359-364).
- Once the window has passed since the first failure, a half-open probe that
  fails does not open the circuit again (`reliability.ts:328`, against 341-347).
- A check in flight can put "closed" back into the cache that a failure report of
  the same isolate has just dropped (`reliability.ts:430`, against 441-442). A
  check the object answers with 500 is cached as "closed"; `CacheIsRecent` is
  stated without that fault.
- If an attempt throws after one whose 2xx the inspection rejected, the rejected
  response is handed back (`reliability.ts:208`, against 45-46). No caller passes
  `inspect` today.
- A seeded KV count only holds each isolate's first request, so a new isolate
  does not inherit the budget (`ratelimit.ts:6-9`).
- Chains are per isolate: two isolates that write one account lose a field.
  Evicting a pending chain loses its queue (`cache.ts:104-108` accepts that). A
  regenerate that fails between its delete and its put leaves a dead token. A
  stale token mapping still resolves to the user (`users.ts:149`). The invite
  and `regclaim` checks are check-then-act.
- The migration drops the only copy of a choice although it is guarded against
  that (`users.ts:355-356`), in the two cases that `SomeCopySurvives` names. One
  reader is enough for the first: the object answers its GET and then not its PUT
  (an error, or it goes away); `setUserRoute` falls back to the KV key, where the
  choice already is, and the next line deletes it. In the second the object is
  away when a user chooses: the choice goes to KV while a reader, whose own copy
  has been moved and then cleared, is on its way to delete the key.
- A migration overwrites a choice made since its GET; clearing a choice leaves
  an old KV copy, which the next read brings back.
- Without one-at-a-time handling the relay's claim serves a file twice
  (`claim.js:12-19` says what it relies on).


## 4. What is proved

Every theorem holds for every value of the constants that meets its assumptions;
the assumptions are named in the module that declares the constants. Where a run
checks a component as a part of a sum, the sum's module repeats the property
under the same name (`BilledAtMostOnce == Upstream!BilledAtMostOnce`); the
theorem then speaks of the component's own specification (`Upstream!Spec`).

Every invariant and every action property of the passing runs is proved, and so
is the one refinement; what TLC alone answers for is at the end of this section.

| Theorem | Statement | Assumes | What makes it inductive |
|---|---|---|---|
| **ApprovalGateProofs** | | names outside their sets | |
| `TypeCorrect` | `[]TypeOK` | | itself |
| `GateHolds` | `[]Authorised` | | `GateInv`: the pending question carries the asker's command and an answer that was given, a permit pairs a yes with the command shown, a grant comes from an "always" |
| `OneYesOneRun` | `[]OneRunPerYes` | | `OnceInv`: a yes is in one place, question, permit or call |
| `GateIsOneShot` | `ImplementsOneShot` | | `OnceInv` and `AskedInv`: who has a question or a permit has not been let through, and a granted call's question says yes |
| `LockExcludes` | `[]ExclusiveLock` | `Cancellable = {}` | `LockInv`: an owner in an open session implies the busy flag; nobody is about to release for a cancelled call |
| `BusyIsOwned` | `[]BusyHasOwner` | `Droppable = {}` | `BusyHasOwner` with where each owner stands |
| `QuestionsAreWaitedFor` | `[]QuestionHasWaiter` | `Cancellable = Droppable = {}` | an unparked question's call polls or is about to park |
| **UpdateProofs** | | the module's | |
| `OneAtATime` | `[]OneUpdateAtATime` | | `MarkerInv`: a script runs for an update that handed over; who works without excuse holds a fresh marker of its own |
| `ReleaseEarned` | `ReleaseIsEarned` | | `SwapInv`: before an overlap the staged executable is the worker's, and a script about to stamp has copied |
| `PinEarned` | `PinIsEarned` | | `PinInv`: a rollback that reads its target off the marker reads a release stamped since it began |
| **DeviceFilesProofs** | | the modules' | |
| `StopWasAskedFor` | `NoInventedExit` | | `NamesInv`, `MarkInv`: the journal is open to nobody but its owner, and a mark in it, in the temp file or in a save under way is the one that was asked for |
| `JournalIsNeverLost` | `FirstRunIsFirst` | | `NamesInv`: a run that ended left a journal, under its own name and no other |
| `HostRestartIsReported` | `HostRestartIsSeen` | | `HostInv`: until its next owner's first save, the journal keeps that the host went down |
| `NewestAreKept` | `[]KeepsTheNewest` | | `HistoryInv`: no line is torn once the start has readied the file, and the start is one that was counted |
| `PartsTyped` | `[]PartsTypeOK` | | itself, part by part |
| **GatewayRequestsProofs** | | the modules' | |
| `BilledOnce` | `[]BilledAtMostOnce` | | `BillInv`: all requests but the last are unbilled, and the last as well when another is about to go |
| `BreakerHears` | `[]BreakerHearsTheLastAttempt` | | `HearInv`: what is returned and recorded speaks of the last attempt |
| `BudgetIsHad` | `[]NoEarlyRefusal` | | `RefusalInv`: as far as the limit, every count of the key (an isolate's, KV's, one on its way) is backed by requests let through |
| `BudgetPerSight` | `[]OneBudgetPerSight` | | `BudgetInv`: an isolate that counts has a budget's worth left over from its last sight, less what it has counted |
| `PartsTyped` | `[]PartsTypeOK` | `BreakerProofs!Assumptions` | `CountsInv`: no count exceeds the number of requests decided |
| **BreakerProofs** | | the durations' order | |
| `CacheHonest` | `[]CacheIsRecent` | `"error"` not in `CheckFaults` | `RecentInv`: an answer on its way is as recent as the entry it will become |
| `OpensOnRepeat` | `OpensOnRepeatedFailure` | | `CountInv`: while there is a record, the newest failure is no older than its anchor |
| `DeadChannelIsCut` | `[]StreakOpens` | | `StreakInv`: each of the last failures in a row is covered, by a circuit open until it will be `Degrade` old or by a record that counts it |
| **DeviceLiveProofs** | | the modules' | |
| `RowCurrent` | `[]RowIsCurrent` | | `RunLock`: one holder of the lock, and a call that has not read knows no marker; `EndsOwn` of the next row; `RowInv`: whoever may note an end is the last to have begun |
| `DoneOwn` | `[]DoneIsItsOwn` | | `EndsOwn`: in a shell found at rest everything queued or unread is the call's own; `EndsOnce`: a one-line command is ended once |
| `WaitPageAlive` | `[]WaitPageIsAlive` | | itself, with the types |
| `UpdateLeftAlone` | `SwapIsLeftAlone` | `Misses >= 5`; `Cap >= 6`, `Swap <= 3` of the module | `SwapInv`: while an update may be at work, and less than two misses counted against it when it began, the misses there have been and those that probes, retries due in time, the tray and coming draws may still add are four at most |
| **StoresProofs** | | the modules' | |
| `ServedOnce`, `GoneWithReason` | `[]DownloadedOnce`, `[]GoneForAReason` | the modules'; `Serial` is in the property | `ClaimInv`: handled one at a time, a claim under way has the file in the store, and a taken file is not |
| `FileFits` | `[]StoredFits` | | itself |
| `CopySurvives` | `[]SomeCopySurvives` | | `MovingInv`, `DropInv`: as long as neither exception has happened, a reader about to drop the key leaves a copy in the object, or a clear stands or is on its way |
| `PartsTyped` | `[]PartsTypeOK` | `AccountsProofs!Assumptions` | `ChainInv`: the end of a queue is an operation under way |
| **AccountsProofs** | | names outside their sets | |
| `UpdatesKept` | `[]NoLostUpdate` | | `QueueInv`: the operations under way can be numbered in the order of the queue, so one at most has its turn; `RecordInv`: its draft is the record |
| `TokensFollow` | `[]TokensAreTheRecords` | | `TokenInv`: which token is missing from the mapping at each stage of the one in the section, and that a token drawn is nobody else's |

Some of the arguments deserve a word.

*The queue.* That two operations are never in the section at once is not
inductive by itself, since each only knows the one it queued behind. `QueueInv`
says that a numbering exists in which the one with its turn comes first, every
other one's predecessor is next below it, and the tail is last; `IssueRanks`,
`LeaveRanks` and `StayRanks` show that a numbering exists after each step. It
stops holding when a chain is evicted or a second isolate writes, and so do the
properties: `OneQueue` says when it applies.

*The refinement.* `PhaseOf` reads the phase of a question off the session and
the calls at once. Its four tests (`Used`, `MayUse`, `IsOpen`, `Unput`) are
followed one by one: a step of the gate leaves them as they are, or takes a
question out of play, or is one of the four steps (`Register`, the operator's
yes, a permit's use, a granted call) that move one question along and may close
the question it displaces. `AskedInv` is what keeps the tests exclusive.

*The watchdog.* Every fall of the agent starts the count, whatever is pending.
What can still become a miss before the update is over is counted with what has:
probes under way, retries due within its three ticks, the one probe the tray may
send, and the retries that are still to be drawn. Those wait longer each time,
whichever chain draws them: after a fall the wait is at least its shortest, so at
most two draws come due in time, and only if they are early (`Draws`). With at
most one miss against it at the fall that makes four, one short of a start; with
two the code does start the agent. A reload adds a chain and no earlier retry, so
no bound on reloads is needed. The hypotheses keep what the argument uses of the
code's durations (a tick is 4 s): the cap is 30 s, five misses are needed for a
start, an update takes at most 12 s.

*The rate limiter.* Its properties compare the sizes of sets of requests. Each
request is in one of the two sets once (`Decides`), so a step adds one element
to one set, and the counters are compared as far as the limit only: beyond it
they are stale or overwritten, which harms nobody.

*The history.* A reader takes the lines that are records in their order, so the
n-th record stands at the n-th smallest such line (`Nth`). `Ranks` shows that
there is exactly one for each n; from it follow what an appended line does
(`RecordsOfAppend`) and what a rewrite leaves (`RecordsOfRewrite`), which is all
that the steps need.

*The journal.* It is proved for any table of more than four files: two names and
three handles use at most four others (`FewInUse`, `FreeFile`), so a create always
finds one.

`FileFits`, `TypeCorrect` and the type lemmas are simple; the others need their
strengthening because the property speaks of the end of a path whose earlier
steps decide it.

Only TLC answers for liveness (`EveryCallAnswered`, `LockIsReturned`,
`JobsClose`, `WindowRecovers`, `ClosesAgain`, `CachesCatchUp`): what fairness
brings about is outside the proof system. So are the counterexamples of section
3, which need one behaviour and no proof.


## 5. Not modelled, and why

- Rendering (panel, console), wire formats and translation between model APIs,
  path and argument parsing, stateless forwarders (index page, egress proxies,
  device proxy, MCP dispatch, command core): no state that two actors share.
  They are most of the repository's lines.
- Runs log, session log, memory store: the JSONL rules of `BootHistory` under one
  lock each. The one reader without the lock, `abandon_open_runs`
  (`runs.rs:323`), has no caller.
- Connections and secrets: saved whole through the steps `RunJournal` models.
- The session table at its cap: closing a session under a call is in
  `ApprovalGate` and `ExecuteWait`; which session is evicted is not.
- The other gateway stores: read-modify-write of one key on the queue of
  `Accounts`.
- File transfer, tunnel, relay client, monitor, event bus: loops around network
  I/O of one connection each.
- Install and setup of the command line, menu, browser windows and tripwire of
  the desktop shell: sequences of operating-system and Electron calls; what was
  seen of them is under Observed.
- A power cut that loses synced data, a journal the operating system refuses to
  read, weak consistency of KV.
