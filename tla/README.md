# DeskPatrol: TLA+ models, checks and proofs

DeskPatrol manages Windows desktops in meeting rooms and shops. One Linux server
(Go, PostgreSQL) serves an administration interface, activates Windows clients
with connection keys, has each client install a MeshAgent, and binds that agent
to the client's device with the help of a plugin in MeshCentral. It also caches
the Windows installers of a release and replaces itself by a newer release.

This directory holds TLA+ modules of the parts of that program where order,
concurrency or failure matter, the TLC configurations that check them, and
TLAPS proofs. Paths below are relative to the repository's root.

Run in this directory:

    tlc -workers 2 -config MCActivation.cfg MCActivation    # any MC*.cfg
    tlapm ActivationProofs.tla                              # any *Proofs.tla

## 1. Inventory

| Part | Source | State | Operations | Interacts with |
|---|---|---|---|---|
| Connection keys, activation | `internal/server/app.go` 594-647, 758-1045 | tables `activation_codes`, `devices` | create, list, copy, redeem a key; delete a device | client runtime; enrolment (device rows) |
| Agent enrolment, binding | `app.go` 247-395, 1047-1207; `internal/meshcentral/controller.go` | `devices.node_id/mesh_id/status`, `enrollment_downloads`, a file per device, a setting, MeshCentral's groups | prepare an agent, download it, agent events | client runtime, plugin, MeshCentral |
| Release synchronisation | `internal/releasesync/service.go` | `release_artifacts`, `release_jobs`, `releases/`, the set `active` in memory | Enqueue, run, RetainLatest | server start, setup, GitHub |
| Self-update | `internal/server/system_update.go`, `deploy/systemd/*`, `scripts/install.sh`, `cmd/server/main.go` | request and status files, link `current`, schema of the database, the running process | request, take, migrate, switch, restart | systemd, server start |
| Windows client | `cmd/client/runtime_app.go`, `store.go` | `state.dat`, `installation-id.dat`, `agentRun`, `agentWake`, the agent's service | Status, Activate, RetryAgentSetup, Reactivate, Uninstall, the worker | server, helper |
| Frontend errors | `runtime_app.go` 240-253, 548-578; `store.go` 113-160; `app.go` 1209-1259 | `frontend-errors.dat`, `queueMu`, table `frontend_errors` | report, upload, erase | client, server |
| Client helper | `cmd/client-helper`, `cmd/client/protected_windows.go` | `.MeshAgent.download`, `MeshAgent.exe`, the service | install and uninstall the agent with elevation | client (a named pipe), server (download) |
| MeshCentral plugin | `integrations/deskpatrol/deskpatrol.js` | pending commands, heartbeat timers | agent events with retries, PowerShell commands | server |
| Setup | `internal/setup`, `internal/appconfig` | configuration files, lock file, schema | test the database, install | server start |
| Device groups, wall layout | `internal/server/device_groups.go`, `app.go` 706-756 | `device_groups`, `devices.group_id`, `wall_layouts` | CRUD, put a device into a group | administration |
| Diagnostic sessions | `app.go` 1399-1540 | `debug_sessions`, `debug_audits` | create, close, run a command | plugin |
| Administrators | `app.go` 397-485 | sessions | login, logout | administration |
| Pool and schema | `internal/database` | eight connections, tables, unique indexes | Open, migrations | all of the server |
| Release mirrors | `internal/releasemirror` | none | choose the fastest mirror | release synchronisation |
| Cryptography, redaction, logs | `internal/credentialcrypto`, `connectionkey`, `security`, `runtimelog` | log files | encrypt, encode, filter, append | all |
| Monitoring wall | `frontend/apps/admin/src/app.tsx` 113-236, `device-groups.ts`, `wall-immersion.ts` | copies of devices, groups and layout in a browser | load, fold, drop, choose the number of tiles | device groups, wall layout |
| Other frontends, packaging, tools | `frontend`, `deploy`, `scripts`, `tools` | none at run time of the server | | |

What is hard, and what makes each part correct:

* **Keys.** Every handler is one transaction under READ COMMITTED; the checks of
  one race the commits of another, and `activateClient` and `deleteDevice` take
  their row locks in opposite orders. A key is redeemed at most once; an active
  device has exactly one live key, its token's; an expired key is never redeemed.
* **Enrolment.** A preparation is a chain of statements, MeshCentral calls and
  file writes that lasts up to two minutes. Events name an agent and a group and
  come late or repeatedly. A device must be bound to the agent that was made for
  it, and a deletion must leave no ticket.
* **Release synchronisation.** Directories and rows change together only in
  part; the process may stop anywhere; errors are ignored in places. What is
  offered must be there, and nothing may pile up.
* **Self-update.** Two programs share files without locks; either may be killed.
* **Client.** A worker, a timer and the interface's calls share `state.dat`;
  network calls lie between reading and writing it.
* **Setup.** One transaction and four files must stand or fall together, though
  only one of them, the lock file, says whether they do; systemd starts
  MeshCentral as soon as two of the files are there.
* **Presence.** The plugin reports connections with attempts that fail, arrive
  late or overlap the next connection's. A connected agent must come to be shown
  online, and one that is gone offline.
* **Remote commands.** The agent's answer, the plugin's timer, the end of the
  server's request and restarts race for one entry of a table. A command is
  answered once, logged before it runs, and never stays pending.
* **Groups and wall.** Groups, devices and layouts are locked by transactions of
  several handlers; a browser shows copies that were loaded at different times.
  No request may wait for ever or fail on a foreign key, no device may vanish.
* **Connections.** Some handlers hold a connection while they ask for another one
  or wait for MeshCentral or for a lock, and there are eight. All must come back.
* **Frontend errors.** The file of the queue is read, sent and removed while new
  errors are reported, answers are lost, and the client ends. None may be lost
  unnoticed, and none may stay for ever.
* **Elevated helper.** A process that outlives its client shares a directory with
  the next one. It must not act for a call that was given up before it had its
  request, nor install what it has not verified.

The full list of hazards, each at its line, is in `PROJECT.json`.

## 2. Plan

The order is that of importance to the product: devices and credentials first,
then what may lose data, then what one user can retry.

1. `Activation` with `OneTimeKey` as its abstract specification, and
   `ActivationProofs`: **done**, the refinement included.
2. `AgentEnrollment`, which takes the transactions of `Activation` as single
   steps, and `AgentEnrollmentProofs`: **done**.
3. `ReleaseSync` and `ReleaseSyncProofs`: **done**.
4. `SystemUpdate` and `SystemUpdateProofs`: **done**.
5. `ClientRuntime` and `ClientRuntimeProofs`: **done**.
6. `Presence` and, extending it, `MeshPlugin` with the diagnostic sessions that
   send commands, and `MeshPluginProofs` about both: **done**.
7. `Setup` and `SetupProofs`: **done**.
8. `DeviceGroups`, and `Wall` (which took in the algorithms `buildWallSections`
   and `moveDeviceOrder`): **done**.
9. `ConnectionPool`: **done**.
10. `ErrorQueue`: **done**.
11. `AgentHelper` with `ElevatedCall` as its abstract specification: **done**.
    `PartsProofs` has the proofs about the five parts of `MCParts`: **done**.
12. What is left to prove: nothing of the safety properties that the runs check.
    More of the action properties that liveness rests on could be stated (that a
    step of one request never disables another one's for good).
13. Small algorithms over bounded inputs: `compareVersions`,
    `releasemirror.Select`.

All modules are written for both tools: parameters are CONSTANTS, one action per
statement or step, no RECURSIVE operator.

## 3. Modules

Each variable, action and helper that stands for code is listed with its lines
in `map` of `PROJECT.json`. Definitions whose comment begins with "Mutant" are
changed forms of the definition that follows them or that they name; nothing in
the specifications uses them. They show that the properties can fail.

### Activation, OneTimeKey

One `Requests` slot is one HTTP request in one transaction; its `pc` names the
next SQL statement. A NULLable timestamp is a set of rows (`used`, `revoked`,
`superseded`). `codeLock`, `deviceLock` and `advisory` are PostgreSQL's locks
and are held until `End`. The modelled rules of READ COMMITTED:

* `SELECT ... FOR UPDATE` waits, then looks at the newest row (`LockCode`,
  `FindDevice`, `ReadCode`);
* an `UPDATE` finds its rows when it starts (`Supersede`, `Revoke`), locks them
  one by one, and leaves out those that no longer match (`VoidRow`);
* writes become visible at commit (`CommitActivate`, `CommitDelete`), and the locks
  end there: `CommitCopy` releases the key's row before `Reply` sends the key;
* a waiting cycle is broken by rolling a member back (`BreakDeadlock`), and any
  request may fail at any statement (`Abort`).

`inst` of a request is its `installation_id`. A device row is never removed, so
a device is identified with its installation.

`OneTimeKey` says what all this promises: a key is issued, redeemed once or
lapses, and a device holds the credentials of the last key redeemed for it. The
mapping shows `Activation` to implement it: `unspent` is the keys that may still
be redeemed, a key locked by an activation before it expired included.

### AgentEnrollment

Handlers interleave between database statements and calls of MeshCentral. A
group stands for its agent file too: `file[d]` and `row[d]` name the group for
which the file on disk was built and the one that `enrollment_downloads`
describes, so "the digest agrees" is `row[d] = file[d]`. `origin[n]` is a
history variable: the group whose file installed agent `n`. `Fail` ends a
handler at any point (an error without effect, or the server stops);
`SaveEnrollmentGroup` and `SavePool` also have the outcome in which the statement takes
effect and its answer is lost. `ReadCache` takes the cached file if it is complete, or finds that it must be
prepared again (absent, damaged or unreadable). `BeginStable` allows events that name
the group an agent was in before, and any number of repetitions.

### ReleaseSync

A job is one call of `Enqueue`. Its steps are the statements and renames of
`run` and `promote`. What may go wrong beyond the ordinary error answers is the
variable `faults`, chosen once from the constant `FaultSets`, so that one run covers
several combinations and a property can say which failures it withstands.
The renames that undo others (`PutBack`, `Withdraw`, `Restore`) fail only with the
fault `restore`; every other error path of `promote` may be taken at any time.
`pc = "cut"` marks a job whose goroutine a crash has ended. A directory is named by its
version only, since published releases are never changed
(`.github/workflows/release.yml` creates each once with `gh release create`).

### SystemUpdate

`Handlers` are calls of `postSystemUpdate`; the updater is one process because
`deskpatrol-update.service` is one oneshot unit. Releases are numbers; the
migrations of release *n* include those before it. `Stop` is any failure
that reaches the script's exit trap, `Kill` one that does not. `stale` abstracts
the two hours of `staleUpdateAfter`.

### ClientRuntime

Each exported method is a procedure of its own, since the interface calls each
on a new goroutine; `Workers` are the goroutines of `runAgentSetup`. `mu` is
`stateMu`, held between two steps only where `persistAgentSetup` loads and then
saves. The server appears as the sets of tokens it accepts (`live`) or answers
with 410 (`gone`). `needs` and `mine` are history variables. Two calls of
Activate or Reactivate do not overlap: the interface shows one dialog at a time.

`left` is what goes on elevated without the client: the tokens of installations
that were under way when the client ended (`Restart`), or whose program outlived
its helper (`InstallAgent`), and None for a removal. `LeftHelper` carries one out
at any later time, as often as it likes, since one token may stand for several
processes; `AgentHelper` has the single call with its pipe and files.

Some steps that could only wait are merged. A timer, a retry and the start of the
program all end in `startAgentSetup`, which loads the state and then looks at
`agentRun` again whatever called it, so `StartCheck` may come at any time. The wait of
`runAgentSetup` before its next attempt is the step before `load`: it may end at any
time, with a signal or without. `ActivateAnswer` is the call of Activate up to the
answer of the server, since nothing else touches the identity meanwhile, and
`ActivateFails` stands for an answer that is lost, as well as for a file that
cannot be written.

### Setup

A request is one call of `setupInstall`; its `pc` names the next statement or
file of `Install`. Every installation draws new tokens, so a file is the request
whose tokens it holds, or None; whether two files fit together is whether they
are of one request. A `login` of None is a form that `Validate` refuses. Any step may
fail, the removals of `cleanupFiles` included (`CleanConfig`, `CleanLock`,
`CleanMeshConfig`, `CleanEnvironment`, whose errors the code ignores), and the
server may stop between any two. MeshCentral starts in two steps. `LaunchMesh` is
`deskpatrol-meshcentral.path` with the conditions of its service: systemd gives the
process the environment as it is then. `ReadMeshConfig` is the later read of
`meshcentral-config.json` by the programs that the service starts; without that file
they end. Between the two a Setup may remove, or another one write, either file.
`Migrate` is
`install.sh` run again with the migrate command, at a time when no Setup is under
way. `Reload` takes the synchronisation it starts only as something that may
fail; `ReleaseSync` has the rest. Two history variables name what no
property can hold through: `lost` is the requests whose COMMIT took effect
without an answer, and `torn` says that the server has stopped between the lock file
and the end of the transaction (or of the removal of the files), or that the lock file
of a failed Setup could not be removed.

### Presence, MeshPlugin

`Presence` is the events of one bound device. A connection of the agent is a
number, and a state object of `scheduleHeartbeat` is named by the connection it was
made for (the hook fires once per connection). `SendStable` and `SendTick` are
single attempts of `sendEventWithRetry`: one reaches the server and is
answered, or fails, and a failed one may still be carried out later
(`DeliverLate`). `late` is a set, so several equal late events count once: to carry out an event
twice in a row changes nothing. `Age` may happen at any time, which includes
every real passing of the 90 seconds. When MeshCentral restarts, the attempts under
way are dropped.

`MeshPlugin` extends it with the commands of one diagnostic session, from
`executeDebugCommand` to the agent and back. `link` is the HTTP connection between
server and plugin: `closing` means the server has given it up and the plugin has not
seen that yet; a plugin that first handles the request afterwards never sees
it (`Handle`). The timers of plugin and server may fire in either order, which includes
clocks that differ.

### DeviceGroups

The statements of `putDeviceGroup`, `deleteDeviceGroup` and `deleteDevice` are
steps; `Sharing`, `Deleting`, `Holding` and `LayoutFree` are the row locks of
`device_groups`, `devices` and `wall_layouts`, and follow from where each call is.
The foreign key of `devices.group_id` acts in two places: its check
(`CheckForeignKey`) and `ON DELETE SET NULL` (`Cascade`). The layout is the
set of ids that its two JSON columns name.

### Wall

One browser. `Load` gives it any list of devices or of groups, since the three
requests are answered at different times and other browsers change what they
answer; so the copies may disagree in every way. `drag` is a drop that awaits its
change of group: it holds the layout of the render in which it began, which
`EndDrop` saves. `Ordered`, `SectionKeys`, `Sections`, `Unfolded` and `Preview` are
the functions that lay out the wall. `Filter` and the `remaining` of `Preview` are
written with recursive functions, which proofs can expand. A device that the
layout does not name comes last; the code gives it place 999, which makes a
difference only to a layout of a thousand devices, and none to what is proved.

### ConnectionPool

The handlers by what they hold while they wait: one connection (`query`), one and
then a second (`event`), one with the device's advisory lock for as long as
MeshCentral takes (`prepare`), or one while waiting for that lock (`delete`). One
device is enough, since only the lock of a device relates its handlers.
`acquiring` is the queue of pgxpool; a request whose context ends leaves it
(`Return`).

### ErrorQueue

The file is what it holds, or `Torn` after a write that was cut short. `adding`
and `batch` are what the holder of `queueMu` has read; `flushes` is the goroutines
that wait to upload, of which more than `MaxFlushes` would do the same again.
`ClearAllData` takes no lock, so `EraseState` and `EraseQueue` may fall between any
two steps. `Oversized` are the errors that the server refuses one by one
(`app.go:1244`); `Large` are acceptable ones of which more than `BodyLimit` do not fit
into a request (`json.go:30`: 1 MiB, which is some 25 errors of the largest size, while a
batch may have 200). `Acceptable` is what passes both limits. `reported` and `gone`
are history variables.

### AgentHelper, ElevatedCall

A task is one call of `runHelperElevated` with the helper it starts. The files
are named by the calls whose bytes they hold: a helper that opens
`.MeshAgent.download` while another one writes it makes it a mixture. `broken`
and `mixed` are history variables, `acted` is the calls whose helper ran the
program or found the service gone. The client may end at any point and leave its
helper, and its open question of UAC, behind (`ClientEnds`, `ConsentLate`).

`ElevatedCall` says what the client may rely on: a call is carried out only
after it was asked for, success means that it was, and each call ends.

### MCParts

`DeviceGroups`, `Wall`, `ConnectionPool`, `ErrorQueue` and `AgentHelper` share no
state. `MCParts` composes them with a variable `part` that says which one moves in a
behaviour; every step of each of them is a step of one behaviour, and `TypeOK` is
the conjunction of their type invariants. Fairness is stated for the component that
moves, with the actions of its own module.

## 4. Runs

| cfg | Distinct states | Bounds | Shows |
|---|---|---|---|
| `MCActivation` | 521,888 | 3 keys, 2 installations, 3 requests | `TypeOK`, `ActiveDeviceHoldsItsOnlyKey`, `CopiedKeyIsUnspent`, `ImplementsOneTimeKey` |
| `MCActivationLive` | 12,410 | 2 keys, 1 installation, 2 requests, fair | `EveryRequestEnds`, `ExpiredKeyIsNeverRedeemed` |
| `MCAgentEnrollment` | 492,004 | 2 devices, 2 agents, 3 groups, 2 handlers | `GroupTellsDevice`, `BoundToOwnAgent`, `DeletionIsFinal`, `OnePermanentGroup`, `TypeOK` |
| `MCReleaseSync` | 360,017 | 3 jobs, 2 versions; three sets of faults (below); fair | `CacheIsWhole`, `SyncEnds`, `TypeOK` |
| `MCReleaseDowngrade` | violation | no faults | `NeverDowngrades` fails |
| `MCSystemUpdate` | 8,229 | 2 handlers, 3 releases, fair | `ServerHasItsSchema`, `UpgradesOnly`, `UpdatesEnd`, `TypeOK` |
| `MCSystemUpdateRace` | violation | 2 handlers, 3 releases | `OneRequestWins` fails |
| `MCClientRuntime` | 1,853,461 | 2 tokens, 2 workers, 1 left behind | `OneWorker`, `ReadyAgentIsOwn`, `ActivationIsKept`, `TypeOK` |
| `MCClientReactivate` | violation | 2 tokens, 2 workers, 1 left behind | `ReactivationRemovesBinding` fails |
| `MCSetup` | 595,854 | 3 requests, 2 names, 2 crashes, fair | `SetupIsWhole`, `OneInstallation`, `ServerStartsAfterSetup`, `TypeOK` |
| `MCMeshPlugin` | 137,680 | 2 connections, 4 attempts, 4 failures, 1 restart, 1 command, fair | `HeartbeatRuns`, `AnsweredOnce`, `AuditTellsRuns`, `ListBecomesRight`, `CommandsEnd`, `TypeOK` |
| `MCParts` | 72,953 | see below, fair | `NoCircularWait`, `RequestsEnd`, `EveryDeviceIsShown`, `NoErrorIsLost`, `UploadsDrain`, `ProgramIsVerified`, `ImplementsElevatedCall`, `TypeOK` |

Why these bounds. Three keys are needed for a device that has a live key, gets
another and has a third redeemed meanwhile; three requests for a cycle of two
with a bystander. Two devices are enough for an agent to be bound to the wrong
one, three groups are one for each device and the permanent one (two handlers that both create the
permanent group need one device's group beside them). Three jobs are the current
release's, one that fails and one that is admitted in between; two versions, one
to be replaced and one to replace it. Three releases let a request wait below
the version installed meanwhile. Two tokens are an activation and the one that
replaces it; one token left behind is that of a helper of the first activation that
goes on during the second (`MaxLeft`; a run with two is too large). Three requests of Setup are one that fails, one that installs and one
that waits for `installMu` meanwhile; after two crashes a start may be
interrupted as the first process was. They begin, and enter, in one order and use the names in one order (`InOrder` of
`MCSetup`), since which is which makes no difference and a request that waits does
nothing that one which arrives later could not do; symmetry is not sound for liveness. Two connections are the old one, whose attempts and
timer are still about, and the new one; four attempts are those of the code, and
four failures let one of them give up. One command is
enough, since entries of the plugin's table are keyed by random ids and do not
meet. The events and the commands share only the connection and MeshCentral's restarts,
so `MCMeshPlugin` exercises one half in each behaviour (`half`); every step of
`MeshPlugin` is a step of one of them. Rows, tokens, jobs and groups are never reused, so these numbers
also bound the length of a history; the other variables are finite.

In `MCParts`: one group, one device and two calls let a group be deleted while a
device is put into it and while the device is deleted (a second group only
multiplies the states: the module was also run with two). Two devices, one group and one or two tiles leave
fewer tiles than devices, as many, a device without a group and one whose group is
not listed. Two connections and three requests are two events that hold all connections and
want two more, with a preparation, a deletion or a query behind them. Two calls of the helper are one that its client has left and the
next one. The queue has room for two errors, and at most three come about in one
behaviour (`Mixtures`): two large ones, of which a request takes one, and a small one;
or a large one, a small one and one that the server refuses. The large ones come about
in one order, since they differ in nothing.
So a batch is blocked by either limit, an error is displaced, and what was blocked
gets through after all.

The two release configurations switch off the deadlock check because the jobs run
out, `MCSetup` and `MCMeshPlugin` because requests, crashes, connections and
commands do, `MCParts` because errors and calls do; the other systems never stop.

Which faults a property withstands matters in `ReleaseSync`; the run goes through
`{crash, dbDown, lostInsert, cleanup, restore}`, `{crash, lostCommit, badRead}` and
`{crash, badRead}`. `CacheIsWhole` has three named parts. They and `SyncEnds` are
stated without these faults, which the code does not handle:

* `ReadyReleaseHasItsJob` fails with `badRead` (`recordFailure`,
  `service.go:133-137`, deletes the rows of all other jobs when it cannot read
  the current version);
* both it and `ReadyReleaseHasFiles` fail with `lostCommit`: `promote`
  (`service.go:338-374`) takes the files back although the rows were replaced,
  and the job is marked failed;
* `SyncEnds` fails with `lostInsert` and `dbDown`: a row stays queued or downloading
  until the next success or start;
* `NothingLeftBehind` fails with `cleanup`: what could not be removed
  stays until the next success or start;
* with `restore` (a rename that should undo another one fails; `service.go:334`
  ignores it, `service.go:386-400` reports it) directories stay where they are, so
  `NothingLeftBehind` fails, and a release that was being synchronised again is left
  without files, as after a stop at that moment: `ReadyReleaseHasFiles` is checked with
  this fault and names the case. The other releases keep theirs.

They are listed as hazards. That one synchronisation runs at a time (`Reserve`)
is what the parts rest on: the mutant that admits two breaks `CacheIsWhole`.

The properties of `Setup` and `Presence` name their exceptions too:

* a server that stops between the lock file and the commit finds the lock file
  without an administrator and never starts again (`torn`;
  `internal/setup/service.go:180`); the same lock file stays when its removal fails
  (`service.go:175`), and then Setup is not offered again either;
* a COMMIT whose answer is lost leaves an administrator without a lock file, and a
  second Setup cannot take the same name (`lost`);
* a `reload` that fails after the commit leaves the system installed and the
  server without configuration until it is restarted (`unloaded`);
* a Setup that fails after `meshcentral.env` can leave a running MeshCentral with
  tokens that no file holds any more, or with its environment and the configuration
  file of the next one. `MeshCentralStartsWhole` says that this happens to a
  failed or interrupted one only: what a Setup that succeeds has written is read whole;
* an `agent_stable` whose four attempts fail gives the connection no heartbeat
  (`ListBecomesRight` and `HeartbeatRuns` speak of accepted connections).

So do those of `MCParts` and of the client: `UploadsDrain` speaks of a queue that
from some time on is one that the server can accept, in an intact file. An error that
the server refuses (`app.go:1244`), and a batch of more than 1 MiB (`json.go:30`), is
sent again and again and blocks what is behind it until newer errors have
displaced it, if they ever do. `ReadyAgentIsOwn` holds up to the agents of `left`:
nothing in the code waits for a helper that outlived the client.
`CopiedKeyIsUnspent` holds until the commit (`app.go:913`); an activation may overtake
the answer (`app.go:917`).
`ProgramIsVerified` leaves out two helpers that meet in `.MeshAgent.download`
(`main_windows.go:98`: the hash is that of the bytes received).

### Fairness

* `Activation`: strong fairness of each request's steps. A served request goes
  on, PostgreSQL's lock queues are FIFO (so a waiting request gets a lock
  that is freed again and again), and its deadlock detector runs after a second.
  Strong fairness stands for the queue; new requests, expiry and aborts are not
  fair.
* `ReleaseSync`: weak fairness of a job's steps (the download client has a limit
  of 20 minutes, `run` one of 30, `recordFailure` of 5 seconds) and of the
  server's start (`Restart=on-failure` in `deploy/systemd/deskpatrol.service`).
  `SyncEnds` also covers crashes: no more than finitely many jobs exist, and a
  crash is followed by a start.
* `SystemUpdate`: weak fairness of the updater (the path unit starts it while
  the file exists; `TimeoutStartSec` bounds it) and of `Age` (time passes).
* `Setup`: weak fairness of a request's steps (each is a statement or the write of a
  file) and of the server's start (`Restart=on-failure`). MeshCentral, crashes and
  `install.sh` are not fair.
* `MeshPlugin`: weak fairness of the plugin's steps (its timers fire, its requests
  end after five seconds), of the server's steps for a command (`commandContext` has a
  deadline), of the plugin's timer of a command, of the delivery of late events (a request reaches the
  server or is gone) and of `Age` (time passes). The agent need not connect, stay,
  run a command or answer it; a failure may follow any attempt up to the bound.

* `DeviceGroups`: strong fairness of each call's statements (a served request goes on
  and PostgreSQL's lock queues are FIFO); new calls and cancellations are not fair.
* `ConnectionPool`: weak fairness of pgxpool's hand-over, strong fairness of a
  handler's own steps (the advisory lock is a queue), and weak fairness of giving up only
  for who has a deadline: the plugin's five seconds, the client's 135. A browser
  may wait for ever.
* `ErrorQueue`: none. `UploadsDrain` assumes in its own statement that a batch is
  answered again and again; a client that never reports and never restarts
  does not upload either, since the code has no timer for it.
* `AgentHelper`: weak fairness of the client's and of the helper's steps: UAC, the
  connection (90 seconds), the download and the installation (five minutes
  together) and the removal (90 seconds) all have limits, and the client's read, which has
  none, ends with the helper.

### Disagreements between the code and what it says

* **A release can be synchronised downwards.** `Enqueue` compares versions
  before it takes the slot. A request for an older version that was checked
  before the newer one was committed is admitted afterwards
  (`MCReleaseDowngrade`; `service.go:77` against the message in line 82).
* **Two update requests can both be accepted.** The hard link is exclusive only
  while the updater has not moved the first file away (`MCSystemUpdateRace`;
  `system_update.go:218` against the comment in line 206). `UpgradesOnly`
  shows that no downgrade comes of it: the updater compares again.
* **Reactivation may leave the binding or the agent.** `ClearAllData` takes no
  lock and does not wait for the worker (`MCClientReactivate`;
  `runtime_app.go:337` against `README.md:49`).

## 5. Proofs

TLAPS checks these for all values of the constants, under the assumptions named
in the modules. `NoneAssumption`, `NoGroupAssumption`, `UngroupedAssumption` and `TornAssumption` say
that the value that stands for NULL, or for a torn file, is none of the others;
`WorkersAssumption` that the goroutines of `runAgentSetup` are not the other
procedures; the others that limits and bounds are numbers, positive where the
code has a positive one (`ReleaseAssumption`, `VersionAssumption`, `QueueLimitAssumption`,
`MaxFlushesAssumption`, `BodyLimitAssumption`, `MaxLeftAssumption`, `CountsAssumption`, `CrashesAssumption`,
`TilesAssumption`, `MaxConnsAssumption`), that the refused and the large errors are errors (`OversizedAssumption`), that there
is a device at all (`DevicesAssumption`), and that a browser is sent finitely many devices and groups
(`WallListsAssumption`).

Each proof has the same shape: an inductive invariant of named parts, one lemma
per part (or per action) that says that a step preserves it, and the properties
as its consequences. The invariants were checked with TLC on the instances of
the runs before they were proved. What follows says for each module what has to
be added to the properties, and why.

`ActivationProofs`: `TypeCorrect`, `OnlyKey`, `CopyUnspent`, `NoLateRedemption`
and `KeysAreOneTime`. The property `ActiveDeviceHoldsItsOnlyKey` is not
inductive: a commit relies on what the transaction has read before. The
invariant adds, for each request, what its locks guarantee from one statement
to the next:

* `Locks`: a request past a locking statement holds that lock, so two requests
  are never past it for one row;
* `KeyRead` and `DeviceRead`: what the request has read of its key and of its
  device still holds, since nobody else may write a row it has locked;
* `Args` and `Columns`: a request has the arguments its statement uses, and a
  code has an owner exactly when it is used;
* `Scan`: the rows an UPDATE has found and those it has changed together
  contain all live keys of the device, since only a holder of the device's lock
  gives the device another key.

Each is proved preserved action by action; `OnlyKey` and `CopyUnspent` follow
from their conjunction. `NoLateRedemption` is a statement about all later
states, proved with a second, smaller invariant per key: once it has expired
and no request has it locked (`NobodyHolds`), no request can come to hold it
again as an unexpired one, because `fresh` becomes TRUE only in `LockCode`,
which looks at `expires_at` after it has the lock.

`KeysAreOneTime` is the whole refinement `Spec => ImplementsOneTimeKey`
(`OneTimeKey` states no fairness): the two commits map to `Redeem` and
`Withdraw`, `CreateCode` to `Issue`, and every other step to a stutter or to
`Lapse` (a request that ends without a commit may have been all that kept an
expired key redeemable). That a first commit finds its key still redeemable
rests on `KeyRead`; that the commit of a repeated activation changes nothing, on
`ActiveDeviceHoldsItsOnlyKey`.

`AgentEnrollmentProofs`: `TypeCorrect`, `GroupsTellDevices`,
`BoundAsInstalled`, `DeletionsAreFinal` and the action property
`PermanentGroupIsOne`. Which device a group was created for is nowhere
recorded, neither in the code nor in the model; the invariant says that there
is an assignment that fits:

* `Owners`: a function from groups to devices under which each group, file and
  row of a device, and each group a handler holds for it, is the permanent one
  or was made for that device, and a bound agent came from a group of its
  device. The steps that create a group name the new function; the others keep
  it;
* `Locks`: a preparation holds the device's advisory lock and has read since
  then that the device is not deleted, so a deletion cannot come in between;
* `Agents` and `Pool`: where agents can be, what an event can say of that, and
  that handlers agree on the permanent group. An event that names the permanent
  group was sent after its agent had arrived there: for such an event `Move`
  moves nothing, and `SaveMesh` records the group all the same.

`ReleaseSyncProofs`: `TypeCorrect` and `CacheStaysWhole`, for any constant
`FaultSets`. `OneJob` (one job holds the place in `active`) is what all else
rests on. Renames that take directories back may fail in it, with the fault
`restore`. The other parts are conditional on the faults that the properties
exclude: `OneReady` (one job has the current version), `DoneAtEnd` (a job is
done when it cleans up, not before), `FilesKept` (while a job replaces the
files of the current version, it has them put aside) and `Tidy` (each file in
`releases/` belongs to the job that runs, at a step where it may, or is the
current version). The three named parts of `CacheIsWhole` follow from them
(`RowsHaveTheirJob`, `RowsHaveFiles`, `NothingIsLeft`).

`ClientRuntimeProofs`: `TypeCorrect`, `OneWorkerRuns`, `ReadyIsOwn` and the
action property `ActivationsAreKept`, for any number of workers. `OneWorker` is
a count; the invariant has it as `Alone` (any two workers that run are the
same, and `agentRun` is set). `Mutex` says that `stateMu` is held exactly
between the two halves of `persistAgentSetup` and that the file is meanwhile as
read or erased (by `ClearAllData`, which takes no lock). `Credentials` relates
what each procedure has seen to what the server has issued; the token that
Activate is about to store has been seen by nobody else. `Current` and
`OwnAgent` are what `ReadyAgentIsOwn` needs: of the activations that require an
agent of their own, only the stored one has readers, and whoever takes its
agent for installed is right, up to the agents in `left`, which may be installed at
any time. No bound on `left` is used: the theorem holds for every `MaxLeft`.

`SetupProofs`: `TypeCorrect`, `SetupStaysWhole` and `InstalledOnce`, for any
number of requests and crashes. `Holder` and `Written` say what the holder of
`installMu` has written so far, and that nobody else has; `Locked` that who is
told of success created the lock file, which admits nobody after it; `Complete`
that a lock file outside the window before the commit tells of an installation
with all its parts. Since a file may stay when its removal fails, nothing can be said
of the files that a failed Setup leaves; `Unnamed` says that it leaves no
administrator, and `Matched` that both files that MeshCentral reads are those of the
Setup whose environment it was given, as long as that one has not failed.

`MeshPluginProofs`: `TypeCorrect`, `HeartbeatGoesOn`, `ResponsesAreWrittenOnce`
and `RunsAreAudited`. They are about `Spec` of `MeshPlugin`, in which events
and commands interleave, while the run takes one half at a time. The invariant
adds `NotYet` (nothing is known of connections to come), `WrittenOnce` (an
entry that is pending has its timer and no answer) and `Traced` (how far each
of server, plugin and agent is with a command: nobody is ahead of the one it
was asked by).

`SystemUpdateProofs`: `TypeCorrect`, `SchemaFirst` and `OnlyUpgrades`. The
invariant adds `UpdaterInOrder`: from `fetch` to `switch` the version taken is
above the installed one, and at `switch` the schema covers it. `OnlyUpgrades`
is the action property that follows because only `Switch` changes `current`.

`PartsProofs`, groups: `GroupsTypeCorrect` and `NoForeignKeyError`, the safety
part of `GroupCallsAreAnswered`. The invariant adds `LockedGroupsExist`: the
group that a call has locked is there, and nobody else uses one that is being
deleted. Without the second part the commit of a deletion could take a group
away from a call that has just locked it. `GroupLocksAreOrdered` proves
`SomeCallGoesOn`, the other safety part of the same liveness property: of the
calls under way the one that is furthest in the order of the locks (groups,
devices, layouts; `FurthestGoesOn`) waits for nobody. It needs that the layout
is locked only by the last statement before a commit (`LayoutLockedLast`), and,
for the check of the foreign key, `LockedGroupsExist`.

`PartsProofs`, errors: `ErrorsTypeCorrect` and `ReportedIsKept`.
`NoErrorIsLost` is not inductive: an upload clears the file because it was
sent, an append replaces it by what was read. The invariant adds
`HolderKnowsQueue`: what the holder of `queueMu` has read covers what is in the
file. `NewestKeeps` is the lemma about the bounded append.

`PartsProofs`, helper: `HelperTypeCorrect`, `OnlyVerifiedPrograms` and
`CallsAreElevatedCalls`, the safety part of the refinement
`ImplementsElevatedCall`. The invariant adds `OneDownload` (until two helpers
meet, one is in the file and wrote all of it, and a broken download is never
renamed) and `OnRequest` (a helper works only for a client that has asked, and
what it reports as done, it did).

`PartsProofs`, wall: `WallTypeCorrect` and `AllDevicesShown`.
`EveryDeviceIsShown` follows from the types alone, for any number of devices,
groups and tiles, but what it speaks of is computed by recursion. The library's
induction theorems take an operator, which these provers cannot instantiate;
its theorem that a well-founded relation has a minimal element (`WFMin`) takes a
set, and `Induction` is derived from it with a least counterexample. From it
follow `Recursion` (a recursive function over `1..n` exists) and `InductionTo`.
`Flattened` and `Filtered` say with them which elements a flattened or filtered
sequence has and that it repeats none; `Slice`, `Removed` and `Inserted` say the
same of the parts that `moveDeviceOrder` moves. `SectionsCover` needs that
section keys do not repeat and that the group of each device, or Ungrouped, is
one of them. `SharedStart` is the argument about the tiles: what the first *i*
sections show is the start of their devices, of the length that the tiles allow,
and what remains is the rest.

`PartsProofs`, pool: `PoolTypeCorrect` and `NobodyHoldsAndWaits`, for any number of
requests and connections. The invariant adds `HeldByStage`: how many connections
a request has, by its statement and by whether it waits for one more, and that
only the holder of the advisory lock is past taking it. `NoHoldAndWait` is why
`EveryConnectionComesBack` can hold: only an event holds a connection while it
waits for another one, and an event has a deadline.

`PartsProofs`, all parts: `PartsTypeCorrect` and `PartsAreSafe` say the type
invariant and the four safety properties of the specification `MCSpec` that the run
checks: a step of one part leaves the invariants of the others. `NoCircularWait`
is `SomeCallGoesOn` and `NoHoldAndWait`; its liveness counterpart `RequestsEnd` is
`GroupCallsAreAnswered` and `EveryConnectionComesBack`.

Model-checked only is liveness: `EveryRequestEnds`, `SyncEnds`, `UpdatesEnd`,
`ServerStartsAfterSetup`, `ListBecomesRight`, `CommandsEnd`, `RequestsEnd`,
`UploadsDrain`, and that calls of the helper end (the liveness part of `ImplementsElevatedCall`). Fairness
and ENABLED are out of the prover's reach. Every other property of the passing runs
is a theorem.

## 6. Not modelled

* The other parts of the inventory, for the reasons given in `PROJECT.json`.
* Within the modelled parts: the contents of messages, logs and error texts;
  hashes and ciphers (a key is its row, a digest agrees or not); the quotas of
  the interface; what `RuntimeApp.Uninstall` does after it has erased the data; mirrors and retries of downloads, which are one step that may fail;
  the nginx and systemd files that `install.sh` writes before the migrations.
* `agentWake`: a signal ends a worker's wait early, and here a wait may end at
  any time.
* In `ClientRuntime`: helpers and programs left behind of more than `MaxLeft`
  activations in the run (the proof has any number).
* In `MeshPlugin`: the deletion of the device during a session, and more than one
  session; in `Presence`: more than one device (`AgentEnrollment` has several).
* A write of a file is one step, except for the queue of `ErrorQueue`.
  `writeProtectedFile` is not atomic on a crash; a torn `state.dat` cannot be
  decrypted and is out of the model.
* In `Wall`: desktop tickets, display selections and the immersive mode, which
  refuses some drops; in `DeviceGroups`: the names of groups; in `ConnectionPool`: the
  lifetime of connections, and `reload`, which replaces the pool.
* The client's logs: `ClearAllData` removes their directory and nothing makes it
  again until the client is started.
