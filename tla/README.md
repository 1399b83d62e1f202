# A specification of pf-sim

pf-sim brings up a simulated PocketForge desktop (compositor, session authority,
supervisor, launcher shell), feeds it controller input, and records what the
launcher shows. Almost everything that can go wrong in it happens between
processes: several command-line callers, long-lived runners, a gamepad holder, a
supervisor with threads, fixture apps and a shell share one run directory of small
files and sockets, each of which may die, hang, time out or be replaced at any
moment. The modules here model those processes; TLC checks them on small
instances, and TLAPS proves what most of them promise for every size.

Source references such as `gamepad.py:219` are to `src/pf_sim/` unless they name
another directory. `PROJECT.json` maps each definition to its lines.

## Inventory

| Component | State | Operations | Interacts with | What makes it correct | Modelled |
|---|---|---|---|---|---|
| Gamepad lifecycle (`gamepad.py`, `event_fifo.py`) | `gamepad.json`, `gamepad.sock`, `input.fifo`, flock, the holder process | `create`, `destroy`, `status`, `request`, `hold` | backend (up, down), matrix and scenario runners, kernel PIDs | one reachable holder; nothing else is signalled; a destroyed holder is dead; the lock comes back | `GamepadHolder`, `GamepadDevice` |
| Session supervisor and fixture app (`supervisor.py`, `fixture_app.py`) | child table, marker files, app sockets, viewers; the authority's history | hooks, watchers, reconciliation, stop | session authority, backend (restarts it) | one app at a time, but for the viewers of apps that failed; a session gets its own receipt after its app has gone | `SessionSupervisor`, `SessionLifecycle` |
| Desktop backend (`backend/desktop.py`, `stack.py`) | `pids.json`, `run.json`, sockets, four processes | `up`, `apply`, `down`, `status` | gamepad, toolchain, profiles | what runs is recorded; an `up` returns over all its programs or is torn down | `DesktopBackend`, `InstanceLifecycle` |
| Toolchain (`toolchain.py`) | active shell, contract and manifest; cache of builds | `build`, `read_manifest` | backend, system menu | a manifest speaks of one build | `Toolchain` |
| System menu (`system_menu.py`) | none of its own | `send` | toolchain files, `run.json`, gamepad, authority | the press is sent only on proof | `SystemMenu` |
| Capture and automation client (`capture.py`, `automation.py`) | picture, scene and sidecar files | `capture`, requests | launcher shell | the picture and the scene are of one frame | `Capture` over `Launcher` |
| Matrix runner (`matrix.py`) | records, queue of cells | `run`, `_reset`, `LiveMatrixBackend` | backend, gamepad, capture | each picture shows its route; each cell has one verdict; the run ends unless the authority never answers | `Matrix` |
| Scenario runner (`scenario.py`, `predicates.py`, `scene.py`) | records of steps and runs | `run`, `_predicate`, `capture` | backend, gamepad, authority, shell | exit status 0 is earned; each repeat starts from its profile; the run ends | `Scenario` over `Launcher`, `Profiles` |
| Profiles (`profiles.py`) | the run directory, `run.json`, profile directories | `snapshot`, `seed_profile`, `effective_prefs`, `restart_plan` | backend, scenario runner | a snapshot reproduces what it was taken from, and holds no lock | `Profiles` (`restart_plan` is in `DesktopBackend`) |
| uinput domain guard (`uinput_domain_guard.py`) | none | `evaluate`, `probe_host`, `guarded_open` | kernel device creation | fail closed | `UinputDomain` |
| Authority client (`authority.py`) | none | `call` | supervisor, scenarios | - | as requests of `SessionSupervisor` |
| Inputs, keys, contract | none | name lookups | gamepad | - | no: pure lookups |
| Measurement (`measure/`) | none | pixel arithmetic | matrix, audits | - | no: tests with pictures fit it better |
| Audits, doctor, CLI, configuration | none | subprocess calls, dispatch, printing | all | - | no |

The hard behaviours, listed line by line under `hazards` in `PROJECT.json`, are:

- two callers interleaving around files that only some of them lock;
- a request that times out and whose answer, or whose connection, turns up later;
- a process that dies between being checked and being signalled, waited for or
  recorded, and one whose PID has been given to another;
- a supervisor stopped, killed and restarted while apps run and watchers report;
- a call that fails half way and is repeated;
- builds that stop between two files while other processes read them;
- taps that are acknowledged when written and consumed later;
- predicates over a history, a socket and a scene that are read one after the other;
- a snapshot that copies a directory while an apply, the shell and the authority
  change it.

## The modules

`X_proofs` extends `X`; `XMC` instantiates `X` for TLC.

```
GamepadDevice <= GamepadHolder <- GamepadHolder_proofs <- GamepadSignals_proofs
SessionLifecycle <= SessionSupervisor <- SessionSupervisor_proofs
InstanceLifecycle <= DesktopBackend <- DesktopBackend_proofs
Toolchain <- SystemMenu <- SystemMenu_proofs
Launcher <- Capture <- Matrix <- Matrix_proofs
Launcher, Profiles <- Scenario <- Scenario_proofs
UinputDomain <- UinputDomain_proofs,  UinputDomain <- UinputDomainMC <- GamepadHolderMC
(<- is extended by, <= is refined by)
```

**GamepadHolder.** A client is a process inside one call of `gamepad.py`; its `cpc`
steps from one system call that others can observe to the next: taking the flock,
reading `gamepad.json`, a request and its answer, reading `/proc`, the signal,
the unlinks, the spawn. A holder's `hpc` goes through `hold()` in the same way,
from preparing the FIFO to its last unlink. A member of `Holders` is one spawn
with its token and start time; `pidOf` and `occupant` are the process table, from
which a PID can be reused. `queue` is the listening backlog: a caller that hangs
up leaves its connection there, and the holder meets the closed socket later.
`status()` and `request()` take no lock, nor does the holder. Of `request()` only
the tap command is a call of its own; status and quit appear where the lifecycle
sends them. The bytes in the FIFO and the dormant uinput device are left out.
**GamepadDevice** is the promise: a device that at most one holder has, each once and
taken only in a `create`, and a record that stays with the holder as long as it runs
and names it whenever a call ends. The refinement reads the lock as the owner, the
holders between their spawn and their end as those that have the device, and the
holder that `gamepad.json` names as the record.

**SessionSupervisor.** The authority (external, as `supervisor.py` uses it) keeps at
most one open entry and accepts observations only in their order; observations carry no
session. Each watcher thread, `reconcile()` in Main, and the adopter of a marker are
threads with a `pc`. The app follows `fixture_app.run`: it marks itself, starts its
viewer (`weston-image`, a process in a session of its own, which is what draws), binds
its socket, behaves, stops the viewer, removes its marker, exits; it may fail before the
marker, before the viewer or between viewer and socket. Only its own `finally` stops the
viewer: an app that crashes or is signalled leaves it in `viewers` for good. `Stop` is
SIGTERM or a failed tick, `Kill` is SIGKILL, after either of which the supervisor is
started again. **SessionLifecycle** is the promise: new, open, gone, receipted, one
session at a time. The refinement reads a session as gone when its app is not there and
no launch hook is on its way.

**DesktopBackend.** `up`, `apply` and `down` as sequences of the steps other
processes can see: what is in `pids.json` and `run.json`, each spawn, each wait and
its failure, each round of signals. A caller works on its own copy of the records,
as the code does. A program may fail to be spawned or to start, hang without ever
serving, ignore SIGTERM, or die. The gamepad is one variable here, created or not: its
creation and removal may fail, and it may end by itself at any time (`PadEnds`), which
`up()` does not look at once `create()` has returned. A process is a component and a
slot; a slot is free again when its process has died and no record names it, and which
of the free ones a spawn takes is a matter of naming. **InstanceLifecycle** is the
promise: a set of running processes without files or signals. A process starts for the
profile asked for, when no process of its kind and none of what depends on it runs; the
profile changes under weston at most; a call says "ok" only when what it was called for
is so of the programs. Of the gamepad it says that one is made only by an `up` over an
instance where nothing runs, and that none is left behind a `down`. The refinement takes
the processes as they are, and `run.json` as the profile.

**Toolchain** and **SystemMenu.** `build()` compiles, or takes from the cache, and
replaces shell, contract and manifest one after the other; a copy or write in place
is torn between its truncation and its end, a rename is not. `Content` stands for
bytes and for their hash. `SystemMenu` composes this with `send()`, which reads
`run.json`, manifest and contract one after the other before it presses, and with
what `up`, `apply` and `down` do to the shell and to its recorded hash.

**Launcher, Capture and Matrix.** The launcher consumes taps whenever it gets to them
and presents frames of its own. Callers compare two readings of `frames` or `revision`
and nothing else, so the model keeps the outcome of the comparison (`drifted`, `acked`)
in place of the counters. `Capture` is the automation route of `capture()`, request by
request, with both ways of settling. `Matrix` is `run()`: groups, the reset of the
navigation, the recipe, the look at the route and the captures. A request may raise at
every stage, which ends the cell and leaves the FIFO as it is. Text is applied when it
is acknowledged, which is an assumption on pf-shell (`matrix.py` puts no barrier behind
it). A reset and the look at the route ask the authority, too, over a connection without
timeout. `Matrix` takes one status for what the measurement says of a cell, and one
group for each profile; a route that a matrix file lists twice, which `load()` lets
through, is one route here.

**Profiles and Scenario.** `Profiles` is the run directory, `run.json` and the
directories under `PF_SIM_HOME/profiles`. `run.json` names a profile by what its
`profile.toml` says of itself, and `snapshot()` looks that name up again. Another
instance's snapshot, or the user, may put another directory in the place of a profile,
or take it away (`Edit`). Two variables are for the properties alone: `traceable`, the
name in `run.json` still stands for the profile that was seeded, and `still`, nothing
has touched the run directory since the snapshot under way began. `up()` and `apply()`
seed in three steps that a snapshot can come between (the old files go, the new ones
come, `run.json` is written); `snapshot()` reads, removes the earlier profile of that
name, copies the shell's files, copies and sanitizes the authority's, and writes
`profile.toml`, and may stop after any of them. Of a directory the model keeps the
preferences, the other files of the shell as one value, one lock, the last entry of the
history and the batteries. `Scenario` is `run()` over it: each repeat takes down what is
there, the programs first (`TakeDown`) and the holder with its FIFO at the end
(`Unpad`), brings the instance up, executes the steps inside the error boundary, polls
predicates (the history in one step, the socket and the scene in a later one) and takes
a picture; the report compares the hashes. The shell consumes taps and writes its files
meanwhile, sessions start, crash and return, an open session that a snapshot carried
over is reconciled, the programs and the holder may end between two runs, and the runner
may be killed. Where the programs have ended by themselves, or a runner was killed
between `TakeDown` and `Unpad`, the next `up()` finds the instance down, calls no
`down()` and takes over a live holder with the taps in its FIFO; `leftover` marks them
for the property. Nothing removes the sockets in `apps/`, so that an open session which
a profile brings along may find one under its name (`FreshSession`). Assumed of the
user: nobody snapshots to, edits or removes a profile that a scenario in progress uses.
Assumed of the system: each session has a name of its own, so that the socket a
predicate looks at is that of the last session. The steps `text`, `system_menu`,
`capture` and `sleep` ask for nothing that `Matrix` and `SystemMenu` do not;
`wait_idle()` before a picture changes nothing.

**UinputDomain.** A host is a record of what `systemd-detect-virt`, the device tree,
the builder's marker and `loginctl` answer, errors included. `ProbeHost` asks in the
order of the code and only for what is still needed; `Evaluate` follows the returns of
`evaluate()`; `Trusted` is the promise, without an order. There is no state: TLC
evaluates the comparison over small hosts as an `ASSUME` of `UinputDomainMC`, in the
runs `gamepad*`, whose kernel device it guards.

## Runs

| Run | Question | States |
|---|---|---|
| `gamepad` | Do the flock and the verified death of the recorded holder keep one reachable device, over two callers and two spawns? | every interleaving; symmetric in holders and PIDs |
| `gamepad_crash` | With a caller killed anywhere and PIDs reused: is the lock given back, is a destroyed holder dead, is nothing else signalled? | one spawn |
| `gamepad_fifo` | violation: does the serving holder keep its FIFO? | |
| `sessions` | Two sessions, one stop and one kill: one app with its viewer, receipts of one's own, and the abstract lifecycle | symmetric in sessions |
| `sessions_live` | Is an app that took its marker away always reported, through two stops and two kills? | one session |
| `sessions_crash` | violation: does every crash get a receipt? | one session, one kill |
| `desktop` | Any calls over three profiles, with programs that die, hang or resist | one caller |
| `desktop_apply` | violation: has every component of the profile been started after an `apply` that reports success? | no program dies on its own |
| `menu` | Builds failing or killed beside `up`, `apply` and `send` | one builder, two revisions |
| `menu_shell` | violation: is the press proved for the shell that runs? | no two calls overlap |
| `matrix` | Do pictures show their routes and match their scenes, and does the run end unless the authority never answers? | three groups, six cells |
| `scenario` | Does a green report mean what it says, does each repeat start from its profile, what do snapshots save, and does every scenario end? | three scenarios run twice, one name for snapshots and edits; 499,565 states |

What the passing runs show:

- **gamepad.** `OneHolder`, `NoUnreachableHolder` and `ServingHolderKeepsSocket` hold
  although the holder's own unlinks take no lock, because a caller stops the
  recorded holder and waits for its death before it clears or spawns. They are
  stated for runs without a caller killed inside a call: a holder whose creator died
  before it published itself is named by no file, and the code has no way to find it.
  `DestroyedHolderIsDead`, `OnlyHoldersAreSignalled` and `LockIsReleased` need no
  such proviso. `ImplementsDevice`, in a run without killed callers, adds the order of
  things: a record is withdrawn after the holder has ended, never before, and a holder
  is only ever started for a call that waits for it.
- **sessions.** `OneApp` counts an app and its viewer as one thing on the display, and
  excepts what the code leaves there: the viewer of an app that failed, crashed or was
  killed, which nobody stops, and which stays into the next session (see the hazards).
  `OneApp` and `CrashIsItsOwn` speak of watchers that report after
  their session was closed by another thread: the authority rejects observations out
  of turn, and the run shows that this is enough. `ImplementsLifecycle` adds that no
  receipt is given over a running app. `UnmarkedExitIsReceipted` is the liveness
  that reconciliation exists for.
- **desktop.** `NoStray` and `RunningMatchesMeta` relate the processes to the two files
  they are found by, through every failure of `up` and `apply`; `OneOfEach` counts
  processes from their spawn on. `TearDownIsComplete` and `UpReturnsWhole` say what a
  return means for the programs; of the gamepad an `up` that returns promises nothing,
  since its holder may be gone by then. `CallsReturn` says that every wait is bounded,
  the gamepad's flock assumed to be given (`LockIsReleased`). `ImplementsInstance` adds
  the order in which components come and go: none starts beside its like or under one
  that needs it, also when an `apply` follows one that failed half way, and only weston
  outlives a change of profile.
- **menu.** `ManifestIsOneBuild`: no manifest, active or cached, names files of two
  builds or of an unclean checkout. `BuildReturnsActive`: a build that succeeds has
  made active what its manifest says. `MenuFailsClosed`: the press rests on the
  contract built with the shell that `run.json` records, although the three files
  are read one by one while builds replace them.
- **matrix.** `EvidenceIsOneFrame` for every capture that settled by idleness;
  `PictureShowsItsRoute` for cells whose steps send one tap, as long as no tap is
  left from a step of several taps or from a failed cell of the profile. Outside
  these conditions the picture may show another route: the acknowledgement waits
  for the first change of the revision and does not count taps (see the hazards).
  `CellRecordedOnce` and `RunEnds` hold whatever fails and whatever the launcher
  does with its taps; `RunEnds` leaves room for one thing, an authority that takes a
  connection and never answers.
- **scenario.** `GreenIsEarned`: behind exit status 0, every step of every repeat has
  passed with the same picture, and each predicate was true at one instant of its own
  step, although its parts are read at different ones. `EveryRunStartsAlike`: the files
  of a repeat are those of its profile and no session of what ran before is left,
  whatever a repeat, a profile step, a killed runner or a half seeded directory left.
  Taps are left only where `up()` found the programs ended and no `down()` has come to
  the gamepad since; the run reaches that case, too. `LoadableIsSanitized`: a snapshot
  that stopped anywhere leaves nothing loadable with a lock in it. `SnapshotReseeds`: if
  the directory stays as it is from the first read to the last, the profile seeds the
  same preferences, files and history again, and the same batteries as long as the name
  in `run.json` stands for the profile that was seeded. A copied profile that kept its
  name, or one that was replaced meanwhile, gives others. `ScenarioEnds`: a step whose
  tap is never consumed or whose session never gets a receipt still ends in a report.

### Findings

- `gamepad_fifo` (`gamepad.py:347`): an exiting holder unlinks `input.fifo` after it
  has removed `gamepad.json`, without the lock. A new holder that took over the
  existing FIFO in between serves one nobody can open.
- `sessions_crash`: an app that crashes while a restarted supervisor watches its
  marker leaves the marker behind, and `app crash` yields no receipt.
- `desktop_apply` (`backend/desktop.py:279`): `run.json` names the new profile before
  the components it affects are started. When authorityd cannot be started, `apply` fails;
  the next one sees no change, restarts the shell only, and succeeds: neither authorityd
  nor the supervisor, which the profile calls for, has been started, although
  `docs/gui-dev-loop.md:38` says that applying a profile "restarts affected components".
- `menu_shell` (`system_menu.py:33`): the hash `system-menu` compares is that recorded
  at `up`, not that of the running shell, which a later `apply` may have started from
  a replaced file.

Remarks without a run of their own:

- `docs/gui-dev-loop.md:42` says that input commands wait for the resulting frame. The
  idle wait behind an input step (`scenario.py:157`) can return before the tap is
  consumed: the shell is idle as long as it has not read the FIFO.
- `docs/gui-dev-loop.md:105` says that repeat mode "fails on raster or semantic
  nondeterminism". Pictures are compared (`scenario.py:247`), scenes and step results
  are not; `GreenIsEarned` says what the comparison does give.
- `--keep-instance` with `--repeat 2` raises at the second start, outside the error
  boundary, and leaves no report (`StartRaises`).
- A snapshot of an instance that has its first run before it and was brought up with a
  scale or contrast seeds other preferences unless the preset is given again.
  `PrefsSurvive` states exactly when; `tests/test_profiles.py:108` covers the other case.
- A snapshot writes `supervisor = "pf-sim"` and no extra arguments, whatever the
  instance had (`profiles.py:240`).

### Bounds, and what is switched off

- Two callers and two spawns let one `create` or `destroy` meet the files, the
  process and the late messages of the other's holder. The proofs remove this bound.
- `Backlog` is 1 or 2 (the code's is 4): enough for a caller to meet another's
  abandoned connection, and for a full queue.
- `MaxCrashes`, `MaxStops`, `MaxKills`: 1 or 2 each; a restart after a restart is in
  `sessions_live`.
- `Slots` is two processes of each kind: one that runs and one that a failed or
  repeated call left or started beside it.
- `Attempts` 3 is the code's. `ResetTries` is 4 in place of 8: a reset needs at most
  two rounds when nothing is late, so the limit is reached by late taps in both, and
  the runs reach it. `Repeats` is 2.
- `RecycleInWindow` (off): a PID reused between the last look at `/proc`
  (`gamepad.py:217`) and `os.kill` (219). With it `OnlyHoldersAreSignalled` fails: the
  signal goes to a bare PID.
- `LaunchMidRestart` (off): a launch under way while the supervisor is being
  restarted. Then the reconciliation may race the hook of the same session.
- `CrashInCache` (off): a build killed while it writes over a cache entry that counts.
  Then `BuildReturnsActive` fails: later builds activate the torn entry.
- `Overlap` (on in `menu`, off in `menu_shell`): may builds, instance calls and `send`
  run at the same time.
- `Repeat` is 2, the least that compares; three scripts (a tap and a wait for the screen
  behind it; a profile step in an instance that is kept; a session in what a snapshot
  saved, which crashes and is waited for) use each operation of `Scenario` once; one name
  under home is saved over and over.
- `Capacity` is 1: a FIFO with one tap is one with taps left.
- `Edits` has one directory, the default profile with other batteries and its old name,
  which stands for whatever a name may come to mean.
- `SmallHosts` has every answer of every probe, two sessions in either order, and four
  sets of compatibles.
- One builder and one caller of the backend: `toolchain.py` and `backend/desktop.py`
  take no lock, and with two of them `ManifestIsOneBuild`, `NoStray` and `OneOfEach`
  fail. The sets are constants; nothing in the repository promises concurrent use.

### Deadlock and fairness

Deadlock is checked in the gamepad, desktop, menu and scenario runs. It is switched off for
sessions and matrix, which end: every session has its receipt, or the report is
written.

- *GamepadHolder*: a client that runs keeps running (weak fairness of its steps), and
  its clock reaches the deadline of the polling loop however often the loop is also
  able to ask again (strong fairness of `Deadline`: `time.monotonic()` in
  `gamepad.py:248-262`). Nothing is assumed of the holder or of the kernel.
- *SessionSupervisor*: the threads, the apps and the commands that have been given go
  on, and a supervisor that is down is started again. Nobody has to launch or stop
  anything.
- *DesktopBackend*: callers go on; programs need not start, die or answer. All waits
  have deadlines but that for the gamepad's flock, which `GamepadHolder` shows to be given
  back.
- *Matrix*: the runner goes on where a request is answered or fails within its timeout,
  which is everywhere but at `AsksAuthority`: the connection to the authority has no
  timeout (`authority.py:24`), and no step is assumed there. Whether the launcher ever
  consumes a tap is left open.
- *Scenario*: the runner goes on and its deadlines pass. Neither the shell nor a session
  owes it anything. That the authority answers is part of "goes on", an assumption that
  the code does not secure.

## Proofs

`GamepadHolder_proofs` proves, for any sets of clients, holders and PIDs, any backlog
and any bound on crashes (assumption `ConstantsAssumption`, which says that the
special values differ from the members of the sets):

| Theorem | States |
|---|---|
| `TypeCorrectness` | `Spec => []TypeOK` |
| `AtMostOneHolder` | `Spec => []OneHolder` |
| `HolderIsReachable` | `Spec => []NoUnreachableHolder` |
| `SocketIsKept` | `Spec => []ServingHolderKeepsSocket` |
| `DestroyIsComplete` | `Spec => DestroyLeavesNoHolder` |
| `DeviceImplemented` | `Spec => ImplementsDevice`, if `MaxCrashes = 0` |

None of these is inductive alone: that at most one holder runs depends on which client
is about to spawn, on what it has stopped and verified dead, and on whose files are in
place. `IInv` is the conjunction of `TypeOK`; `Table` (the process table and the
holders agree); `Recorded` (a record names something that was spawned); `Locking`
(whoever is in the body of `create` or `destroy` has the flock); and, as long as no
client was killed inside a call, `Accounting`. `Accounting` says what is owed to a
holder at each point of its life (a published one is named by `gamepad.json`, a
listening one has the socket, one that is starting has a client that answers for it)
and what a client may rely on at each point of its call (before it clears or spawns,
no holder is left that would touch the files). Each part has a lemma with one step per
action; `ClientMove` and `HolderMove` carry the frame conditions that most of the
actions share, and `StoppedTarget` the core of the argument: once the holder being
stopped no longer touches the files, no holder does. `DestroyIsComplete` follows from
`IInv` at the step that returns. For `DeviceImplemented`, `DeviceInv` adds what the
abstract device sees and the other properties do not: which of the two calls a client in
the middle of one has been called for (`Purpose`), that the flock is not kept from one
call to the next (`Held`), and that no record precedes the holder's own (`Unnamed`). The
lemmas then map the actions: a client's unlink of `gamepad.json` is a `Withdraw` or a
`Leave` because no holder runs by then, a holder's is a `Withdraw` behind its `Detach`.

`GamepadSignals_proofs` adds two theorems that hold whichever clients are killed, and
so cannot rest on `Accounting`:

| Theorem | States | Besides `Table` and `Recorded` |
|---|---|---|
| `DestroyIsVerified` | `Spec => DestroyedHolderIsDead` | `Verified`: before the files are removed for a "destroyed", the recorded holder has died |
| `SignalsAreForHolders` | `Spec => OnlyHoldersAreSignalled`, if `RecycleInWindow = FALSE` | `Undisturbed`: between the last look at `/proc` and the signal, the PID is not a stranger's |

The condition of the second is the code's own limit: `os.kill` names a PID, and nothing
in `gamepad.py` keeps one from being reused after `proc_start` was read.

`Matrix_proofs` is about any groups, routes, recipes, attempts and repeats, and whatever
the launcher consumes or presents between two requests:

| Theorem | States | Besides the types |
|---|---|---|
| `EvidenceIsConsistent` | `Spec => []EvidenceIsOneFrame` | `OneFrame` |
| `TypeCorrectness` | `Spec => []TypeOK` | `CellInv`, `ShotsInv` |
| `OneVerdictEach` | `Spec => CellRecordedOnce` | `VerdictInv` |
| `PicturesShowTheirRoutes` | `Spec => []PictureShowsItsRoute` | `VerdictInv`, `CalmInv` |

`OneFrame` says that a call of `capture()` is under way only while `run()` waits for it,
that the picture shows what is presented until something else is (`drifted`), that the
scene is confirmed a second time only by a call that never saw the shell idle (`churn`),
and that a call which is done has a picture and a scene of one frame unless it never saw
it idle; the property alone does not survive `Measured`, which turns the call's result
into evidence. `VerdictInv` says which cells have their verdict: those of the groups
before, and of the group under way those that are neither left nor under way. `CalmInv`
is the argument of the barrier: in a profile that no cell has disturbed, the FIFO holds
at most the one tap of the step under way, and none that is unacknowledged behind the
barrier; so nothing can move the launcher between the look at the route and the last
picture of the cell. Verdicts are final, and so a profile that is undisturbed now always
was. `MatrixAssumption` says that a recipe consists of steps and that a profile is listed
once (`run()` makes the groups the keys of a dictionary).

`SessionSupervisor_proofs` is about any sessions and any number of stops and kills
(`AtMostOneApp` with the exception that `OneApp` makes for the viewers of apps that
failed):

| Theorem | States | Assuming |
|---|---|---|
| `TypeCorrectness` | `Spec => []TypeOK` | |
| `AtMostOneApp` | `Spec => []OneApp` | `~LaunchMidRestart` |
| `CrashesAreTheirOwn` | `Spec => []CrashIsItsOwn` | `~LaunchMidRestart` |
| `LifecycleImplemented` | `Spec => ImplementsLifecycle` | `~LaunchMidRestart` |

Observations carry no session, so that what keeps a late report from closing the wrong
session is spread over the threads. `IInv` collects it: `AppInv` (an app, its marker or
its launch hook belong to the open session), `ThreadInv` (a thread reports only when
the open session has nothing left to show, and never further in the return chain than
the authority has come), `WatcherInv` (a watcher whose session is not the open one has
nothing left to do), `AdopterInv` and `MainInv` (what a restarted supervisor has read is
still so, because no thread but Main moves until it has decided), `VerdictInv` (the
verdict is that of the open session). The refinement maps every step to one of
`SessionLifecycle` or to a stutter. The assumption is the one the run makes, and is
needed: a launch in progress while `reconcile()` decides makes `MainInv` false.

`DesktopBackend_proofs` is about any profiles and slots, and any programs that die:

| Theorem | States | Assuming |
|---|---|---|
| `TypeCorrectness` | `Spec => []TypeOK` | |
| `NothingRunsUnrecorded` | `Spec => []NoStray` | `OneCaller` |
| `ProfileIsWhatRuns` | `Spec => []RunningMatchesMeta` | `OneCaller` |
| `OneProcessOfEach` | `Spec => []OneOfEach` | `OneCaller` |
| `NothingSurvivesDown` | `Spec => TearDownIsComplete` | `OneCaller` |
| `UpIsWhole` | `Spec => UpReturnsWhole` | `OneCaller` |
| `InstanceImplemented` | `Spec => ImplementsInstance` | `OneCaller` |

`CallerInv` says what a caller relies on at each point of its call: `RecordsInv` (its
copy of the records is `pids.json` or about to be, and whatever runs is in it, but for
the process it has just spawned; where it is about to build, nothing runs),
`SpawnInv` (what is yet to be spawned is not recorded; so no second process of a kind is
ever started, `OneOfEach`), `PlanInv` (an `apply` that leaves
the authority alone keeps the profile of `run.json`), `CallInv` and `WholeInv` (what an
`up` has behind it is recorded and has its socket). None of them speaks of the gamepad,
which may end at any point. `OneCaller` is needed: the backend
takes no lock, and with two callers TLC refutes `NoStray` and `OneOfEach`.
`InstanceImplemented` needs `CauseInv` besides: only an `up` or a `down` takes the instance
down, an `apply` never spawns weston, and the search for orphans comes after the gamepad is
gone. Its core is `InstanceSpawn`: when a component is spawned, neither it nor one that
depends on it has a record (`SpawnInv`), so by `RecordsInv` none of them runs.

`SystemMenu_proofs` is about any revisions, any contracts and any interleaving of
`send()` with `up`, `apply`, `down` and builds:

| Theorem | States | Assuming |
|---|---|---|
| `TypesAreKept` | `Spec => []TypeOK` | `OneBuilder` |
| `ManifestsAreOneBuild` | `Spec => []ManifestIsOneBuild` | `OneBuilder` |
| `BuildsReturnWhatIsActive` | `Spec => BuildReturnsActive` | `OneBuilder`, `~CrashInCache` |
| `MenuPressIsProven` | `Spec => []MenuFailsClosed` | `OneBuilder` |

`ToolInv` says that manifests, active or cached, are of one build, and what a builder has
verified at each point before it writes one (`Relies`); `ActiveInv` adds, for the third
theorem, that a cache entry with a manifest has that build's files and that a builder
past its activation has left them in place (`Settled`); `InstanceInv` and `MenuInv` carry
the provenance of the hash in `run.json` and of each file `send()` has read to the press.

`Scenario_proofs` is about any profiles, edits, scripts, names and repeats, whatever runs
beside a scenario:

| Theorem | States | Besides the types |
|---|---|---|
| `PrefsSurvive` | what a profile, its preset, a snapshot and a second seeding make of look and preferences | |
| `TypeCorrectness` | `Spec => []TypeOK` | `MetaInv`, `RunsInv`, `CopyInv` |
| `SnapshotsAreSanitized` | `Spec => []LoadableIsSanitized` | `SavedInv` |
| `RunsStartAlike` | `Spec => EveryRunStartsAlike` | `SavedInv`, `SeedingInv`, `LeftInv` |
| `GreenReportsAreEarned` | `Spec => GreenIsEarned` | `RunsInv`, `SessionInv`, `HeldInv`, `ResultsInv` |
| `SnapshotsReseed` | `Spec => SnapshotReseeds` | `SavedInv`, `MetaInv`, `SourceInv`, `BatteriesInv`, `StillInv` |

`MetaInv` says what `run.json` vouches for: once it is there the batteries are those of a
profile, and when it is of the seeding that the directory comes from the preferences are
there, too. `RunsInv` counts: a repeat under way has one record for each step behind it,
none of them failed while a step is being executed, and the repeats before have one for
each step. `SavedInv` says where a snapshot under way is: its directory has no
`profile.toml` before the last step, and no lock from the step before. `SeedingInv` follows
the seeding of an `up` from the load of the profile to its spawn: the profile that was
loaded is still what its name stands for, and neither shell nor session can move between.
`LeftInv` says that a FIFO which outlives the programs is one `down()` has not come to:
`TakeDown` and `ProgramsEnd` mark what they find in it, nothing is written while the
programs are down, and only `Unpad` and the end of the holder empty it.

The argument of `GreenReportsAreEarned` is in `EvaluationIsOfAnInstant`. `_predicate()` has
read the history and looks at socket and scene later; `HeldInv` says that what it would
find true then has been true since the step began. A scene that changes in between makes
the predicate true of the present, and so does a socket that comes or goes: by
`SessionInv` an application, and its socket, are there only as long as the history ends
with their open session, so that the history read earlier and the one of now agree
wherever the socket matters. That an `apply()` keeps `SessionInv` is where the order of its
steps counts: it ends the session if and only if it will remove the history.
`ResultsInv` carries what was true into the records, and says that a skipped step has a
failed one before it.

The hard part of `SnapshotsReseed` is the batteries, the one thing that a snapshot does
not read from the run directory: `BatteriesInv` says that, while the name in `run.json`
stands for the profile that was seeded, what is found under it, if anything is, has the
batteries of the directory, also while a snapshot replaces that very profile, because it
has read them before. `StillInv` says that what a snapshot has copied so far of a
directory nobody has touched is what the directory holds.

`ProfilesAssumption` and `ScriptsAssumption` say what the code checks when it loads a
profile or a scenario (`profiles.py:33-45`, `scenario.py:48-105`): fields have the
values they may have, and a scenario names scale and contrast, which an `up` from the
command line need not; and that the model value for "nothing there" is none of these.
`EditsAssumption` says that what others put in the place of a profile holds no lock,
which `snapshot()` sees to and a user is trusted with.

`UinputDomain_proofs` proves `GuardIsExact`: for every host, with any number of sessions
and any device tree, `guarded_open()` opens the device if and only if the host is
`Trusted`.

Only model-checked: liveness (`LockIsReleased`, `UnmarkedExitIsReceipted`, `CallsReturn`,
`RunEnds`, `ScenarioEnds`), which is out of the prover's reach.

## Plan

Done: `GamepadHolder` with `GamepadDevice`, `SessionSupervisor` with `SessionLifecycle`,
`DesktopBackend` with `InstanceLifecycle`, `Toolchain` with `SystemMenu`, `Launcher` with
`Capture` and `Matrix`, `Profiles` with `Scenario`, `UinputDomain`; and the proofs above.

Left, the model:

1. Callers that are killed or cancelled (Ctrl-C) in `DesktopBackend`, `request(quit)`
   and other taps during `destroy` in `GamepadHolder`, a second caller on the instance
   of a capture.
2. The audit runner over the calls it makes.

## Not modelled

Pixel measurement, audits, the doctor, the command line, name validation and the
rendering of reports have no state that others share. The bytes of events in the FIFO
and a key left pressed by a killed holder concern pf-shell, which is not in this
repository. The raw capture is one external call. Reading and validating `profile.toml`
and scenario files field by field is text processing; that a snapshot drops the
supervisor kind and the extra arguments of the instance is left out with them. Shells of
other instances, which the search for orphans ends as well (`desktop.py:36-53`), are not
there in a model of one instance. The authority client and the lookups of input verbs
have no state: they appear as the requests and taps of the modules that use them. A
caller of the backend killed between a spawn and its record, and a write of `pids.json`
that fails there, are hazards without a property: nothing in the code could find such a
process but the search for orphaned shells. The other hazards that no property covers
(two concurrent callers or builders, a launch during a restart of the supervisor, a
build killed inside the cache, an authority that never answers, the picture and the
scene of a scenario step) say why in `PROJECT.json`.
