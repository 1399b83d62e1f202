------------------------------ MODULE Scenario -------------------------------
(***************************************************************************)
(* The scenario runner, run() of pf_sim/scenario.py over LiveBackend: each *)
(* repeat brings the instance up from the profile, executes the steps and  *)
(* takes a picture behind each; the report compares the repeats.           *)
(*                                                                         *)
(* It runs while the shell consumes taps and keeps its files, the          *)
(* applications of sessions start and end, and somebody takes snapshots.   *)
(* Left out: the steps text, system_menu, capture and sleep, which ask for *)
(* nothing that Matrix and SystemMenu do not, and the wait_idle() before a *)
(* picture or a look, which changes nothing and may time out.              *)
(***************************************************************************)
EXTENDS Launcher, Profiles

CONSTANTS
    Scripts,    \* scenarios: a profile, its preset, the steps, and --keep-instance
    Repeat,     \* --repeat
    Capacity    \* bound: taps that the FIFO holds

ASSUME RepeatAssumption == Repeat \in Nat \ {0}
ASSUME CapacityAssumption == Capacity \in Nat

\* What the steps of a scenario may be that uses the profiles names.
StepsOver(names) ==
    [op : {"profile"}, profile : names, preset : Presets]
    \cup [op : {"input"}, tap : Taps] \cup [op : {"launch"}]
    \cup [op : {"app"}, receipt : {"Returned", "Crash"}]
    \cup [op : {"wait_for", "assert"},
          predicate : {"screen", "session_state", "last_receipt"} \X STRING]

\* names are the profiles a scenario uses; an instance without application has none.
ASSUME ScriptsAssumption ==
    /\ \A s \in Scripts :
          /\ s.profile \in s.names
          /\ s.preset \in Presets
          /\ s.steps \in Seq(StepsOver(s.names))
    /\ None \notin Scripts
    /\ None \notin {"starting", "running", "Returned", "Crash"}

VARIABLES
    stack,      \* the programs of the instance: down, partial or up
    leftover,   \* they have ended, and taps are left that no down() has disposed of
    app,        \* the application of the open session
    socket,     \* its socket is in apps/
    pc,         \* where run() is
    script,     \* the scenario, None between two
    records,    \* what the report says of each step of each repeat
    entry,      \* the last entry of the history, as a predicate has read it
    late,       \* the deadline of the predicate is over
    held,       \* the predicate has been true since its step began
    verdict     \* exit status and report of the last scenario

session == <<app, socket>>
runner == <<pc, script, records, entry, late, verdict>>
instance == <<stack, leftover>>
vars == <<launcher, profiles, instance, session, runner, held, still>>

Polling == {"poll", "match"}
Pcs == {"idle", "start", "unpad", "seed", "step"} \cup Polling \cup {"picture"}

GoTo(p) == pc' = p
End == GoTo("idle") /\ script' = None /\ records' = <<>> /\ entry' = None /\ late' = FALSE

Steps == script.steps
Runs == Len(records)
Now == Len(records[Runs]) + 1       \* the step under way
Step == Steps[Now]
Failed == \E i \in 1..(Now - 1) : records[Runs][i].result = "fail"

\* The picture shows a place in the look the files give it.
Picture == [place |-> place, prefs |-> dir.prefs, data |-> dir.data, power |-> dir.power]

RecordStep(result, picture) ==
    records' = [records EXCEPT ![Runs] =
                  Append(@, [result |-> result, picture |-> picture,
                                   held |-> held /\ result = "pass"])]

-----------------------------------------------------------------------------
(* Bringing the instance up, and applying a profile.                       *)

\* Nobody uses a profile while a snapshot replaces it: assumed of the user.
Begin ==
    /\ pc = "idle"
    /\ script' \in Scripts
    /\ snap # None => snap.name \notin script'.names
    /\ late' = FALSE
    /\ verdict' = None
    /\ GoTo("start")
    /\ UNCHANGED <<launcher, profiles, instance, session, records, entry>>

\* What start() raises leaves run() at once: no report.
StartRaises ==
    /\ pc = "start"
    /\ Load(script.profile) = None \/ (script.keep /\ stack # "down")
    /\ End
    /\ UNCHANGED <<launcher, profiles, instance, session, verdict>>

\* Nothing ever removes a socket from apps/ but its own application and supervisor: an
\* open session that a profile brings along may find one under its name.
FreshSession(profile) ==
    /\ app' = None
    /\ socket' \in IF profile.history = "open" THEN BOOLEAN ELSE {FALSE}

\* down() first ends the programs ...
TakeDown ==
    /\ pc = "start"
    /\ Load(script.profile) # None
    /\ stack # "down"
    /\ ~script.keep
    /\ stack' = "down"
    /\ leftover' = (fifo # <<>>)
    /\ app' = None
    /\ socket' = FALSE
    /\ GoTo("unpad")
    /\ UNCHANGED <<launcher, profiles, script, records, entry, late, verdict>>

\* Mutant: what the holder has not delivered stays.
UnpadKeeping ==
    /\ pc = "unpad"
    /\ leftover' = FALSE
    /\ GoTo("start")
    /\ UNCHANGED <<launcher, profiles, stack, session, script, records, entry, late, verdict>>

\* ... and the holder, with its FIFO, at the very end.
Unpad ==
    /\ pc = "unpad"
    /\ fifo' = <<>>
    /\ leftover' = FALSE
    /\ GoTo("start")
    /\ UNCHANGED <<place, acked, drifted, profiles, stack, session,
                   script, records, entry, late, verdict>>

\* The holder does not go away: what destroy() raises leaves run().
UnpadFails ==
    /\ pc = "unpad"
    /\ End
    /\ UNCHANGED <<launcher, profiles, instance, session, verdict>>

\* up() over an instance that is down does not call down(), and takes over a holder
\* that is alive as it is.
Start ==
    /\ pc = "start"
    /\ Load(script.profile) # None
    /\ stack = "down"
    /\ FreshSession(Load(script.profile))
    /\ StartSeeding("up", script.profile, script.preset)
    /\ GoTo("seed")
    /\ UNCHANGED <<launcher, dir, meta, whole, traceable, home, snap, instance,
                   script, records, entry, late, verdict>>

\* The FIFO belongs to the holder and outlives the shell, but for what the shell has
\* read already.
Apply ==
    /\ Step.op = "profile"
    /\ Load(Step.profile) # None
    /\ stack' = "partial"
    /\ IF Load(Step.profile).authority # meta.authority
       THEN FreshSession(Load(Step.profile))
       ELSE UNCHANGED session
    /\ fifo' \in {fifo, <<>>}
    /\ StartSeeding("apply", Step.profile, Step.preset)
    /\ GoTo("seed")
    /\ UNCHANGED <<place, acked, drifted, dir, meta, whole, traceable, home, snap, leftover,
                   script, records, entry, late, verdict>>

Seed ==
    /\ pc = "seed"
    /\ Wipe \/ SeedStep \/ Record
    /\ UNCHANGED <<launcher, instance, session, runner>>

\* The shell starts over the directory, and locks it.
Spawn ==
    /\ pc = "seed"
    /\ seeding.at = "spawn"
    /\ stack' = "up"
    /\ leftover' = FALSE
    /\ dir' = [dir EXCEPT !.lock = TRUE]
    /\ place' = [screen |-> IF dir.prefs # None /\ dir.prefs.first THEN "home" ELSE "first-run",
                 query |-> FALSE]
    /\ seeding' = None
    /\ IF seeding.how = "up" THEN records' = Append(records, <<>>) /\ GoTo("step")
                             ELSE UNCHANGED records /\ GoTo("picture")
    /\ UNCHANGED <<fifo, acked, drifted, meta, whole, traceable, home, snap, session,
                   script, entry, late, verdict>>

\* Mutant: the failure leaves the seeding open.
SpawnFailsOpen ==
    /\ pc = "seed"
    /\ seeding.at = "spawn"
    /\ GoTo("step")
    /\ UNCHANGED <<launcher, profiles, instance, session, script, records, entry, late, verdict>>

\* A program of the instance does not come up: up() calls down(), which may fail to get
\* rid of the holder, and raises out of run(); apply() raises and the step fails.
SpawnFails ==
    /\ pc = "seed"
    /\ seeding.at = "spawn"
    /\ seeding' = None
    /\ IF seeding.how = "up"
       THEN /\ End
            /\ \/ fifo' = <<>> /\ leftover' = FALSE
               \/ UNCHANGED fifo /\ leftover' = (fifo # <<>>)
       ELSE /\ GoTo("step")
            /\ RecordStep("fail", None)
            /\ UNCHANGED <<fifo, leftover, script, entry, late>>
    /\ UNCHANGED <<place, acked, drifted, dir, meta, whole, traceable, home, snap,
                   stack, session, verdict>>

-----------------------------------------------------------------------------
(* execute(): one step.                                                    *)

Input ==
    /\ Step.op = "input"
    /\ stack = "up"
    /\ Len(fifo) < Capacity
    /\ fifo' = Append(fifo, Step.tap)
    /\ GoTo("picture")
    /\ UNCHANGED <<place, acked, drifted, profiles, instance, session,
                   script, records, entry, late, verdict>>

\* The authority opens one session at a time.
Launch ==
    /\ Step.op = "launch"
    /\ meta.authority
    /\ dir.history # "open"
    /\ dir' = [dir EXCEPT !.history = "open"]
    /\ app' = "starting"
    /\ socket' = FALSE
    /\ GoTo("picture")
    /\ UNCHANGED <<launcher, meta, whole, traceable, seeding, home, snap, instance,
                   script, records, entry, late, verdict>>

\* The command goes to the socket of the last session without a receipt.
AppCommand ==
    /\ Step.op = "app"
    /\ dir.history = "open"
    /\ socket
    /\ app = "running"
    /\ app' = Step.receipt
    /\ socket' = (Step.receipt = "Crash")
    /\ GoTo("picture")
    /\ UNCHANGED <<launcher, profiles, instance, script, records, entry, late, verdict>>

StartPredicate ==
    /\ Step.op \in {"wait_for", "assert"}
    /\ late' = FALSE
    /\ GoTo("poll")
    /\ UNCHANGED <<launcher, profiles, instance, session, script, records, entry, verdict>>

StepFails ==
    /\ pc \in {"step", "picture"} \cup Polling
    /\ Runs > 0
    /\ Now <= Len(Steps)
    /\ ~Failed
    /\ RecordStep("fail", None)
    /\ GoTo("step")
    /\ entry' = None
    /\ late' = FALSE
    /\ UNCHANGED <<launcher, profiles, instance, session, script, verdict>>

Execute ==
    /\ pc = "step"
    /\ Now <= Len(Steps)
    /\ ~Failed
    /\ Apply \/ Input \/ Launch \/ AppCommand \/ StartPredicate

Skip ==
    /\ pc = "step"
    /\ Now <= Len(Steps)
    /\ Failed
    /\ RecordStep("skipped", None)
    /\ UNCHANGED <<launcher, profiles, instance, session, pc, script, entry, late, verdict>>

-----------------------------------------------------------------------------
(* _predicate().                                                           *)

Kind(expression) == expression[1]
Expected(expression) == expression[2]

\* _add_session_state(): a session without receipt runs if its socket exists.
SessionState(last, exists) ==
    CASE last = "open" /\ exists -> "running"
      [] last = "open" /\ ~exists -> "launching"
      [] OTHER -> "idle"

Matches(expression, last) ==
    Expected(expression) = CASE Kind(expression) = "screen" -> place.screen
                             [] Kind(expression) = "session_state" -> SessionState(last, socket)
                             [] Kind(expression) = "last_receipt" -> last

\* The history is read first, the socket looked at and the scene read later.
ReadHistory ==
    /\ pc = "poll"
    /\ entry' = dir.history
    /\ GoTo("match")
    /\ UNCHANGED <<launcher, profiles, instance, session, script, records, late, verdict>>

\* Mutant: a predicate is tried for as long as it takes.
EvaluateForEver ==
    /\ pc = "match"
    /\ GoTo(IF Matches(Step.predicate, entry) THEN "picture" ELSE "poll")
    /\ entry' = None
    /\ UNCHANGED <<launcher, profiles, instance, session, script, records, late, verdict>>

Evaluate ==
    /\ pc = "match"
    /\ IF Matches(Step.predicate, entry)
       THEN GoTo("picture") /\ late' = FALSE /\ UNCHANGED records
       ELSE IF Step.op = "assert" \/ late
            THEN GoTo("step") /\ late' = FALSE /\ RecordStep("fail", None)
            ELSE GoTo("poll") /\ UNCHANGED <<records, late>>
    /\ entry' = None
    /\ UNCHANGED <<launcher, profiles, instance, session, script, verdict>>

Expire ==
    /\ pc \in Polling
    /\ Step.op = "wait_for"
    /\ ~late
    /\ late' = TRUE
    /\ UNCHANGED <<launcher, profiles, instance, session, pc, script, records, entry, verdict>>

-----------------------------------------------------------------------------
(* The picture of a step and the report.                                   *)

TakePicture ==
    /\ pc = "picture"
    /\ RecordStep("pass", Picture)
    /\ GoTo("step")
    /\ UNCHANGED <<launcher, profiles, instance, session, script, entry, late, verdict>>

RunOver == pc = "step" /\ Now > Len(Steps)

NextRun ==
    /\ RunOver
    /\ Runs < Repeat
    /\ GoTo("start")
    /\ UNCHANGED <<launcher, profiles, instance, session, script, records, entry, late, verdict>>

Passed == \A r \in 1..Runs : \A i \in DOMAIN Steps : records[r][i].result # "fail"

\* Mutant: the pictures of the last step are compared.
DeterministicEnd ==
    \A r \in 1..Runs : records[r][Len(Steps)].picture = records[1][Len(Steps)].picture

\* One hash for each step, that of no picture counting as one.
Deterministic ==
    \A i \in DOMAIN Steps : \A r \in 1..Runs : records[r][i].picture = records[1][i].picture

Report ==
    /\ RunOver
    /\ Runs = Repeat
    /\ verdict' = (IF Passed /\ Deterministic THEN "green" ELSE "red")
    /\ End
    /\ UNCHANGED <<launcher, profiles, instance, session>>

\* Programs may have been started, or ended one after the other.
Killed ==
    /\ pc # "idle"
    /\ End
    /\ seeding' = None
    /\ stack' \in IF \/ seeding # None /\ seeding.at = "spawn"
                     \/ pc = "start" /\ stack # "down" /\ ~script.keep
                  THEN {stack, "partial"} ELSE {stack}
    /\ UNCHANGED <<launcher, dir, meta, whole, traceable, home, snap, leftover, session, verdict>>

RunnerStep ==
    \/ Begin \/ StartRaises \/ TakeDown \/ Unpad \/ UnpadFails \/ Start
    \/ Seed \/ Spawn \/ SpawnFails
    \/ Execute \/ StepFails \/ Skip \/ ReadHistory \/ Evaluate
    \/ TakePicture \/ NextRun \/ Report

-----------------------------------------------------------------------------
(* The shell, the sessions and the snapshots meanwhile.                    *)

\* Leaving the first-run screen completes it, anything else may touch other files.
ShellConsumes ==
    /\ stack = "up"
    /\ Consume
    /\ dir' \in IF place.screen = "first-run" /\ place'.screen = "home"
                THEN {[dir EXCEPT !.prefs = [first |-> TRUE, scale |-> meta.preset.scale,
                                             contrast |-> meta.preset.contrast]]}
                ELSE {dir, [dir EXCEPT !.data = "edited"]}
    /\ UNCHANGED <<meta, whole, traceable, seeding, home, snap, instance, session, runner>>

AppStarts ==
    /\ app = "starting"
    /\ app' = "running"
    /\ socket' = TRUE
    /\ UNCHANGED <<launcher, profiles, instance, runner>>

\* The supervisor removes the socket that a crash leaves and then reports the end.
SocketRemoved ==
    /\ app = "Crash"
    /\ socket
    /\ socket' = FALSE
    /\ UNCHANGED <<launcher, profiles, instance, app, runner>>

Receipt ==
    /\ app \in {"Returned", "Crash"}
    /\ ~socket
    /\ app' = None
    /\ dir' = [dir EXCEPT !.history = app]
    /\ UNCHANGED <<launcher, meta, whole, traceable, seeding, home, snap, instance, socket, runner>>

\* A supervisor that starts and finds a session without an application, as a
\* snapshot may hold one, reports that it has returned.
Reconcile ==
    /\ stack = "up"
    /\ meta.authority
    /\ dir.history = "open"
    /\ app = None
    /\ dir' = [dir EXCEPT !.history = "Returned"]
    /\ UNCHANGED <<launcher, meta, whole, traceable, seeding, home, snap, instance, session, runner>>

Snapshot ==
    /\ \/ \E name \in HomeNames : SnapRead(name) /\ (pc # "idle" => name \notin script.names)
       \/ SnapshotStep
    /\ UNCHANGED <<launcher, instance, session, runner>>

ProfileEdited ==
    /\ \E name \in HomeNames : Edit(name) /\ (pc # "idle" => name \notin script.names)
    /\ UNCHANGED <<launcher, instance, session, runner>>

\* The programs end without anybody having asked them to.  Between the start of a run
\* and its last step that is a step that fails, whichever comes next.
ProgramsEnd ==
    /\ pc \in {"idle", "start"}
    /\ stack = "up"
    /\ stack' = "down"
    /\ leftover' = (fifo # <<>>)
    /\ UNCHANGED <<launcher, profiles, session, runner>>

\* So may the holder.  What it has written is lost when nobody else has the FIFO open.
HolderEnds ==
    /\ stack # "up"
    /\ fifo # <<>>
    /\ fifo' = <<>>
    /\ leftover' = FALSE
    /\ UNCHANGED <<place, acked, drifted, profiles, stack, session, runner>>

-----------------------------------------------------------------------------
\* held records, for the properties, that the predicate was true at an instant of
\* its step.
HoldsNow == Matches(Step.predicate, dir.history)

Holding ==
    held' = CASE pc' \in Polling -> HoldsNow' \/ (pc \in Polling /\ held)
              [] pc' = "picture" -> held
              [] OTHER -> FALSE

Ghosts == Holding /\ Watching

Init ==
    /\ fifo = <<>>
    /\ place = [screen |-> "home", query |-> FALSE]
    /\ acked = TRUE
    /\ drifted = TRUE
    /\ dir = Empty
    /\ meta = None
    /\ whole = FALSE
    /\ traceable = FALSE
    /\ seeding = None
    /\ home = [n \in HomeNames |-> None]
    /\ snap = None
    /\ stack = "down"
    /\ leftover = FALSE
    /\ app = None
    /\ socket = FALSE
    /\ pc = "idle"
    /\ script = None
    /\ records = <<>>
    /\ entry = None
    /\ late = FALSE
    /\ held = FALSE
    /\ still = FALSE
    /\ verdict = None

Next ==
    /\ \/ RunnerStep \/ Expire \/ Killed
       \/ ShellConsumes \/ AppStarts \/ SocketRemoved \/ Receipt \/ Reconcile
       \/ Snapshot \/ ProfileEdited \/ ProgramsEnd \/ HolderEnds
    /\ Ghosts

Spec == Init /\ [][Next]_vars

\* The runner goes on, and time does; nothing else is owed.
FairSpec ==
    /\ Spec
    /\ WF_vars(RunnerStep /\ Ghosts)
    /\ WF_vars(Expire /\ Ghosts)

-----------------------------------------------------------------------------
Pictures == [place : Places, prefs : Prefs \cup {None}, data : Datas,
             power : Powers \cup {None}]
Records == [result : {"pass", "fail", "skipped"}, picture : Pictures \cup {None},
            held : BOOLEAN]

\* The values of the variables.
TypeOK ==
    /\ LauncherTypeOK
    /\ ProfilesTypeOK
    /\ stack \in {"down", "partial", "up"}
    /\ leftover \in BOOLEAN
    /\ app \in {None, "starting", "running", "Returned", "Crash"}
    /\ socket \in BOOLEAN
    /\ pc \in Pcs
    /\ script \in Scripts \cup {None}
    /\ records \in Seq(Seq(Records))
    /\ Runs <= Repeat
    /\ \A r \in 1..Runs : Len(records[r]) <= Len(Steps)
    /\ entry \in Histories
    /\ late \in BOOLEAN
    /\ held \in BOOLEAN
    /\ (pc = "seed") = (seeding # None)
    /\ verdict \in {None, "green", "red"}

\* scenario.py:247-253: exit status 0 is earned.  Every step of every repeat has
\* run, its predicate was true at an instant of that very step although history,
\* socket and scene are read one after the other, and its pictures are the same.
GreenIsEarned ==
    [][ Report /\ verdict' = "green" =>
          /\ Runs = Repeat
          /\ \A r \in 1..Runs, i \in DOMAIN Steps :
                /\ records[r][i].result = "pass"
                /\ records[r][i].picture = records[1][i].picture
                /\ Steps[i].op \in {"wait_for", "assert"} => records[r][i].held ]_vars

\* docs/gui-dev-loop.md:38, "snapshot output is sanitized and contains no live
\* sockets, locks, or markers": what can be loaded is, wherever a snapshot stopped.
LoadableIsSanitized ==
    \A n \in HomeNames : home[n] # None /\ home[n].toml # None => ~home[n].lock

\* Every repeat starts from the files of its profile and without a session of what ran
\* before, profile steps, snapshots and killed runners included.  Taps of it may be left
\* only where up() finds an instance whose programs have ended, and no down() since then
\* has destroyed the gamepad.
EveryRunStartsAlike ==
    [][ pc = "seed" /\ Spawn /\ seeding.how = "up" =>
          /\ dir = SeedTree(Empty, Load(script.profile), script.preset, TRUE)
          /\ fifo' # <<>> => leftover
          /\ app' = None
          /\ socket' => dir.history = "open" ]_vars

\* What snapshot() saves of a directory that nobody touches meanwhile seeds the same
\* files anew; a first run needs its preset again (PrefsSurvive says why).  So it does
\* with the batteries if the name in run.json stands for the profile that was seeded.
SnapshotReseeds ==
    [][ \A n \in HomeNames : SnapToml /\ snap.name = n /\ still =>
          LET p == Load(n)'
              preset == IF p.prefs.first THEN NoPreset
                        ELSE [scale |-> p.prefs.scale, contrast |-> p.prefs.contrast]
              again == SeedTree(Empty, p, preset, TRUE)
          IN  /\ again = [dir EXCEPT !.lock = FALSE, !.power = again.power]
              /\ traceable => again.power = dir.power ]_vars

\* A scenario comes to an end, whatever the instance does.
ScenarioEnds == pc # "idle" ~> pc = "idle"

=============================================================================
