--------------------------- MODULE Scenario_proofs ----------------------------
(***************************************************************************)
(* Profiles and scenarios for any profiles, scripts and repeats.           *)
(***************************************************************************)
EXTENDS Scenario, TLAPS

-----------------------------------------------------------------------------
(* Preferences.                                                            *)

\* profiles.py:115-120 and 213-224: an instance is seeded from p with a preset,
\* its snapshot is seeded again without one.  The look is the same; the preferences
\* are, unless p has its first run before it and a preset was given: then the
\* instance had preferences and the new one has none.
THEOREM PrefsSurvive ==
    ASSUME NEW p, p.prefs \in Prefs,
           NEW preset \in [scale : Scales \cup {None}, contrast : Contrasts \cup {None}],
           NEW saved,
           saved.prefs = SnapshotPrefs(EffectivePrefs(p, preset), EffectivePreset(p, preset))
    PROVE  /\ EffectivePreset(saved, NoPreset) = EffectivePreset(p, preset)
           /\ EffectivePrefs(saved, NoPreset) = EffectivePrefs(p, preset)
                <=> p.prefs.first \/ preset = NoPreset
<1> DEFINE look == EffectivePreset(p, preset)
           made == EffectivePrefs(p, preset)
<1> USE ProfilesAssumption DEF Prefs
<1>1. look.scale \in Scales /\ look.contrast \in Contrasts
  BY DEF EffectivePreset, Given
<1>2. look = [scale |-> look.scale, contrast |-> look.contrast]
  BY DEF EffectivePreset
<1>3. saved.prefs = [first |-> p.prefs.first, scale |-> look.scale, contrast |-> look.contrast]
  <2>1. CASE ~p.prefs.first /\ preset = NoPreset
    <3>1. made = None
      BY <2>1 DEF EffectivePrefs
    <3> QED
      BY <2>1, <3>1 DEF SnapshotPrefs
  <2>2. CASE p.prefs.first \/ preset # NoPreset
    <3>1. made = [first |-> p.prefs.first, scale |-> look.scale, contrast |-> look.contrast]
      BY <2>2 DEF EffectivePrefs
    <3>2. made # None
      BY <1>1, <3>1
    <3> QED
      BY <3>1, <3>2 DEF SnapshotPrefs
  <2> QED
    BY <2>1, <2>2
<1>4. EffectivePreset(saved, NoPreset) = look
  BY <1>1, <1>2, <1>3 DEF EffectivePreset, Given, NoPreset
<1>5. EffectivePrefs(saved, NoPreset) = IF p.prefs.first THEN saved.prefs ELSE None
  BY <1>1, <1>3, <1>4 DEF EffectivePrefs
<1>6. made = IF ~p.prefs.first /\ preset = NoPreset THEN None ELSE saved.prefs
  BY <1>3 DEF EffectivePrefs
<1>7. saved.prefs # None
  BY <1>1, <1>3
<1> QED
  BY <1>4, <1>5, <1>6, <1>7

-----------------------------------------------------------------------------
(* The profiles under home, and the snapshot under way.                    *)

Directory(d) == d = [toml |-> d.toml, data |-> d.data, lock |-> d.lock, history |-> d.history]

HomeInv == home = [n \in HomeNames |-> home[n]]

\* Until the copies are sanitized, the directory has no profile.toml.
SnapInv ==
    snap # None =>
        /\ snap = [at |-> snap.at, name |-> snap.name, toml |-> snap.toml]
        /\ snap.name \in HomeNames
        /\ snap.at \in {"shell", "authority", "toml"}
        /\ Directory(home[snap.name])
        /\ snap.at # "toml" => home[snap.name].toml = None
        /\ snap.at = "toml" => home[snap.name].lock = FALSE

\* A scenario and a snapshot do not meet in a profile.
UseInv ==
    /\ pc \in Pcs
    /\ pc # "idle" => script \in Scripts
    /\ pc # "idle" /\ snap # None => snap.name \notin script.names

SavedInv == HomeInv /\ SnapInv /\ UseInv /\ LoadableIsSanitized

\* Only snapshots and whoever edits them touch the profiles.
LEMMA OthersLeaveHome ==
    ASSUME [Next]_vars
    PROVE  \/ UNCHANGED <<home, snap>>
           \/ Snapshot /\ UNCHANGED <<pc, script>>
           \/ ProfileEdited /\ UNCHANGED <<pc, script, snap>>
<1>1. CASE UNCHANGED vars
  BY <1>1 DEF vars, profiles
<1>2. CASE Next
  <2>1. CASE Begin
    BY <2>1 DEF Begin, profiles
  <2>2. CASE StartRaises \/ TakeDown \/ Unpad \/ UnpadFails
    BY <2>2 DEF StartRaises, TakeDown, Unpad, UnpadFails, profiles
  <2>3. CASE Start
    BY <2>3 DEF Start
  <2>4. CASE Seed
    BY <2>4 DEF Seed, Wipe, SeedStep, Record
  <2>5. CASE Spawn
    BY <2>5 DEF Spawn
  <2>6. CASE SpawnFails
    BY <2>6 DEF SpawnFails
  <2>7. CASE Execute
    BY <2>7 DEF Execute, Apply, Input, Launch, AppCommand, StartPredicate, profiles
  <2>8. CASE StepFails \/ Skip \/ ReadHistory \/ Evaluate \/ TakePicture \/ NextRun \/ Report
    BY <2>8 DEF StepFails, Skip, ReadHistory, Evaluate, TakePicture, NextRun, Report, profiles
  <2>9. CASE Expire \/ Killed
    BY <2>9 DEF Expire, Killed, profiles
  <2>10. CASE ShellConsumes \/ AppStarts \/ SocketRemoved \/ Receipt \/ Reconcile
    BY <2>10 DEF ShellConsumes, AppStarts, SocketRemoved, Receipt, Reconcile, profiles
  <2>11. CASE Snapshot
    BY <2>11 DEF Snapshot, runner
  <2>12. CASE ProfileEdited
    BY <2>12 DEF ProfileEdited, Edit, runner
  <2>13. CASE ProgramsEnd \/ HolderEnds
    BY <2>13 DEF ProgramsEnd, HolderEnds, profiles
  <2> QED
    BY <1>2, <2>1, <2>2, <2>3, <2>4, <2>5, <2>6, <2>7, <2>8, <2>9, <2>10, <2>11, <2>12, <2>13
       DEF Next, RunnerStep
<1> QED
  BY <1>1, <1>2

\* The program of a scenario changes only where it begins and ends.
LEMMA OthersLeaveScript ==
    ASSUME [Next]_vars, UseInv
    PROVE  /\ pc' \in Pcs
           /\ Begin \/ pc' = "idle" \/ (pc # "idle" /\ UNCHANGED script)
<1> USE DEF UseInv, Pcs, Polling, GoTo
<1>1. CASE UNCHANGED vars
  BY <1>1 DEF vars, runner
<1>2. CASE Next
  <2>1. CASE Begin
    BY <2>1 DEF Begin
  <2>2. CASE StartRaises \/ UnpadFails
    BY <2>2 DEF StartRaises, UnpadFails, End
  <2>3. CASE Start \/ TakeDown \/ Unpad
    BY <2>3 DEF Start, TakeDown, Unpad
  <2>4. CASE Seed
    BY <2>4 DEF Seed, runner
  <2>5. CASE Spawn
    BY <2>5 DEF Spawn
  <2>6. CASE SpawnFails
    BY <2>6 DEF SpawnFails, End
  <2>7. CASE Execute
    BY <2>7 DEF Execute, Apply, Input, Launch, AppCommand, StartPredicate
  <2>8. CASE StepFails \/ Skip \/ ReadHistory \/ Evaluate
    BY <2>8 DEF StepFails, Skip, ReadHistory, Evaluate
  <2>9. CASE TakePicture \/ NextRun \/ Report \/ Expire \/ Killed
    BY <2>9 DEF TakePicture, NextRun, Report, Expire, Killed, End, RunOver
  <2>10. CASE ShellConsumes \/ AppStarts \/ SocketRemoved \/ Receipt \/ Reconcile
    BY <2>10 DEF ShellConsumes, AppStarts, SocketRemoved, Receipt, Reconcile, runner
  <2>11. CASE Snapshot \/ ProfileEdited \/ ProgramsEnd \/ HolderEnds
    BY <2>11 DEF Snapshot, ProfileEdited, ProgramsEnd, HolderEnds, runner
  <2> QED
    BY <1>2, <2>1, <2>2, <2>3, <2>4, <2>5, <2>6, <2>7, <2>8, <2>9, <2>10, <2>11
       DEF Next, RunnerStep
<1> QED
  BY <1>1, <1>2

LEMMA SavedInit == Init => SavedInv
  BY DEF Init, SavedInv, HomeInv, SnapInv, UseInv, LoadableIsSanitized, Pcs

LEMMA SavedStep ==
    ASSUME SavedInv, [Next]_vars
    PROVE  SavedInv'
<1> USE DEF SavedInv
<1>1. HomeInv' /\ SnapInv' /\ LoadableIsSanitized'
  <2> USE DEF HomeInv, SnapInv, LoadableIsSanitized
  <2>1. CASE UNCHANGED <<home, snap>>
    BY <2>1 DEF Directory
  <2>2. ASSUME NEW name \in HomeNames, SnapRead(name)
        PROVE  HomeInv' /\ SnapInv' /\ LoadableIsSanitized'
    <3> DEFINE empty == [toml |-> None, data |-> None, lock |-> FALSE, history |-> None]
    <3>1. home' = [n \in HomeNames |-> IF n = name THEN empty ELSE home[n]]
      BY <2>2 DEF SnapRead
    <3>2. snap' = [at |-> "shell", name |-> name, toml |-> snap'.toml]
      BY <2>2 DEF SnapRead
    <3>3. \A n \in HomeNames : home'[n] = IF n = name THEN empty ELSE home[n]
      BY <3>1
    <3>4. HomeInv'
      BY <3>1, <3>3
    <3>5. snap'.name = name /\ snap'.at = "shell"
      BY <3>2
    <3>6. SnapInv'
      BY <3>2, <3>3, <3>5 DEF Directory
    <3>7. LoadableIsSanitized'
      BY <3>3
    <3> QED
      BY <3>4, <3>6, <3>7
  <2>3. CASE SnapShell
    BY <2>3 DEF SnapShell, Look, Directory
  <2>4. CASE SnapAuthority
    BY <2>4 DEF SnapAuthority, Look, Directory
  <2>5. CASE SnapToml
    BY <2>5 DEF SnapToml, Directory
  <2>6. CASE SnapStops
    BY <2>6 DEF SnapStops
  <2>7. ASSUME NEW name \in HomeNames, Edit(name)
        PROVE  HomeInv' /\ SnapInv' /\ LoadableIsSanitized'
    <3>1. PICK d \in Edits \cup {None} : home' = [home EXCEPT ![name] = d]
      BY <2>7 DEF Edit
    <3>2. /\ home' = [n \in HomeNames |-> IF n = name THEN d ELSE home[n]]
          /\ d # None => ~d.lock
      BY <3>1, EditsAssumption
    <3>3. \A n \in HomeNames : home'[n] = IF n = name THEN d ELSE home[n]
      BY <3>2
    <3>4. HomeInv'
      BY <3>2, <3>3
    <3>5. snap' = snap /\ (snap # None => snap.name # name)
      BY <2>7 DEF Edit
    <3>6. SnapInv'
      BY <3>3, <3>5 DEF Directory
    <3>7. LoadableIsSanitized'
      BY <3>2, <3>3
    <3> QED
      BY <3>4, <3>6, <3>7
  <2> QED
    BY <2>1, <2>2, <2>3, <2>4, <2>5, <2>6, <2>7, OthersLeaveHome
       DEF Snapshot, SnapshotStep, ProfileEdited
<1>2. UseInv'
  <2>1. CASE Begin
    BY <2>1, OthersLeaveScript DEF Begin, UseInv, profiles
  <2>2. CASE pc' = "idle"
    BY <2>2, OthersLeaveScript DEF UseInv
  <2>3. CASE pc # "idle" /\ UNCHANGED script /\ UNCHANGED snap
    BY <2>3, OthersLeaveScript DEF UseInv
  <2>4. CASE pc # "idle" /\ UNCHANGED script /\ Snapshot
    <3>1. ASSUME NEW name \in HomeNames, SnapRead(name), name \notin script.names
          PROVE  UseInv'
      BY <2>4, <3>1, OthersLeaveScript DEF SnapRead, UseInv
    <3>2. CASE SnapshotStep
      BY <2>4, <3>2, OthersLeaveScript
         DEF SnapshotStep, SnapShell, SnapAuthority, SnapToml, SnapStops, Look, UseInv, SnapInv
    <3> QED
      BY <2>4, <3>1, <3>2 DEF Snapshot
  <2> QED
    BY <2>1, <2>2, <2>3, <2>4, OthersLeaveScript, OthersLeaveHome
<1> QED
  BY <1>1, <1>2

LEMMA SavedInvariant == Spec => []SavedInv
<1>1. SavedInv /\ UNCHANGED vars => SavedInv'
  BY SavedStep
<1> QED
  BY SavedInit, SavedStep, PTL DEF Spec

\* docs/gui-dev-loop.md:38: what can be loaded from home holds no lock, whatever
\* snapshots were stopped or killed half way.
THEOREM SnapshotsAreSanitized == Spec => []LoadableIsSanitized
<1>1. SavedInv => LoadableIsSanitized
  BY DEF SavedInv
<1> QED
  BY <1>1, SavedInvariant, PTL

-----------------------------------------------------------------------------
(* The start of a repeat.                                                  *)

\* No snapshot touches the profiles of the scenario under way.
LEMMA HomeIsKept ==
    ASSUME SavedInv, [Next]_vars, pc # "idle", NEW name \in script.names, name \in HomeNames
    PROVE  home'[name] = home[name]
<1> USE DEF SavedInv
<1>1. CASE UNCHANGED <<home, snap>>
  BY <1>1
<1>2. CASE Snapshot
  <2>1. ASSUME NEW n \in HomeNames, SnapRead(n), pc # "idle" => n \notin script.names
        PROVE  home'[name] = home[name]
    BY <2>1 DEF SnapRead, HomeInv
  <2>2. CASE SnapshotStep
    BY <2>2 DEF SnapshotStep, SnapShell, SnapAuthority, SnapToml, SnapStops, HomeInv, UseInv
  <2> QED
    BY <1>2, <2>1, <2>2 DEF Snapshot
<1>3. CASE ProfileEdited
  BY <1>3 DEF ProfileEdited, Edit, HomeInv
<1> QED
  BY <1>1, <1>2, <1>3, OthersLeaveHome

\* The profile of a scenario stays what it was when the repeat began.
LEMMA ProfileIsKept ==
    ASSUME SavedInv, [Next]_vars, pc # "idle", script' = script
    PROVE  Load(script.profile)' = Load(script.profile)
<1>1. script.profile \in script.names
  BY ScriptsAssumption DEF SavedInv, UseInv
<1> QED
  BY <1>1, HomeIsKept DEF Load

\* The batteries of the directory do not show in what is seeded.
LEMMA SeededFiles ==
    ASSUME NEW p, NEW preset, NEW power
    PROVE  SeedTree(Wiped(None, power), p, preset, TRUE) = SeedTree(Empty, p, preset, TRUE)
  BY DEF SeedTree, Wiped, Empty

\* What the directory holds between the steps of an up().
SeedingInv ==
    pc = "seed" =>
        /\ stack # "up"
        /\ seeding = [at |-> seeding.at, how |-> seeding.how, name |-> seeding.name,
                      preset |-> seeding.preset, profile |-> seeding.profile]
        /\ seeding.how = "up" =>
             /\ stack = "down" /\ app = None
             /\ socket => seeding.profile.history = "open"
             /\ seeding.profile = Load(script.profile)
             /\ seeding.preset = script.preset
             /\ seeding.at = "seed" => dir = Wiped(None, dir.power)
             /\ seeding.at \in {"record", "spawn"} =>
                  dir = SeedTree(Empty, seeding.profile, seeding.preset, TRUE)

\* A FIFO that outlives the programs is one that down() has not come to.
LeftInv == stack = "down" /\ fifo # <<>> => leftover

StartInv == SavedInv /\ SeedingInv /\ LeftInv

LEMMA LeftStep ==
    ASSUME LeftInv, [Next]_vars
    PROVE  LeftInv'
<1> USE DEF LeftInv
<1>1. CASE UNCHANGED <<stack, leftover, fifo>>
  BY <1>1
<1>2. CASE TakeDown \/ Unpad \/ ProgramsEnd \/ HolderEnds
  BY <1>2 DEF TakeDown, Unpad, ProgramsEnd, HolderEnds, launcher
<1>3. CASE (Execute /\ (Apply \/ Input)) \/ Spawn \/ SpawnFails
  BY <1>3 DEF Apply, Input, Spawn, SpawnFails, instance
<1>4. CASE Killed \/ ShellConsumes
  BY <1>4 DEF Killed, ShellConsumes, launcher, instance
<1>5. CASE UNCHANGED vars
  BY <1>1, <1>5 DEF vars, instance, launcher
<1>6. CASE Begin \/ StartRaises \/ UnpadFails \/ Start \/ Seed
  BY <1>1, <1>6 DEF Begin, StartRaises, UnpadFails, Start, Seed, instance, launcher
<1>7. CASE Execute /\ (Launch \/ AppCommand \/ StartPredicate)
  BY <1>1, <1>7 DEF Launch, AppCommand, StartPredicate, instance, launcher
<1>8. CASE StepFails \/ Skip \/ ReadHistory \/ Evaluate \/ TakePicture \/ NextRun \/ Report \/ Expire
  BY <1>1, <1>8
     DEF StepFails, Skip, ReadHistory, Evaluate, TakePicture, NextRun, Report, Expire,
         instance, launcher
<1>9. CASE AppStarts \/ SocketRemoved \/ Receipt \/ Reconcile \/ Snapshot \/ ProfileEdited
  BY <1>1, <1>9
     DEF AppStarts, SocketRemoved, Receipt, Reconcile, Snapshot, ProfileEdited, instance, launcher
<1> QED
  BY <1>2, <1>3, <1>4, <1>5, <1>6, <1>7, <1>8, <1>9 DEF Next, RunnerStep, Execute

\* Nothing but the runner moves in a directory that is being seeded by an up().
LEMMA SeedingStep ==
    ASSUME StartInv, [Next]_vars
    PROVE  SeedingInv'
<1> SUFFICES ASSUME pc' = "seed"
             PROVE  SeedingInv'
  BY DEF SeedingInv
<1> USE DEF StartInv, GoTo
<1>1. CASE Start
  BY <1>1 DEF Start, FreshSession, StartSeeding, SeedingInv, Load, instance
<1>2. CASE Execute
  <2>1. Apply
    BY <1>2 DEF Execute, Input, Launch, AppCommand, StartPredicate
  <2>2. /\ stack' = "partial"
        /\ seeding' = [at |-> "wipe", how |-> "apply", name |-> Step.profile,
                       preset |-> Step.preset, profile |-> Load(Step.profile)]
    BY <2>1 DEF Apply, StartSeeding
  <2> QED
    BY <2>2 DEF SeedingInv
<1>3. CASE Seed
  <2>1. Load(script.profile)' = Load(script.profile) /\ script' = script
    BY <1>3, ProfileIsKept DEF Seed, runner
  <2>2. CASE Wipe
    <3>1. /\ stack' = stack /\ session' = session /\ script' = script
          /\ pc = "seed" /\ pc' = pc
      BY <1>3 DEF Seed, instance, session, runner
    <3>2. /\ seeding' = [seeding EXCEPT !.at = "seed"]
          /\ seeding.how = "up" => dir' = Wiped(None, dir.power)
      BY <2>2 DEF Wipe, FreshAuthority
    <3>3. Wiped(None, dir.power).power = dir.power
      BY DEF Wiped
    <3>4. seeding' = [at |-> "seed", how |-> seeding.how, name |-> seeding.name,
                         preset |-> seeding.preset, profile |-> seeding.profile]
      BY <3>1, <3>2 DEF SeedingInv
    <3>5. /\ seeding'.at = "seed" /\ seeding'.how = seeding.how /\ seeding'.name = seeding.name
          /\ seeding'.preset = seeding.preset /\ seeding'.profile = seeding.profile
      BY <3>4
    <3>6. UNCHANGED <<app, socket>>
      BY <3>1 DEF session
    <3>7. seeding.how = "up" => dir' = Wiped(None, dir'.power)
      BY <3>2, <3>3
    <3> QED
      BY <2>1, <3>1, <3>4, <3>5, <3>6, <3>7 DEF SeedingInv
  <2>3. CASE SeedStep
    <3>1. /\ stack' = stack /\ session' = session /\ script' = script
          /\ pc = "seed" /\ pc' = pc
      BY <1>3 DEF Seed, instance, session, runner
    <3>2. /\ seeding.at = "seed" /\ seeding' = [seeding EXCEPT !.at = "record"]
          /\ seeding.how = "up" => dir' = SeedTree(dir, seeding.profile, seeding.preset, TRUE)
      BY <2>3 DEF SeedStep, FreshAuthority
    <3>3. /\ seeding' = [at |-> "record", how |-> seeding.how, name |-> seeding.name,
                         preset |-> seeding.preset, profile |-> seeding.profile]
      BY <3>1, <3>2 DEF SeedingInv
    <3>4. SeedTree(Wiped(None, dir.power), seeding.profile, seeding.preset, TRUE)
            = SeedTree(Empty, seeding.profile, seeding.preset, TRUE)
      BY SeededFiles
    <3>5. /\ seeding'.at = "record" /\ seeding'.how = seeding.how /\ seeding'.name = seeding.name
          /\ seeding'.preset = seeding.preset /\ seeding'.profile = seeding.profile
      BY <3>3
    <3>6. UNCHANGED <<app, socket>>
      BY <3>1 DEF session
    <3>7. seeding.how = "up" =>
            dir' = SeedTree(Empty, seeding.profile, seeding.preset, TRUE)
      BY <3>1, <3>2, <3>4 DEF SeedingInv
    <3> QED
      BY <2>1, <3>1, <3>3, <3>5, <3>6, <3>7 DEF SeedingInv
  <2>4. CASE Record
    BY <1>3, <2>1, <2>4 DEF Seed, Record, SeedingInv, instance, session, runner
  <2> QED
    BY <1>3, <2>2, <2>3, <2>4 DEF Seed
<1>4. CASE pc = "seed" /\ UNCHANGED <<script, seeding, stack, app, socket, dir>>
  BY <1>4, ProfileIsKept DEF SeedingInv
<1>5. pc # "seed" => Start \/ Execute
  <2> USE DEF runner
  <2>1. CASE UNCHANGED vars
    BY <2>1 DEF vars
  <2>2. CASE Begin \/ StartRaises \/ Seed \/ Spawn \/ SpawnFails \/ StepFails \/ Skip
    BY <2>2 DEF Begin, StartRaises, Seed, Spawn, SpawnFails, StepFails, Skip, End
  <2>3. CASE ReadHistory \/ Evaluate \/ TakePicture \/ NextRun \/ Report \/ Expire \/ Killed
    BY <2>3 DEF ReadHistory, Evaluate, TakePicture, NextRun, Report, Expire, Killed, End
  <2>4. CASE ShellConsumes \/ AppStarts \/ SocketRemoved \/ Receipt \/ Reconcile \/ Snapshot
    BY <2>4 DEF ShellConsumes, AppStarts, SocketRemoved, Receipt, Reconcile, Snapshot
  <2>5. CASE TakeDown \/ Unpad \/ UnpadFails \/ ProfileEdited \/ ProgramsEnd \/ HolderEnds
    BY <2>5 DEF TakeDown, Unpad, UnpadFails, ProfileEdited, ProgramsEnd, HolderEnds, End
  <2> QED
    BY <2>1, <2>2, <2>3, <2>4, <2>5 DEF Next, RunnerStep
<1>6. CASE pc = "seed" /\ ~Seed
  <2> USE <1>6 DEF runner
  <2>1. CASE UNCHANGED vars
    BY <1>4, <2>1 DEF vars, instance, profiles, session
  <2>2. ~(Begin \/ StartRaises \/ Start \/ Execute \/ StepFails \/ Skip \/ ReadHistory \/ Evaluate)
    BY DEF Begin, StartRaises, Start, Execute, StepFails, Skip, ReadHistory, Evaluate, Polling
  <2>3. ~(Spawn \/ SpawnFails \/ TakePicture \/ NextRun \/ Report \/ Expire \/ Killed)
    BY DEF Spawn, SpawnFails, TakePicture, NextRun, RunOver, Report, Expire, Polling, Killed, End
  <2>4. ~(ShellConsumes \/ Reconcile)
    BY DEF ShellConsumes, Reconcile, SeedingInv
  <2>5. CASE Snapshot
    BY <1>4, <2>5
       DEF Snapshot, SnapRead, SnapshotStep, SnapShell, SnapAuthority, SnapToml, SnapStops,
           instance, session
  <2>6. CASE AppStarts \/ SocketRemoved \/ Receipt
    <3>1. CASE seeding.how = "up"
      BY <2>6, <3>1, ScriptsAssumption DEF AppStarts, SocketRemoved, Receipt, SeedingInv
    <3>2. CASE seeding.how # "up"
      BY <2>6, <3>2 DEF AppStarts, SocketRemoved, Receipt, SeedingInv, profiles, instance
    <3> QED
      BY <3>1, <3>2
  <2>7. ~(TakeDown \/ Unpad \/ UnpadFails \/ ProgramsEnd)
    BY DEF TakeDown, Unpad, UnpadFails, ProgramsEnd
  <2>8. CASE ProfileEdited
    BY <1>4, <2>8 DEF ProfileEdited, Edit, instance, session
  <2>9. CASE HolderEnds
    BY <1>4, <2>9 DEF HolderEnds, profiles, session
  <2> QED
    BY <2>1, <2>2, <2>3, <2>4, <2>5, <2>6, <2>7, <2>8, <2>9 DEF Next, RunnerStep
<1> QED
  BY <1>1, <1>2, <1>3, <1>5, <1>6

\* scenario.py:224, backend/desktop.py:152-198 and gamepad.py:231-233: every repeat of
\* every scenario starts from the files of its profile, for any profiles, whatever ran
\* before, and with taps of it only if up() has found the programs ended and the gamepad
\* still there.
THEOREM RunsStartAlike == Spec => EveryRunStartsAlike
<1> DEFINE Starts ==
        pc = "seed" /\ Spawn /\ seeding.how = "up" =>
          /\ dir = SeedTree(Empty, Load(script.profile), script.preset, TRUE)
          /\ fifo' # <<>> => leftover
          /\ app' = None
          /\ socket' => dir.history = "open"
<1>1. Init => StartInv
  BY SavedInit DEF StartInv, SeedingInv, LeftInv, Init
<1>2. StartInv /\ [Next]_vars => StartInv'
  BY SavedStep, SeedingStep, LeftStep DEF StartInv
<1>3. ASSUME StartInv, [Next]_vars
      PROVE  [Starts]_vars
  <2> SUFFICES ASSUME pc = "seed", Spawn, seeding.how = "up"
               PROVE  Starts
    OBVIOUS
  <2>1. /\ seeding.at = "spawn" /\ UNCHANGED <<fifo, app, socket>>
    BY DEF Spawn, session
  <2>2. /\ stack = "down" /\ app = None /\ seeding.profile = Load(script.profile)
        /\ socket => seeding.profile.history = "open"
        /\ dir = SeedTree(Empty, Load(script.profile), script.preset, TRUE)
    BY <1>3, <2>1 DEF StartInv, SeedingInv
  <2>3. socket => dir.history = "open"
    BY <2>2, ProfilesAssumption DEF SeedTree, Over
  <2> QED
    BY <1>3, <2>1, <2>2, <2>3 DEF StartInv, LeftInv
<1>4. (Init /\ [][Next]_vars) => [][Starts]_vars
  <2> HIDE DEF Starts
  <2> QED
    BY <1>1, <1>2, <1>3, PTL
<1> QED
  BY <1>4 DEF Spec, EveryRunStartsAlike

-----------------------------------------------------------------------------
(* The values of the variables.                                            *)

\* What run.json vouches for: preferences and batteries are those of a profile.
MetaInv ==
    /\ whole => meta # None /\ dir.prefs \in Prefs
    /\ stack = "up" => meta # None
    /\ meta # None => dir.power \in Powers
    /\ seeding # None /\ seeding.at \in {"record", "spawn"} =>
         /\ dir.prefs \in Prefs
         /\ dir.power = seeding.profile.power
    /\ seeding # None /\ seeding.at = "spawn" => meta # None
    /\ seeding # None /\ seeding.at \in {"seed", "record"} => ~whole

\* Bringing the instance up comes before a repeat, everything else belongs to one.
Starting == pc \in {"start", "unpad"} \/ (pc = "seed" /\ seeding.how = "up")
UnderWay == pc \in {"picture"} \cup Polling \/ (pc = "seed" /\ seeding.how = "apply")

RunsInv ==
    /\ pc = "idle" => script = None /\ records = <<>>
    /\ pc # "idle" => script \in Scripts
    /\ Starting => Runs < Repeat /\ \A r \in 1..Runs : Len(records[r]) = Len(Steps)
    /\ pc = "step" \/ UnderWay =>
         Runs > 0 /\ \A r \in 1..(Runs - 1) : Len(records[r]) = Len(Steps)
    /\ UnderWay => Now <= Len(Steps) /\ ~Failed

\* A snapshot under way has made its directory.
CopyInv == snap # None => home[snap.name] # None

TypeInv == TypeOK /\ MetaInv /\ RunsInv /\ CopyInv

Asks(step) == step.op \in {"wait_for", "assert"}

\* What the step under way may be.
LEMMA StepCases ==
    ASSUME NEW s \in Scripts, NEW i \in 1..Len(s.steps)
    PROVE  LET step == s.steps[i] IN
           /\ step.op = "profile" => step.profile \in s.names /\ step.preset \in Presets
           /\ step.op = "input" => step.tap \in Taps
           /\ step.op = "app" => step.receipt \in {"Returned", "Crash"}
           /\ Asks(step) =>
                step.predicate \in {"screen", "session_state", "last_receipt"} \X STRING
<1> DEFINE step == s.steps[i]
<1>1. s.steps \in Seq(StepsOver(s.names))
  BY ScriptsAssumption
<1>2. step \in StepsOver(s.names)
  BY <1>1
<1> HIDE DEF step
<1>3. CASE step \in [op : {"profile"}, profile : s.names, preset : Presets]
  BY <1>3 DEF Asks, step
<1>4. CASE step \in [op : {"input"}, tap : Taps]
  BY <1>4 DEF Asks, step
<1>5. CASE step \in [op : {"launch"}]
  BY <1>5 DEF Asks, step
<1>6. CASE step \in [op : {"app"}, receipt : {"Returned", "Crash"}]
  BY <1>6 DEF Asks, step
<1>7. CASE step \in [op : {"wait_for", "assert"},
                     predicate : {"screen", "session_state", "last_receipt"} \X STRING]
  BY <1>7 DEF Asks, step
<1> QED
  BY <1>2, <1>3, <1>4, <1>5, <1>6, <1>7 DEF StepsOver

\* A profile that loads is one.
LEMMA LoadType ==
    ASSUME ProfilesTypeOK, NEW name, Load(name) # None
    PROVE  name \in Names /\ Load(name) \in ProfileSet
<1>1. CASE name \in HomeNames /\ home[name] # None
  <2>1. home[name] \in Directories
    BY <1>1 DEF ProfilesTypeOK
  <2>2. home[name].toml # None
    BY <1>1 DEF Load
  <2>3. home[name].toml \in Tomls
    BY <2>1, <2>2 DEF Directories
  <2>4. Load(name) = [name |-> home[name].toml.name, authority |-> home[name].toml.authority,
                      prefs |-> home[name].toml.prefs, power |-> home[name].toml.power,
                      data |-> home[name].data, history |-> home[name].history]
    BY <1>1, <2>2 DEF Load
  <2> QED
    BY <1>1, <2>1, <2>3, <2>4 DEF Names, ProfileSet, Directories, Tomls
<1>2. CASE ~(name \in HomeNames /\ home[name] # None)
  BY <1>2, ProfilesAssumption DEF Load, Names
<1> QED
  BY <1>1, <1>2

\* The tree that a seeding makes has the preferences that were asked for.
LEMMA SeedTreeType ==
    ASSUME NEW d \in RunDirs, NEW p \in ProfileSet, NEW preset \in Presets,
           NEW authority \in BOOLEAN
    PROVE  /\ SeedTree(d, p, preset, authority) \in RunDirs
           /\ SeedTree(d, p, preset, authority).prefs \in Prefs
           /\ SeedTree(d, p, preset, authority).power = p.power
           /\ EffectivePreset(p, preset) \in Presets
<1>1. preset.scale \in Scales /\ preset.contrast \in Contrasts
  BY DEF Presets
<1>2. /\ EffectivePreset(p, preset) = [scale |-> preset.scale, contrast |-> preset.contrast]
      /\ preset # NoPreset
  BY <1>1, ProfilesAssumption DEF EffectivePreset, Given, NoPreset
<1>3. EffectivePrefs(p, preset) =
        [first |-> p.prefs.first, scale |-> preset.scale, contrast |-> preset.contrast]
  BY <1>2 DEF EffectivePrefs
<1>4. EffectivePrefs(p, preset) \in Prefs
  BY <1>1, <1>3 DEF Prefs, ProfileSet
<1>5. Over(p.data, d.data) \in Datas /\ Over(p.history, d.history) \in Histories
  BY DEF Over, ProfileSet, RunDirs
<1>6. SeedTree(d, p, preset, authority) =
        [prefs |-> EffectivePrefs(p, preset), data |-> Over(p.data, d.data), lock |-> d.lock,
         history |-> IF authority THEN Over(p.history, d.history) ELSE d.history,
         power |-> p.power]
  BY DEF SeedTree
<1> QED
  BY <1>1, <1>2, <1>4, <1>5, <1>6 DEF RunDirs, ProfileSet, Presets

\* The shell shows one of the places, wherever a tap leads.
LEMMA LandsType ==
    ASSUME place \in Places, NEW tap \in Taps
    PROVE  Lands(tap) \subseteq Places
<1>1. \A s \in Screens : OnScreen(s) \in Places
  BY DEF OnScreen, Places
<1> QED
  BY <1>1 DEF Lands, Screens, QuickScreens

LEMMA ConsumeType ==
    ASSUME LauncherTypeOK, Consume
    PROVE  LauncherTypeOK'
<1>1. Head(fifo) \in Taps /\ fifo' \in Seq(Taps)
  BY DEF LauncherTypeOK, Consume
<1> QED
  BY <1>1, LandsType DEF LauncherTypeOK, Consume

\* Which steps touch what.
FilesTouched ==
    \/ UNCHANGED <<dir, meta, whole, seeding>>
    \/ Start \/ (Execute /\ (Apply \/ Launch)) \/ Seed \/ Spawn \/ SpawnFails \/ Killed
    \/ ShellConsumes \/ Receipt \/ Reconcile

SessionTouched ==
    \/ UNCHANGED <<stack, app, socket>>
    \/ TakeDown \/ Start \/ ProgramsEnd \/ (Execute /\ (Apply \/ Launch \/ AppCommand)) \/ Spawn \/ Killed
    \/ AppStarts \/ SocketRemoved \/ Receipt

LauncherTouched ==
    \/ UNCHANGED <<fifo, place, acked, drifted>>
    \/ Unpad \/ (Execute /\ (Apply \/ Input)) \/ Spawn \/ SpawnFails
    \/ ShellConsumes \/ HolderEnds

RunnerTouched ==
    \/ UNCHANGED <<pc, script, records, entry>>
    \/ Begin \/ StartRaises \/ TakeDown \/ Unpad \/ UnpadFails \/ Start \/ Spawn \/ SpawnFails
    \/ Execute \/ StepFails \/ Skip
    \/ ReadHistory \/ Evaluate \/ TakePicture \/ NextRun \/ Report \/ Killed

LEMMA Touched ==
    ASSUME [Next]_vars
    PROVE  FilesTouched /\ SessionTouched /\ LauncherTouched /\ RunnerTouched
<1> DEFINE All == FilesTouched /\ SessionTouched /\ LauncherTouched /\ RunnerTouched
<1> USE DEF FilesTouched, SessionTouched, LauncherTouched, RunnerTouched
<1>1. CASE UNCHANGED vars
  BY <1>1 DEF vars, launcher, profiles, instance, session, runner
<1>2. CASE Next
  <2>1. CASE Begin
    BY <2>1 DEF Begin, launcher, profiles, instance, session
  <2>2. CASE StartRaises
    BY <2>2 DEF StartRaises, launcher, profiles, instance, session
  <2>3. CASE Start
    BY <2>3 DEF Start, launcher
  <2>4. CASE Seed
    BY <2>4 DEF Seed, launcher, instance, session, runner
  <2>5. CASE Spawn
    BY <2>5
  <2>6. CASE SpawnFails
    BY <2>6 DEF SpawnFails, session
  <2>7. CASE Execute /\ Apply
    BY <2>7
  <2>8. CASE Execute /\ Input
    BY <2>8 DEF Input, profiles, instance, session
  <2>9. CASE Execute /\ Launch
    BY <2>9 DEF Launch, launcher
  <2>10. CASE Execute /\ AppCommand
    BY <2>10 DEF AppCommand, launcher, profiles
  <2>11. CASE Execute /\ StartPredicate
    BY <2>11 DEF StartPredicate, launcher, profiles, instance, session
  <2>12. CASE StepFails \/ Skip \/ ReadHistory \/ Evaluate
    BY <2>12 DEF StepFails, Skip, ReadHistory, Evaluate, launcher, profiles, instance, session
  <2>13. CASE TakePicture \/ NextRun \/ Report
    BY <2>13 DEF TakePicture, NextRun, Report, launcher, profiles, instance, session
  <2>14. CASE Expire
    BY <2>14 DEF Expire, launcher, profiles, instance, session
  <2>15. CASE Killed
    BY <2>15 DEF Killed, launcher
  <2>16. CASE ShellConsumes
    BY <2>16 DEF ShellConsumes, instance, session, runner
  <2>17. CASE AppStarts \/ SocketRemoved
    BY <2>17 DEF AppStarts, SocketRemoved, launcher, profiles, runner
  <2>18. CASE Receipt \/ Reconcile
    BY <2>18 DEF Receipt, Reconcile, launcher, instance, session, runner
  <2>19. CASE Snapshot
    <3>1. UNCHANGED <<dir, meta, whole, seeding>>
      BY <2>19
         DEF Snapshot, SnapRead, SnapshotStep, SnapShell, SnapAuthority, SnapToml, SnapStops
    <3> QED
      BY <2>19, <3>1 DEF Snapshot, launcher, instance, session, runner
  <2>20. CASE TakeDown
    BY <2>20 DEF TakeDown, launcher, profiles
  <2>21. CASE Unpad
    BY <2>21 DEF Unpad, profiles, session
  <2>22. CASE UnpadFails
    BY <2>22 DEF UnpadFails, launcher, profiles, instance, session
  <2>23. CASE ProfileEdited
    BY <2>23 DEF ProfileEdited, Edit, launcher, instance, session, runner
  <2>24. CASE ProgramsEnd
    BY <2>24 DEF ProgramsEnd, launcher, profiles, session, runner
  <2>25. CASE HolderEnds
    BY <2>25 DEF HolderEnds, profiles, instance, session, runner
  <2> QED
    BY <1>2, <2>1, <2>2, <2>3, <2>4, <2>5, <2>6, <2>7, <2>8, <2>9, <2>10, <2>11, <2>12, <2>13,
       <2>14, <2>15, <2>16, <2>17, <2>18, <2>19, <2>20, <2>21, <2>22, <2>23, <2>24, <2>25
       DEF Next, RunnerStep, Execute
<1> QED
  BY <1>1, <1>2

\* The step under way is one of the script's.
LEMMA StepUnderWay ==
    ASSUME TypeInv, pc = "step" \/ UnderWay, Now <= Len(Steps)
    PROVE  /\ script \in Scripts
           /\ Runs \in DOMAIN records /\ records[Runs] \in Seq(Records)
           /\ Now \in 1..Len(Steps) /\ Steps = script.steps /\ Step = script.steps[Now]
<1>1. pc # "idle"
  BY DEF UnderWay, Polling
<1>2. script \in Scripts /\ Runs > 0 /\ records \in Seq(Seq(Records))
  BY <1>1 DEF TypeInv, RunsInv, TypeOK
<1>3. Runs \in DOMAIN records /\ records[Runs] \in Seq(Records)
  BY <1>2 DEF Runs
<1>4. Now \in Nat \ {0}
  BY <1>3 DEF Now
<1>5. Len(Steps) \in Nat
  BY <1>2, ScriptsAssumption DEF Steps
<1> QED
  BY <1>2, <1>3, <1>4, <1>5 DEF Step, Steps

LEMMA LauncherTypeStep ==
    ASSUME TypeInv, [Next]_vars
    PROVE  LauncherTypeOK'
<1> LauncherTypeOK
  BY DEF TypeInv, TypeOK
<1> USE DEF LauncherTypeOK
<1>1. CASE UNCHANGED <<fifo, place, acked, drifted>>
  BY <1>1
<1>2. CASE Unpad \/ SpawnFails \/ HolderEnds
  <2>1. fifo' = fifo \/ fifo' = <<>>
    BY <1>2 DEF Unpad, SpawnFails, HolderEnds
  <2>2. fifo \in Seq(Taps) /\ <<>> \in Seq(Taps)
    OBVIOUS
  <2>3. place' = place /\ acked' = acked /\ drifted' = drifted
    BY <1>2 DEF Unpad, SpawnFails, HolderEnds
  <2> QED
    BY <2>1, <2>2, <2>3
<1>3. CASE Execute /\ Apply
  <2>1. fifo' = fifo \/ fifo' = <<>>
    BY <1>3 DEF Apply
  <2>2. fifo \in Seq(Taps) /\ <<>> \in Seq(Taps)
    OBVIOUS
  <2>3. place' = place /\ acked' = acked /\ drifted' = drifted
    BY <1>3 DEF Apply
  <2> QED
    BY <2>1, <2>2, <2>3
<1>4. CASE Execute /\ Input
  <2>1. Step.tap \in Taps
    BY <1>4, StepUnderWay, StepCases DEF Execute, Input
  <2> QED
    BY <1>4, <2>1 DEF Input
<1>5. CASE Spawn
  BY <1>5 DEF Spawn, Places, Screens
<1>6. CASE ShellConsumes
  BY <1>6, ConsumeType DEF ShellConsumes
<1> QED
  BY <1>1, <1>2, <1>3, <1>4, <1>5, <1>6, Touched DEF LauncherTouched

LEMMA LeftoverType ==
    ASSUME leftover \in BOOLEAN, [Next]_vars
    PROVE  leftover' \in BOOLEAN
<1>1. CASE UNCHANGED leftover
  BY <1>1
<1>2. CASE TakeDown \/ Unpad \/ ProgramsEnd \/ HolderEnds
  BY <1>2 DEF TakeDown, Unpad, ProgramsEnd, HolderEnds
<1>3. CASE Spawn \/ SpawnFails
  BY <1>3 DEF Spawn, SpawnFails
<1>4. CASE UNCHANGED vars
  BY <1>1, <1>4 DEF vars, instance
<1>5. CASE Begin \/ StartRaises \/ UnpadFails \/ Start \/ Seed \/ Killed
  BY <1>1, <1>5 DEF Begin, StartRaises, UnpadFails, Start, Seed, Killed, instance
<1>6. CASE Execute
  BY <1>1, <1>6 DEF Execute, Apply, Input, Launch, AppCommand, StartPredicate, instance
<1>7. CASE StepFails \/ Skip \/ ReadHistory \/ Evaluate \/ TakePicture \/ NextRun \/ Report \/ Expire
  BY <1>1, <1>7
     DEF StepFails, Skip, ReadHistory, Evaluate, TakePicture, NextRun, Report, Expire, instance
<1>8. CASE ShellConsumes \/ AppStarts \/ SocketRemoved \/ Receipt \/ Reconcile \/ Snapshot
           \/ ProfileEdited
  BY <1>1, <1>8
     DEF ShellConsumes, AppStarts, SocketRemoved, Receipt, Reconcile, Snapshot, ProfileEdited,
         instance
<1> QED
  BY <1>2, <1>3, <1>4, <1>5, <1>6, <1>7, <1>8 DEF Next, RunnerStep

LEMMA SessionTypeStep ==
    ASSUME TypeInv, [Next]_vars
    PROVE  /\ stack' \in {"down", "partial", "up"}
           /\ leftover' \in BOOLEAN
           /\ app' \in {None, "starting", "running", "Returned", "Crash"}
           /\ socket' \in BOOLEAN
<1> USE DEF TypeInv, TypeOK
<1>1. leftover' \in BOOLEAN
  BY LeftoverType
<1>2. CASE UNCHANGED <<stack, app, socket>>
  BY <1>1, <1>2
<1>3. ASSUME NEW profile, FreshSession(profile)
      PROVE  /\ app' \in {None, "starting", "running", "Returned", "Crash"}
             /\ socket' \in BOOLEAN
  BY <1>3 DEF FreshSession
<1>4. CASE TakeDown \/ Start \/ ProgramsEnd \/ Spawn \/ Killed
  BY <1>1, <1>3, <1>4 DEF TakeDown, Start, ProgramsEnd, Spawn, Killed, instance, session
<1>5. CASE Execute /\ (Apply \/ Launch)
  BY <1>1, <1>3, <1>5 DEF Apply, Launch, instance, session
<1>6. CASE Execute /\ AppCommand
  <2>1. Step.receipt \in {"Returned", "Crash"}
    BY <1>6, StepUnderWay, StepCases DEF Execute, AppCommand
  <2> QED
    BY <1>1, <1>6, <2>1 DEF AppCommand, instance
<1>7. CASE AppStarts \/ SocketRemoved \/ Receipt
  BY <1>1, <1>7 DEF AppStarts, SocketRemoved, Receipt, instance
<1> QED
  BY <1>2, <1>4, <1>5, <1>6, <1>7, Touched DEF SessionTouched

\* Only a start that is over makes an instance of it.
LEMMA OnlySpawnBringsUp ==
    ASSUME [Next]_vars, stack' = "up"
    PROVE  stack = "up" \/ Spawn
<1>1. CASE UNCHANGED <<stack, app, socket>>
  BY <1>1
<1>2. CASE TakeDown \/ Start \/ ProgramsEnd \/ Killed
  BY <1>2 DEF TakeDown, Start, ProgramsEnd, Killed, instance
<1>3. CASE Execute /\ (Apply \/ Launch \/ AppCommand)
  BY <1>3 DEF Apply, Launch, AppCommand, instance
<1>4. CASE AppStarts \/ SocketRemoved \/ Receipt
  BY <1>4 DEF AppStarts, SocketRemoved, Receipt, instance
<1> QED
  BY <1>1, <1>2, <1>3, <1>4, Touched DEF SessionTouched

FilesTypeOK == dir \in RunDirs /\ meta \in Metas \cup {None} /\ whole \in BOOLEAN
               /\ seeding \in Seedings \cup {None}

\* What says whether the name in run.json can be trusted.
LEMMA OthersLeaveTrace ==
    ASSUME [Next]_vars
    PROVE  UNCHANGED traceable \/ (Seed /\ Record) \/ ProfileEdited
<1>1. CASE UNCHANGED vars
  BY <1>1 DEF vars, profiles
<1>2. CASE Begin \/ StartRaises \/ TakeDown \/ Unpad \/ UnpadFails \/ Start \/ Spawn \/ SpawnFails
  BY <1>2 DEF Begin, StartRaises, TakeDown, Unpad, UnpadFails, Start, Spawn, SpawnFails, profiles
<1>3. CASE Seed
  BY <1>3 DEF Seed, Wipe, SeedStep
<1>4. CASE Execute
  BY <1>4 DEF Execute, Apply, Input, Launch, AppCommand, StartPredicate, profiles
<1>5. CASE StepFails \/ Skip \/ ReadHistory \/ Evaluate \/ TakePicture \/ NextRun \/ Report
  BY <1>5 DEF StepFails, Skip, ReadHistory, Evaluate, TakePicture, NextRun, Report, profiles
<1>6. CASE Expire \/ Killed \/ ProgramsEnd \/ HolderEnds
  BY <1>6 DEF Expire, Killed, ProgramsEnd, HolderEnds, profiles
<1>7. CASE ShellConsumes \/ AppStarts \/ SocketRemoved \/ Receipt \/ Reconcile
  BY <1>7 DEF ShellConsumes, AppStarts, SocketRemoved, Receipt, Reconcile, profiles
<1>8. CASE Snapshot
  BY <1>8 DEF Snapshot, SnapRead, SnapshotStep, SnapShell, SnapAuthority, SnapToml, SnapStops
<1> QED
  BY <1>1, <1>2, <1>3, <1>4, <1>5, <1>6, <1>7, <1>8 DEF Next, RunnerStep

LEMMA StartSeedingType ==
    ASSUME ProfilesTypeOK, NEW how \in {"up", "apply"}, NEW name, NEW preset \in Presets,
           Load(name) # None, StartSeeding(how, name, preset)
    PROVE  seeding' \in Seedings /\ seeding'.at = "wipe"
  BY LoadType DEF StartSeeding, Seedings

LEMMA FilesTypeStep ==
    ASSUME TypeInv, [Next]_vars
    PROVE  FilesTypeOK' /\ MetaInv'
<1>1. FilesTypeOK /\ ProfilesTypeOK /\ MetaInv /\ (stack' = "up" => stack = "up" \/ Spawn)
  BY OnlySpawnBringsUp DEF TypeInv, TypeOK, ProfilesTypeOK, FilesTypeOK
<1>2. /\ (pc = "seed") = (seeding # None)
      /\ pc # "idle" => script \in Scripts
  BY DEF TypeInv, TypeOK, RunsInv
<1>3. seeding # None => None \notin Seedings /\ seeding \in Seedings
  BY <1>1, ProfilesAssumption DEF FilesTypeOK
<1>4. CASE UNCHANGED <<dir, meta, whole, seeding>> /\ (stack' = "up" => stack = "up")
  BY <1>1, <1>4 DEF FilesTypeOK, MetaInv
<1>5. CASE Start
  <2>1. script.preset \in Presets
    BY <1>2, <1>5, ScriptsAssumption DEF Start
  <2>2. seeding' \in Seedings /\ seeding'.at = "wipe"
    BY <1>1, <1>5, <2>1, StartSeedingType DEF Start
  <2>3. UNCHANGED <<dir, meta, whole>> /\ stack' = "down"
    BY <1>5 DEF Start, instance
  <2> QED
    BY <1>1, <2>2, <2>3 DEF FilesTypeOK, MetaInv
<1>6. CASE Execute /\ Apply
  <2>1. Step.preset \in Presets
    BY <1>6, StepUnderWay, StepCases DEF Execute, Apply
  <2>2. seeding' \in Seedings /\ seeding'.at = "wipe"
    BY <1>1, <1>6, <2>1, StartSeedingType DEF Apply
  <2>3. UNCHANGED <<dir, meta, whole>> /\ stack' = "partial"
    BY <1>6 DEF Apply
  <2> QED
    BY <1>1, <2>2, <2>3 DEF FilesTypeOK, MetaInv
<1>7. CASE Execute /\ Launch
  <2>1. /\ dir' = [dir EXCEPT !.history = "open"]
        /\ UNCHANGED <<meta, whole, seeding, stack>>
    BY <1>7 DEF Launch, instance
  <2>2. dir' \in RunDirs /\ dir'.prefs = dir.prefs /\ dir'.power = dir.power
    BY <1>1, <2>1 DEF FilesTypeOK, RunDirs, Histories
  <2> QED
    BY <1>1, <2>1, <2>2 DEF FilesTypeOK, MetaInv
<1>8. CASE Seed
  <2>1. UNCHANGED <<stack>> /\ seeding # None /\ seeding \in Seedings
    BY <1>2, <1>3, <1>8 DEF Seed, instance
  <2>2. /\ seeding.profile \in ProfileSet /\ seeding.preset \in Presets
        /\ seeding.name \in Names /\ seeding.how \in {"up", "apply"}
    BY <2>1 DEF Seedings
  <2>3. \A at \in {"wipe", "seed", "record", "spawn"} :
          LET s == [seeding EXCEPT !.at = at]
          IN  s \in Seedings /\ s.at = at /\ s.profile = seeding.profile
    BY <2>1 DEF Seedings
  <2>4. CASE Wipe
    <3>1. /\ dir' = Wiped(IF FreshAuthority THEN None ELSE dir.history, dir.power)
          /\ whole' = FALSE /\ seeding' = [seeding EXCEPT !.at = "seed"] /\ meta' = meta
      BY <2>4 DEF Wipe
    <3>2. dir' \in RunDirs /\ dir'.power = dir.power
      BY <1>1, <3>1 DEF FilesTypeOK, RunDirs, Wiped, Datas, Histories
    <3>3. stack' = "up" => stack = "up"
      BY <2>1
    <3> QED
      BY <1>1, <2>3, <3>1, <3>2, <3>3 DEF FilesTypeOK, MetaInv
  <2>5. CASE SeedStep
    <3>1. /\ dir' = SeedTree(dir, seeding.profile, seeding.preset, FreshAuthority)
          /\ seeding' = [seeding EXCEPT !.at = "record"] /\ meta' = meta /\ whole' = whole
          /\ seeding.at = "seed"
      BY <2>5 DEF SeedStep
    <3>2. FreshAuthority \in BOOLEAN
      BY DEF FreshAuthority
    <3>3. dir' \in RunDirs /\ dir'.prefs \in Prefs /\ dir'.power = seeding.profile.power
      BY <1>1, <2>2, <3>1, <3>2, SeedTreeType DEF FilesTypeOK
    <3>4. seeding.profile.power \in Powers
      BY <2>2 DEF ProfileSet
    <3>5. ~whole
      BY <1>1, <2>1, <3>1 DEF MetaInv
    <3> QED
      BY <1>1, <2>1, <2>3, <3>1, <3>3, <3>4, <3>5 DEF FilesTypeOK, MetaInv
  <2>6. CASE Record
    <3>1. /\ meta' = [profile |-> seeding.profile.name, authority |-> seeding.profile.authority,
                      preset |-> EffectivePreset(seeding.profile, seeding.preset)]
          /\ whole' = TRUE /\ seeding' = [seeding EXCEPT !.at = "spawn"] /\ dir' = dir
          /\ seeding.at = "record"
      BY <2>6 DEF Record
    <3>2. meta' \in Metas
      BY <1>1, <2>2, <3>1, SeedTreeType DEF FilesTypeOK, Metas, ProfileSet
    <3>3. meta' # None
      BY <3>2, ProfilesAssumption
    <3>4. dir.prefs \in Prefs /\ dir.power = seeding.profile.power
          /\ seeding.profile.power \in Powers
      BY <1>1, <2>1, <2>2, <3>1 DEF MetaInv, ProfileSet
    <3> QED
      BY <1>1, <2>1, <2>3, <3>1, <3>2, <3>3, <3>4 DEF FilesTypeOK, MetaInv
  <2> QED
    BY <1>8, <2>4, <2>5, <2>6 DEF Seed
<1>9. CASE Spawn
  <2>1. /\ dir' = [dir EXCEPT !.lock = TRUE] /\ seeding' = None
        /\ UNCHANGED <<meta, whole>> /\ seeding.at = "spawn" /\ seeding # None
    BY <1>2, <1>9 DEF Spawn
  <2>2. dir' \in RunDirs /\ dir'.prefs = dir.prefs /\ dir'.power = dir.power
    BY <1>1, <2>1 DEF FilesTypeOK, RunDirs
  <2> QED
    BY <1>1, <2>1, <2>2 DEF FilesTypeOK, MetaInv
<1>10. CASE SpawnFails \/ Killed
  <2>1. UNCHANGED <<dir, meta, whole>> /\ seeding' = None /\ (stack' = "up" => stack = "up")
    BY <1>10 DEF SpawnFails, Killed
  <2> QED
    BY <1>1, <2>1 DEF FilesTypeOK, MetaInv
<1>11. CASE ShellConsumes
  <2>1. stack' = stack /\ UNCHANGED <<meta, whole, seeding>>
    BY <1>11 DEF ShellConsumes, instance
  <2>2. meta.preset \in Presets
    BY <1>1, <1>11 DEF ShellConsumes, MetaInv, FilesTypeOK, Metas
  <2>3. meta.preset.scale \in Scales /\ meta.preset.contrast \in Contrasts
    BY <2>2 DEF Presets
  <2> DEFINE done == [first |-> TRUE, scale |-> meta.preset.scale,
                      contrast |-> meta.preset.contrast]
  <2>4. done \in Prefs
    BY <2>3 DEF Prefs
  <2>5. \/ dir' = dir \/ dir' = [dir EXCEPT !.data = "edited"] \/ dir' = [dir EXCEPT !.prefs = done]
    BY <1>11 DEF ShellConsumes
  <2>6. dir' \in RunDirs /\ dir'.power = dir.power /\ (dir.prefs \in Prefs => dir'.prefs \in Prefs)
    BY <1>1, <2>4, <2>5 DEF FilesTypeOK, RunDirs, Datas
  <2> QED
    BY <1>1, <2>1, <2>6 DEF FilesTypeOK, MetaInv
<1>12. CASE Receipt \/ Reconcile
  <2>1. /\ \/ dir' = [dir EXCEPT !.history = "Returned"] \/ dir' = [dir EXCEPT !.history = "Crash"]
        /\ UNCHANGED <<meta, whole, seeding, stack>>
    BY <1>12 DEF Receipt, Reconcile, instance, session
  <2>2. dir' \in RunDirs /\ dir'.prefs = dir.prefs /\ dir'.power = dir.power
    BY <1>1, <2>1 DEF FilesTypeOK, RunDirs, Histories
  <2> QED
    BY <1>1, <2>1, <2>2 DEF FilesTypeOK, MetaInv
<1> QED
  BY <1>1, <1>4, <1>5, <1>6, <1>7, <1>8, <1>9, <1>10, <1>11, <1>12, Touched DEF FilesTouched

HomeTypeOK == home \in [HomeNames -> Directories \cup {None}] /\ snap \in Snaps \cup {None}

\* What a snapshot finds is what a profile may hold.
LEMMA SnapshotReads ==
    ASSUME ProfilesTypeOK, MetaInv, meta # None
    PROVE  /\ SnapshotPrefs(dir.prefs, meta.preset) \in Prefs
           /\ SnapshotPower(meta.profile) \in Powers
           /\ meta.authority \in BOOLEAN
<1>1. dir \in RunDirs /\ meta \in Metas
  BY DEF ProfilesTypeOK
<1>2. meta.preset \in Presets /\ meta.authority \in BOOLEAN
  BY <1>1 DEF Metas
<1>3. SnapshotPrefs(dir.prefs, meta.preset) \in Prefs
  BY <1>1, <1>2 DEF SnapshotPrefs, Prefs, Presets, RunDirs
<1>4. Load(meta.profile) # None => Load(meta.profile).power \in Powers
  BY LoadType DEF ProfileSet
<1> QED
  BY <1>2, <1>3, <1>4 DEF SnapshotPower, MetaInv

\* A snapshot saves what a profile may hold.
LEMMA HomeTypeStep ==
    ASSUME TypeInv, [Next]_vars
    PROVE  HomeTypeOK' /\ CopyInv'
<1>1. HomeTypeOK /\ FilesTypeOK /\ ProfilesTypeOK /\ MetaInv /\ CopyInv
  BY DEF TypeInv, TypeOK, ProfilesTypeOK, HomeTypeOK, FilesTypeOK
<1>2. CASE UNCHANGED <<home, snap>>
  BY <1>1, <1>2 DEF HomeTypeOK, CopyInv
<1>3. snap # None => /\ snap \in Snaps /\ snap.name \in HomeNames
                     /\ home[snap.name] \in Directories
  BY <1>1 DEF HomeTypeOK, Snaps, CopyInv
<1>4. ASSUME NEW name \in HomeNames, SnapRead(name)
      PROVE  HomeTypeOK' /\ CopyInv'
  <2> DEFINE empty == [toml |-> None, data |-> None, lock |-> FALSE, history |-> None]
             read == [name |-> name, authority |-> meta.authority,
                      prefs |-> SnapshotPrefs(dir.prefs, meta.preset),
                      power |-> SnapshotPower(meta.profile)]
  <2>1. /\ home' = [home EXCEPT ![name] = empty]
        /\ snap' = [at |-> "shell", name |-> name, toml |-> read]
    BY <1>4 DEF SnapRead
  <2>2. empty \in Directories
    BY DEF Directories, Datas, Histories
  <2>3. read \in Tomls
    BY <1>1, <1>4, SnapshotReads DEF SnapRead, Tomls, Names
  <2> HIDE DEF empty, read
  <2>5. snap' \in Snaps /\ snap'.name = name
    BY <2>1, <2>3 DEF Snaps
  <2>6. home' \in [HomeNames -> Directories \cup {None}] /\ home'[name] = empty
    BY <1>1, <2>1, <2>2 DEF HomeTypeOK
  <2> QED
    BY <2>2, <2>5, <2>6, ProfilesAssumption DEF HomeTypeOK, CopyInv
<1>5. ASSUME NEW d \in Directories, NEW at \in {"authority", "toml"}, snap # None,
             home' = [home EXCEPT ![snap.name] = d], Look(at)
      PROVE  HomeTypeOK' /\ CopyInv'
  <2>1. snap' \in Snaps /\ snap'.name = snap.name
    BY <1>1, <1>3, <1>5 DEF Look, Snaps
  <2>2. home' \in [HomeNames -> Directories \cup {None}] /\ home'[snap.name] # None
    BY <1>1, <1>3, <1>5, ProfilesAssumption DEF HomeTypeOK
  <2> QED
    BY <2>1, <2>2 DEF HomeTypeOK, CopyInv
<1>6. CASE SnapShell
  <2> DEFINE d == [home[snap.name] EXCEPT !.data = dir.data, !.lock = dir.lock]
  <2>1. d \in Directories
    BY <1>1, <1>3, <1>6 DEF SnapShell, Directories, FilesTypeOK, RunDirs
  <2>2. home' = [home EXCEPT ![snap.name] = d]
    BY <1>1, <1>3, <1>6 DEF SnapShell, HomeTypeOK, Directories
  <2> QED
    BY <1>5, <1>6, <2>1, <2>2 DEF SnapShell
<1>7. CASE SnapAuthority
  <2> DEFINE d == [home[snap.name] EXCEPT !.history = dir.history, !.lock = FALSE]
  <2>1. d \in Directories
    BY <1>1, <1>3, <1>7 DEF SnapAuthority, Directories, FilesTypeOK, RunDirs
  <2>2. home' = [home EXCEPT ![snap.name] = d]
    BY <1>1, <1>3, <1>7 DEF SnapAuthority, HomeTypeOK, Directories
  <2> QED
    BY <1>5, <1>7, <2>1, <2>2 DEF SnapAuthority
<1>8. CASE SnapToml
  <2> DEFINE d == [home[snap.name] EXCEPT !.toml = snap.toml]
  <2>1. d \in Directories
    BY <1>3, <1>8 DEF SnapToml, Directories, Snaps
  <2>2. home' = [home EXCEPT ![snap.name] = d] /\ snap' = None
    BY <1>1, <1>3, <1>8 DEF SnapToml, HomeTypeOK, Directories
  <2> QED
    BY <1>1, <2>1, <2>2 DEF HomeTypeOK, CopyInv
<1>9. CASE SnapStops
  BY <1>1, <1>9 DEF SnapStops, HomeTypeOK, CopyInv
<1>10. ASSUME NEW name \in HomeNames, Edit(name)
       PROVE  HomeTypeOK' /\ CopyInv'
  <2>1. PICK d \in Edits \cup {None} : home' = [home EXCEPT ![name] = d]
    BY <1>10 DEF Edit
  <2>2. d \in Directories \cup {None}
    BY EditsAssumption
  <2>3. snap' = snap /\ (snap # None => snap.name # name)
    BY <1>10 DEF Edit
  <2>4. home' \in [HomeNames -> Directories \cup {None}]
        /\ (snap # None => home'[snap.name] = home[snap.name])
    BY <1>1, <1>3, <2>1, <2>2, <2>3 DEF HomeTypeOK
  <2> QED
    BY <1>1, <2>3, <2>4 DEF HomeTypeOK, CopyInv
<1> QED
  BY <1>2, <1>4, <1>6, <1>7, <1>8, <1>9, <1>10, OthersLeaveHome
     DEF Snapshot, SnapshotStep, ProfileEdited

\* The pointers of the runner, apart from what it has recorded.
PlaceOK ==
    /\ pc \in Pcs
    /\ script \in Scripts \cup {None}
    /\ entry \in Histories
    /\ late \in BOOLEAN
    /\ held \in BOOLEAN
    /\ (pc = "seed") = (seeding # None)
    /\ verdict \in {None, "green", "red"}

\* What is recorded for the properties is a truth value.
LEMMA GhostTypes ==
    ASSUME traceable \in BOOLEAN, still \in BOOLEAN, [Next]_vars
    PROVE  traceable' \in BOOLEAN /\ still' \in BOOLEAN
<1>1. traceable' \in BOOLEAN
  BY OthersLeaveTrace DEF Record, ProfileEdited, Edit
<1>2. still' \in BOOLEAN
  <2>1. CASE UNCHANGED vars
    BY <2>1 DEF vars
  <2>2. CASE Watching
    BY <2>2 DEF Watching
  <2> QED
    BY <2>1, <2>2 DEF Next, Ghosts
<1> QED
  BY <1>1, <1>2

LEMMA HoldingType ==
    ASSUME held \in BOOLEAN, Holding
    PROVE  held' \in BOOLEAN
<1>1. HoldsNow' \in BOOLEAN
  BY DEF HoldsNow, Matches
<1> QED
  BY <1>1 DEF Holding

\* Without steps of the runner, its place and its records stay.
LEMMA PlaceStep ==
    ASSUME TypeInv, [Next]_vars
    PROVE  PlaceOK'
<1>1. PlaceOK /\ FilesTypeOK /\ None \notin Seedings
  BY ProfilesAssumption DEF TypeInv, TypeOK, ProfilesTypeOK, PlaceOK, FilesTypeOK
<1>2. held' \in BOOLEAN
  <2>1. CASE Next
    BY <1>1, <2>1, HoldingType DEF Next, Ghosts, PlaceOK
  <2> QED
    BY <1>1, <2>1 DEF vars, PlaceOK
<1> DEFINE Rest == /\ pc' \in Pcs /\ script' \in Scripts \cup {None} /\ entry' \in Histories
                   /\ late' \in BOOLEAN /\ (pc' = "seed") = (seeding' # None)
                   /\ verdict' \in {None, "green", "red"}
<1>3. Rest
  <2> USE <1>1 DEF GoTo, End, Pcs, Polling, runner
  <2>1. CASE UNCHANGED vars
    BY <2>1 DEF vars, profiles, PlaceOK
  <2>2. CASE Begin
    BY <2>2 DEF Begin, profiles, PlaceOK
  <2>3. CASE StartRaises
    BY <2>3 DEF StartRaises, profiles, PlaceOK, Histories
  <2>4. CASE Start
    <3>1. seeding' # None
      <4>1. script.preset \in Presets
        BY <2>4, ScriptsAssumption DEF Start, TypeInv, RunsInv
      <4> QED
        BY <2>4, <4>1, StartSeedingType DEF Start, TypeInv, TypeOK
    <3> QED
      BY <2>4, <3>1 DEF Start, PlaceOK
  <2>5. CASE Seed
    <3>1. UNCHANGED runner /\ pc = "seed"
      BY <2>5 DEF Seed
    <3>2. seeding' # None
      <4>1. \A at \in {"seed", "record", "spawn"} :
              seeding # None => [seeding EXCEPT !.at = at] \in Seedings
        BY DEF FilesTypeOK, Seedings
      <4> QED
        BY <2>5, <4>1 DEF Seed, Wipe, SeedStep, Record
    <3> QED
      BY <3>1, <3>2 DEF PlaceOK
  <2>6. CASE Spawn
    BY <2>6 DEF Spawn, PlaceOK
  <2>7. CASE SpawnFails
    BY <2>7 DEF SpawnFails, PlaceOK, Histories
  <2>8. CASE Execute /\ Apply
    <3>1. seeding' # None
      <4>1. Step.preset \in Presets
        BY <2>8, StepUnderWay, StepCases DEF Execute, Apply
      <4> QED
        BY <2>8, <4>1, StartSeedingType DEF Apply, TypeInv, TypeOK
    <3> QED
      BY <2>8, <3>1 DEF Apply, PlaceOK
  <2>9. CASE Execute /\ Input
    BY <2>9 DEF Execute, Input, profiles, PlaceOK
  <2>10. CASE Execute /\ Launch
    BY <2>10 DEF Execute, Launch, PlaceOK
  <2>11. CASE Execute /\ AppCommand
    BY <2>11 DEF Execute, AppCommand, profiles, PlaceOK
  <2>12. CASE Execute /\ StartPredicate
    BY <2>12 DEF Execute, StartPredicate, profiles, PlaceOK
  <2>13. CASE StepFails
    BY <2>13 DEF StepFails, profiles, PlaceOK, Histories
  <2>14. CASE Skip
    BY <2>14 DEF Skip, profiles, PlaceOK
  <2>15. CASE ReadHistory
    BY <2>15 DEF ReadHistory, profiles, PlaceOK, FilesTypeOK, RunDirs
  <2>16. CASE Evaluate
    BY <2>16 DEF Evaluate, profiles, PlaceOK, Histories
  <2>17. CASE TakePicture \/ NextRun
    BY <2>17 DEF TakePicture, NextRun, RunOver, profiles, PlaceOK
  <2>18. CASE Report
    BY <2>18 DEF Report, RunOver, profiles, PlaceOK, Histories
  <2>19. CASE Expire
    BY <2>19 DEF Expire, profiles, PlaceOK
  <2>20. CASE Killed
    BY <2>20 DEF Killed, PlaceOK, Histories
  <2>21. CASE ShellConsumes \/ AppStarts \/ SocketRemoved \/ Receipt \/ Reconcile
    BY <2>21 DEF ShellConsumes, AppStarts, SocketRemoved, Receipt, Reconcile, profiles, PlaceOK
  <2>22. CASE Snapshot
    <3>1. UNCHANGED <<seeding, runner>>
      BY <2>22
         DEF Snapshot, SnapRead, SnapshotStep, SnapShell, SnapAuthority, SnapToml, SnapStops
    <3> QED
      BY <3>1 DEF PlaceOK
  <2>23. CASE TakeDown \/ Unpad
    BY <2>23 DEF TakeDown, Unpad, profiles, PlaceOK
  <2>24. CASE UnpadFails
    BY <2>24 DEF UnpadFails, profiles, PlaceOK, Histories
  <2>25. CASE ProfileEdited
    BY <2>25 DEF ProfileEdited, Edit, PlaceOK
  <2>26. CASE ProgramsEnd \/ HolderEnds
    BY <2>26 DEF ProgramsEnd, HolderEnds, profiles, PlaceOK
  <2> QED
    BY <2>1, <2>2, <2>3, <2>4, <2>5, <2>6, <2>7, <2>8, <2>9, <2>10, <2>11, <2>12, <2>13, <2>14,
       <2>15, <2>16, <2>17, <2>18, <2>19, <2>20, <2>21, <2>22, <2>23, <2>24, <2>25, <2>26
       DEF Next, RunnerStep, Execute
<1> QED
  BY <1>2, <1>3 DEF PlaceOK

\* An entry of the report is added to the repeat under way, and touches no other.
LEMMA Recorded ==
    ASSUME TypeInv, pc = "step" \/ UnderWay, Now <= Len(Steps), script' = script,
           NEW result \in {"pass", "fail", "skipped"}, NEW picture \in Pictures \cup {None},
           RecordStep(result, picture)
    PROVE  /\ records' \in Seq(Seq(Records))
           /\ Runs' = Runs /\ Runs > 0 /\ Steps' = Steps
           /\ records'[Runs] =
                Append(records[Runs], [result |-> result, picture |-> picture,
                                       held |-> held /\ result = "pass"])
           /\ Len(records'[Runs]) = Now
           /\ \A r \in 1..(Runs - 1) : records'[r] = records[r]
<1> DEFINE new == [result |-> result, picture |-> picture, held |-> held /\ result = "pass"]
<1>1. /\ records \in Seq(Seq(Records)) /\ Runs \in DOMAIN records
      /\ records[Runs] \in Seq(Records)
  BY StepUnderWay DEF TypeInv, TypeOK
<1>2. new \in Records
  BY DEF TypeInv, TypeOK, Records
<1>3. records' = [records EXCEPT ![Runs] = Append(records[Runs], new)]
  BY DEF RecordStep
<1> HIDE DEF new
<1>4. Append(records[Runs], new) \in Seq(Records)
      /\ Len(Append(records[Runs], new)) = Len(records[Runs]) + 1
  BY <1>1, <1>2
<1>5. records' \in Seq(Seq(Records)) /\ Len(records') = Len(records)
  BY <1>1, <1>3, <1>4
<1>6. records'[Runs] = Append(records[Runs], new)
      /\ \A r \in DOMAIN records : r # Runs => records'[r] = records[r]
  BY <1>1, <1>3
<1>7. Runs \in Nat /\ DOMAIN records = 1..Runs
  BY <1>1 DEF Runs
<1>8. Runs' = Runs /\ Runs > 0 /\ Steps' = Steps
  BY <1>1, <1>5, <1>7 DEF Runs, Steps
<1>9. Len(records'[Runs]) = Now
  BY <1>4, <1>6 DEF Now
<1>10. ASSUME NEW r \in 1..(Runs - 1)
       PROVE  records'[r] = records[r]
  <2>1. r \in DOMAIN records /\ r # Runs
    BY <1>7
  <2> QED
    BY <1>6, <2>1
<1> QED
  BY <1>5, <1>6, <1>8, <1>9, <1>10 DEF new

RecordsOK ==
    /\ records \in Seq(Seq(Records))
    /\ Runs <= Repeat
    /\ \A r \in 1..Runs : Len(records[r]) <= Len(Steps)

\* The steps that record one, and go on or do not.
LEMMA RecordedRuns ==
    ASSUME TypeInv, pc = "step" \/ UnderWay, Now <= Len(Steps), script' = script,
           NEW result \in {"pass", "fail", "skipped"}, NEW picture \in Pictures \cup {None},
           RecordStep(result, picture), pc' = "step"
    PROVE  RecordsOK' /\ RunsInv'
<1>1. /\ records' \in Seq(Seq(Records)) /\ Runs' = Runs /\ Runs > 0 /\ Steps' = Steps
      /\ Len(records'[Runs]) = Now
      /\ \A r \in 1..(Runs - 1) : records'[r] = records[r]
  BY Recorded
<1>2. /\ Runs \in Nat /\ Runs <= Repeat
      /\ \A r \in 1..(Runs - 1) : Len(records[r]) = Len(Steps)
      /\ script \in Scripts /\ Len(Steps) \in Nat
  BY StepUnderWay, ScriptsAssumption DEF TypeInv, TypeOK, RunsInv, Runs, Steps
<1>3. RecordsOK'
  <2> SUFFICES ASSUME NEW r \in 1..Runs
               PROVE  Len(records'[r]) <= Len(Steps)
    BY <1>1, <1>2 DEF RecordsOK
  <2>1. CASE r = Runs
    BY <1>1, <2>1
  <2>2. CASE r # Runs
    <3>1. r \in 1..(Runs - 1)
      BY <1>2, <2>2
    <3>2. records'[r] = records[r] /\ Len(records[r]) = Len(Steps)
      BY <1>1, <1>2, <3>1
    <3> QED
      BY <1>2, <3>2
  <2> QED
    BY <2>1, <2>2
<1>4. ~Starting' /\ ~UnderWay'
  BY DEF Starting, UnderWay, Polling
<1> QED
  BY <1>1, <1>2, <1>3, <1>4 DEF RunsInv

\* A seeding stays that of an up() or an apply().
LEMMA HowIsKept ==
    ASSUME [Next]_vars, TypeInv, pc = "seed", pc' = "seed"
    PROVE  seeding'.how = seeding.how
<1> USE DEF GoTo, End
<1>1. CASE UNCHANGED seeding
  BY <1>1
<1>2. CASE Start \/ Execute \/ Spawn \/ SpawnFails \/ Killed
  BY <1>2 DEF Start, Execute, Spawn, SpawnFails, Killed
<1>3. CASE Seed
  <2>1. seeding \in Seedings
    BY DEF TypeInv, TypeOK, ProfilesTypeOK
  <2>2. \A at : [seeding EXCEPT !.at = at].how = seeding.how
    BY <2>1 DEF Seedings
  <2> QED
    BY <1>3, <2>2 DEF Seed, Wipe, SeedStep, Record
<1>4. CASE ShellConsumes \/ Receipt \/ Reconcile
  BY <1>4 DEF ShellConsumes, Receipt, Reconcile
<1> QED
  BY <1>1, <1>2, <1>3, <1>4, Touched DEF FilesTouched

\* What is recorded is one entry for each step, in the order of the steps.
LEMMA RunsStep ==
    ASSUME TypeInv, [Next]_vars
    PROVE  RecordsOK' /\ RunsInv'
<1> USE DEF GoTo, End
<1>1. RecordsOK /\ RunsInv /\ FilesTypeOK /\ PlaceOK
  BY DEF TypeInv, TypeOK, ProfilesTypeOK, RecordsOK, FilesTypeOK, PlaceOK
<1>2. /\ Runs \in Nat
      /\ pc # "idle" => script \in Scripts /\ Len(Steps) \in Nat
      /\ Repeat \in Nat \ {0}
  BY <1>1, ScriptsAssumption, RepeatAssumption DEF RecordsOK, RunsInv, Runs, Steps
<1>3. ASSUME UNCHANGED <<script, records>>, Starting' => Starting,
             pc' = "step" \/ UnderWay' => pc = "step" \/ UnderWay,
             UnderWay' => Now <= Len(Steps) /\ ~Failed,
             pc' = "idle" => pc = "idle", pc # "idle"
      PROVE  RecordsOK' /\ RunsInv'
  BY <1>1, <1>3 DEF RecordsOK, RunsInv, Runs, Steps, Now, Failed
<1>4. ASSUME script' = None, records' = <<>>, pc' = "idle"
      PROVE  RecordsOK' /\ RunsInv'
  BY <1>2, <1>4 DEF RecordsOK, RunsInv, Starting, UnderWay, Polling, Runs
<1>5. CASE UNCHANGED <<pc, script, records, entry>>
  <2>1. pc = "seed" => seeding'.how = seeding.how
    BY <1>5, HowIsKept
  <2>2. Starting' = Starting /\ UnderWay' = UnderWay
    BY <1>5, <2>1 DEF Starting, UnderWay
  <2>3. CASE pc = "idle"
    BY <1>1, <1>4, <1>5, <2>3 DEF RunsInv
  <2>4. CASE pc # "idle"
    BY <1>1, <1>3, <1>5, <2>2, <2>4 DEF RunsInv
  <2> QED
    BY <2>3, <2>4
<1>6. CASE Begin
  <2>1. script' \in Scripts /\ records' = <<>> /\ pc' = "start"
    BY <1>1, <1>6 DEF Begin, RunsInv
  <2> QED
    BY <1>2, <2>1 DEF RecordsOK, RunsInv, Starting, UnderWay, Polling, Runs
<1>7. CASE StartRaises \/ UnpadFails \/ Report \/ Killed
  BY <1>4, <1>7 DEF StartRaises, UnpadFails, Report, Killed
<1>18. CASE TakeDown \/ Unpad
  <2>1. /\ pc \in {"start", "unpad"} /\ pc' \in {"start", "unpad"}
        /\ UNCHANGED <<script, records>>
    BY <1>18 DEF TakeDown, Unpad
  <2> QED
    BY <1>3, <2>1 DEF Starting, UnderWay, Polling
<1>8. CASE Start
  <2>1. seeding'.how = "up" /\ pc = "start" /\ pc' = "seed" /\ UNCHANGED <<script, records>>
    BY <1>8 DEF Start, StartSeeding
  <2> QED
    BY <1>3, <2>1 DEF Starting, UnderWay, Polling
<1>9. CASE Spawn
  <2>1. seeding \in Seedings /\ pc = "seed" /\ script' = script
    BY <1>1, <1>9 DEF Spawn, FilesTypeOK, PlaceOK
  <2>2. CASE seeding.how = "up"
    <3>1. records' = Append(records, <<>>) /\ pc' = "step"
      BY <1>9, <2>2 DEF Spawn
    <3>2. Runs < Repeat /\ \A r \in 1..Runs : Len(records[r]) = Len(Steps)
      BY <1>1, <2>1, <2>2 DEF RunsInv, Starting
    <3>3. <<>> \in Seq(Records) /\ records \in Seq(Seq(Records))
      BY <1>1 DEF RecordsOK
    <3>4. records' \in Seq(Seq(Records)) /\ Len(records') = Len(records) + 1
          /\ records'[Len(records) + 1] = <<>>
          /\ \A r \in 1..Len(records) : records'[r] = records[r]
      BY <3>1, <3>3
    <3>5. RecordsOK'
      <4>1. Runs' = Runs + 1 /\ Runs' <= Repeat /\ Steps' = Steps /\ Len(Steps) \in Nat
        BY <1>1, <1>2, <2>1, <3>2, <3>4 DEF RunsInv, Runs, Steps
      <4>2. ASSUME NEW r \in 1..Runs'
            PROVE  Len(records'[r]) <= Len(Steps)
        <5>1. CASE r = Len(records) + 1
          BY <3>4, <4>1, <5>1
        <5>2. CASE r \in 1..Len(records)
          <6>1. records'[r] = records[r] /\ Len(records[r]) = Len(Steps)
            BY <3>2, <3>4, <5>2 DEF Runs
          <6> QED
            BY <4>1, <6>1
        <5> QED
          BY <1>2, <4>1, <4>2, <5>1, <5>2 DEF Runs
      <4> QED
        BY <3>4, <4>1, <4>2 DEF RecordsOK
    <3> QED
      BY <1>2, <2>1, <3>1, <3>2, <3>4, <3>5
         DEF RunsInv, Starting, UnderWay, Polling, Runs, Steps
  <2>3. CASE seeding.how = "apply"
    <3>1. records' = records /\ pc' = "picture" /\ UnderWay
      BY <1>9, <2>1, <2>3 DEF Spawn, UnderWay
    <3> QED
      BY <1>1, <1>3, <2>1, <3>1 DEF RunsInv, Starting
  <2> QED
    BY <2>1, <2>2, <2>3 DEF Seedings
<1>10. CASE SpawnFails
  <2>1. seeding \in Seedings /\ pc = "seed"
    BY <1>1, <1>10 DEF SpawnFails, FilesTypeOK, PlaceOK
  <2>2. CASE seeding.how = "up"
    BY <1>4, <1>10, <2>2 DEF SpawnFails
  <2>3. CASE seeding.how = "apply"
    <3>1. RecordStep("fail", None) /\ pc' = "step" /\ UnderWay /\ script' = script
      BY <1>10, <2>1, <2>3 DEF SpawnFails, UnderWay
    <3> QED
      BY <1>1, <3>1, RecordedRuns DEF RunsInv
  <2> QED
    BY <2>1, <2>2, <2>3 DEF Seedings
<1>11. CASE Execute
  <2>1. /\ pc = "step" /\ Now <= Len(Steps) /\ ~Failed /\ UNCHANGED <<script, records>>
        /\ pc' \in {"poll", "picture"} \/ (pc' = "seed" /\ seeding'.how = "apply")
    BY <1>11 DEF Execute, Apply, StartSeeding, Input, Launch, AppCommand, StartPredicate
  <2> QED
    BY <1>3, <2>1 DEF Starting
<1>12. CASE StepFails
  BY <1>12, RecordedRuns DEF StepFails, UnderWay
<1>13. CASE Skip
  BY <1>13, RecordedRuns DEF Skip
<1>14. CASE ReadHistory
  <2>1. pc = "poll" /\ pc' = "match" /\ UNCHANGED <<script, records>>
    BY <1>14 DEF ReadHistory
  <2> QED
    BY <1>1, <1>3, <2>1 DEF RunsInv, Starting, UnderWay, Polling
<1>15. CASE Evaluate
  <2>1. pc = "match" /\ script' = script /\ UnderWay /\ Now <= Len(Steps) /\ ~Failed
    BY <1>1, <1>15 DEF Evaluate, RunsInv, UnderWay, Polling
  <2>2. CASE RecordStep("fail", None) /\ pc' = "step"
    BY <2>1, <2>2, RecordedRuns
  <2>3. CASE records' = records /\ pc' \in {"picture", "poll"}
    BY <1>3, <2>1, <2>3 DEF Starting
  <2> QED
    BY <1>15, <2>2, <2>3 DEF Evaluate
<1>16. CASE TakePicture
  <2>1. UnderWay /\ Now <= Len(Steps) /\ script' = script /\ pc' = "step"
        /\ RecordStep("pass", Picture)
    BY <1>1, <1>16 DEF TakePicture, RunsInv, UnderWay
  <2>2. Picture \in Pictures
    BY DEF Picture, Pictures, TypeInv, TypeOK, LauncherTypeOK, ProfilesTypeOK, RunDirs
  <2> QED
    BY <2>1, <2>2, RecordedRuns
<1>17. CASE NextRun
  <2>1. pc = "step" /\ Now > Len(Steps) /\ Runs < Repeat /\ pc' = "start"
        /\ UNCHANGED <<script, records>>
    BY <1>17 DEF NextRun, RunOver
  <2>2. /\ Runs > 0 /\ Len(records[Runs]) <= Len(Steps) /\ Len(records[Runs]) \in Nat
        /\ \A r \in 1..(Runs - 1) : Len(records[r]) = Len(Steps)
    BY <1>1, <1>2, <2>1 DEF RunsInv, RecordsOK, Runs
  <2>3. Len(records[Runs]) = Len(Steps)
    BY <1>2, <2>1, <2>2 DEF Now
  <2>4. \A r \in 1..Runs : r = Runs \/ r \in 1..(Runs - 1)
    BY <1>2
  <2>5. \A r \in 1..Runs : Len(records[r]) = Len(Steps)
    BY <2>2, <2>3, <2>4
  <2>6. Starting' /\ ~UnderWay'
    BY <2>1 DEF Starting, UnderWay, Polling
  <2> QED
    BY <1>1, <1>2, <2>1, <2>5, <2>6 DEF RecordsOK, RunsInv, Runs, Steps
<1> QED
  BY <1>5, <1>6, <1>7, <1>8, <1>9, <1>10, <1>11, <1>12, <1>13, <1>14, <1>15, <1>16, <1>17,
     <1>18, Touched DEF RunnerTouched

LEMMA TypeStep ==
    ASSUME TypeInv, [Next]_vars
    PROVE  TypeInv'
<1>1. LauncherTypeOK' /\ PlaceOK' /\ RecordsOK' /\ RunsInv'
  BY LauncherTypeStep, PlaceStep, RunsStep
<1>2. FilesTypeOK' /\ HomeTypeOK' /\ MetaInv' /\ CopyInv'
  BY FilesTypeStep, HomeTypeStep
<1>3. /\ stack' \in {"down", "partial", "up"} /\ leftover' \in BOOLEAN
      /\ app' \in {None, "starting", "running", "Returned", "Crash"}
      /\ socket' \in BOOLEAN
  BY SessionTypeStep
<1>4. traceable' \in BOOLEAN /\ still' \in BOOLEAN
  BY GhostTypes DEF TypeInv, TypeOK, ProfilesTypeOK
<1> QED
  BY <1>1, <1>2, <1>3, <1>4
     DEF TypeInv, TypeOK, ProfilesTypeOK, PlaceOK, RecordsOK, FilesTypeOK, HomeTypeOK

LEMMA TypeInit == Init => TypeInv
<1> SUFFICES ASSUME Init PROVE TypeInv
  OBVIOUS
<1> USE DEF Init
<1>1. LauncherTypeOK
  BY DEF LauncherTypeOK, Places, Screens
<1>2. ProfilesTypeOK
  BY DEF ProfilesTypeOK, Empty, Wiped, RunDirs, Datas, Histories
<1>3. records \in Seq(Seq(Records)) /\ Runs = 0 /\ Repeat \in Nat
  BY RepeatAssumption DEF Runs
<1>4. Runs <= Repeat /\ \A r \in 1..Runs : Len(records[r]) <= Len(Steps)
  BY <1>3
<1>5. PlaceOK
  BY DEF PlaceOK, Pcs, Polling, Histories
<1>6. TypeOK
  BY <1>1, <1>2, <1>3, <1>4, <1>5 DEF TypeOK, PlaceOK
<1>7. MetaInv /\ RunsInv /\ CopyInv
  BY DEF MetaInv, RunsInv, CopyInv, Starting, UnderWay, Polling
<1> QED
  BY <1>6, <1>7 DEF TypeInv

LEMMA TypeInvariant == Spec => []TypeInv
<1>1. TypeInv /\ UNCHANGED vars => TypeInv'
  BY TypeStep
<1> QED
  BY TypeInit, TypeStep, PTL DEF Spec

\* scenario.py and profiles.py: for any profiles, scripts and repeats, and whatever a
\* shell, an application or a snapshot does meanwhile, every file, pointer and record
\* is of its kind, and no repeat has more records than steps.
THEOREM TypeCorrectness == Spec => []TypeOK
<1>1. TypeInv => TypeOK
  BY DEF TypeInv
<1> QED
  BY <1>1, TypeInvariant, PTL

-----------------------------------------------------------------------------
(* The open session, and the profile that is being seeded.                 *)

\* An application belongs to the open session.  An apply() that
\* leaves an application alone leaves the authority alone, too.
SessionInv ==
    /\ app # None => dir.history = "open"
    /\ seeding # None /\ seeding.at \in {"wipe", "seed"} /\ app # None => ~FreshAuthority

\* The profile that is being seeded stays what it was.
SourceInv ==
    seeding # None =>
        /\ seeding.name \in script.names
        /\ seeding.profile = Load(seeding.name)

LEMMA SourceStep ==
    ASSUME SavedInv, TypeInv, SourceInv, [Next]_vars
    PROVE  SourceInv'
<1> SUFFICES ASSUME seeding' # None
             PROVE  SourceInv'
  BY DEF SourceInv
<1>1. /\ (pc = "seed") = (seeding # None) /\ pc' = "seed"
      /\ seeding # None => seeding \in Seedings
  BY TypeStep DEF TypeInv, TypeOK, ProfilesTypeOK
<1>2. pc # "idle" /\ script' = script /\ script \in Scripts
  BY <1>1, OthersLeaveScript DEF SavedInv, UseInv, Begin, GoTo
<1>3. CASE Start
  <2>1. seeding'.name = script.profile /\ seeding'.profile = Load(script.profile) /\ home' = home
    BY <1>3 DEF Start, StartSeeding
  <2> QED
    BY <1>2, <2>1, ScriptsAssumption DEF SourceInv, Load
<1>4. CASE Execute /\ Apply
  <2>1. seeding'.name = Step.profile /\ seeding'.profile = Load(Step.profile) /\ home' = home
    BY <1>4 DEF Apply, StartSeeding
  <2>2. Step.profile \in script.names
    BY <1>4, StepUnderWay, StepCases DEF Execute, Apply
  <2> QED
    BY <1>2, <2>1, <2>2 DEF SourceInv, Load
<1>5. CASE Seed
  <2>1. home' = home /\ seeding # None
    BY <1>1, <1>5 DEF Seed, Wipe, SeedStep, Record
  <2>2. seeding'.name = seeding.name /\ seeding'.profile = seeding.profile
    <3>1. \A at : LET s == [seeding EXCEPT !.at = at]
                  IN  s.name = seeding.name /\ s.profile = seeding.profile
      BY <1>1, <2>1 DEF Seedings
    <3> QED
      BY <1>5, <3>1 DEF Seed, Wipe, SeedStep, Record
  <2> QED
    BY <1>2, <2>1, <2>2 DEF SourceInv, Load
<1>6. CASE UNCHANGED seeding
  <2>1. seeding.name \in HomeNames => home'[seeding.name] = home[seeding.name]
    BY <1>2, <1>6, HomeIsKept DEF SourceInv
  <2> QED
    BY <1>2, <1>6, <2>1 DEF SourceInv, Load
<1>7. CASE Spawn \/ SpawnFails \/ Killed
  BY <1>7 DEF Spawn, SpawnFails, Killed
<1> QED
  BY <1>3, <1>4, <1>5, <1>6, <1>7, Touched
     DEF FilesTouched, Launch, ShellConsumes, Receipt, Reconcile

LEMMA SessionStep ==
    ASSUME TypeInv, SessionInv, [Next]_vars
    PROVE  SessionInv'
<1>1. /\ (pc = "seed") = (seeding # None)
      /\ seeding # None => seeding \in Seedings
      /\ dir \in RunDirs
      /\ app \in {None, "starting", "running", "Returned", "Crash"}
      /\ None \notin {"starting", "running", "Returned", "Crash"}
  BY ScriptsAssumption DEF TypeInv, TypeOK, ProfilesTypeOK
<1>2. CASE UNCHANGED <<dir, meta, whole, seeding>> /\ UNCHANGED app
  BY <1>2 DEF SessionInv, FreshAuthority
<1>3. CASE TakeDown \/ Start \/ ProgramsEnd
  BY <1>2, <1>3 DEF TakeDown, Start, FreshSession, ProgramsEnd, SessionInv, profiles, session
<1>4. CASE Execute /\ Apply
  <2>1. /\ seeding'.how = "apply" /\ seeding'.profile = Load(Step.profile)
        /\ UNCHANGED <<dir, meta>>
    BY <1>4 DEF Apply, StartSeeding
  <2>2. CASE Load(Step.profile).authority # meta.authority
    BY <1>4, <2>2 DEF Apply, FreshSession, SessionInv
  <2>3. CASE Load(Step.profile).authority = meta.authority
    <3>1. UNCHANGED <<app, socket>> /\ ~FreshAuthority'
      BY <1>4, <2>1, <2>3 DEF Apply, session, FreshAuthority
    <3> QED
      BY <2>1, <3>1 DEF SessionInv
  <2> QED
    BY <2>2, <2>3
<1>5. CASE Execute /\ Launch
  <2>1. /\ dir'.history = "open" /\ dir.history # "open" /\ app' = "starting"
        /\ UNCHANGED seeding /\ pc = "step"
    BY <1>1, <1>5 DEF Execute, Launch, RunDirs
  <2>2. seeding' = None
    BY <1>1, <2>1
  <2> QED
    BY <2>1, <2>2 DEF SessionInv
<1>6. CASE Execute /\ AppCommand
  <2>1. /\ dir.history = "open" /\ app' = Step.receipt /\ socket' = (Step.receipt = "Crash")
        /\ UNCHANGED <<dir, seeding>> /\ pc = "step"
    BY <1>6 DEF Execute, AppCommand, profiles
  <2>2. seeding' = None
    BY <1>1, <2>1
  <2> QED
    BY <2>1, <2>2 DEF SessionInv
<1>7. CASE Seed
  <2>1. UNCHANGED <<app, socket>> /\ seeding # None
    BY <1>1, <1>7 DEF Seed, session
  <2>2. \A at : LET s == [seeding EXCEPT !.at = at]
                IN  s.at = at /\ s.how = seeding.how /\ s.profile = seeding.profile
    BY <1>1, <2>1 DEF Seedings
  <2>3. CASE Wipe
    <3>1. /\ app # None => dir'.history = dir.history
          /\ seeding'.at = "seed" /\ FreshAuthority' = FreshAuthority
      BY <2>1, <2>2, <2>3 DEF Wipe, Wiped, SessionInv, FreshAuthority
    <3>2. seeding.at = "wipe"
      BY <2>3 DEF Wipe
    <3> QED
      BY <2>1, <3>1, <3>2 DEF SessionInv
  <2>4. CASE SeedStep
    <3>1. /\ app # None => dir'.history = dir.history
          /\ seeding'.at = "record"
      BY <2>1, <2>2, <2>4 DEF SeedStep, SeedTree, SessionInv
    <3> QED
      BY <2>1, <3>1 DEF SessionInv
  <2>5. CASE Record
    <3>1. dir' = dir /\ seeding'.at = "spawn"
      BY <2>2, <2>5 DEF Record
    <3> QED
      BY <2>1, <3>1 DEF SessionInv
  <2> QED
    BY <1>7, <2>3, <2>4, <2>5 DEF Seed
<1>8. CASE Spawn \/ SpawnFails \/ Killed
  <2>1. UNCHANGED <<app, socket>> /\ seeding' = None /\ dir'.history = dir.history
    BY <1>1, <1>8 DEF Spawn, SpawnFails, Killed, session, RunDirs
  <2> QED
    BY <2>1 DEF SessionInv
<1>9. CASE ShellConsumes
  <2>1. UNCHANGED <<app, socket, seeding, meta>> /\ dir'.history = dir.history
    BY <1>1, <1>9 DEF ShellConsumes, session, RunDirs
  <2> QED
    BY <2>1 DEF SessionInv, FreshAuthority
<1>10. CASE Receipt
  BY <1>10 DEF Receipt, SessionInv
<1>11. CASE Reconcile
  BY <1>1, <1>11 DEF Reconcile, session, SessionInv
<1>12. CASE AppStarts \/ SocketRemoved
  BY <1>1, <1>12 DEF AppStarts, SocketRemoved, profiles, SessionInv, FreshAuthority
<1> QED
  BY <1>2, <1>3, <1>4, <1>5, <1>6, <1>7, <1>8, <1>9, <1>10, <1>11, <1>12, Touched
     DEF FilesTouched, SessionTouched

-----------------------------------------------------------------------------
(* What a green report says.                                               *)

\* Between two looks of the runner the predicate may come true and false again; what
\* it takes for true has been.
HeldInv ==
    /\ pc \in Polling => Asks(Step)
    /\ pc = "seed" /\ seeding.how = "apply" => ~Asks(Step)
    /\ pc \in Polling /\ HoldsNow => held
    /\ pc = "match" /\ Matches(Step.predicate, entry) => held
    /\ pc = "picture" /\ Asks(Step) => held

\* A step is skipped behind one that failed; one that asks passes if it has been true.
ResultsInv ==
    \A r \in 1..Runs : \A i \in 1..Len(records[r]) :
        /\ records[r][i].result = "skipped" =>
             \E j \in 1..(i - 1) : records[r][j].result = "fail"
        /\ records[r][i].result = "pass" /\ Asks(Steps[i]) => records[r][i].held

\* A predicate looks at one of three things.
LEMMA PredicateKinds ==
    ASSUME TypeInv, HeldInv, pc \in Polling
    PROVE  Kind(Step.predicate) \in {"screen", "session_state", "last_receipt"}
<1>1. UnderWay /\ Now <= Len(Steps) /\ Asks(Step)
  BY DEF UnderWay, HeldInv, TypeInv, RunsInv
<1>2. Step.predicate \in {"screen", "session_state", "last_receipt"} \X STRING
  BY <1>1, StepUnderWay, StepCases
<1> QED
  BY <1>2 DEF Kind

\* While the runner evaluates, an application that starts or loses its socket belongs
\* to an open session.
LEMMA SocketsOfOpenSessions ==
    ASSUME TypeInv, SessionInv, [Next]_vars, pc = "match", pc' = "match"
    PROVE  socket' = socket \/ (dir.history = "open" /\ dir' = dir)
<1>1. CASE UNCHANGED <<stack, app, socket>>
  BY <1>1
<1>2. ~TakeDown /\ ~Start /\ ~ProgramsEnd /\ ~Execute /\ ~Spawn /\ ~Killed
  BY DEF TakeDown, Start, ProgramsEnd, Execute, Spawn, Killed, End, GoTo
<1>3. CASE AppStarts \/ SocketRemoved
  BY <1>3, ScriptsAssumption DEF AppStarts, SocketRemoved, profiles, SessionInv
<1>4. CASE Receipt
  BY <1>4 DEF Receipt
<1> QED
  BY <1>1, <1>2, <1>3, <1>4, Touched DEF SessionTouched

\* The history that has been read, with the socket and the scene of now, says nothing
\* that was not true at one instant since the step began.
LEMMA EvaluationIsOfAnInstant ==
    ASSUME TypeInv, SessionInv, HeldInv, [Next]_vars, pc = "match", pc' = "match",
           UNCHANGED <<script, records, entry>>,
           Matches(Step.predicate, entry)'
    PROVE  held'
<1>1. Holding \/ UNCHANGED vars
  BY DEF Next, Ghosts
<1>2. CASE UNCHANGED vars
  BY <1>2 DEF vars, launcher, session, runner, HeldInv, Matches, Step, Steps, Now, Runs
<1>3. CASE Holding
  <2> DEFINE predicate == Step.predicate
  <2>1. Step' = Step
    BY DEF Step, Steps, Now, Runs
  <2>2. held' = (HoldsNow' \/ held)
    BY <1>3 DEF Holding, Polling
  <2>3. HoldsNow' = Matches(predicate, dir.history)'
    BY DEF HoldsNow
  <2>4. CASE Matches(predicate, entry)
    BY <2>2, <2>4 DEF HeldInv
  <2>5. CASE ~Matches(predicate, entry)
    <3>1. CASE Kind(predicate) = "screen"
      BY <2>1, <2>2, <2>3, <3>1 DEF Matches
    <3>2. CASE Kind(predicate) = "last_receipt"
      BY <2>1, <2>5, <3>2 DEF Matches
    <3>3. CASE Kind(predicate) = "session_state"
      <4>1. SessionState(entry, socket)' # SessionState(entry, socket)
        BY <2>1, <2>5, <3>3 DEF Matches
      <4>2. entry = "open" /\ socket' # socket
        BY <4>1 DEF SessionState
      <4>3. dir'.history = "open"
        BY <4>2, SocketsOfOpenSessions
      <4>4. HoldsNow'
        BY <2>1, <2>3, <3>3, <4>2, <4>3 DEF Matches
      <4> QED
        BY <2>2, <4>4
    <3> QED
      BY <3>1, <3>2, <3>3, PredicateKinds DEF Polling
  <2> QED
    BY <2>4, <2>5
<1> QED
  BY <1>1, <1>2, <1>3

LEMMA HeldStep ==
    ASSUME TypeInv, SessionInv, HeldInv, [Next]_vars
    PROVE  HeldInv'
<1> USE DEF GoTo, End
<1>1. CASE UNCHANGED vars
  <2>1. UNCHANGED <<launcher, profiles, session, runner, held>>
    BY <1>1 DEF vars
  <2>2. Step' = Step /\ HoldsNow' = HoldsNow
        /\ Matches(Step.predicate, entry)' = Matches(Step.predicate, entry)
    BY <2>1 DEF launcher, profiles, session, runner, Step, Steps, Now, Runs, HoldsNow, Matches
  <2> QED
    BY <2>1, <2>2 DEF HeldInv, Asks, runner, profiles
<1>2. CASE Next
  <2>1. Holding
    BY <1>2 DEF Next, Ghosts
  <2>2. pc' \in Polling /\ HoldsNow' => held'
    BY <2>1 DEF Holding, Polling
  <2>3. ASSUME UNCHANGED <<script, records>>
        PROVE  Step' = Step
    BY <2>3 DEF Step, Steps, Now, Runs
  <2>4. ASSUME pc' \notin {"seed", "picture"} \cup Polling
        PROVE  HeldInv'
    BY <2>4 DEF HeldInv, Polling
  <2>5. CASE UNCHANGED <<pc, script, records, entry>>
    <3>1. Step' = Step
      BY <2>3, <2>5
    <3>2. pc = "seed" => seeding'.how = seeding.how
      BY <2>5, HowIsKept
    <3>3. pc = "match" /\ Matches(Step.predicate, entry)' => held'
      BY <2>5, EvaluationIsOfAnInstant
    <3>4. pc = "picture" => held' = held
      BY <2>1, <2>5 DEF Holding, Polling
    <3> QED
      BY <2>2, <2>5, <3>1, <3>2, <3>3, <3>4 DEF HeldInv, Asks
  <2>6. CASE Begin \/ StartRaises \/ StepFails \/ NextRun \/ Report \/ Killed
    BY <2>4, <2>6 DEF Begin, StartRaises, StepFails, NextRun, Report, Killed, Polling
  <2>16. CASE TakeDown \/ Unpad \/ UnpadFails
    BY <2>4, <2>16 DEF TakeDown, Unpad, UnpadFails, Polling
  <2>7. CASE Skip \/ TakePicture
    BY <2>4, <2>7 DEF Skip, TakePicture, Polling
  <2>8. CASE Start
    BY <2>8 DEF Start, StartSeeding, HeldInv, Polling
  <2>9. CASE Spawn
    <3>1. pc = "seed" /\ seeding \in Seedings
      BY <2>9 DEF Spawn, TypeInv, TypeOK, ProfilesTypeOK
    <3>2. CASE seeding.how = "up"
      BY <2>4, <2>9, <3>2 DEF Spawn, Polling
    <3>3. CASE seeding.how = "apply"
      <4>1. Step' = Step /\ pc' = "picture"
        BY <2>3, <2>9, <3>3 DEF Spawn
      <4> QED
        BY <3>1, <3>3, <4>1 DEF HeldInv, Asks, Polling
    <3> QED
      BY <3>1, <3>2, <3>3 DEF Seedings
  <2>10. CASE SpawnFails
    BY <2>4, <2>10 DEF SpawnFails, Polling
  <2>11. CASE Execute /\ Apply
    <3>1. Step' = Step /\ pc' = "seed" /\ Step.op = "profile"
      BY <2>3, <2>11 DEF Apply
    <3> QED
      BY <3>1 DEF HeldInv, Asks, Polling
  <2>12. CASE Execute /\ (Input \/ Launch \/ AppCommand)
    <3>1. Step' = Step /\ pc' = "picture" /\ Step.op \notin {"wait_for", "assert"}
      BY <2>3, <2>12 DEF Input, Launch, AppCommand
    <3> QED
      BY <3>1 DEF HeldInv, Asks, Polling
  <2>13. CASE Execute /\ StartPredicate
    <3>1. Step' = Step /\ pc' = "poll" /\ Asks(Step)
      BY <2>3, <2>13 DEF StartPredicate, Asks
    <3> QED
      BY <2>2, <3>1 DEF HeldInv, Asks, Polling
  <2>14. CASE ReadHistory
    <3>1. Step' = Step /\ pc' = "match" /\ Asks(Step) /\ entry' = dir'.history
      BY <2>3, <2>14 DEF ReadHistory, profiles, HeldInv, Polling
    <3>2. Matches(Step.predicate, entry)' = HoldsNow'
      BY <3>1 DEF HoldsNow, Matches
    <3> QED
      BY <2>2, <3>1, <3>2 DEF HeldInv, Asks, Polling
  <2>15. CASE Evaluate
    <3>1. CASE pc' = "step"
      BY <2>4, <3>1 DEF Polling
    <3>2. CASE pc' = "picture"
      <4>1. Matches(Step.predicate, entry) /\ pc = "match"
        BY <2>15, <3>2 DEF Evaluate
      <4>2. held
        BY <4>1 DEF HeldInv
      <4>3. held' = held
        BY <2>1, <3>2 DEF Holding, Polling
      <4> QED
        BY <3>2, <4>2, <4>3 DEF HeldInv, Polling
    <3>3. CASE pc' = "poll"
      <4>1. pc = "match" /\ Step' = Step
        BY <2>3, <2>15, <3>3 DEF Evaluate
      <4> QED
        BY <2>2, <3>3, <4>1 DEF HeldInv, Asks, Polling
    <3> QED
      BY <2>15, <3>1, <3>2, <3>3 DEF Evaluate
  <2> QED
    BY <2>5, <2>6, <2>7, <2>8, <2>9, <2>10, <2>11, <2>12, <2>13, <2>14, <2>15,
       <2>16, Touched DEF RunnerTouched, Execute
<1> QED
  BY <1>1, <1>2

\* An entry that is added is one that may be.
LEMMA RecordedResult ==
    ASSUME TypeInv, ResultsInv, pc = "step" \/ UnderWay, Now <= Len(Steps), script' = script,
           NEW result \in {"pass", "fail", "skipped"}, NEW picture \in Pictures \cup {None},
           RecordStep(result, picture),
           result = "skipped" => Failed,
           result = "pass" /\ Asks(Step) => held
    PROVE  ResultsInv'
<1> DEFINE new == [result |-> result, picture |-> picture, held |-> held /\ result = "pass"]
<1>1. /\ Runs' = Runs /\ Runs > 0 /\ Steps' = Steps
      /\ records'[Runs] = Append(records[Runs], new)
      /\ \A r \in 1..(Runs - 1) : records'[r] = records[r]
  BY Recorded
<1>2. /\ records[Runs] \in Seq(Records) /\ Runs \in Nat
      /\ Step = Steps[Now] /\ Now = Len(records[Runs]) + 1
  BY StepUnderWay DEF TypeInv, TypeOK, Runs, Now, Step
<1>3. new.result = result /\ new.held = (held /\ result = "pass")
  OBVIOUS
<1> HIDE DEF new
<1>4. /\ Len(records'[Runs]) = Now /\ records'[Runs][Now] = new
      /\ \A i \in 1..(Now - 1) : records'[Runs][i] = records[Runs][i]
  BY <1>1, <1>2
<1> SUFFICES ASSUME NEW r \in 1..Runs, NEW i \in 1..Len(records'[r])
             PROVE  /\ records'[r][i].result = "skipped" =>
                         \E j \in 1..(i - 1) : records'[r][j].result = "fail"
                    /\ records'[r][i].result = "pass" /\ Asks(Steps[i]) => records'[r][i].held
  BY <1>1 DEF ResultsInv, Asks
<1>5. CASE r # Runs
  <2>1. r \in 1..(Runs - 1)
    BY <1>2, <1>5
  <2> QED
    BY <1>1, <2>1 DEF ResultsInv
<1>6. CASE r = Runs /\ i # Now
  <2>1. i \in 1..(Now - 1) /\ i \in 1..Len(records[Runs])
    BY <1>2, <1>4, <1>6
  <2>2. \A j \in 1..i : j \in 1..(Now - 1)
    BY <1>2, <2>1
  <2>3. \A j \in 1..(i - 1) : records'[Runs][j] = records[Runs][j]
    BY <1>2, <1>4, <2>1
  <2>4. records'[Runs][i] = records[Runs][i]
    BY <1>4, <2>1
  <2>5. /\ records[Runs][i].result = "skipped" =>
             \E j \in 1..(i - 1) : records[Runs][j].result = "fail"
        /\ records[Runs][i].result = "pass" /\ Asks(Steps[i]) => records[Runs][i].held
    BY <1>1, <1>2, <2>1 DEF ResultsInv
  <2> QED
    BY <1>6, <2>3, <2>4, <2>5
<1>7. CASE r = Runs /\ i = Now
  <2>1. Failed => \E j \in 1..(Now - 1) : records'[Runs][j].result = "fail"
    BY <1>4 DEF Failed
  <2> QED
    BY <1>2, <1>3, <1>4, <1>7, <2>1
<1> QED
  BY <1>5, <1>6, <1>7

LEMMA ResultsStep ==
    ASSUME TypeInv, HeldInv, ResultsInv, [Next]_vars
    PROVE  ResultsInv'
<1>1. ASSUME UNCHANGED <<script, records>>
      PROVE  ResultsInv'
  <2>1. Runs' = Runs /\ Steps' = Steps /\ records' = records
    BY <1>1 DEF Runs, Steps
  <2> QED
    BY <2>1 DEF ResultsInv, Asks
<1> USE DEF GoTo, End
<1>2. ASSUME records' = <<>>
      PROVE  ResultsInv'
  BY <1>2 DEF ResultsInv, Runs
<1>3. pc # "idle" => script \in Scripts
  BY DEF TypeInv, RunsInv
<1>4. CASE Begin
  BY <1>2, <1>4 DEF Begin, TypeInv, RunsInv
<1>5. CASE StartRaises \/ UnpadFails \/ Report \/ Killed
  BY <1>2, <1>5 DEF StartRaises, UnpadFails, Report, Killed
<1>6. CASE TakeDown \/ Unpad \/ Start \/ Execute \/ ReadHistory \/ NextRun
  BY <1>1, <1>6 DEF TakeDown, Unpad, Start, Execute, Apply, Input, Launch, AppCommand, StartPredicate,
                    ReadHistory, NextRun
<1>7. CASE Spawn
  <2>1. CASE records' = records
    BY <1>1, <1>7, <2>1 DEF Spawn
  <2>2. CASE records' = Append(records, <<>>)
    <3>1. records \in Seq(Seq(Records)) /\ Runs \in Nat
      BY DEF TypeInv, TypeOK, Runs
    <3>2. /\ Runs' = Runs + 1 /\ records'[Runs + 1] = <<>>
          /\ \A r \in 1..Runs : records'[r] = records[r]
      BY <2>2, <3>1 DEF Runs
    <3>3. Steps' = Steps
      BY <1>7 DEF Spawn, Steps
    <3>4. \A r \in 1..(Runs + 1) : r \in 1..Runs \/ r = Runs + 1
      BY <3>1
    <3>5. Len(<<>>) = 0
      OBVIOUS
    <3>6. \A r \in 1..(Runs + 1) : \A i \in 1..Len(records'[r]) : r \in 1..Runs
      BY <3>2, <3>4, <3>5
    <3> QED
      BY <3>2, <3>3, <3>6 DEF ResultsInv, Asks
  <2> QED
    BY <1>7, <2>1, <2>2 DEF Spawn
<1>8. CASE SpawnFails
  <2>1. CASE seeding.how = "up"
    BY <1>2, <1>8, <2>1 DEF SpawnFails
  <2>2. CASE seeding.how # "up"
    <3>1. seeding \in Seedings /\ pc = "seed"
      BY <1>8 DEF SpawnFails, TypeInv, TypeOK, ProfilesTypeOK
    <3>2. UnderWay
      BY <2>2, <3>1 DEF UnderWay, Seedings
    <3>3. Now <= Len(Steps) /\ RecordStep("fail", None) /\ script' = script
      BY <1>8, <2>2, <3>2 DEF SpawnFails, TypeInv, RunsInv
    <3> QED
      BY <3>2, <3>3, RecordedResult
  <2> QED
    BY <2>1, <2>2
<1>9. CASE StepFails
  <2>1. (pc = "step" \/ UnderWay) /\ Now <= Len(Steps) /\ RecordStep("fail", None)
        /\ script' = script
    BY <1>9 DEF StepFails, UnderWay
  <2> QED
    BY <2>1, RecordedResult
<1>10. CASE Skip
  <2>1. pc = "step" /\ Now <= Len(Steps) /\ Failed /\ RecordStep("skipped", None)
        /\ script' = script
    BY <1>10 DEF Skip
  <2> QED
    BY <2>1, RecordedResult
<1>11. CASE Evaluate
  <2>1. UnderWay /\ Now <= Len(Steps) /\ script' = script
    BY <1>11 DEF Evaluate, UnderWay, Polling, TypeInv, RunsInv
  <2>2. CASE records' = records
    BY <1>1, <2>1, <2>2
  <2>3. CASE RecordStep("fail", None)
    BY <2>1, <2>3, RecordedResult
  <2> QED
    BY <1>11, <2>2, <2>3 DEF Evaluate
<1>12. CASE TakePicture
  <2>1. /\ UnderWay /\ Now <= Len(Steps) /\ script' = script /\ RecordStep("pass", Picture)
        /\ Asks(Step) => held
    BY <1>12 DEF TakePicture, UnderWay, TypeInv, RunsInv, HeldInv
  <2>2. Picture \in Pictures
    BY DEF Picture, Pictures, TypeInv, TypeOK, LauncherTypeOK, ProfilesTypeOK, RunDirs
  <2> QED
    BY <2>1, <2>2, RecordedResult
<1>13. CASE UNCHANGED <<pc, script, records, entry>>
  BY <1>1, <1>13
<1> QED
  BY <1>4, <1>5, <1>6, <1>7, <1>8, <1>9, <1>10, <1>11, <1>12, <1>13, Touched DEF RunnerTouched

ReportInv == TypeInv /\ SessionInv /\ HeldInv /\ ResultsInv

LEMMA ReportInvariant == Spec => []ReportInv
<1>1. Init => ReportInv
  <2>1. Init => SessionInv /\ HeldInv /\ ResultsInv
    BY DEF Init, SessionInv, HeldInv, ResultsInv, Polling, Runs
  <2> QED
    BY <2>1, TypeInit DEF ReportInv
<1>2. ReportInv /\ [Next]_vars => ReportInv'
  BY TypeStep, SessionStep, HeldStep, ResultsStep DEF ReportInv
<1> QED
  BY <1>1, <1>2, PTL DEF Spec

\* scenario.py:247-253: for any scenario and number of repeats, exit status 0 means that
\* every step of every repeat has run and passed, that each wait_for and assert was true
\* at an instant of its own step, and that the pictures of the repeats are the same.
THEOREM GreenReportsAreEarned == Spec => GreenIsEarned
<1> DEFINE Earned ==
        Report /\ verdict' = "green" =>
          /\ Runs = Repeat
          /\ \A r \in 1..Runs, i \in DOMAIN Steps :
                /\ records[r][i].result = "pass"
                /\ records[r][i].picture = records[1][i].picture
                /\ Steps[i].op \in {"wait_for", "assert"} => records[r][i].held
<1>1. ASSUME ReportInv, [Next]_vars
      PROVE  [Earned]_vars
  <2> SUFFICES ASSUME Report, verdict' = "green"
               PROVE  /\ Runs = Repeat
                      /\ \A r \in 1..Runs, i \in DOMAIN Steps :
                            /\ records[r][i].result = "pass"
                            /\ records[r][i].picture = records[1][i].picture
                            /\ Steps[i].op \in {"wait_for", "assert"} => records[r][i].held
    OBVIOUS
  <2>1. /\ pc = "step" /\ Now > Len(Steps) /\ Runs = Repeat /\ Passed /\ Deterministic
    BY DEF Report, RunOver
  <2>2. /\ records \in Seq(Seq(Records)) /\ Runs \in Nat /\ Runs > 0 /\ script \in Scripts
        /\ \A r \in 1..Runs : Len(records[r]) <= Len(Steps)
        /\ \A r \in 1..(Runs - 1) : Len(records[r]) = Len(Steps)
    BY <1>1, <2>1 DEF ReportInv, TypeInv, TypeOK, RunsInv, Runs
  <2>3. /\ Len(Steps) \in Nat /\ DOMAIN Steps = 1..Len(Steps)
        /\ \A r \in 1..Runs : records[r] \in Seq(Records)
    BY <2>2, ScriptsAssumption DEF Steps, Runs
  <2>4. Len(records[Runs]) = Len(Steps)
    BY <2>1, <2>2, <2>3 DEF Now
  <2> SUFFICES ASSUME NEW r \in 1..Runs, NEW i \in DOMAIN Steps
               PROVE  /\ records[r][i].result = "pass"
                      /\ records[r][i].picture = records[1][i].picture
                      /\ Asks(Steps[i]) => records[r][i].held
    BY <2>1 DEF Asks
  <2>5. Len(records[r]) = Len(Steps)
    <3>1. r = Runs \/ r \in 1..(Runs - 1)
      BY <2>2
    <3> QED
      BY <2>2, <2>4, <3>1
  <2>6. i \in 1..Len(records[r])
    BY <2>3, <2>5
  <2>7. records[r][i].result \in {"pass", "fail", "skipped"}
    <3>1. records[r][i] \in Records
      BY <2>3, <2>6
    <3> QED
      BY <3>1 DEF Records
  <2>8. \A j \in 1..Len(Steps) : records[r][j].result # "fail"
    BY <2>1, <2>3 DEF Passed
  <2>9. records[r][i].result # "skipped"
    <3>1. \A j \in 1..(i - 1) : j \in 1..Len(Steps)
      BY <2>3
    <3> QED
      BY <1>1, <2>6, <2>8, <3>1 DEF ReportInv, ResultsInv
  <2>10. records[r][i].result = "pass"
    BY <2>3, <2>7, <2>8, <2>9
  <2>11. records[r][i].picture = records[1][i].picture
    BY <2>1 DEF Deterministic
  <2>12. Asks(Steps[i]) => records[r][i].held
    BY <1>1, <2>6, <2>10 DEF ReportInv, ResultsInv
  <2> QED
    BY <2>10, <2>11, <2>12
<1>2. Spec => [][Earned]_vars
  <2> HIDE DEF Earned
  <2> QED
    BY <1>1, ReportInvariant, PTL DEF Spec
<1> QED
  BY <1>2 DEF GreenIsEarned

-----------------------------------------------------------------------------
(* What a snapshot saves.                                                  *)

\* While the name in run.json stands for the profile that was seeded, the batteries of
\* the run directory are those found under it: a snapshot in its place hands them on.
BatteriesInv ==
    whole /\ traceable =>
        /\ Load(meta.profile) # None => Load(meta.profile).power = dir.power
        /\ snap # None /\ snap.name = meta.profile => snap.toml.power = dir.power

\* What has been copied of a directory that nobody has touched is what it holds.
StillInv ==
    still =>
        /\ snap # None /\ whole
        /\ snap.toml.prefs = dir.prefs /\ dir.prefs \in Prefs
        /\ snap.at # "shell" => home[snap.name].data = dir.data
        /\ snap.at = "toml" => home[snap.name].history = dir.history
        /\ traceable => snap.toml.power = dir.power

\* A copied file leaves the other profiles alone, and a profile without profile.toml
\* cannot be loaded.
LEMMA OneProfileChanges ==
    ASSUME ProfilesTypeOK, NEW n \in HomeNames, NEW d, d # None,
           home' = [home EXCEPT ![n] = d]
    PROVE  /\ home'[n] = d
           /\ \A name : name # n => Load(name)' = Load(name)
           /\ d.toml = None => Load(n)' = None
<1>1. /\ home'[n] = d
      /\ \A name \in HomeNames : name # n => home'[name] = home[name]
  BY DEF ProfilesTypeOK
<1> QED
  BY <1>1 DEF Load

\* The directory that a snapshot under way writes.
LEMMA Copying ==
    ASSUME TypeInv, SavedInv, snap # None
    PROVE  /\ snap \in Snaps /\ snap.name \in HomeNames
           /\ home[snap.name] \in Directories /\ home \in [HomeNames -> Directories \cup {None}]
           /\ snap.at # "toml" => home[snap.name].toml = None
<1>1. snap \in Snaps /\ home \in [HomeNames -> Directories \cup {None}]
  BY DEF TypeInv, TypeOK, ProfilesTypeOK
<1>2. snap.name \in HomeNames
  BY <1>1 DEF Snaps
<1> QED
  BY <1>1, <1>2 DEF TypeInv, CopyInv, SavedInv, SnapInv

\* What the steps of a snapshot leave in its directory.
LEMMA Copied ==
    ASSUME TypeInv, SavedInv, snap # None, SnapShell \/ SnapAuthority \/ SnapToml
    PROVE  LET d == home'[snap.name] IN
           /\ home' = [home EXCEPT ![snap.name] = d] /\ d \in Directories
           /\ SnapShell =>
                /\ d.toml = home[snap.name].toml /\ d.data = dir.data
           /\ SnapAuthority =>
                /\ d.toml = home[snap.name].toml /\ d.data = home[snap.name].data
                /\ d.history = dir.history
           /\ SnapToml =>
                /\ d.toml = snap.toml /\ d.data = home[snap.name].data
                /\ d.history = home[snap.name].history
<1>1. /\ snap \in Snaps /\ snap.name \in HomeNames
      /\ home[snap.name] \in Directories /\ home \in [HomeNames -> Directories \cup {None}]
      /\ dir \in RunDirs
  BY Copying DEF TypeInv, TypeOK, ProfilesTypeOK
<1>2. CASE SnapShell
  <2>1. home' = [home EXCEPT ![snap.name] =
                   [home[snap.name] EXCEPT !.data = dir.data, !.lock = dir.lock]]
    BY <1>1, <1>2 DEF SnapShell, Directories
  <2>2. ~SnapAuthority /\ ~SnapToml
    BY <1>2 DEF SnapShell, SnapAuthority, SnapToml
  <2> QED
    BY <1>1, <2>1, <2>2 DEF Directories, RunDirs
<1>3. CASE SnapAuthority
  <2>1. home' = [home EXCEPT ![snap.name] =
                   [home[snap.name] EXCEPT !.history = dir.history, !.lock = FALSE]]
    BY <1>1, <1>3 DEF SnapAuthority, Directories
  <2>2. ~SnapShell /\ ~SnapToml
    BY <1>3 DEF SnapShell, SnapAuthority, SnapToml
  <2> QED
    BY <1>1, <2>1, <2>2 DEF Directories, RunDirs
<1>4. CASE SnapToml
  <2>1. home' = [home EXCEPT ![snap.name] = [home[snap.name] EXCEPT !.toml = snap.toml]]
    BY <1>1, <1>4 DEF SnapToml, Directories
  <2>2. ~SnapShell /\ ~SnapAuthority
    BY <1>4 DEF SnapShell, SnapAuthority, SnapToml
  <2> QED
    BY <1>1, <2>1, <2>2 DEF Directories, Snaps
<1> QED
  BY <1>2, <1>3, <1>4

\* What nobody but a seeding changes.
LEMMA BatteriesStay ==
    ASSUME TypeInv, [Next]_vars, ~Seed
    PROVE  meta' = meta /\ whole' = whole /\ dir'.power = dir.power
<1>1. dir \in RunDirs
  BY DEF TypeInv, TypeOK, ProfilesTypeOK
<1>2. CASE Start \/ (Execute /\ (Apply \/ Launch)) \/ Spawn
  BY <1>1, <1>2 DEF Start, Apply, Launch, Spawn, RunDirs
<1>3. CASE SpawnFails \/ Killed
  BY <1>1, <1>3 DEF SpawnFails, Killed
<1>4. CASE ShellConsumes
  BY <1>1, <1>4 DEF ShellConsumes, RunDirs
<1>5. CASE Receipt \/ Reconcile
  BY <1>1, <1>5 DEF Receipt, Reconcile, RunDirs
<1> QED
  BY <1>2, <1>3, <1>4, <1>5, Touched DEF FilesTouched

LEMMA BatteriesStep ==
    ASSUME SavedInv, TypeInv, SourceInv, BatteriesInv, [Next]_vars
    PROVE  BatteriesInv'
<1> SUFFICES ASSUME whole', traceable'
             PROVE  BatteriesInv'
  BY DEF BatteriesInv
<1>1. ProfilesTypeOK /\ MetaInv /\ (pc = "seed") = (seeding # None)
  BY DEF TypeInv, TypeOK
<1>2. CASE Seed
  <2>1. Record
    BY <1>1, <1>2 DEF Seed, Wipe, SeedStep, MetaInv
  <2>2. /\ meta'.profile = seeding.profile.name /\ seeding.profile.name = seeding.name
        /\ UNCHANGED <<dir, home, snap>>
        /\ seeding # None /\ seeding.at = "record"
    BY <2>1 DEF Record
  <2>3. Load(seeding.name) = seeding.profile /\ seeding.profile.power = dir.power
    BY <1>1, <2>2 DEF SourceInv, MetaInv
  <2>4. snap # None => snap.name # seeding.name
    BY <1>2, <2>2 DEF Seed, SourceInv, SavedInv, UseInv
  <2> QED
    BY <2>2, <2>3, <2>4 DEF BatteriesInv, Load
<1>3. CASE ~Seed
  <2>1. /\ meta' = meta /\ whole /\ dir'.power = dir.power
        /\ UNCHANGED traceable \/ ProfileEdited
    BY <1>3, BatteriesStay, OthersLeaveTrace
  <2>2. traceable
    BY <2>1 DEF ProfileEdited, Edit
  <2>3. CASE UNCHANGED <<home, snap>>
    BY <2>1, <2>3, <2>2 DEF BatteriesInv, Load
  <2>4. ASSUME NEW name \in HomeNames, SnapRead(name)
        PROVE  BatteriesInv'
    <3> DEFINE empty == [toml |-> None, data |-> None, lock |-> FALSE, history |-> None]
    <3>1. /\ home' = [home EXCEPT ![name] = empty] /\ snap'.name = name
          /\ snap'.toml.power = SnapshotPower(meta.profile)
      BY <2>4 DEF SnapRead
    <3>2. empty \in Directories
      BY DEF Directories, Datas, Histories
    <3>3. empty # None
      BY <3>2, ProfilesAssumption
    <3>4. empty.toml = None
      OBVIOUS
    <3> HIDE DEF empty
    <3>5. (\A n : n # name => Load(n)' = Load(n)) /\ Load(name)' = None
      BY <1>1, <3>1, <3>3, <3>4, OneProfileChanges
    <3>6. SnapshotPower(meta.profile) = dir.power
      BY <2>1, <2>2 DEF BatteriesInv, SnapshotPower
    <3>7. Load(meta.profile)' # None => Load(meta.profile)'.power = dir'.power
      BY <2>1, <2>2, <3>5 DEF BatteriesInv, Load
    <3> QED
      BY <2>1, <3>1, <3>6, <3>7 DEF BatteriesInv
  <2>5. CASE snap # None /\ (SnapShell \/ SnapAuthority \/ SnapToml)
    <3> DEFINE d == home'[snap.name]
    <3>1. snap.name \in HomeNames /\ home' = [home EXCEPT ![snap.name] = d] /\ d # None
      BY <2>5, Copying, Copied, ProfilesAssumption
    <3>2. \A n : n # snap.name => Load(n)' = Load(n)
      BY <1>1, <3>1, OneProfileChanges
    <3>3. CASE meta.profile # snap.name
      <4>1. Load(meta.profile)' = Load(meta.profile)
        BY <2>1, <3>2, <3>3 DEF Load
      <4>2. snap' # None => snap'.name = snap.name
        BY <2>5, Copying DEF SnapShell, SnapAuthority, SnapToml, Look, Snaps
      <4> QED
        BY <2>1, <2>2, <3>3, <4>1, <4>2 DEF BatteriesInv
    <3>4. CASE meta.profile = snap.name /\ (SnapShell \/ SnapAuthority)
      <4>1. d.toml = None
        BY <2>5, <3>4, Copying, Copied DEF SnapShell, SnapAuthority
      <4>2. Load(meta.profile)' = None
        BY <2>1, <3>1, <3>4, <4>1 DEF Load
      <4>3. snap'.name = snap.name /\ snap'.toml = snap.toml
        BY <2>5, <3>4, Copying DEF SnapShell, SnapAuthority, Look, Snaps
      <4> QED
        BY <2>1, <2>5, <2>2, <3>4, <4>2, <4>3 DEF BatteriesInv
    <3>5. CASE meta.profile = snap.name /\ SnapToml
      <4>1. d.toml = snap.toml /\ snap' = None
        BY <2>5, <3>5, Copied DEF SnapToml
      <4>2. Load(meta.profile)' # None => Load(meta.profile)'.power = snap.toml.power
        BY <2>1, <3>1, <3>5, <4>1 DEF Load
      <4> QED
        BY <2>1, <2>5, <2>2, <3>5, <4>1, <4>2 DEF BatteriesInv
    <3> QED
      BY <2>5, <3>3, <3>4, <3>5
  <2>6. CASE SnapStops
    BY <2>1, <2>6, <2>2 DEF SnapStops, BatteriesInv, Load
  <2>7. ASSUME NEW name \in HomeNames, Edit(name)
        PROVE  BatteriesInv'
    <3>1. meta # None
      BY <1>1, <2>1 DEF MetaInv
    <3>2. PICK d \in Edits \cup {None} : home' = [home EXCEPT ![name] = d]
      BY <2>7 DEF Edit
    <3>3. meta.profile # name /\ snap' = snap /\ meta' = meta
      BY <2>7, <3>1 DEF Edit
    <3>4. meta.profile \in HomeNames => home'[meta.profile] = home[meta.profile]
      BY <1>1, <3>2, <3>3 DEF ProfilesTypeOK
    <3>5. Load(meta.profile)' = Load(meta.profile)
      BY <3>3, <3>4 DEF Load
    <3> QED
      BY <2>1, <2>2, <3>3, <3>5 DEF BatteriesInv
  <2> QED
    BY <2>3, <2>4, <2>5, <2>6, <2>7, OthersLeaveHome
       DEF Snapshot, SnapshotStep, SnapShell, SnapAuthority, SnapToml, ProfileEdited
<1> QED
  BY <1>2, <1>3

LEMMA StillStep ==
    ASSUME SavedInv, TypeInv, BatteriesInv, StillInv, [Next]_vars
    PROVE  StillInv'
<1> SUFFICES ASSUME still'
             PROVE  StillInv'
  BY DEF StillInv
<1>1. ProfilesTypeOK /\ MetaInv /\ dir \in RunDirs
  BY DEF TypeInv, TypeOK, ProfilesTypeOK
<1>2. CASE UNCHANGED vars
  BY <1>2 DEF vars, profiles, StillInv
<1>3. CASE Next /\ snap = None
  <2>1. snap' # None /\ whole
    BY <1>3 DEF Next, Ghosts, Watching
  <2>2. PICK name \in HomeNames : SnapRead(name)
    BY <1>3, <2>1, OthersLeaveHome
       DEF Snapshot, SnapshotStep, SnapShell, SnapAuthority, SnapToml, SnapStops, ProfileEdited
  <2>3. /\ snap'.at = "shell" /\ UNCHANGED <<dir, whole, traceable>>
        /\ snap'.toml.power = SnapshotPower(meta.profile)
        /\ snap'.toml.prefs = SnapshotPrefs(dir.prefs, meta.preset)
    BY <2>2 DEF SnapRead
  <2>4. traceable => SnapshotPower(meta.profile) = dir.power
    BY <2>1 DEF BatteriesInv, SnapshotPower
  <2>5. dir.prefs \in Prefs /\ SnapshotPrefs(dir.prefs, meta.preset) = dir.prefs
    BY <1>1, <2>1, ProfilesAssumption DEF MetaInv, SnapshotPrefs
  <2> QED
    BY <2>1, <2>3, <2>4, <2>5 DEF StillInv
<1>4. CASE Next /\ snap # None
  <2>1. /\ snap' # None /\ still /\ dir' = dir /\ whole' = whole
    BY <1>4 DEF Next, Ghosts, Watching
  <2>2. traceable' => traceable
    <3>1. ~Record
      BY <1>1, <2>1 DEF Record, MetaInv, StillInv
    <3> QED
      BY <3>1, OthersLeaveTrace DEF ProfileEdited, Edit
  <2>3. CASE UNCHANGED <<home, snap>>
    BY <2>1, <2>2, <2>3 DEF StillInv
  <2>4. snap \in Snaps
    BY <1>1, <1>4 DEF ProfilesTypeOK
  <2>5. ASSUME NEW at \in {"authority", "toml"}, Look(at)
        PROVE  snap'.at = at /\ snap'.name = snap.name /\ snap'.toml = snap.toml
    BY <2>4, <2>5 DEF Look, Snaps
  <2>6. CASE SnapShell
    <3>1. home'[snap.name].data = dir.data /\ Look("authority")
      BY <1>4, <2>6, Copied DEF SnapShell
    <3> QED
      BY <2>1, <2>2, <2>5, <3>1 DEF StillInv
  <2>7. CASE SnapAuthority
    <3>1. /\ home'[snap.name].history = dir.history
          /\ home'[snap.name].data = home[snap.name].data
          /\ snap.at = "authority" /\ Look("toml")
      BY <1>4, <2>7, Copied DEF SnapAuthority
    <3> QED
      BY <2>1, <2>2, <2>5, <3>1 DEF StillInv
  <2>8. CASE SnapToml \/ SnapStops \/ (\E name \in HomeNames : SnapRead(name))
    BY <1>4, <2>1, <2>8 DEF SnapToml, SnapStops, SnapRead
  <2>9. ASSUME NEW name \in HomeNames, Edit(name)
        PROVE  StillInv'
    <3>1. PICK d \in Edits \cup {None} : home' = [home EXCEPT ![name] = d]
      BY <2>9 DEF Edit
    <3>2. snap' = snap /\ snap.name # name /\ snap.name \in HomeNames
      BY <1>4, <2>4, <2>9 DEF Edit, Snaps
    <3>3. home'[snap.name] = home[snap.name]
      BY <1>1, <3>1, <3>2 DEF ProfilesTypeOK
    <3> QED
      BY <2>1, <2>2, <3>2, <3>3 DEF StillInv
  <2> QED
    BY <2>3, <2>6, <2>7, <2>8, <2>9, OthersLeaveHome DEF Snapshot, SnapshotStep, ProfileEdited
<1> QED
  BY <1>2, <1>3, <1>4

\* The preset that a profile is seeded with again.
PresetAgain(p) == IF p.prefs.first THEN NoPreset
                  ELSE [scale |-> p.prefs.scale, contrast |-> p.prefs.contrast]

\* A directory, from the files of a profile that has them.
LEMMA SeedsTheDirectory ==
    ASSUME NEW d \in RunDirs, d.prefs \in Prefs, NEW p, p.power \in Powers,
           p.prefs = d.prefs, p.data = d.data, p.history = d.history
    PROVE  /\ SeedTree(Empty, p, PresetAgain(p), TRUE) =
                [d EXCEPT !.lock = FALSE,
                          !.power = SeedTree(Empty, p, PresetAgain(p), TRUE).power]
           /\ SeedTree(Empty, p, PresetAgain(p), TRUE).power = p.power
<1> DEFINE preset == PresetAgain(p)
<1>1. /\ p.prefs = [first |-> p.prefs.first, scale |-> p.prefs.scale,
                    contrast |-> p.prefs.contrast]
      /\ p.prefs.first \in BOOLEAN /\ p.prefs.scale \in Scales /\ p.prefs.contrast \in Contrasts
  BY DEF Prefs
<1>2. p.prefs.scale # None /\ p.prefs.contrast # None
  BY <1>1, ProfilesAssumption
<1>3. EffectivePrefs(p, preset) = p.prefs
  <2>1. CASE p.prefs.first
    BY <1>1, <2>1 DEF PresetAgain, EffectivePrefs, EffectivePreset, Given, NoPreset
  <2>2. CASE ~p.prefs.first
    <3>1. preset.scale = p.prefs.scale /\ preset.contrast = p.prefs.contrast /\ preset # NoPreset
      BY <1>2, <2>2 DEF PresetAgain, NoPreset
    <3> HIDE DEF preset
    <3> QED
      BY <1>1, <1>2, <2>2, <3>1 DEF EffectivePrefs, EffectivePreset, Given
  <2> QED
    BY <2>1, <2>2
<1> DEFINE again == SeedTree(Empty, p, preset, TRUE)
<1>4. again = [prefs |-> p.prefs, data |-> p.data, lock |-> FALSE, history |-> p.history,
               power |-> p.power]
  BY <1>3 DEF SeedTree, Empty, Wiped, Over
<1> HIDE DEF again, preset
<1>5. again.power = p.power
  BY <1>4
<1>6. [d EXCEPT !.lock = FALSE, !.power = p.power] =
        [prefs |-> d.prefs, data |-> d.data, lock |-> FALSE, history |-> d.history,
         power |-> p.power]
  <2> DEFINE other == [d EXCEPT !.lock = FALSE, !.power = p.power]
  <2>1. /\ other \in RunDirs
        /\ other.prefs = d.prefs /\ other.data = d.data /\ other.lock = FALSE
        /\ other.history = d.history /\ other.power = p.power
    BY DEF RunDirs
  <2> HIDE DEF other
  <2>2. other = [prefs |-> other.prefs, data |-> other.data, lock |-> other.lock,
                 history |-> other.history, power |-> other.power]
    BY <2>1 DEF RunDirs
  <2> QED
    BY <2>1, <2>2 DEF other
<1>7. again = [d EXCEPT !.lock = FALSE, !.power = again.power]
  BY <1>4, <1>5, <1>6
<1> QED
  BY <1>5, <1>7 DEF again, preset

SnapshotInv == SavedInv /\ TypeInv /\ SourceInv /\ BatteriesInv /\ StillInv

LEMMA SnapshotInvariant == Spec => []SnapshotInv
<1>1. Init => SnapshotInv
  <2>1. Init => SourceInv /\ BatteriesInv /\ StillInv
    BY DEF Init, SourceInv, BatteriesInv, StillInv
  <2> QED
    BY <2>1, SavedInit, TypeInit DEF SnapshotInv
<1>2. SnapshotInv /\ [Next]_vars => SnapshotInv'
  BY SavedStep, TypeStep, SourceStep, BatteriesStep, StillStep DEF SnapshotInv
<1> QED
  BY <1>1, <1>2, PTL DEF Spec

\* profiles.py:168-173, 203-250 and docs/gui-dev-loop.md:36-38: for any profiles, a
\* snapshot of a directory that stays as it is meanwhile is a profile that seeds the same
\* files; whatever came before.  It has the same batteries as long as the name in
\* run.json stands for the profile that was seeded.
THEOREM SnapshotsReseed == Spec => SnapshotReseeds
<1> DEFINE Reseeds ==
        \A n \in HomeNames : SnapToml /\ snap.name = n /\ still =>
          LET p == Load(n)'
              preset == IF p.prefs.first THEN NoPreset
                        ELSE [scale |-> p.prefs.scale, contrast |-> p.prefs.contrast]
              again == SeedTree(Empty, p, preset, TRUE)
          IN  /\ again = [dir EXCEPT !.lock = FALSE, !.power = again.power]
              /\ traceable => again.power = dir.power
<1>1. ASSUME SnapshotInv, [Next]_vars
      PROVE  [Reseeds]_vars
  <2> SUFFICES ASSUME NEW n \in HomeNames, SnapToml, snap.name = n, still
               PROVE  LET p == Load(n)'
                          preset == IF p.prefs.first THEN NoPreset
                                    ELSE [scale |-> p.prefs.scale, contrast |-> p.prefs.contrast]
                          again == SeedTree(Empty, p, preset, TRUE)
                      IN  /\ again = [dir EXCEPT !.lock = FALSE, !.power = again.power]
                          /\ traceable => again.power = dir.power
    OBVIOUS
  <2>1. snap # None /\ snap.at = "toml"
    BY DEF SnapToml
  <2>2. /\ snap.toml \in Tomls /\ dir \in RunDirs
        /\ home'[n] \in Directories /\ home'[n].toml = snap.toml
        /\ home'[n].data = home[n].data /\ home'[n].history = home[n].history
    BY <1>1, <2>1, Copying, Copied
       DEF SnapshotInv, Snaps, TypeInv, TypeOK, ProfilesTypeOK
  <2>3. /\ snap.toml.prefs = dir.prefs /\ dir.prefs \in Prefs
        /\ home[n].data = dir.data /\ home[n].history = dir.history
        /\ traceable => snap.toml.power = dir.power
    BY <1>1, <2>1 DEF SnapshotInv, StillInv
  <2> DEFINE p == Load(n)'
  <2>4. p = [name |-> snap.toml.name, authority |-> snap.toml.authority,
             prefs |-> snap.toml.prefs, power |-> snap.toml.power,
             data |-> home'[n].data, history |-> home'[n].history]
    BY <2>2, ProfilesAssumption DEF Load
  <2>5. /\ p.prefs = dir.prefs /\ p.power = snap.toml.power
        /\ p.data = dir.data /\ p.history = dir.history
    BY <2>2, <2>3, <2>4
  <2> HIDE DEF p
  <2>6. p.power \in Powers
    BY <2>2, <2>5 DEF Tomls
  <2>7. LET again == SeedTree(Empty, p, PresetAgain(p), TRUE)
        IN  again = [dir EXCEPT !.lock = FALSE, !.power = again.power] /\ again.power = p.power
    BY <2>2, <2>3, <2>5, <2>6, SeedsTheDirectory
  <2> QED
    BY <2>3, <2>5, <2>7 DEF p, PresetAgain
<1>2. Spec => [][Reseeds]_vars
  <2> HIDE DEF Reseeds
  <2> QED
    BY <1>1, SnapshotInvariant, PTL DEF Spec
<1> QED
  BY <1>2 DEF SnapshotReseeds

=============================================================================
