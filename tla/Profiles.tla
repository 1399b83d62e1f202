------------------------------ MODULE Profiles -------------------------------
(***************************************************************************)
(* pf_sim/profiles.py: profiles by name, the run directory that up() and   *)
(* apply() seed from one, and snapshot(), which makes a home profile of    *)
(* the run directory of an instance.  snapshot() takes no lock and is      *)
(* another program than the one that seeds, so that its steps come between *)
(* those of an apply(), and either may be killed after any of them.        *)
(* run.json names the profile by what its profile.toml says, not by its    *)
(* directory, and that name is looked up again by snapshot().              *)
(*                                                                         *)
(* Of a run directory the model keeps what a profile holds: prefs.json,    *)
(* the other files of the shell (as one value), a lock among them, the     *)
(* last entry of authority.json and the batteries.                         *)
(***************************************************************************)
EXTENDS Naturals

CONSTANTS
    Committed,  \* the profiles of the repository, as records, by name
    HomeNames,  \* the names of profiles under PF_SIM_HOME
    Edits,      \* directories that others may put there
    None

\* What files hold, as far as it is told apart.
Scales == {"100", "150", "200"}
Contrasts == {"default", "hc"}
Presets == [scale : Scales, contrast : Contrasts]
Prefs == [first : BOOLEAN, scale : Scales, contrast : Contrasts]
Histories == {None, "open", "Returned", "Crash"}
Powers == {Committed[n].power : n \in DOMAIN Committed}
Datas == {Committed[n].data : n \in DOMAIN Committed} \cup {None, "edited"}

Names == DOMAIN Committed \cup HomeNames

ProfileSet == [name : Names, authority : BOOLEAN, prefs : Prefs, power : Powers,
               data : Datas, history : Histories]
Tomls == [name : Names, authority : BOOLEAN, prefs : Prefs, power : Powers]
Directories == [toml : Tomls \cup {None}, data : Datas, lock : BOOLEAN, history : Histories]
RunDirs == [prefs : Prefs \cup {None}, data : Datas, lock : BOOLEAN, history : Histories,
            power : Powers \cup {None}]
Metas == [profile : Names, authority : BOOLEAN, preset : Presets]
Seedings == [at : {"wipe", "seed", "record", "spawn"}, how : {"up", "apply"}, name : Names,
             preset : Presets, profile : ProfileSet]
Snaps == [at : {"shell", "authority", "toml"}, name : HomeNames, toml : Tomls]

\* None is neither a file's content nor a record.
ASSUME ProfilesAssumption ==
    /\ \A n \in DOMAIN Committed : Committed[n] \in ProfileSet
    /\ None \notin Scales \cup Contrasts \cup {"open", "Returned", "Crash"}
    /\ None \notin Prefs /\ None \notin Tomls /\ None \notin ProfileSet
    /\ None \notin Directories /\ None \notin RunDirs /\ None \notin Metas
    /\ None \notin Seedings /\ None \notin Snaps

\* Nobody puts a lock into a profile but a snapshot that has not come to its end.
ASSUME EditsAssumption == \A d \in Edits : d \in Directories /\ ~d.lock

VARIABLES
    dir,        \* the run directory
    meta,       \* run.json
    whole,      \* run.json is of the seeding that dir comes from
    traceable,  \* and its name still stands for the profile that was seeded
    seeding,    \* an up() or apply() that has stopped the shell
    home,       \* the directories under PF_SIM_HOME/profiles
    snap,       \* a snapshot() under way
    still       \* nothing has touched the run directory since it began

profiles == <<dir, meta, whole, traceable, seeding, home, snap>>

\* Scale and contrast given with a profile, None for those of the profile.
NoPreset == [scale |-> None, contrast |-> None]

Given(preset, asked, own) == IF preset[asked] = None THEN own ELSE preset[asked]

EffectivePreset(p, preset) ==
    [scale |-> Given(preset, "scale", p.prefs.scale),
     contrast |-> Given(preset, "contrast", p.prefs.contrast)]

EffectivePrefs(p, preset) ==
    IF ~p.prefs.first /\ preset = NoPreset THEN None
    ELSE [first |-> p.prefs.first,
          scale |-> EffectivePreset(p, preset).scale,
          contrast |-> EffectivePreset(p, preset).contrast]

\* Mutant: what was asked for at the start is what is saved.
SnapshotPrefsAsked(prefs, preset) ==
    [first |-> FALSE, scale |-> preset.scale, contrast |-> preset.contrast]

\* What snapshot() makes of prefs.json, and of run.json where there is none.
SnapshotPrefs(prefs, preset) ==
    IF prefs # None THEN prefs
    ELSE [first |-> FALSE, scale |-> preset.scale, contrast |-> preset.contrast]

\* A directory under home comes first, whole or not; one without profile.toml
\* cannot be loaded.
Load(name) ==
    CASE name \in HomeNames /\ home[name] # None ->
            IF home[name].toml = None THEN None
            ELSE [name |-> home[name].toml.name, authority |-> home[name].toml.authority,
                  prefs |-> home[name].toml.prefs, power |-> home[name].toml.power,
                  data |-> home[name].data, history |-> home[name].history]
      [] name \in DOMAIN Committed /\ ~(name \in HomeNames /\ home[name] # None) -> Committed[name]
      [] OTHER -> None

Wiped(history, power) ==
    [prefs |-> None, data |-> None, lock |-> FALSE, history |-> history, power |-> power]

Empty == Wiped(None, None)

\* Files of the profile are laid over those that are there.
Over(new, old) == IF new = None THEN old ELSE new

SeedTree(d, p, preset, authority) ==
    [prefs |-> EffectivePrefs(p, preset),
     data |-> Over(p.data, d.data),
     lock |-> d.lock,
     history |-> IF authority THEN Over(p.history, d.history) ELSE d.history,
     power |-> p.power]

-----------------------------------------------------------------------------
(* up() and apply() from the end of the shell to the start of the next one. *)

StartSeeding(how, name, preset) ==
    seeding' = [at |-> "wipe", how |-> how, name |-> name, preset |-> preset,
                profile |-> Load(name)]

\* apply() leaves the state of the authority alone unless the profile adds or
\* removes the authority.
FreshAuthority == seeding.how = "up" \/ meta.authority # seeding.profile.authority

Wipe ==
    /\ seeding # None
    /\ seeding.at = "wipe"
    /\ dir' = Wiped(IF FreshAuthority THEN None ELSE dir.history, dir.power)
    /\ whole' = FALSE
    /\ seeding' = [seeding EXCEPT !.at = "seed"]
    /\ UNCHANGED <<meta, traceable, home, snap>>

SeedStep ==
    /\ seeding # None
    /\ seeding.at = "seed"
    /\ dir' = SeedTree(dir, seeding.profile, seeding.preset, FreshAuthority)
    /\ seeding' = [seeding EXCEPT !.at = "record"]
    /\ UNCHANGED <<meta, whole, traceable, home, snap>>

Record ==
    /\ seeding # None
    /\ seeding.at = "record"
    /\ meta' = [profile |-> seeding.profile.name, authority |-> seeding.profile.authority,
                preset |-> EffectivePreset(seeding.profile, seeding.preset)]
    /\ whole' = TRUE
    /\ traceable' = (seeding.profile.name = seeding.name)
    /\ seeding' = [seeding EXCEPT !.at = "spawn"]
    /\ UNCHANGED <<dir, home, snap>>

-----------------------------------------------------------------------------
(* snapshot().                                                             *)

\* The batteries of what the name in run.json stands for now, those of the run
\* directory when nothing is found under it.
SnapshotPower(name) == IF Load(name) # None THEN Load(name).power ELSE dir.power

\* The reads come first, and refuse what they cannot use, then the earlier profile of
\* that name goes.
SnapRead(name) ==
    /\ snap = None
    /\ meta # None
    /\ snap' = [at |-> "shell", name |-> name,
                toml |-> [name |-> name, authority |-> meta.authority,
                          prefs |-> SnapshotPrefs(dir.prefs, meta.preset),
                          power |-> SnapshotPower(meta.profile)]]
    /\ home' = [home EXCEPT ![name] =
                  [toml |-> None, data |-> None, lock |-> FALSE, history |-> None]]
    /\ UNCHANGED <<dir, meta, whole, traceable, seeding>>

Look(at) == snap' = [snap EXCEPT !.at = at]

SnapShell ==
    /\ snap # None
    /\ snap.at = "shell"
    /\ home' = [home EXCEPT ![snap.name].data = dir.data, ![snap.name].lock = dir.lock]
    /\ Look("authority")
    /\ UNCHANGED <<dir, meta, whole, traceable, seeding>>

\* Mutant: the copies are not sanitized.
SnapAuthorityAsItIs ==
    /\ snap # None
    /\ snap.at = "authority"
    /\ home' = [home EXCEPT ![snap.name].history = dir.history]
    /\ Look("toml")
    /\ UNCHANGED <<dir, meta, whole, traceable, seeding>>

\* authority.json is copied, and the copies sanitized.
SnapAuthority ==
    /\ snap # None
    /\ snap.at = "authority"
    /\ home' = [home EXCEPT ![snap.name].history = dir.history, ![snap.name].lock = FALSE]
    /\ Look("toml")
    /\ UNCHANGED <<dir, meta, whole, traceable, seeding>>

SnapToml ==
    /\ snap # None
    /\ snap.at = "toml"
    /\ home' = [home EXCEPT ![snap.name].toml = snap.toml]
    /\ snap' = None
    /\ UNCHANGED <<dir, meta, whole, traceable, seeding>>

\* It raises over a file that goes away as it is copied, or is killed.
SnapStops ==
    /\ snap # None
    /\ snap' = None
    /\ UNCHANGED <<dir, meta, whole, traceable, seeding, home>>

SnapshotStep == SnapShell \/ SnapAuthority \/ SnapToml \/ SnapStops

\* still records, for the properties, that a snapshot is of one state of the directory.
Watching ==
    still' = /\ snap' # None
             /\ snap = None => whole
             /\ snap # None => still /\ <<dir, whole>>' = <<dir, whole>>

\* A snapshot of another instance, or the user, puts a directory in the place of a
\* profile, or takes it away.  Two snapshots of one name at a time are left out.
Edit(name) ==
    /\ snap # None => snap.name # name
    /\ home' \in {[home EXCEPT ![name] = d] : d \in Edits \cup {None}}
    /\ traceable' = (traceable /\ (meta # None => meta.profile # name))
    /\ UNCHANGED <<dir, meta, whole, seeding, snap>>

ProfilesTypeOK ==
    /\ dir \in RunDirs
    /\ meta \in Metas \cup {None}
    /\ whole \in BOOLEAN
    /\ traceable \in BOOLEAN
    /\ seeding \in Seedings \cup {None}
    /\ home \in [HomeNames -> Directories \cup {None}]
    /\ snap \in Snaps \cup {None}
    /\ still \in BOOLEAN

=============================================================================
