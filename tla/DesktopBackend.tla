---------------------------- MODULE DesktopBackend ----------------------------
(***************************************************************************)
(* One instance of the simulated desktop: up(), apply() and down() of       *)
(* pf_sim/backend/desktop.py.                                              *)
(*                                                                         *)
(* Four managed processes run for an instance.  pids.json records them (PID *)
(* and start time), run.json the profile they run for.  A caller works on a *)
(* copy of the records that it reads or starts empty, and writes the whole  *)
(* file after each spawn.  No lock is held between reading and writing.     *)
(*                                                                         *)
(* A process is <<component, slot>>; a slot is used again once its process  *)
(* is dead and no record names it, which stands for a fresh PID.  Two       *)
(* failures are left out: a caller that is killed, and a write of pids.json *)
(* that fails after the program has been started.                           *)
(***************************************************************************)
EXTENDS Naturals, FiniteSets, SequencesExt

CONSTANTS
    Clients,        \* callers of up, apply and down
    Slots,          \* a bound: processes of one component that exist or are recorded
    Mortal,         \* components that may die on their own
    Profiles,       \* profiles in use, of [authority : BOOLEAN, supervisor : Supervisors]
    None

Order == <<"weston", "authorityd", "supervisor", "shell">>
Components == {"weston", "authorityd", "supervisor", "shell"}
Supervisors == {"pf-sim", "shell"}
Processes == Components \X Slots

ASSUME ConstantsAssumption ==
    /\ Mortal \subseteq Components
    /\ Profiles \subseteq [authority : BOOLEAN, supervisor : Supervisors]
    /\ None \notin Slots
    /\ None \notin Profiles
    /\ None \notin Components

ASSUME SlotsAssumption == Slots \subseteq Nat

VARIABLES
    st,         \* dead, starting or ready, for each process
    pids,       \* pids.json: the slot recorded for each component
    meta,       \* run.json: the profile
    socket,     \* whose socket is at the path of weston and of authorityd
    pad,        \* the gamepad of the instance (GamepadHolder) exists
    pc,         \* where each caller is
    call,       \* up, replace, apply, down or reap
    want,       \* the profile asked for
    recs,       \* the caller's copy of the records
    plan,       \* apply(): the components to restart
    due,        \* the component a caller spawns or waits for
    cur,        \* the slot it got
    result      \* what the last call of each caller returned

files == <<pids, meta, socket, pad>>
mine == <<call, want, recs, plan, due, cur>>
vars == <<st, files, pc, mine, result>>

Calls == {"up", "replace", "apply", "down", "reap"}
Served == {"weston", "authorityd"}
Pcs == {"idle", "status", "check", "pad", "seed", "describe", "spawn", "record", "wait",
        "final", "read_meta", "plan_term", "plan_kill", "drop", "reseed", "redescribe",
        "read", "term", "kill", "clear", "unpad", "orphans"}
NoRecords == [k \in Components |-> None]

Running(p) == st[p] # "dead"

\* alive(record): the start time tells a recorded process from a later one.
Alive(records, k) == records[k] # None /\ Running(<<k, records[k]>>)

Expected(profile) == IF profile # None /\ ~profile.authority
                     THEN {"weston", "shell"} ELSE Components

\* status(): "down" when none of the components that run.json calls for is alive.
IsDown == \A k \in Expected(meta) : ~Alive(pids, k)

ShellOnly(old, new) == {"shell"}

RestartWithoutSupervisor(old, new) ==
    IF old = new THEN {"shell"} ELSE {"shell", "authorityd"}

RestartPlan(old, new) ==
    IF old = new THEN {"shell"} ELSE {"shell", "supervisor", "authorityd"}

-----------------------------------------------------------------------------
(* The managed programs (external): how they start and die.                 *)

Ready(k) == socket[k] # None /\ st[<<k, socket[k]>>] = "ready"

\* weston takes its socket unless another weston has it, authorityd in any case;
\* the supervisor and the shell connect to what they need at once, or die.
CanStart(k) == CASE k = "weston"     -> ~Ready("weston")
                 [] k = "authorityd" -> TRUE
                 [] k = "supervisor" -> Ready("authorityd")
                 [] k = "shell"      -> Ready("weston")

Starts(p) ==
    /\ st[p] = "starting"
    /\ IF CanStart(p[1])
       THEN /\ st' = [st EXCEPT ![p] = "ready"]
            /\ socket' = IF p[1] \in Served THEN [socket EXCEPT ![p[1]] = p[2]] ELSE socket
       ELSE /\ st' = [st EXCEPT ![p] = "dead"]
            /\ UNCHANGED socket
    /\ UNCHANGED <<pids, meta, pad, pc, mine, result>>

\* A crash leaves the socket of the process behind.
Dies(p) ==
    /\ p[1] \in Mortal
    /\ Running(p)
    /\ st' = [st EXCEPT ![p] = "dead"]
    /\ UNCHANGED <<files, pc, mine, result>>

\* The holder of the gamepad may end at any time: a client that hangs up before its
\* answer is enough.  Nobody looks at it again after create().
PadEnds ==
    /\ pad
    /\ pad' = FALSE
    /\ UNCHANGED <<st, pids, meta, socket, pc, mine, result>>

Killed(victims) == [p \in Processes |-> IF p \in victims THEN "dead" ELSE st[p]]

Recorded(c, ks) == {<<k, recs[c][k]>> : k \in {j \in ks : Alive(recs[c], j)}}

\* SIGTERM: some obey in time, and of those some remove their socket.
Terminated(victims) ==
    \E obey \in SUBSET victims :
        /\ st' = Killed(obey)
        /\ \E tidy \in SUBSET obey :
              socket' = [k \in Served |-> IF <<k, socket[k]>> \in tidy THEN None ELSE socket[k]]

-----------------------------------------------------------------------------
(* Calls.                                                                  *)

GoTo(c, where) == pc' = [pc EXCEPT ![c] = where]

Return(c, how) ==
    /\ GoTo(c, "idle")
    /\ result' = [result EXCEPT ![c] = <<call[c], how>>]
    /\ recs' = [recs EXCEPT ![c] = NoRecords]
    /\ plan' = [plan EXCEPT ![c] = {}]
    /\ due' = [due EXCEPT ![c] = None]
    /\ cur' = [cur EXCEPT ![c] = None]
    /\ UNCHANGED <<call, want>>

Call(c) ==
    /\ pc[c] = "idle"
    /\ call' \in {[call EXCEPT ![c] = k] : k \in Calls}
    /\ want' \in {[want EXCEPT ![c] = p] : p \in Profiles}
    /\ result' = [result EXCEPT ![c] = <<call'[c], "none">>]
    /\ GoTo(c, CASE call'[c] \in {"up", "replace"} -> "status"
                 [] call'[c] = "apply"             -> "read_meta"
                 [] OTHER                          -> "read")
    /\ UNCHANGED <<st, files, recs, plan, due, cur>>

\* The except block of up(); apply() has none.
Raise(c) ==
    IF call[c] = "apply"
    THEN Return(c, "error")
    ELSE GoTo(c, "read") /\ UNCHANGED <<mine, result>>

GiveUp(c) == Return(c, "error")

-----------------------------------------------------------------------------
(* down(), which up() also calls: to replace an instance and to clean up.   *)

DownRead(c) ==
    /\ pc[c] = "read"
    /\ recs' = [recs EXCEPT ![c] = pids]
    /\ GoTo(c, "term")
    /\ UNCHANGED <<st, files, call, want, plan, due, cur, result>>

DownTerm(c) ==
    /\ pc[c] = "term"
    /\ Terminated(Recorded(c, Components))
    /\ GoTo(c, "kill")
    /\ UNCHANGED <<pids, meta, pad, mine, result>>

NoKill(c) ==
    /\ pc[c] = "kill"
    /\ GoTo(c, "clear")
    /\ UNCHANGED <<st, files, mine, result>>

DownKill(c) ==
    /\ pc[c] = "kill"
    /\ st' = Killed(Recorded(c, Components))
    /\ GoTo(c, "clear")
    /\ UNCHANGED <<files, mine, result>>

ClearToNothing(c) ==
    /\ pc[c] = "clear"
    /\ socket' = [k \in Served |-> None]
    /\ pids' = [k \in {} |-> None]
    /\ GoTo(c, "unpad")
    /\ UNCHANGED <<st, meta, pad, mine, result>>

\* run.json names the socket of weston.
DownClear(c) ==
    /\ pc[c] = "clear"
    /\ socket' = [k \in Served |->
                    IF k = "weston" /\ meta = None THEN socket[k] ELSE None]
    /\ pids' = NoRecords
    /\ GoTo(c, "unpad")
    /\ UNCHANGED <<st, meta, pad, mine, result>>

\* gamepad.destroy(), which raises when the holder would not stop.  What comes
\* next: the orphans, the rest of up(replace), or the error up() cleaned up after.
DownPad(c) ==
    /\ pc[c] = "unpad"
    /\ \/ /\ pad' = FALSE
          /\ CASE call[c] = "down" -> Return(c, "ok")
               [] call[c] = "reap" -> GoTo(c, "orphans") /\ UNCHANGED <<mine, result>>
               [] call[c] = "replace" /\ due[c] = None ->
                    GoTo(c, "check") /\ UNCHANGED <<mine, result>>
               [] OTHER -> Return(c, "cleaned")
       \/ Return(c, "error") /\ UNCHANGED pad
    /\ UNCHANGED <<st, pids, meta, socket>>

\* orphan_shell_pids() finds every shell whose state directory is under PF_SIM_HOME,
\* of this instance or another, and leaves only the recorded shell of this one alone;
\* the shells of other instances are not modelled.
DownOrphans(c) ==
    /\ pc[c] = "orphans"
    /\ st' = Killed({p \in Processes : p[1] = "shell" /\ p[2] # recs[c]["shell"]})
    /\ Return(c, "ok")
    /\ UNCHANGED files

-----------------------------------------------------------------------------
(* up().                                                                   *)

UpStatus(c) ==
    /\ pc[c] = "status"
    /\ IF IsDown
       THEN GoTo(c, "check") /\ UNCHANGED <<mine, result>>
       ELSE IF call[c] = "up" THEN GiveUp(c)
       ELSE GoTo(c, "read") /\ UNCHANGED <<mine, result>>
    /\ UNCHANGED <<st, files>>

\* The environment and the binaries, before the try block.
UpCheck(c) ==
    /\ pc[c] = "check"
    /\ \/ GoTo(c, "pad") /\ due' = [due EXCEPT ![c] = "weston"]
          /\ UNCHANGED <<call, want, recs, plan, cur, result>>
       \/ GiveUp(c)
    /\ UNCHANGED <<st, files>>

UpPad(c) ==
    /\ pc[c] = "pad"
    /\ \/ pad' = TRUE /\ GoTo(c, "seed") /\ UNCHANGED <<mine, result>>
       \/ Raise(c) /\ UNCHANGED pad
    /\ UNCHANGED <<st, pids, meta, socket>>

\* seed_run_dir() removes the authority's socket, whoever left it.
UpSeed(c) ==
    /\ pc[c] = "seed"
    /\ socket' = [socket EXCEPT !["authorityd"] = None]
    /\ \/ GoTo(c, "describe") /\ UNCHANGED <<mine, result>>
       \/ Raise(c)
    /\ UNCHANGED <<st, pids, meta, pad>>

UpDescribe(c) ==
    /\ pc[c] = "describe"
    /\ meta' = want[c]
    /\ recs' = [recs EXCEPT ![c] = NoRecords]
    /\ GoTo(c, "spawn")
    /\ UNCHANGED <<st, pids, socket, pad, call, want, plan, due, cur, result>>

-----------------------------------------------------------------------------
(* _spawn(), _wait_socket() and what up() and apply() do with them.         *)

\* No process runs there, and no record names it.
Free(k, n) ==
    /\ ~Running(<<k, n>>)
    /\ pids[k] # n
    /\ \A d \in Clients : recs[d][k] # n /\ (due[d] = k => cur[d] # n)

\* Which of the free slots is a matter of naming.
Spawn(c) ==
    /\ pc[c] = "spawn"
    /\ \E n \in Slots :
          /\ Free(due[c], n)
          /\ \A m \in Slots : Free(due[c], m) => n <= m
          /\ st' = [st EXCEPT ![<<due[c], n>>] = "starting"]
          /\ cur' = [cur EXCEPT ![c] = n]
    /\ GoTo(c, "record")
    /\ UNCHANGED <<files, call, want, recs, plan, due, result>>

\* The log cannot be opened, or the program cannot be started.
SpawnRaises(c) ==
    /\ pc[c] = "spawn"
    /\ Raise(c)
    /\ UNCHANGED <<st, files>>

RecordNothing(c) ==
    /\ pc[c] = "record"
    /\ GoTo(c, "wait")
    /\ UNCHANGED <<st, files, mine, result>>

Record(c) ==
    /\ pc[c] = "record"
    /\ recs' = [recs EXCEPT ![c][due[c]] = cur[c]]
    /\ pids' = recs'[c]
    /\ GoTo(c, "wait")
    /\ UNCHANGED <<st, meta, socket, pad, call, want, plan, due, cur, result>>

\* What is spawned after the component that has come up, by up() and by apply().
NextDue(c) ==
    CASE due[c] = "weston"     -> IF want[c].authority THEN "authorityd" ELSE "shell"
      [] due[c] = "authorityd" -> "supervisor"
      [] due[c] = "supervisor" -> "shell"

\* A socket counts whoever left it there; the supervisor has to live half a second;
\* the shell has to answer on its automation socket.
CameUp(c) ==
    CASE due[c] \in Served       -> socket[due[c]] # None
      [] due[c] = "supervisor"   -> Running(<<"supervisor", cur[c]>>)
      [] due[c] = "shell"        -> st[<<"shell", cur[c]>>] = "ready"

Wait(c) ==
    /\ pc[c] = "wait"
    /\ CameUp(c)
    /\ IF due[c] = "shell"
       THEN GoTo(c, "final") /\ UNCHANGED <<due, cur>>
       ELSE /\ GoTo(c, "spawn")
            /\ due' = [due EXCEPT ![c] = NextDue(c)]
            /\ cur' = [cur EXCEPT ![c] = None]
    /\ UNCHANGED <<st, files, call, want, recs, plan, result>>

WaitFailsOnDeath(c) ==
    /\ pc[c] = "wait"
    /\ ~CameUp(c)
    /\ ~Running(<<due[c], cur[c]>>)
    /\ Raise(c)
    /\ UNCHANGED <<st, files>>

\* The process is dead, or the time is up and it has not answered.
WaitFails(c) ==
    /\ pc[c] = "wait"
    /\ ~CameUp(c)
    /\ Raise(c)
    /\ UNCHANGED <<st, files>>

SkipFinal(c) ==
    /\ pc[c] = "final"
    /\ Return(c, "ok")
    /\ UNCHANGED <<st, files>>

\* up() looks at every process it spawned, apply() at the shell.
Final(c) ==
    /\ pc[c] = "final"
    /\ IF \A k \in Components :
             recs[c][k] # None /\ (call[c] # "apply" \/ k = "shell") => Alive(recs[c], k)
       THEN Return(c, "ok")
       ELSE Raise(c)
    /\ UNCHANGED <<st, files>>

-----------------------------------------------------------------------------
(* apply().                                                                *)

ApplyRead(c) ==
    /\ pc[c] = "read_meta"
    /\ IF meta = None \/ IsDown
       THEN GiveUp(c)
       ELSE /\ recs' = [recs EXCEPT ![c] = pids]
            /\ plan' = [plan EXCEPT ![c] = RestartPlan(meta, want[c])]
            /\ GoTo(c, "plan_term")
            /\ UNCHANGED <<call, want, due, cur, result>>
    /\ UNCHANGED <<st, files>>

ApplyTerm(c) ==
    /\ pc[c] = "plan_term"
    /\ Terminated(Recorded(c, plan[c]))
    /\ GoTo(c, "plan_kill")
    /\ UNCHANGED <<pids, meta, pad, mine, result>>

ApplyKill(c) ==
    /\ pc[c] = "plan_kill"
    /\ st' = Killed(Recorded(c, plan[c]))
    /\ GoTo(c, "drop")
    /\ UNCHANGED <<files, mine, result>>

ApplyDrop(c) ==
    /\ pc[c] = "drop"
    /\ recs' = [recs EXCEPT ![c] = [k \in Components |->
                   IF k \in plan[c] THEN None ELSE recs[c][k]]]
    /\ pids' = recs'[c]
    /\ GoTo(c, "reseed")
    /\ UNCHANGED <<st, meta, socket, pad, call, want, plan, due, cur, result>>

\* seed_profile() may raise, after the old state has been removed.
ApplySeed(c) ==
    /\ pc[c] = "reseed"
    /\ socket' = IF meta # None /\ meta.authority # want[c].authority
                 THEN [socket EXCEPT !["authorityd"] = None] ELSE socket
    /\ \/ GoTo(c, "redescribe") /\ UNCHANGED <<mine, result>>
       \/ GiveUp(c)
    /\ UNCHANGED <<st, pids, meta, pad>>

ApplyDescribe(c) ==
    /\ pc[c] = "redescribe"
    /\ meta' = want[c]
    /\ due' = [due EXCEPT ![c] = IF want[c].authority /\ "authorityd" \in plan[c]
                                 THEN "authorityd" ELSE "shell"]
    /\ GoTo(c, "spawn")
    /\ UNCHANGED <<st, pids, socket, pad, call, want, recs, plan, cur, result>>

-----------------------------------------------------------------------------
Init ==
    /\ st = [p \in Processes |-> "dead"]
    /\ pids = NoRecords
    /\ meta = None
    /\ socket = [k \in Served |-> None]
    /\ pad = FALSE
    /\ pc = [c \in Clients |-> "idle"]
    /\ call = [c \in Clients |-> "down"]
    /\ want \in [Clients -> Profiles]
    /\ recs = [c \in Clients |-> NoRecords]
    /\ plan = [c \in Clients |-> {}]
    /\ due = [c \in Clients |-> None]
    /\ cur = [c \in Clients |-> None]
    /\ result = [c \in Clients |-> <<"down", "none">>]

ClientStep(c) ==
    \/ UpStatus(c) \/ UpCheck(c) \/ UpPad(c) \/ UpSeed(c) \/ UpDescribe(c)
    \/ Spawn(c) \/ SpawnRaises(c) \/ Record(c) \/ Wait(c) \/ WaitFails(c) \/ Final(c)
    \/ ApplyRead(c) \/ ApplyTerm(c) \/ ApplyKill(c) \/ ApplyDrop(c)
    \/ ApplySeed(c) \/ ApplyDescribe(c)
    \/ DownRead(c) \/ DownTerm(c) \/ DownKill(c) \/ DownClear(c) \/ DownPad(c)
    \/ DownOrphans(c)

Next ==
    \/ \E c \in Clients : Call(c) \/ ClientStep(c)
    \/ \E p \in Processes : Starts(p) \/ Dies(p)
    \/ PadEnds

Spec == Init /\ [][Next]_vars

\* Every wait of a call has a deadline.  Nothing is assumed of the programs.
FairSpec == Spec /\ \A c \in Clients : WF_vars(ClientStep(c))

-----------------------------------------------------------------------------
(* Properties.                                                             *)

\* The values of the variables; pids.json always reads as records.
TypeOK ==
    /\ st \in [Processes -> {"dead", "starting", "ready"}]
    /\ pids \in [Components -> Slots \cup {None}]
    /\ meta \in Profiles \cup {None}
    /\ socket \in [Served -> Slots \cup {None}]
    /\ pad \in BOOLEAN
    /\ pc \in [Clients -> Pcs]
    /\ call \in [Clients -> Calls]
    /\ want \in [Clients -> Profiles]
    /\ recs \in [Clients -> [Components -> Slots \cup {None}]]
    /\ plan \in [Clients -> SUBSET Components]
    /\ due \in [Clients -> Components \cup {None}]
    /\ cur \in [Clients -> Slots \cup {None}]
    /\ result \in [Clients -> Calls \X {"none", "ok", "cleaned", "error"}]

\* What runs is recorded, but for the process a caller has just started: down()
\* and status() know processes by pids.json alone (desktop.py:311-323), which up(),
\* down() and apply() rewrite, each from its own copy.
NoStray ==
    \A p \in Processes : Running(p) =>
        \/ pids[p[1]] = p[2]
        \/ \E c \in Clients : pc[c] = "record" /\ due[c] = p[1] /\ cur[c] = p[2]

\* status() and up() leave the authority and the supervisor out when run.json says
\* the profile has none (desktop.py:99-101): then neither may be running, through
\* any change of profile and any failure in the middle of one.
RunningMatchesMeta ==
    \A p \in Processes : Running(p) /\ p[1] \in {"authorityd", "supervisor"}
                        => meta # None /\ meta.authority

\* tests/test_desktop.py:160-162, a second up is refused while the first is up: an
\* instance never has two processes of a kind, be they starting or at work (for one
\* caller at a time).
OneOfEach ==
    \A k \in Components : \A m, n \in Slots :
        Running(<<k, m>>) /\ Running(<<k, n>>) => m = n

Returns(c, calls, how) == pc[c] # "idle" /\ pc'[c] = "idle"
                          /\ call[c] \in calls /\ result'[c][2] = how

\* desktop.py:241-243 and 311-323: nothing runs any more when down() returns, nor
\* when an up() that failed half way has cleaned up, whoever ignores SIGTERM.
TearDownIsComplete ==
    [][\A c \in Clients :
         Returns(c, {"down", "reap"}, "ok") \/ Returns(c, {"up", "replace"}, "cleaned")
         => \A p \in Processes : ~Running(p)']_vars

\* desktop.py:233-240: the programs of the instance up() returns are whole: every
\* component the profile calls for runs and is recorded, and its socket is in place.
\* The gamepad may be gone: up() does not look at its holder after line 173.
UpReturnsWhole ==
    [][\A c \in Clients :
         Returns(c, {"up", "replace"}, "ok")
         => /\ \A k \in Expected(want[c]) : Alive(pids, k)'
            /\ \A k \in Served \cap Expected(want[c]) : socket'[k] # None
            /\ meta' = want[c]]_vars

\* docs/gui-dev-loop.md:38, "Applying a profile reseeds and restarts affected
\* components": a component of the profile that is not in pids.json has not been
\* started since apply() changed to the profile; an apply() that reports success
\* leaves none such.
AffectedAreRestarted ==
    [][\A c \in Clients : Returns(c, {"apply"}, "ok")
         => \A k \in Expected(want[c]) : pids'[k] # None]_vars

Instance == INSTANCE InstanceLifecycle WITH
    doing <- [c \in Clients |-> IF pc[c] = "idle" THEN "none" ELSE call[c]],
    asked <- want,
    told <- [c \in Clients |-> result[c][2]],
    running <- {p \in Processes : Running(p)},
    profile <- meta

\* desktop.py:138-343: components start in the order of their needs and only where no
\* process of their kind is left, a profile changes under weston alone, and what a call
\* says of the programs on return is so, whatever died or failed on the way (for one
\* caller).
ImplementsInstance == Instance!Spec

\* Every wait is bounded: a call comes to an end, whatever the programs do.
CallsReturn == \A c \in Clients : pc[c] # "idle" ~> pc[c] = "idle"

=============================================================================
