------------------------- MODULE DesktopBackend_proofs -------------------------
(***************************************************************************)
(* up(), apply() and down() for any profiles and programs that may die at   *)
(* any time: types for any callers, the rest, and the implementation of     *)
(* InstanceLifecycle, for one caller at a time.                             *)
(***************************************************************************)
EXTENDS DesktopBackend, TLAPS

-----------------------------------------------------------------------------
(* Types, for any callers.                                                 *)

Spawning == {"pad", "seed", "describe", "spawn", "record", "wait", "final"}

\* A caller that is going to spawn knows what.
DueInv == \A c \in Clients : pc[c] \in Spawning => due[c] \in Components

TypeInv == TypeOK /\ DueInv

Elsewhere == {"idle", "status", "check", "read_meta", "plan_term",
              "plan_kill", "drop", "reseed", "redescribe", "read", "term", "kill", "clear",
              "unpad", "orphans"}

\* Where a step that spawns nothing leads, and where one that does.
LEMMA GoesElsewhere ==
    ASSUME TypeInv, NEW c \in Clients, NEW w \in Elsewhere, GoTo(c, w)
    PROVE  /\ pc' \in [Clients -> Pcs]
           /\ (\A d \in Clients \ {c} : due'[d] = due[d]) => DueInv'
<1>1. w \in Pcs /\ w \notin Spawning
  BY DEF Elsewhere, Pcs, Spawning
<1>2. \A d \in Clients : pc'[d] = IF d = c THEN w ELSE pc[d]
  BY DEF GoTo, TypeInv, TypeOK
<1> QED
  BY <1>1, <1>2 DEF GoTo, TypeInv, TypeOK, DueInv

LEMMA GoesSpawning ==
    ASSUME TypeInv, NEW c \in Clients, NEW w \in Spawning, GoTo(c, w)
    PROVE  /\ pc' \in [Clients -> Pcs]
           /\ due'[c] \in Components /\ (\A d \in Clients \ {c} : due'[d] = due[d]) => DueInv'
<1>1. w \in Pcs
  BY DEF Pcs, Spawning
<1>2. \A d \in Clients : pc'[d] = IF d = c THEN w ELSE pc[d]
  BY DEF GoTo, TypeInv, TypeOK
<1> QED
  BY <1>1, <1>2 DEF GoTo, TypeInv, TypeOK, DueInv

LEMMA ReturnTyped ==
    ASSUME TypeInv, NEW c \in Clients, NEW how \in {"ok", "cleaned", "error"}, Return(c, how)
    PROVE  /\ pc' \in [Clients -> Pcs] /\ DueInv'
           /\ recs' \in [Clients -> [Components -> Slots \cup {None}]]
           /\ plan' \in [Clients -> SUBSET Components]
           /\ due' \in [Clients -> Components \cup {None}]
           /\ cur' \in [Clients -> Slots \cup {None}]
           /\ result' \in [Clients -> Calls \X {"none", "ok", "cleaned", "error"}]
           /\ call' = call /\ want' = want
<1>1. NoRecords \in [Components -> Slots \cup {None}]
  BY DEF NoRecords
<1>2. "idle" \in Elsewhere
  BY DEF Elsewhere
<1>3. \A d \in Clients \ {c} : due'[d] = due[d]
  BY DEF Return, TypeInv, TypeOK
<1>4. pc' \in [Clients -> Pcs] /\ DueInv'
  BY <1>2, <1>3, GoesElsewhere DEF Return
<1> QED
  BY <1>1, <1>4 DEF Return, TypeInv, TypeOK

LEMMA RaiseTyped ==
    ASSUME TypeInv, NEW c \in Clients, Raise(c)
    PROVE  /\ pc' \in [Clients -> Pcs] /\ DueInv'
           /\ recs' \in [Clients -> [Components -> Slots \cup {None}]]
           /\ plan' \in [Clients -> SUBSET Components]
           /\ due' \in [Clients -> Components \cup {None}]
           /\ cur' \in [Clients -> Slots \cup {None}]
           /\ result' \in [Clients -> Calls \X {"none", "ok", "cleaned", "error"}]
           /\ call' = call /\ want' = want
<1>1. CASE call[c] = "apply"
  BY <1>1, ReturnTyped DEF Raise
<1>2. CASE call[c] # "apply"
  <2>1. GoTo(c, "read") /\ UNCHANGED <<mine, result>>
    BY <1>2 DEF Raise
  <2>2. pc' \in [Clients -> Pcs] /\ DueInv'
    BY <2>1, GoesElsewhere DEF Elsewhere, mine
  <2> QED
    BY <2>1, <2>2 DEF mine, TypeInv, TypeOK
<1> QED
  BY <1>1, <1>2

LEMMA KilledTyped ==
    ASSUME TypeOK, NEW victims
    PROVE  Killed(victims) \in [Processes -> {"dead", "starting", "ready"}]
BY DEF Killed, TypeOK

LEMMA TerminatedTyped ==
    ASSUME TypeOK, NEW victims, Terminated(victims)
    PROVE  /\ st' \in [Processes -> {"dead", "starting", "ready"}]
           /\ socket' \in [Served -> Slots \cup {None}]
BY KilledTyped DEF Terminated, TypeOK

LEMMA TypeStep ==
    ASSUME TypeInv, [Next]_vars
    PROVE  TypeInv'
<1> USE ConstantsAssumption DEF TypeInv
<1>1. CASE UNCHANGED vars
  BY <1>1 DEF TypeOK, DueInv, vars, files, mine
<1>2. ASSUME NEW p \in Processes, Starts(p) \/ Dies(p)
      PROVE  TypeInv'
  <2>1. p[1] \in Components /\ p[2] \in Slots
    BY DEF Processes
  <2>2. UNCHANGED <<pids, meta, pad, pc, mine, result>>
    BY <1>2 DEF Starts, Dies, files
  <2>3. st' \in [Processes -> {"dead", "starting", "ready"}]
    BY <1>2 DEF Starts, Dies, TypeOK
  <2>4. socket' \in [Served -> Slots \cup {None}]
    <3>1. CASE Dies(p)
      BY <3>1 DEF Dies, TypeOK, files
    <3>2. CASE Starts(p)
      <4>1. socket' = socket \/ socket' = [socket EXCEPT ![p[1]] = p[2]]
        BY <3>2 DEF Starts
      <4> QED
        BY <2>1, <4>1 DEF TypeOK
    <3> QED
      BY <1>2, <3>1, <3>2
  <2> QED
    BY <2>2, <2>3, <2>4 DEF TypeOK, DueInv, mine
<1>25. CASE PadEnds
  BY <1>25 DEF PadEnds, TypeOK, DueInv, mine
<1>3. ASSUME NEW c \in Clients, Call(c)
      PROVE  TypeInv'
  <2>1. PICK k \in Calls : call' = [call EXCEPT ![c] = k]
    BY <1>3 DEF Call
  <2>2. call' \in [Clients -> Calls] /\ call'[c] = k
    BY <2>1 DEF TypeOK
  <2>3. result' \in [Clients -> Calls \X {"none", "ok", "cleaned", "error"}]
    BY <1>3, <2>2 DEF Call, TypeOK
  <2>4. want' \in [Clients -> Profiles] /\ UNCHANGED <<st, files, recs, plan, due, cur>>
    BY <1>3 DEF Call, TypeOK
  <2>5. \E w \in {"status", "read_meta", "read"} : GoTo(c, w)
    BY <1>3 DEF Call
  <2>6. pc' \in [Clients -> Pcs] /\ DueInv'
    BY <2>4, <2>5, GoesElsewhere DEF Elsewhere
  <2> QED
    BY <2>2, <2>3, <2>4, <2>6 DEF TypeOK, files
<1>4. ASSUME NEW c \in Clients, UpStatus(c)
      PROVE  TypeInv'
  <2>1. CASE GiveUp(c)
    BY <1>4, <2>1, ReturnTyped DEF UpStatus, GiveUp, TypeOK, files
  <2>2. CASE ~GiveUp(c)
    <3>1. /\ \E w \in {"check", "read"} : GoTo(c, w)
          /\ UNCHANGED <<st, files, mine, result>>
      BY <1>4, <2>2 DEF UpStatus
    <3>2. pc' \in [Clients -> Pcs] /\ DueInv'
      BY <3>1, GoesElsewhere DEF Elsewhere, mine
    <3> QED
      BY <3>1, <3>2 DEF TypeOK, files, mine
  <2> QED
    BY <2>1, <2>2
<1>5. ASSUME NEW c \in Clients, UpCheck(c)
      PROVE  TypeInv'
  <2>1. CASE GiveUp(c)
    BY <1>5, <2>1, ReturnTyped DEF UpCheck, GiveUp, TypeOK, files
  <2>2. CASE ~GiveUp(c)
    <3>1. /\ GoTo(c, "pad") /\ due' = [due EXCEPT ![c] = "weston"]
          /\ UNCHANGED <<st, files, call, want, recs, plan, cur, result>>
      BY <1>5, <2>2 DEF UpCheck
    <3>2. due' \in [Clients -> Components \cup {None}]
      BY <3>1 DEF TypeOK, Components
    <3>3. pc' \in [Clients -> Pcs] /\ DueInv'
      BY <3>1, <3>2, GoesSpawning DEF Spawning, TypeOK, Components
    <3> QED
      BY <3>1, <3>2, <3>3 DEF TypeOK, files
  <2> QED
    BY <2>1, <2>2
<1>6. ASSUME NEW c \in Clients, UpPad(c) \/ UpSeed(c)
      PROVE  TypeInv'
  <2>1. /\ pad' \in BOOLEAN /\ socket' \in [Served -> Slots \cup {None}]
        /\ UNCHANGED <<st, pids, meta>>
    BY <1>6 DEF UpPad, UpSeed, TypeOK
  <2>2. CASE Raise(c)
    BY <2>1, <2>2, RaiseTyped DEF TypeOK
  <2>3. CASE ~Raise(c)
    <3>1. \E w \in {"seed", "describe"} : GoTo(c, w) /\ UNCHANGED <<mine, result>>
      BY <1>6, <2>3 DEF UpPad, UpSeed
    <3>2. due[c] \in Components
      BY <1>6 DEF UpPad, UpSeed, DueInv, Spawning
    <3>3. pc' \in [Clients -> Pcs] /\ DueInv'
      BY <3>1, <3>2, GoesSpawning DEF Spawning, mine
    <3> QED
      BY <2>1, <3>1, <3>3 DEF TypeOK, mine
  <2> QED
    BY <2>2, <2>3
<1>7. ASSUME NEW c \in Clients, UpDescribe(c)
      PROVE  TypeInv'
  <2>0. NoRecords \in [Components -> Slots \cup {None}]
    BY DEF NoRecords
  <2>1. pc' \in [Clients -> Pcs] /\ DueInv'
    BY <1>7, <2>0, GoesSpawning DEF UpDescribe, Spawning, TypeOK, mine, DueInv
  <2> QED
    BY <1>7, <2>0, <2>1 DEF UpDescribe, TypeOK, files, mine
<1>8. ASSUME NEW c \in Clients, Spawn(c)
      PROVE  TypeInv'
  <2>1. pc' \in [Clients -> Pcs] /\ DueInv'
    <3>1. GoTo(c, "record") /\ due' = due /\ pc[c] = "spawn"
      BY <1>8 DEF Spawn
    <3> QED
      BY <3>1, GoesSpawning DEF Spawning, DueInv
  <2>2. /\ st' \in [Processes -> {"dead", "starting", "ready"}]
        /\ cur' \in [Clients -> Slots \cup {None}]
        /\ UNCHANGED <<files, call, want, recs, plan, due, result>>
    <3>1. PICK n \in Slots : /\ st' = [st EXCEPT ![<<due[c], n>>] = "starting"]
                             /\ cur' = [cur EXCEPT ![c] = n]
      BY <1>8 DEF Spawn
    <3>2. st' \in [Processes -> {"dead", "starting", "ready"}]
      BY <3>1 DEF TypeOK
    <3>3. cur' \in [Clients -> Slots \cup {None}]
      BY <3>1 DEF TypeOK
    <3> QED
      BY <1>8, <3>2, <3>3 DEF Spawn
  <2> QED
    BY <2>1, <2>2 DEF TypeOK, files
<1>9. ASSUME NEW c \in Clients, Record(c)
      PROVE  TypeInv'
  <2>1. pc' \in [Clients -> Pcs] /\ DueInv'
    BY <1>9, GoesSpawning DEF Record, Spawning, TypeOK, mine, DueInv
  <2> QED
    BY <1>9, <2>1 DEF Record, TypeOK, files, mine
<1>10. ASSUME NEW c \in Clients, Wait(c)
       PROVE  TypeInv'
  <2>1. due[c] \in Components
    BY <1>10 DEF Wait, DueInv, Spawning
  <2>2. due[c] # "shell" => NextDue(c) \in Components
    BY <2>1 DEF NextDue, Components
  <2>3. CASE due[c] = "shell"
    <3>1. GoTo(c, "final") /\ UNCHANGED <<st, files, call, want, recs, plan, result, due, cur>>
      BY <1>10, <2>3 DEF Wait
    <3>2. pc' \in [Clients -> Pcs] /\ DueInv'
      BY <2>1, <3>1, GoesSpawning DEF Spawning
    <3> QED
      BY <3>1, <3>2 DEF TypeOK, files
  <2>4. CASE due[c] # "shell"
    <3>1. /\ GoTo(c, "spawn") /\ due' = [due EXCEPT ![c] = NextDue(c)]
          /\ cur' = [cur EXCEPT ![c] = None]
          /\ UNCHANGED <<st, files, call, want, recs, plan, result>>
      BY <1>10, <2>4 DEF Wait
    <3>2. pc' \in [Clients -> Pcs] /\ DueInv'
      BY <2>2, <2>4, <3>1, GoesSpawning DEF Spawning, TypeOK
    <3> QED
      BY <2>2, <2>4, <3>1, <3>2 DEF TypeOK, files
  <2> QED
    BY <2>3, <2>4
<1>11. ASSUME NEW c \in Clients, WaitFails(c) \/ SpawnRaises(c)
       PROVE  TypeInv'
  BY <1>11, RaiseTyped DEF WaitFails, SpawnRaises, TypeOK, files
<1>12. ASSUME NEW c \in Clients, Final(c)
       PROVE  TypeInv'
  BY <1>12, RaiseTyped, ReturnTyped DEF Final, TypeOK, files
<1>13. ASSUME NEW c \in Clients, ApplyRead(c)
       PROVE  TypeInv'
  <2>1. RestartPlan(meta, want[c]) \subseteq Components
    BY DEF RestartPlan, Components
  <2>2. CASE GiveUp(c)
    BY <1>13, <2>2, ReturnTyped DEF ApplyRead, GiveUp, TypeOK, files
  <2>3. CASE ~GiveUp(c)
    <3>1. /\ recs' = [recs EXCEPT ![c] = pids]
          /\ plan' = [plan EXCEPT ![c] = RestartPlan(meta, want[c])]
          /\ GoTo(c, "plan_term")
          /\ UNCHANGED <<st, files, call, want, due, cur, result>>
      BY <1>13, <2>3 DEF ApplyRead
    <3>2. pc' \in [Clients -> Pcs] /\ DueInv'
      BY <3>1, GoesElsewhere DEF Elsewhere
    <3> QED
      BY <2>1, <3>1, <3>2 DEF TypeOK, files
  <2> QED
    BY <2>2, <2>3
<1>14. ASSUME NEW c \in Clients, ApplyTerm(c)
       PROVE  TypeInv'
  <2>1. pc' \in [Clients -> Pcs] /\ DueInv'
    BY <1>14, GoesElsewhere DEF ApplyTerm, Elsewhere, mine
  <2>2. /\ st' \in [Processes -> {"dead", "starting", "ready"}]
        /\ socket' \in [Served -> Slots \cup {None}]
    BY <1>14, TerminatedTyped DEF ApplyTerm, files, TypeOK
  <2> QED
    BY <1>14, <2>1, <2>2 DEF ApplyTerm, TypeOK, files, mine
<1>15. ASSUME NEW c \in Clients, DownTerm(c)
       PROVE  TypeInv'
  <2>1. pc' \in [Clients -> Pcs] /\ DueInv'
    BY <1>15, GoesElsewhere DEF DownTerm, Elsewhere, mine
  <2>2. /\ st' \in [Processes -> {"dead", "starting", "ready"}]
        /\ socket' \in [Served -> Slots \cup {None}]
    BY <1>15, TerminatedTyped DEF DownTerm, files, TypeOK
  <2> QED
    BY <1>15, <2>1, <2>2 DEF DownTerm, TypeOK, files, mine
<1>16. ASSUME NEW c \in Clients, ApplyKill(c)
       PROVE  TypeInv'
  <2>1. pc' \in [Clients -> Pcs] /\ DueInv'
    BY <1>16, GoesElsewhere DEF ApplyKill, Elsewhere, mine
  <2>2. /\ st' \in [Processes -> {"dead", "starting", "ready"}]
        /\ socket' \in [Served -> Slots \cup {None}]
    BY <1>16, KilledTyped DEF ApplyKill, files, TypeOK
  <2> QED
    BY <1>16, <2>1, <2>2 DEF ApplyKill, TypeOK, files, mine
<1>17. ASSUME NEW c \in Clients, DownKill(c)
       PROVE  TypeInv'
  <2>1. pc' \in [Clients -> Pcs] /\ DueInv'
    BY <1>17, GoesElsewhere DEF DownKill, Elsewhere, mine
  <2>2. /\ st' \in [Processes -> {"dead", "starting", "ready"}]
        /\ socket' \in [Served -> Slots \cup {None}]
    BY <1>17, KilledTyped DEF DownKill, files, TypeOK
  <2> QED
    BY <1>17, <2>1, <2>2 DEF DownKill, TypeOK, files, mine
<1>18. ASSUME NEW c \in Clients, ApplyDrop(c)
       PROVE  TypeInv'
  <2>1. pc' \in [Clients -> Pcs] /\ DueInv'
    BY <1>18, GoesElsewhere DEF ApplyDrop, Elsewhere, TypeOK, mine
  <2> QED
    BY <1>18, <2>1 DEF ApplyDrop, TypeOK, files, mine
<1>19. ASSUME NEW c \in Clients, ApplySeed(c)
       PROVE  TypeInv'
  <2>1. socket' \in [Served -> Slots \cup {None}] /\ UNCHANGED <<st, pids, meta, pad>>
    BY <1>19 DEF ApplySeed, TypeOK
  <2>2. CASE GiveUp(c)
    BY <2>1, <2>2, ReturnTyped DEF GiveUp, TypeOK
  <2>3. CASE ~GiveUp(c)
    <3>1. GoTo(c, "redescribe") /\ UNCHANGED <<mine, result>>
      BY <1>19, <2>3 DEF ApplySeed
    <3>2. pc' \in [Clients -> Pcs] /\ DueInv'
      BY <3>1, GoesElsewhere DEF Elsewhere, mine
    <3> QED
      BY <2>1, <3>1, <3>2 DEF TypeOK, mine
  <2> QED
    BY <2>2, <2>3
<1>20. ASSUME NEW c \in Clients, ApplyDescribe(c)
       PROVE  TypeInv'
  <2>1. pc' \in [Clients -> Pcs] /\ DueInv'
    <3>1. GoTo(c, "spawn")
      BY <1>20 DEF ApplyDescribe
    <3>2. due'[c] \in Components /\ \A d \in Clients \ {c} : due'[d] = due[d]
      BY <1>20 DEF ApplyDescribe, TypeOK, Components
    <3> QED
      BY <3>1, <3>2, GoesSpawning DEF Spawning
  <2>2. due' \in [Clients -> Components \cup {None}] /\ meta' \in Profiles
    BY <1>20 DEF ApplyDescribe, TypeOK, Components
  <2> QED
    BY <1>20, <2>1, <2>2 DEF ApplyDescribe, TypeOK
<1>21. ASSUME NEW c \in Clients, DownRead(c)
       PROVE  TypeInv'
  <2>1. pc' \in [Clients -> Pcs] /\ DueInv'
    BY <1>21, GoesElsewhere DEF DownRead, Elsewhere, TypeOK, mine
  <2> QED
    BY <1>21, <2>1 DEF DownRead, TypeOK, files, mine
<1>22. ASSUME NEW c \in Clients, DownClear(c)
       PROVE  TypeInv'
  <2>1. NoRecords \in [Components -> Slots \cup {None}]
    BY DEF NoRecords
  <2>2. socket' \in [Served -> Slots \cup {None}]
    BY <1>22 DEF DownClear, TypeOK
  <2>3. pc' \in [Clients -> Pcs] /\ DueInv'
    BY <1>22, GoesElsewhere DEF DownClear, Elsewhere, mine
  <2> QED
    BY <1>22, <2>1, <2>2, <2>3 DEF DownClear, TypeOK, mine
<1>23. ASSUME NEW c \in Clients, DownPad(c)
       PROVE  TypeInv'
  <2>1. pad' \in BOOLEAN /\ UNCHANGED <<st, pids, meta, socket>>
    BY <1>23 DEF DownPad, TypeOK
  <2>2. \/ \E how \in {"ok", "cleaned", "error"} : Return(c, how)
        \/ \E w \in {"orphans", "check"} : GoTo(c, w) /\ UNCHANGED <<mine, result>>
    BY <1>23 DEF DownPad
  <2>3. CASE \E how \in {"ok", "cleaned", "error"} : Return(c, how)
    <3>1. PICK how \in {"ok", "cleaned", "error"} : Return(c, how)
      BY <2>3
    <3>2. /\ pc' \in [Clients -> Pcs] /\ DueInv'
          /\ recs' \in [Clients -> [Components -> Slots \cup {None}]]
          /\ plan' \in [Clients -> SUBSET Components]
          /\ due' \in [Clients -> Components \cup {None}]
          /\ cur' \in [Clients -> Slots \cup {None}]
          /\ result' \in [Clients -> Calls \X {"none", "ok", "cleaned", "error"}]
          /\ call' = call /\ want' = want
      BY <3>1, ReturnTyped
    <3> QED
      BY <2>1, <3>2 DEF TypeOK
  <2>4. CASE \E w \in {"orphans", "check"} : GoTo(c, w) /\ UNCHANGED <<mine, result>>
    <3>1. pc' \in [Clients -> Pcs] /\ DueInv'
      BY <2>4, GoesElsewhere DEF Elsewhere, mine
    <3> QED
      BY <2>1, <2>4, <3>1 DEF TypeOK, mine
  <2> QED
    BY <2>2, <2>3, <2>4
<1>24. ASSUME NEW c \in Clients, DownOrphans(c)
       PROVE  TypeInv'
  BY <1>24, ReturnTyped, KilledTyped DEF DownOrphans, TypeOK, files
<1> QED
  BY <1>1, <1>2, <1>3, <1>4, <1>5, <1>6, <1>7, <1>8, <1>9, <1>10, <1>11, <1>12,
     <1>13, <1>14, <1>15, <1>16, <1>17, <1>18, <1>19, <1>20, <1>21, <1>22, <1>23, <1>24, <1>25 DEF Next, ClientStep

LEMMA TypeInit == Init => TypeInv
<1> SUFFICES ASSUME Init
             PROVE  TypeInv
  OBVIOUS
<1> USE ConstantsAssumption DEF Init
<1>1. pc \in [Clients -> Pcs] /\ DueInv
  BY DEF DueInv, Spawning, Pcs
<1>2. NoRecords \in [Components -> Slots \cup {None}]
  BY DEF NoRecords
<1>3. /\ call \in [Clients -> Calls] /\ plan \in [Clients -> SUBSET Components]
      /\ result \in [Clients -> Calls \X {"none", "ok", "cleaned", "error"}]
  BY DEF Calls
<1> QED
  BY <1>1, <1>2, <1>3 DEF TypeInv, TypeOK

\* Every file, record and result keeps its type, for any callers in any order
\* (desktop.py:198-343): a caller that spawns always knows what it spawns.
THEOREM TypeCorrectness == Spec => []TypeOK
<1>1. TypeInv /\ [Next]_vars => TypeInv'
  BY TypeStep
<1>2. TypeInv => TypeOK
  BY DEF TypeInv
<1> QED
  BY TypeInit, <1>1, <1>2, PTL DEF Spec

-----------------------------------------------------------------------------
(* One caller at a time.                                                   *)

Quiet == \A p \in Processes : ~Running(p)

\* The components from k on, in the order of up().
From == [k \in Components |->
            CASE k = "weston"     -> Components
              [] k = "authorityd" -> {"authorityd", "supervisor", "shell"}
              [] k = "supervisor" -> {"supervisor", "shell"}
              [] k = "shell"      -> {"shell"}]

Plans == {{"shell"}, {"shell", "supervisor", "authorityd"}}
Planned == {"plan_term", "plan_kill", "drop", "reseed", "redescribe"}
Building == {"spawn", "record", "wait", "final"}

\* The process a caller has started and not yet recorded.
Unrecorded(c, p) == pc[c] = "record" /\ due[c] = p[1] /\ cur[c] = p[2]

\* What runs is in pids.json, and in the copy of who is going to write it.
RecordsInv(c) ==
    /\ pc[c] \in {"check", "pad", "seed", "describe", "clear", "unpad", "orphans"} => Quiet
    /\ pc[c] \in {"term", "kill", "wait", "final"} \cup Planned => recs[c] = pids
    /\ \A p \in Processes : Running(p) => pids[p[1]] = p[2] \/ Unrecorded(c, p)
    /\ pc[c] \in {"spawn", "record"} =>
         \A p \in Processes : Running(p) => recs[c][p[1]] = p[2] \/ Unrecorded(c, p)

\* No record of what is still to be spawned: it does not run either.
SpawnInv(c) ==
    /\ pc[c] \in {"pad", "seed", "describe"} => due[c] = "weston"
    /\ pc[c] \in Building => /\ meta = want[c]
                             /\ due[c] \in {"authorityd", "supervisor"} => want[c].authority
    /\ pc[c] \in {"spawn", "record"} => \A k \in From[due[c]] : recs[c][k] = None
    /\ pc[c] \in {"wait", "final"} => \A k \in From[due[c]] \ {due[c]} : recs[c][k] = None
    /\ pc[c] \in {"record", "wait", "final"} => cur[c] \in Slots
    /\ pc[c] \in {"wait", "final"} => recs[c][due[c]] = cur[c]
    /\ pc[c] = "final" => due[c] = "shell"

\* apply() restarts the authority and its supervisor unless the profile stays.
PlanInv(c) ==
    /\ pc[c] \in Planned => /\ meta # None /\ plan[c] \in Plans
                            /\ plan[c] = {"shell"} => meta = want[c]
    /\ pc[c] = "drop" => \A p \in Processes : p[1] \in plan[c] => ~Running(p)
    /\ pc[c] \in {"reseed", "redescribe"} => \A k \in plan[c] : recs[c][k] = None

CallInv(c) ==
    /\ pc[c] \in {"status", "check", "pad", "seed", "describe"} => call[c] \in {"up", "replace"}
    /\ pc[c] \in Planned \cup {"read_meta"} => call[c] = "apply"
    /\ pc[c] \in Building => call[c] \in {"up", "replace", "apply"}
    /\ pc[c] = "orphans" => call[c] = "reap"

\* What up() has behind it while it spawns.
WholeInv(c) ==
    call[c] \in {"up", "replace"} /\ pc[c] \in Building =>
      \A k \in Expected(want[c]) \ From[due[c]] :
          recs[c][k] # None /\ (k \in Served => socket[k] # None)

CallerInv(c) ==
    /\ RecordsInv(c) /\ SpawnInv(c) /\ PlanInv(c) /\ CallInv(c) /\ WholeInv(c)
    /\ RunningMatchesMeta

LEMMA FromFacts ==
    /\ From["weston"] = Components
    /\ From["authorityd"] = {"authorityd", "supervisor", "shell"}
    /\ From["supervisor"] = {"supervisor", "shell"}
    /\ From["shell"] = {"shell"}
BY DEF From, Components

LEMMA ProcessPairs ==
    \A p \in Processes : p = <<p[1], p[2]>> /\ p[1] \in Components /\ p[2] \in Slots /\ p[2] # None
BY ConstantsAssumption DEF Processes

\* A signal reaches who is recorded.
LEMMA KilledAreDead ==
    ASSUME TypeOK, NEW c \in Clients, NEW ks \in SUBSET Components,
           st' = Killed(Recorded(c, ks))
    PROVE  \A p \in Processes : Running(p)' => Running(p) /\ (p[1] \in ks => recs[c][p[1]] # p[2])
<1> SUFFICES ASSUME NEW p \in Processes, Running(p)'
             PROVE  Running(p) /\ (p[1] \in ks => recs[c][p[1]] # p[2])
  OBVIOUS
<1>1. p \notin Recorded(c, ks) /\ Running(p)
  BY DEF Killed, Running
<1> QED
  BY <1>1, ProcessPairs DEF Recorded, Alive

LEMMA TerminatedAreDead ==
    ASSUME TypeOK, NEW victims, Terminated(victims)
    PROVE  \A p \in Processes : Running(p)' => Running(p)
BY DEF Terminated, Killed, Running, TypeOK

\* While nobody of the instance works on it, its programs only die.
LEMMA ProgramsMove ==
    ASSUME TypeOK, UNCHANGED <<pids, meta, pc, mine>>,
           \A p \in Processes : Running(p)' => Running(p),
           \A k \in Served : socket[k] # None => socket'[k] # None,
           NEW c \in Clients, CallerInv(c)
    PROVE  CallerInv(c)'
<1> USE DEF mine
<1>1. RecordsInv(c)'
  BY DEF CallerInv, RecordsInv, Unrecorded, Quiet
<1>2. SpawnInv(c)'
  BY DEF CallerInv, SpawnInv
<1>3. PlanInv(c)'
  BY DEF CallerInv, PlanInv
<1>4. CallInv(c)'
  BY DEF CallerInv, CallInv
<1>5. WholeInv(c)'
  BY DEF CallerInv, WholeInv
<1>6. RunningMatchesMeta'
  BY DEF CallerInv, RunningMatchesMeta
<1> QED
  BY <1>1, <1>2, <1>3, <1>4, <1>5, <1>6 DEF CallerInv

\* A caller that rests or starts over: no file has changed, and programs have only died.
LEMMA Rests ==
    ASSUME TypeOK, NEW c \in Clients, CallerInv(c), pc[c] # "record",
           pc'[c] \in {"idle", "read", "status", "read_meta"},
           pc'[c] = "status" => call'[c] \in {"up", "replace"},
           pc'[c] = "read_meta" => call'[c] = "apply",
           UNCHANGED <<pids, meta>>,
           \A p \in Processes : Running(p)' => Running(p)
    PROVE  CallerInv(c)'
<1>1. RecordsInv(c)'
  BY DEF CallerInv, RecordsInv, Unrecorded, Planned
<1>2. SpawnInv(c)' /\ PlanInv(c)' /\ CallInv(c)' /\ WholeInv(c)'
  BY DEF SpawnInv, PlanInv, CallInv, WholeInv, Planned, Building
<1>3. RunningMatchesMeta'
  BY DEF CallerInv, RunningMatchesMeta
<1> QED
  BY <1>1, <1>2, <1>3 DEF CallerInv

LEMMA ReturnRests ==
    ASSUME TypeOK, NEW c \in Clients, CallerInv(c), pc[c] # "record", NEW how, Return(c, how),
           UNCHANGED <<pids, meta>>,
           \A p \in Processes : Running(p)' => Running(p)
    PROVE  CallerInv(c)'
<1>1. pc'[c] = "idle"
  BY DEF Return, GoTo, TypeOK
<1> QED
  BY <1>1, Rests

LEMMA RaiseRests ==
    ASSUME TypeOK, NEW c \in Clients, CallerInv(c), pc[c] # "record", Raise(c),
           UNCHANGED <<pids, meta>>,
           \A p \in Processes : Running(p)' => Running(p)
    PROVE  CallerInv(c)'
<1>1. pc'[c] \in {"idle", "read"}
  BY DEF Raise, Return, GoTo, TypeOK
<1> QED
  BY <1>1, Rests

\* Nothing runs where status() says "down": it looks at all that may run.
LEMMA DownIsQuiet ==
    ASSUME TypeOK, NEW c \in Clients, CallerInv(c), pc[c] # "record", IsDown
    PROVE  Quiet
<1> SUFFICES ASSUME NEW p \in Processes, Running(p)
             PROVE  FALSE
  BY DEF Quiet
<1>1. pids[p[1]] = p[2]
  BY DEF CallerInv, RecordsInv, Unrecorded
<1>2. p[1] \in Expected(meta)
  BY ProcessPairs DEF CallerInv, RunningMatchesMeta, Expected, Components
<1> QED
  BY <1>1, <1>2, ProcessPairs DEF IsDown, Alive

\* Where nothing runs, a caller that has not begun to build has nothing to prove.
LEMMA QuietRests ==
    ASSUME TypeOK, NEW c \in Clients, Quiet',
           pc'[c] \in {"check", "pad", "seed", "describe", "clear", "unpad", "orphans"},
           pc'[c] \in {"check", "pad", "seed", "describe"} => call'[c] \in {"up", "replace"},
           pc'[c] \in {"pad", "seed", "describe"} => due'[c] = "weston",
           pc'[c] = "orphans" => call'[c] = "reap"
    PROVE  CallerInv(c)'
<1>1. RecordsInv(c)' /\ RunningMatchesMeta'
  BY DEF RecordsInv, RunningMatchesMeta, Quiet, Planned
<1>2. SpawnInv(c)' /\ PlanInv(c)' /\ CallInv(c)' /\ WholeInv(c)'
  BY DEF SpawnInv, PlanInv, CallInv, WholeInv, Planned, Building
<1> QED
  BY <1>1, <1>2 DEF CallerInv

LEMMA UpStep ==
    ASSUME TypeInv, NEW c \in Clients, CallerInv(c),
           UpStatus(c) \/ UpCheck(c) \/ UpPad(c) \/ UpSeed(c)
    PROVE  CallerInv(c)'
<1> USE DEF TypeInv
<1>1. CASE UpStatus(c)
  <2>0. pc[c] = "status" /\ UNCHANGED <<st, files>> /\ call[c] \in {"up", "replace"}
    BY <1>1 DEF UpStatus, CallerInv, CallInv
  <2>1. CASE GiveUp(c)
    BY <2>0, <2>1, ReturnRests DEF GiveUp, files, Running
  <2>2. CASE GoTo(c, "read") /\ UNCHANGED <<mine, result>>
    <3>1. pc'[c] = "read"
      BY <2>2 DEF GoTo, TypeOK
    <3> QED
      BY <2>0, <3>1, Rests DEF files, Running
  <2>3. CASE IsDown /\ GoTo(c, "check") /\ UNCHANGED <<mine, result>>
    <3>1. Quiet'
      BY <2>0, <2>3, DownIsQuiet DEF Quiet, Running
    <3>2. pc'[c] = "check" /\ call' = call
      BY <2>3 DEF GoTo, TypeOK, mine
    <3> QED
      BY <2>0, <3>1, <3>2, QuietRests
  <2> QED
    BY <1>1, <2>1, <2>2, <2>3 DEF UpStatus
<1>2. CASE UpCheck(c)
  <2>0. pc[c] = "check" /\ UNCHANGED <<st, files>> /\ call[c] \in {"up", "replace"} /\ Quiet
    BY <1>2 DEF UpCheck, CallerInv, CallInv, RecordsInv
  <2>1. CASE GiveUp(c)
    BY <2>0, <2>1, ReturnRests DEF GiveUp, files, Running
  <2>2. CASE GoTo(c, "pad") /\ due' = [due EXCEPT ![c] = "weston"] /\ UNCHANGED call
    <3>1. pc'[c] = "pad" /\ due'[c] = "weston" /\ Quiet'
      BY <2>0, <2>2 DEF GoTo, TypeOK, Quiet, Running
    <3> QED
      BY <2>0, <2>2, <3>1, QuietRests
  <2> QED
    BY <1>2, <2>1, <2>2 DEF UpCheck
<1>3. CASE UpPad(c) \/ UpSeed(c)
  <2>0. /\ pc[c] \in {"pad", "seed"} /\ UNCHANGED <<st, pids, meta>>
        /\ call[c] \in {"up", "replace"} /\ Quiet /\ due[c] = "weston"
    BY <1>3 DEF UpPad, UpSeed, CallerInv, CallInv, RecordsInv, SpawnInv
  <2>1. CASE Raise(c)
    BY <2>0, <2>1, RaiseRests DEF Running
  <2>2. CASE ~Raise(c)
    <3>1. /\ GoTo(c, "seed") \/ GoTo(c, "describe")
          /\ UNCHANGED mine
      BY <1>3, <2>2 DEF UpPad, UpSeed
    <3>2. pc'[c] \in {"seed", "describe"} /\ due' = due /\ call' = call /\ Quiet'
      BY <2>0, <3>1 DEF GoTo, TypeOK, mine, Quiet, Running
    <3> QED
      BY <2>0, <3>1, <3>2, QuietRests
  <2> QED
    BY <2>1, <2>2
<1> QED
  BY <1>1, <1>2, <1>3

LEMMA DescribeStep ==
    ASSUME TypeInv, NEW c \in Clients, CallerInv(c), UpDescribe(c)
    PROVE  CallerInv(c)'
<1> USE DEF TypeInv
<1>1. /\ pc[c] = "describe" /\ pc'[c] = "spawn" /\ due[c] = "weston" /\ due' = due
      /\ Quiet /\ Quiet' /\ call' = call /\ call[c] \in {"up", "replace"}
      /\ want' = want /\ meta' = want[c] /\ recs'[c] = NoRecords
  BY DEF UpDescribe, GoTo, TypeOK, CallerInv, RecordsInv, SpawnInv, CallInv, Quiet,
         Running
<1>2. RecordsInv(c)' /\ RunningMatchesMeta'
  BY <1>1 DEF RecordsInv, RunningMatchesMeta, Quiet, Planned
<1>3. SpawnInv(c)' /\ PlanInv(c)' /\ CallInv(c)'
  BY <1>1, FromFacts DEF SpawnInv, PlanInv, CallInv, Planned, Building, NoRecords
<1>4. WholeInv(c)'
  BY <1>1, FromFacts DEF WholeInv, Expected, Components
<1> QED
  BY <1>2, <1>3, <1>4 DEF CallerInv

LEMMA SpawnStep ==
    ASSUME TypeInv, NEW c \in Clients, CallerInv(c), Spawn(c)
    PROVE  CallerInv(c)'
<1> USE DEF TypeInv
<1>1. PICK n \in Slots : /\ st' = [st EXCEPT ![<<due[c], n>>] = "starting"]
                         /\ cur' = [cur EXCEPT ![c] = n]
  BY DEF Spawn
<1>2. /\ pc[c] = "spawn" /\ pc'[c] = "record" /\ cur'[c] = n
      /\ UNCHANGED <<pids, meta, socket, pad, call, want, recs, plan, due>>
  BY <1>1 DEF Spawn, GoTo, TypeOK, files
<1>3. \A p \in Processes : Running(p)' => Running(p) \/ p = <<due[c], n>>
  BY <1>1 DEF Running, TypeOK
<1>4. \A p \in Processes : Running(p)' => Running(p) \/ Unrecorded(c, p)'
  BY <1>2, <1>3 DEF Unrecorded
<1>5. RecordsInv(c)'
  BY <1>2, <1>4 DEF CallerInv, RecordsInv, Unrecorded, Planned
<1>6. SpawnInv(c)' /\ PlanInv(c)' /\ CallInv(c)' /\ WholeInv(c)'
  BY <1>2 DEF CallerInv, SpawnInv, PlanInv, CallInv, WholeInv, Planned, Building
<1>7. RunningMatchesMeta'
  <2>1. meta = want[c] /\ (due[c] \in {"authorityd", "supervisor"} => want[c].authority)
    BY <1>2 DEF CallerInv, SpawnInv, Building
  <2>2. want[c] # None
    BY ConstantsAssumption DEF TypeOK
  <2> QED
    BY <1>2, <1>3, <2>1, <2>2 DEF CallerInv, RunningMatchesMeta
<1> QED
  BY <1>5, <1>6, <1>7 DEF CallerInv

LEMMA RecordStep ==
    ASSUME TypeInv, NEW c \in Clients, CallerInv(c), Record(c)
    PROVE  CallerInv(c)'
<1> USE DEF TypeInv
<1>1. /\ pc[c] = "record" /\ pc'[c] = "wait" /\ due[c] \in Components
      /\ recs'[c] = [recs[c] EXCEPT ![due[c]] = cur[c]] /\ pids' = recs'[c]
      /\ UNCHANGED <<st, meta, socket, pad, call, want, plan, due, cur>>
  BY DEF Record, GoTo, TypeOK, DueInv, Spawning
<1>2. \A k \in Components : recs'[c][k] = IF k = due[c] THEN cur[c] ELSE recs[c][k]
  BY <1>1 DEF TypeOK
<1>3. due[c] \in From[due[c]]
  BY <1>1, FromFacts DEF Components
<1>4. RecordsInv(c)'
  <2>1. ASSUME NEW p \in Processes, Running(p)
        PROVE  recs'[c][p[1]] = p[2]
    <3>1. p[1] \in Components /\ p[2] # None
      BY ProcessPairs
    <3>2. recs[c][p[1]] = p[2] \/ Unrecorded(c, p)
      BY <1>1, <2>1 DEF CallerInv, RecordsInv
    <3>3. recs[c][due[c]] = None
      BY <1>1, <1>3 DEF CallerInv, SpawnInv
    <3> QED
      BY <1>2, <3>1, <3>2, <3>3 DEF Unrecorded
  <2> QED
    BY <1>1, <2>1 DEF RecordsInv, Running
<1>5. SpawnInv(c)'
  <2>1. \A k \in From[due[c]] : k \in Components /\ recs[c][k] = None
    BY <1>1, FromFacts DEF CallerInv, SpawnInv, Components
  <2> QED
    BY <1>1, <1>2, <2>1 DEF CallerInv, SpawnInv, Building
<1>6. PlanInv(c)' /\ CallInv(c)' /\ RunningMatchesMeta'
  BY <1>1 DEF CallerInv, PlanInv, CallInv, RunningMatchesMeta, Planned, Building, Running
<1>7. WholeInv(c)'
  <2>1. \A k \in Expected(want[c]) \ From[due[c]] : k \in Components /\ k # due[c]
    BY <1>3 DEF Expected, Components
  <2> QED
    BY <1>1, <1>2, <2>1 DEF CallerInv, WholeInv, Building
<1> QED
  BY <1>4, <1>5, <1>6, <1>7 DEF CallerInv

LEMMA WaitStep ==
    ASSUME TypeInv, NEW c \in Clients, CallerInv(c), Wait(c)
    PROVE  CallerInv(c)'
<1> USE DEF TypeInv
<1>1. /\ pc[c] = "wait" /\ due[c] \in Components /\ CameUp(c)
      /\ UNCHANGED <<st, pids, meta, socket, pad, call, want, recs, plan>>
  BY DEF Wait, DueInv, Spawning, files
<1>2. recs[c] = pids /\ \A p \in Processes : Running(p) => pids[p[1]] = p[2]
  BY <1>1 DEF CallerInv, RecordsInv, Unrecorded
<1>3. RunningMatchesMeta' /\ CallInv(c)'
  BY <1>1 DEF Wait, CallerInv, RunningMatchesMeta, CallInv, Running, GoTo, TypeOK, Building,
              Planned
<1>4. CASE due[c] = "shell"
  <2>1. pc'[c] = "final" /\ due' = due /\ cur' = cur
    BY <1>4 DEF Wait, GoTo, TypeOK
  <2>2. RecordsInv(c)'
    BY <1>1, <1>2, <2>1 DEF RecordsInv, Running
  <2>3. SpawnInv(c)' /\ PlanInv(c)' /\ WholeInv(c)'
    BY <1>1, <1>4, <2>1 DEF CallerInv, SpawnInv, PlanInv, WholeInv, Building, Planned
  <2> QED
    BY <1>3, <2>2, <2>3 DEF CallerInv
<1>5. CASE due[c] # "shell"
  <2>1. pc'[c] = "spawn" /\ due'[c] = NextDue(c)
    BY <1>5 DEF Wait, GoTo, TypeOK
  <2>2. RecordsInv(c)'
    BY <1>1, <1>2, <2>1 DEF RecordsInv, Running, Planned
  <2>3. /\ meta = want[c]
        /\ due[c] \in {"authorityd", "supervisor"} => want[c].authority
        /\ \A k \in From[due[c]] \ {due[c]} : recs[c][k] = None
        /\ recs[c][due[c]] # None
    BY <1>1, ConstantsAssumption DEF CallerInv, SpawnInv, Building
  <2>4. \/ due[c] = "weston" /\ want[c].authority /\ NextDue(c) = "authorityd"
        \/ due[c] = "weston" /\ ~want[c].authority /\ NextDue(c) = "shell"
        \/ due[c] = "authorityd" /\ NextDue(c) = "supervisor"
        \/ due[c] = "supervisor" /\ NextDue(c) = "shell"
    BY <1>1, <1>5 DEF NextDue, Components
  <2>5. \A k \in From[NextDue(c)] : recs[c][k] = None
    BY <2>3, <2>4, FromFacts DEF Components
  <2>6. SpawnInv(c)' /\ PlanInv(c)'
    <3>1. NextDue(c) \in {"authorityd", "supervisor"} => want[c].authority
      BY <2>3, <2>4
    <3>2. /\ meta' = want'[c]
          /\ due'[c] \in {"authorityd", "supervisor"} => want'[c].authority
          /\ \A k \in From[due'[c]] : recs'[c][k] = None
      BY <1>1, <2>1, <2>3, <2>5, <3>1
    <3>3. SpawnInv(c)'
      BY <2>1, <3>2 DEF SpawnInv
    <3> QED
      BY <2>1, <3>3 DEF PlanInv, Planned
  <2>7. ASSUME call[c] \in {"up", "replace"}
        PROVE  \A k \in Expected(want[c]) \ From[NextDue(c)] :
                   recs[c][k] # None /\ (k \in Served => socket[k] # None)
    <3>1. \A k \in Expected(want[c]) \ From[NextDue(c)] :
              k = due[c] \/ k \in Expected(want[c]) \ From[due[c]]
      BY <2>3, <2>4, FromFacts, ConstantsAssumption DEF Expected, Components, TypeOK
    <3>2. due[c] \in Served => socket[due[c]] # None
      BY <1>1, <1>5, <2>4 DEF CameUp, Served
    <3> QED
      BY <1>1, <2>3, <2>7, <3>1, <3>2 DEF CallerInv, WholeInv, Building
  <2>8. WholeInv(c)'
    BY <1>1, <2>1, <2>7 DEF CallerInv, WholeInv, Building
  <2> QED
    BY <1>3, <2>2, <2>6, <2>8 DEF CallerInv
<1> QED
  BY <1>4, <1>5

LEMMA ApplyStep ==
    ASSUME TypeInv, NEW c \in Clients, CallerInv(c),
           ApplyRead(c) \/ ApplyTerm(c) \/ ApplyKill(c) \/ ApplyDrop(c) \/ ApplySeed(c)
    PROVE  CallerInv(c)'
<1> USE DEF TypeInv
<1>1. CASE ApplyRead(c)
  <2>0. pc[c] = "read_meta" /\ UNCHANGED <<st, files>> /\ call[c] = "apply"
    BY <1>1 DEF ApplyRead, CallerInv, CallInv
  <2>1. CASE GiveUp(c)
    BY <2>0, <2>1, ReturnRests DEF GiveUp, files, Running
  <2>2. CASE ~GiveUp(c)
    <3>1. /\ pc'[c] = "plan_term" /\ recs'[c] = pids /\ plan'[c] = RestartPlan(meta, want[c])
          /\ meta # None /\ call' = call /\ want' = want
      BY <1>1, <2>2 DEF ApplyRead, GoTo, TypeOK
    <3>2. plan'[c] \in Plans /\ (plan'[c] = {"shell"} => meta = want[c])
      <4>1. {"shell"} # {"shell", "supervisor", "authorityd"}
        OBVIOUS
      <4> QED
        BY <3>1, <4>1 DEF RestartPlan, Plans
    <3>3. RecordsInv(c)'
      BY <2>0, <3>1 DEF CallerInv, RecordsInv, Unrecorded, files, Running
    <3>4. SpawnInv(c)' /\ PlanInv(c)' /\ CallInv(c)' /\ WholeInv(c)'
      BY <2>0, <3>1, <3>2 DEF SpawnInv, PlanInv, CallInv, WholeInv, Planned, Building, files
    <3>5. RunningMatchesMeta'
      BY <2>0 DEF CallerInv, RunningMatchesMeta, files, Running
    <3> QED
      BY <3>3, <3>4, <3>5 DEF CallerInv
  <2> QED
    BY <2>1, <2>2
<1>2. CASE ApplyTerm(c) \/ ApplyKill(c)
  <2>1. \A p \in Processes : Running(p)' => Running(p)
    <3>1. CASE ApplyTerm(c)
      BY <3>1, TerminatedAreDead DEF ApplyTerm
    <3>2. CASE ApplyKill(c)
      BY <3>2, KilledAreDead DEF ApplyKill, TypeOK
    <3> QED
      BY <1>2, <3>1, <3>2
  <2>2. /\ UNCHANGED <<pids, meta, pad, mine>>
        /\ pc[c] \in {"plan_term", "plan_kill"} /\ pc'[c] \in {"plan_kill", "drop"}
    BY <1>2 DEF ApplyTerm, ApplyKill, GoTo, TypeOK, files
  <2>3. recs[c] = pids /\ \A p \in Processes : Running(p) => pids[p[1]] = p[2]
    BY <2>2 DEF CallerInv, RecordsInv, Unrecorded, Planned
  <2>4. pc'[c] = "drop" => \A p \in Processes : p[1] \in plan[c] => ~Running(p)'
    <3>1. pc'[c] = "drop" => ApplyKill(c)
      BY <1>2 DEF ApplyTerm, GoTo, TypeOK
    <3>2. ApplyKill(c) => \A p \in Processes : Running(p)' => (p[1] \in plan[c] => recs[c][p[1]] # p[2])
      BY KilledAreDead DEF ApplyKill, TypeOK
    <3> QED
      BY <2>1, <2>3, <3>1, <3>2
  <2>5. RecordsInv(c)'
    BY <2>1, <2>2, <2>3 DEF RecordsInv, mine
  <2>6. PlanInv(c)'
    BY <2>2, <2>4 DEF CallerInv, PlanInv, Planned, mine
  <2>7. SpawnInv(c)' /\ CallInv(c)' /\ WholeInv(c)'
    BY <2>2 DEF CallerInv, SpawnInv, CallInv, WholeInv, Planned, Building, mine
  <2>8. RunningMatchesMeta'
    BY <2>1, <2>2 DEF CallerInv, RunningMatchesMeta
  <2> QED
    BY <2>5, <2>6, <2>7, <2>8 DEF CallerInv
<1>3. CASE ApplyDrop(c)
  <2>1. /\ pc[c] = "drop" /\ pc'[c] = "reseed"
        /\ recs'[c] = [k \in Components |-> IF k \in plan[c] THEN None ELSE recs[c][k]]
        /\ pids' = recs'[c]
        /\ UNCHANGED <<st, meta, socket, pad, call, want, plan, due, cur>>
    BY <1>3 DEF ApplyDrop, GoTo, TypeOK
  <2>2. /\ recs[c] = pids /\ plan[c] \subseteq Components
        /\ \A p \in Processes : Running(p) => pids[p[1]] = p[2] /\ p[1] \notin plan[c]
    BY <2>1 DEF CallerInv, RecordsInv, PlanInv, Unrecorded, Planned, TypeOK
  <2>3. RecordsInv(c)'
    BY <2>1, <2>2, ProcessPairs DEF RecordsInv, Running
  <2>4. PlanInv(c)'
    BY <2>1, <2>2 DEF CallerInv, PlanInv, Planned
  <2>5. SpawnInv(c)' /\ CallInv(c)' /\ WholeInv(c)' /\ RunningMatchesMeta'
    BY <2>1 DEF CallerInv, SpawnInv, CallInv, WholeInv, RunningMatchesMeta, Planned, Building,
                Running
  <2> QED
    BY <2>3, <2>4, <2>5 DEF CallerInv
<1>4. CASE ApplySeed(c)
  <2>1. pc[c] = "reseed" /\ UNCHANGED <<st, pids, meta, pad>>
    BY <1>4 DEF ApplySeed
  <2>2. CASE GiveUp(c)
    BY <2>1, <2>2, ReturnRests DEF GiveUp, Running
  <2>3. CASE ~GiveUp(c)
    <3>1. pc'[c] = "redescribe" /\ UNCHANGED mine
      BY <1>4, <2>3 DEF ApplySeed, GoTo, TypeOK
    <3>2. RecordsInv(c)'
      BY <2>1, <3>1 DEF CallerInv, RecordsInv, Unrecorded, Planned, Running, mine
    <3>3. SpawnInv(c)' /\ PlanInv(c)' /\ CallInv(c)' /\ WholeInv(c)'
      BY <2>1, <3>1 DEF CallerInv, SpawnInv, PlanInv, CallInv, WholeInv, Planned, Building, mine
    <3>4. RunningMatchesMeta'
      BY <2>1 DEF CallerInv, RunningMatchesMeta, Running
    <3> QED
      BY <3>2, <3>3, <3>4 DEF CallerInv
  <2> QED
    BY <2>2, <2>3
<1> QED
  BY <1>1, <1>2, <1>3, <1>4

\* Where apply() writes run.json for another profile, neither the authority nor its
\* supervisor runs.
LEMMA RedescribeStep ==
    ASSUME TypeInv, NEW c \in Clients, CallerInv(c), ApplyDescribe(c)
    PROVE  CallerInv(c)'
<1> USE DEF TypeInv
<1>1. /\ pc[c] = "redescribe" /\ pc'[c] = "spawn" /\ meta' = want[c] /\ call[c] = "apply"
      /\ due'[c] = IF want[c].authority /\ "authorityd" \in plan[c] THEN "authorityd" ELSE "shell"
      /\ UNCHANGED <<st, pids, socket, pad, call, want, recs, plan, cur>>
  BY DEF ApplyDescribe, GoTo, TypeOK, CallerInv, CallInv, Planned
<1>2. /\ recs[c] = pids /\ plan[c] \in Plans /\ (plan[c] = {"shell"} => meta = want[c])
      /\ \A k \in plan[c] : recs[c][k] = None
      /\ \A p \in Processes : Running(p) => pids[p[1]] = p[2]
  BY <1>1 DEF CallerInv, RecordsInv, PlanInv, Unrecorded, Planned
<1>3. RecordsInv(c)'
  BY <1>1, <1>2 DEF RecordsInv, Planned, Running
<1>4. /\ due'[c] \in {"authorityd", "supervisor"} => want[c].authority
      /\ \A k \in From[due'[c]] : recs[c][k] = None
  <2>1. CASE want[c].authority /\ "authorityd" \in plan[c]
    BY <1>1, <1>2, <2>1, FromFacts DEF Plans
  <2>2. CASE ~(want[c].authority /\ "authorityd" \in plan[c])
    BY <1>1, <1>2, <2>2, FromFacts DEF Plans
  <2> QED
    BY <2>1, <2>2
<1>5. SpawnInv(c)'
  BY <1>1, <1>4 DEF SpawnInv
<1>6. PlanInv(c)' /\ CallInv(c)' /\ WholeInv(c)'
  BY <1>1 DEF PlanInv, CallInv, WholeInv, Planned, Building
<1>7. RunningMatchesMeta'
  <2>1. CASE plan[c] = {"shell"}
    BY <1>1, <1>2, <2>1 DEF CallerInv, RunningMatchesMeta, Running
  <2>2. CASE plan[c] = {"shell", "supervisor", "authorityd"}
    <3>1. \A p \in Processes : Running(p) => p[1] \notin {"authorityd", "supervisor"}
      BY <1>2, <2>2, ProcessPairs
    <3> QED
      BY <1>1, <3>1 DEF RunningMatchesMeta, Running
  <2> QED
    BY <1>2, <2>1, <2>2 DEF Plans
<1> QED
  BY <1>3, <1>5, <1>6, <1>7 DEF CallerInv

LEMMA DownStep ==
    ASSUME TypeInv, NEW c \in Clients, CallerInv(c),
           DownRead(c) \/ DownTerm(c) \/ DownKill(c) \/ DownClear(c) \/ DownPad(c) \/ DownOrphans(c)
    PROVE  CallerInv(c)'
<1> USE DEF TypeInv
<1>1. CASE DownRead(c) \/ DownTerm(c)
  <2>1. /\ pc[c] \in {"read", "term"} /\ pc'[c] \in {"term", "kill"}
        /\ UNCHANGED <<pids, meta>>
        /\ recs'[c] = pids
    BY <1>1 DEF DownRead, DownTerm, GoTo, TypeOK, CallerInv, RecordsInv, files, mine
  <2>2. \A p \in Processes : Running(p)' => Running(p)
    BY <1>1, TerminatedAreDead DEF DownRead, DownTerm, Running
  <2>3. \A p \in Processes : Running(p) => pids[p[1]] = p[2]
    BY <2>1 DEF CallerInv, RecordsInv, Unrecorded
  <2>4. RecordsInv(c)'
    BY <2>1, <2>2, <2>3 DEF RecordsInv
  <2>5. SpawnInv(c)' /\ PlanInv(c)' /\ CallInv(c)' /\ WholeInv(c)'
    BY <2>1 DEF SpawnInv, PlanInv, CallInv, WholeInv, Planned, Building
  <2>6. RunningMatchesMeta'
    BY <2>1, <2>2 DEF CallerInv, RunningMatchesMeta
  <2> QED
    BY <2>4, <2>5, <2>6 DEF CallerInv
<1>2. CASE DownKill(c)
  <2>1. pc[c] = "kill" /\ pc'[c] = "clear"
    BY <1>2 DEF DownKill, GoTo, TypeOK
  <2>2. recs[c] = pids /\ \A p \in Processes : Running(p) => pids[p[1]] = p[2]
    BY <2>1 DEF CallerInv, RecordsInv, Unrecorded
  <2>3. \A p \in Processes : Running(p)' => Running(p) /\ (p[1] \in Components => recs[c][p[1]] # p[2])
    BY <1>2, KilledAreDead DEF DownKill
  <2>4. Quiet'
    BY <2>2, <2>3, ProcessPairs DEF Quiet
  <2> QED
    BY <2>1, <2>4, QuietRests
<1>3. CASE DownClear(c)
  <2>1. pc[c] = "clear" /\ pc'[c] = "unpad" /\ st' = st
    BY <1>3 DEF DownClear, GoTo, TypeOK
  <2>2. Quiet'
    BY <2>1 DEF CallerInv, RecordsInv, Quiet, Running
  <2> QED
    BY <2>1, <2>2, QuietRests
<1>4. CASE DownPad(c)
  <2>1. pc[c] = "unpad" /\ UNCHANGED <<st, pids, meta>>
    BY <1>4 DEF DownPad
  <2>2. Quiet'
    BY <2>1 DEF CallerInv, RecordsInv, Quiet, Running
  <2>3. \/ \E how : Return(c, how)
        \/ call[c] = "reap" /\ GoTo(c, "orphans") /\ UNCHANGED mine
        \/ call[c] = "replace" /\ GoTo(c, "check") /\ UNCHANGED mine
    BY <1>4 DEF DownPad
  <2>4. CASE \E how : Return(c, how)
    BY <2>1, <2>4, ReturnRests DEF Running
  <2>5. CASE call[c] = "reap" /\ GoTo(c, "orphans") /\ UNCHANGED mine
    <3>1. pc'[c] = "orphans" /\ call'[c] = "reap"
      BY <2>5 DEF GoTo, TypeOK, mine
    <3> QED
      BY <2>2, <3>1, QuietRests
  <2>6. CASE call[c] = "replace" /\ GoTo(c, "check") /\ UNCHANGED mine
    <3>1. pc'[c] = "check" /\ call'[c] = "replace"
      BY <2>6 DEF GoTo, TypeOK, mine
    <3> QED
      BY <2>2, <3>1, QuietRests
  <2> QED
    BY <2>3, <2>4, <2>5, <2>6
<1>5. CASE DownOrphans(c)
  <2>1. pc[c] = "orphans" /\ UNCHANGED files /\ Return(c, "ok")
    BY <1>5 DEF DownOrphans
  <2>2. \A p \in Processes : Running(p)' => Running(p)
    BY <1>5 DEF DownOrphans, Killed, Running
  <2> QED
    BY <2>1, <2>2, ReturnRests DEF files
<1> QED
  BY <1>1, <1>2, <1>3, <1>4, <1>5

LEMMA CallerStep ==
    ASSUME TypeInv, NEW c \in Clients, Clients = {c}, CallerInv(c), [Next]_vars
    PROVE  CallerInv(c)'
<1> USE DEF TypeInv
<1>1. CASE UNCHANGED vars
  BY <1>1, ProgramsMove DEF vars, files, mine, Running
<1>2. ASSUME NEW p \in Processes, Starts(p) \/ Dies(p)
      PROVE  CallerInv(c)'
  <2>1. UNCHANGED <<pids, meta, pc, mine>>
    BY <1>2 DEF Starts, Dies, files
  <2>2. \A q \in Processes : Running(q)' => Running(q)
    BY <1>2 DEF Starts, Dies, Running, TypeOK
  <2>3. \A k \in Served : socket[k] # None => socket'[k] # None
    <3>1. socket' = socket \/ socket' = [socket EXCEPT ![p[1]] = p[2]]
      BY <1>2 DEF Starts, Dies, files
    <3> QED
      BY <3>1, ProcessPairs DEF TypeOK
  <2> QED
    BY <2>1, <2>2, <2>3, ProgramsMove
<1>3. CASE Call(c)
  <2>1. pc[c] = "idle" /\ UNCHANGED <<st, files>>
    BY <1>3 DEF Call
  <2>2. PICK k \in Calls : call' = [call EXCEPT ![c] = k]
    BY <1>3 DEF Call
  <2>3. call'[c] = k
    BY <2>2 DEF TypeOK
  <2>4. /\ pc'[c] \in {"read", "status", "read_meta"}
        /\ pc'[c] = "status" => k \in {"up", "replace"}
        /\ pc'[c] = "read_meta" => k = "apply"
    BY <1>3, <2>3 DEF Call, GoTo, TypeOK
  <2> QED
    BY <2>1, <2>3, <2>4, Rests DEF files, Running
<1>4. CASE WaitFails(c) \/ SpawnRaises(c)
  BY <1>4, RaiseRests DEF WaitFails, SpawnRaises, files, Running
<1>6. CASE PadEnds
  BY <1>6, ProgramsMove DEF PadEnds, Running
<1>5. CASE Final(c)
  <2>1. pc[c] = "final" /\ UNCHANGED <<st, files>> /\ (Return(c, "ok") \/ Raise(c))
    BY <1>5 DEF Final
  <2> QED
    BY <2>1, RaiseRests, ReturnRests DEF files, Running
<1> QED
  BY <1>1, <1>2, <1>3, <1>4, <1>5, <1>6, UpStep, DescribeStep, SpawnStep, RecordStep, WaitStep,
     ApplyStep, RedescribeStep, DownStep DEF Next, ClientStep

OneCaller == \E c : Clients = {c}

IInv == TypeInv /\ \A c \in Clients : CallerInv(c)

LEMMA Invariant ==
    ASSUME OneCaller
    PROVE  Spec => []IInv
<1>1. PICK b : Clients = {b}
  BY DEF OneCaller
<1>2. Init => IInv
  <2> SUFFICES ASSUME Init
               PROVE  CallerInv(b)
    BY <1>1, TypeInit DEF IInv
  <2>1. pc[b] = "idle" /\ Quiet
    BY <1>1 DEF Init, Quiet, Running
  <2>2. RecordsInv(b) /\ RunningMatchesMeta
    BY <2>1 DEF RecordsInv, RunningMatchesMeta, Quiet, Planned
  <2>3. SpawnInv(b) /\ PlanInv(b) /\ CallInv(b) /\ WholeInv(b)
    BY <2>1 DEF SpawnInv, PlanInv, CallInv, WholeInv, Planned, Building
  <2> QED
    BY <2>2, <2>3 DEF CallerInv
<1>3. IInv /\ [Next]_vars => IInv'
  BY <1>1, TypeStep, CallerStep DEF IInv
<1> QED
  BY <1>2, <1>3, PTL DEF Spec

\* down() and status() know the processes by pids.json alone (desktop.py:311-323):
\* with one caller at a time, whatever dies or fails half way, nothing else runs.
THEOREM NothingRunsUnrecorded ==
    ASSUME OneCaller
    PROVE  Spec => []NoStray
<1>1. IInv => NoStray
  BY DEF OneCaller, IInv, CallerInv, RecordsInv, Unrecorded, NoStray
<1> QED
  BY <1>1, Invariant, PTL

\* The authority and its supervisor run only while run.json says so, through any
\* change of profile (desktop.py:99-101, 246-307).
THEOREM ProfileIsWhatRuns ==
    ASSUME OneCaller
    PROVE  Spec => []RunningMatchesMeta
<1>1. IInv => RunningMatchesMeta
  BY DEF OneCaller, IInv, CallerInv
<1> QED
  BY <1>1, Invariant, PTL

\* desktop.py:198-307: no call starts a process while another of its kind starts or
\* runs, so that there are never two.
THEOREM OneProcessOfEach ==
    ASSUME OneCaller
    PROVE  Spec => []OneOfEach
<1>1. IInv => OneOfEach
  <2> SUFFICES ASSUME IInv, NEW k \in Components, NEW m \in Slots, NEW n \in Slots,
                      Running(<<k, m>>), Running(<<k, n>>)
               PROVE  m = n
    BY DEF OneOfEach
  <2>0. PICK c \in Clients : TypeInv /\ CallerInv(c)
    BY DEF OneCaller, IInv
  <2>1. <<k, m>> \in Processes /\ <<k, n>> \in Processes
    BY DEF Processes
  <2>3. CASE pc[c] # "record"
    BY <2>0, <2>1, <2>3 DEF CallerInv, RecordsInv, Unrecorded
  <2>4. CASE pc[c] = "record"
    <3>1. due[c] \in Components
      BY <2>0, <2>4 DEF TypeInv, DueInv, Spawning
    <3>2. recs[c][due[c]] = None
      BY <2>0, <2>4, <3>1, FromFacts DEF CallerInv, SpawnInv, Components
    <3>3. /\ recs[c][k] = m \/ (due[c] = k /\ cur[c] = m)
          /\ recs[c][k] = n \/ (due[c] = k /\ cur[c] = n)
      BY <2>0, <2>1, <2>4 DEF CallerInv, RecordsInv, Unrecorded
    <3> QED
      BY <3>2, <3>3, ConstantsAssumption
  <2> QED
    BY <2>3, <2>4
<1> QED
  BY <1>1, Invariant, PTL

\* How a call of one caller comes to its end.
LEMMA ReturnsFrom ==
    ASSUME TypeInv, NEW c \in Clients, Clients = {c}, [Next]_vars, NEW d \in Clients,
           pc[d] # "idle", pc'[d] = "idle"
    PROVE  \/ DownPad(c) \/ DownOrphans(c) \/ Final(c)
           \/ result'[c][2] = "error" /\ call[c] \notin {"down", "reap"}
           \/ result'[c] = <<call[c], "error">>
<1> USE DEF TypeInv
<1>1. d = c
  OBVIOUS
<1>2. ASSUME GiveUp(c) \/ (Raise(c) /\ pc'[c] = "idle")
      PROVE  result'[c] = <<call[c], "error">>
  BY <1>1, <1>2 DEF GiveUp, Raise, Return, GoTo, TypeOK
<1>3. ~Call(c) /\ ~(UNCHANGED vars) /\ ~PadEnds
      /\ \A p \in Processes : ~Starts(p) /\ ~Dies(p)
  BY <1>1 DEF Call, vars, Starts, Dies, PadEnds, files
<1>4. ASSUME UpStatus(c) \/ UpCheck(c) \/ UpPad(c) \/ UpSeed(c) \/ WaitFails(c) \/ ApplyRead(c)
             \/ ApplySeed(c) \/ SpawnRaises(c)
      PROVE  GiveUp(c) \/ Raise(c)
  BY <1>1, <1>4
     DEF UpStatus, UpCheck, UpPad, UpSeed, WaitFails, SpawnRaises, ApplyRead, ApplySeed, GoTo,
         TypeOK
<1>5. ~(UpDescribe(c) \/ Spawn(c) \/ Record(c) \/ Wait(c) \/ ApplyTerm(c) \/ ApplyKill(c)
        \/ ApplyDrop(c) \/ ApplyDescribe(c) \/ DownRead(c) \/ DownTerm(c) \/ DownKill(c)
        \/ DownClear(c))
  BY <1>1 DEF UpDescribe, Spawn, Record, Wait, ApplyTerm, ApplyKill, ApplyDrop, ApplyDescribe,
              DownRead, DownTerm, DownKill, DownClear, GoTo, TypeOK
<1> QED
  BY <1>1, <1>2, <1>3, <1>4, <1>5 DEF Next, ClientStep

\* A down() that returns without an error, and an up() that failed and has cleaned up,
\* leave no process of the instance behind (desktop.py:241-243 and 311-343).
THEOREM NothingSurvivesDown ==
    ASSUME OneCaller
    PROVE  Spec => TearDownIsComplete
<1>1. PICK b : Clients = {b}
  BY DEF OneCaller
<1>2. IInv /\ [Next]_vars
        => [\A c \in Clients :
              Returns(c, {"down", "reap"}, "ok") \/ Returns(c, {"up", "replace"}, "cleaned")
                => \A p \in Processes : ~Running(p)']_vars
  <2> SUFFICES ASSUME TypeInv, CallerInv(b), [Next]_vars, NEW c \in Clients,
                      Returns(c, {"down", "reap"}, "ok") \/ Returns(c, {"up", "replace"}, "cleaned")
               PROVE  \A p \in Processes : ~Running(p)'
    BY <1>1 DEF IInv
  <2> USE DEF TypeInv
  <2>1. /\ c = b /\ pc[c] # "idle" /\ pc'[c] = "idle" /\ result'[b][2] \in {"ok", "cleaned"}
        /\ result'[b][2] = "ok" => call[b] \in {"down", "reap"}
    BY <1>1 DEF Returns
  <2>2. CASE DownPad(b) \/ DownOrphans(b)
    <3>1. pc[b] \in {"unpad", "orphans"}
      BY <2>2 DEF DownPad, DownOrphans
    <3>2. \A p \in Processes : Running(p)' => Running(p)
      BY <2>2 DEF DownPad, DownOrphans, Killed, Running
    <3> QED
      BY <3>1, <3>2 DEF CallerInv, RecordsInv, Quiet
  <2>3. CASE Final(b)
    <3>1. call[b] \in {"up", "replace", "apply"}
      BY <2>3 DEF Final, CallerInv, CallInv, Building
    <3>2. Return(b, "ok") \/ Raise(b)
      BY <2>3 DEF Final
    <3>3. pc'[b] = "idle" => result'[b][2] \in {"ok", "error"}
      BY <1>1, <3>2 DEF Raise, Return, GoTo, TypeOK
    <3> QED
      BY <2>1, <3>1, <3>3
  <2> QED
    BY <2>1, <2>2, <2>3, <1>1, ReturnsFrom
<1> QED
  BY <1>2, Invariant, PTL DEF Spec, TearDownIsComplete

\* An up() that returns leaves every component of the profile running and recorded, and
\* the sockets in their places (desktop.py:198-240).
THEOREM UpIsWhole ==
    ASSUME OneCaller
    PROVE  Spec => UpReturnsWhole
<1>1. PICK b : Clients = {b}
  BY DEF OneCaller
<1>2. IInv /\ [Next]_vars
        => [\A c \in Clients :
              Returns(c, {"up", "replace"}, "ok")
              => /\ \A k \in Expected(want[c]) : Alive(pids, k)'
                 /\ \A k \in Served \cap Expected(want[c]) : socket'[k] # None
                 /\ meta' = want[c]]_vars
  <2> SUFFICES ASSUME TypeInv, CallerInv(b), [Next]_vars, Returns(b, {"up", "replace"}, "ok")
               PROVE  /\ \A k \in Expected(want[b]) : Alive(pids, k)'
                      /\ \A k \in Served \cap Expected(want[b]) : socket'[k] # None
                      /\ meta' = want[b]
    BY <1>1 DEF IInv
  <2> USE DEF TypeInv
  <2>1. pc[b] # "idle" /\ pc'[b] = "idle" /\ result'[b][2] = "ok" /\ call[b] \in {"up", "replace"}
    BY <1>1 DEF Returns
  <2>2. ~DownPad(b) /\ ~DownOrphans(b)
    <3>1. ASSUME DownPad(b)
          PROVE  FALSE
      <4>1. CASE call[b] = "replace" /\ due[b] = None
        BY <2>1, <3>1, <4>1 DEF DownPad, Return, GoTo, TypeOK
      <4>2. CASE ~(call[b] = "replace" /\ due[b] = None)
        <5>1. Return(b, "cleaned") \/ Return(b, "error")
          BY <2>1, <3>1, <4>2 DEF DownPad
        <5> QED
          BY <1>1, <2>1, <5>1 DEF Return, TypeOK
      <4> QED
        BY <4>1, <4>2
    <3>2. ASSUME DownOrphans(b)
          PROVE  FALSE
      BY <2>1, <3>2 DEF CallerInv, CallInv, DownOrphans
    <3> QED
      BY <3>1, <3>2
  <2>3. Final(b)
    BY <2>1, <2>2, <1>1, ReturnsFrom
  <2>4. /\ pc[b] = "final" /\ UNCHANGED <<st, files>>
        /\ \A k \in Components : recs[b][k] # None => Alive(recs[b], k)
    <3>1. ~Raise(b)
      BY <2>1 DEF Raise, GoTo, TypeOK
    <3> QED
      BY <2>1, <2>3, <3>1 DEF Final
  <2>5. /\ recs[b] = pids /\ meta = want[b]
        /\ recs[b]["shell"] # None
        /\ \A k \in Expected(want[b]) \ {"shell"} :
               recs[b][k] # None /\ (k \in Served => socket[k] # None)
    BY <2>1, <2>4, FromFacts, ConstantsAssumption
       DEF CallerInv, RecordsInv, SpawnInv, WholeInv, Building
  <2>6. \A k \in Expected(want[b]) : k \in Components /\ Alive(pids, k)
    BY <2>4, <2>5 DEF Expected, Components
  <2>7. \A k \in Expected(want[b]) : Alive(pids, k)'
    BY <2>4, <2>6 DEF Alive, Running, files
  <2> QED
    BY <2>4, <2>5, <2>7 DEF files, Served
<1> QED
  BY <1>2, Invariant, PTL DEF Spec, UpReturnsWhole


-----------------------------------------------------------------------------
(* The abstract instance.                                                  *)

Downward == {"read", "term", "kill", "clear", "unpad"}

\* Why a caller takes the instance down, what an apply() restarts, and what a down()
\* that looks for orphans has behind it.
CauseInv(c) ==
    /\ pc[c] \in Downward => call[c] # "apply"
    /\ pc[c] \in Building /\ call[c] = "apply" => due[c] # "weston"
    /\ pc[c] = "orphans" => ~pad

\* CauseInv is kept by whatever a caller does.
LEMMA CauseStep ==
    ASSUME TypeInv, NEW c \in Clients, Clients = {c}, CallInv(c), CauseInv(c), [Next]_vars
    PROVE  CauseInv(c)'
<1> USE DEF TypeInv, TypeOK, CauseInv, CallInv, Downward, Building, GoTo, files, mine
<1>1. ASSUME NEW how, Return(c, how)
      PROVE  CauseInv(c)'
  BY <1>1 DEF Return
<1>2. ASSUME Raise(c), UNCHANGED pad
      PROVE  CauseInv(c)'
  BY <1>1, <1>2 DEF Raise
<1>3. CASE UNCHANGED vars
  BY <1>3 DEF vars
<1>4. ASSUME NEW p \in Processes, Starts(p) \/ Dies(p)
      PROVE  CauseInv(c)'
  BY <1>4 DEF Starts, Dies
<1>23. CASE PadEnds
  BY <1>23 DEF PadEnds
<1>5. CASE Call(c)
  BY <1>5 DEF Call, Calls
<1>6. CASE UpStatus(c)
  BY <1>1, <1>6 DEF UpStatus, GiveUp
<1>7. CASE UpCheck(c)
  BY <1>1, <1>7 DEF UpCheck, GiveUp
<1>8. CASE UpPad(c)
  BY <1>2, <1>8 DEF UpPad
<1>9. CASE UpSeed(c)
  BY <1>2, <1>9 DEF UpSeed
<1>10. CASE UpDescribe(c)
  BY <1>10 DEF UpDescribe
<1>11. CASE Spawn(c)
  BY <1>11 DEF Spawn
<1>12. CASE Record(c)
  BY <1>12 DEF Record
<1>13. CASE Wait(c)
  BY <1>13 DEF Wait, NextDue, DueInv, Spawning, Components
<1>14. CASE WaitFails(c) \/ SpawnRaises(c)
  BY <1>2, <1>14 DEF WaitFails, SpawnRaises
<1>15. CASE Final(c)
  BY <1>1, <1>2, <1>15 DEF Final
<1>16. CASE ApplyRead(c)
  BY <1>1, <1>16 DEF ApplyRead, GiveUp
<1>17. CASE ApplyTerm(c) \/ ApplyKill(c) \/ ApplyDrop(c)
  BY <1>17 DEF ApplyTerm, ApplyKill, ApplyDrop
<1>18. CASE ApplySeed(c)
  BY <1>1, <1>18 DEF ApplySeed, GiveUp
<1>19. CASE ApplyDescribe(c)
  BY <1>19 DEF ApplyDescribe
<1>20. CASE DownRead(c) \/ DownTerm(c) \/ DownKill(c) \/ DownClear(c)
  BY <1>20 DEF DownRead, DownTerm, DownKill, DownClear
<1>21. CASE DownPad(c)
  BY <1>1, <1>21 DEF DownPad
<1>22. CASE DownOrphans(c)
  BY <1>1, <1>22 DEF DownOrphans
<1> QED
  BY <1>3, <1>4, <1>5, <1>6, <1>7, <1>8, <1>9, <1>10, <1>11, <1>12, <1>13, <1>14, <1>15, <1>16,
     <1>17, <1>18, <1>19, <1>20, <1>21, <1>22, <1>23 DEF Next, ClientStep

InstanceNext == [Instance!Next]_(Instance!vars)

\* Programs that end while no call begins, returns or writes run.json.
LEMMA InstanceStops ==
    ASSUME \A c \in Clients : pc'[c] = "idle" <=> pc[c] = "idle",
           UNCHANGED <<call, want, result, meta, pad>>,
           \A p \in Processes : Running(p)' => Running(p)
    PROVE  InstanceNext
<1>1. [c \in Clients |-> IF pc[c] = "idle" THEN "none" ELSE call[c]]'
        = [c \in Clients |-> IF pc[c] = "idle" THEN "none" ELSE call[c]]
  OBVIOUS
<1>2. {p \in Processes : Running(p)}' \in SUBSET {p \in Processes : Running(p)}
  OBVIOUS
<1> QED
  BY <1>1, <1>2 DEF InstanceNext, Instance!Next, Instance!Stop, Instance!calls

LEMMA QuietInstance ==
    ASSUME Quiet
    PROVE  {p \in Processes : Running(p)} = {}
BY DEF Quiet

\* A caller that returns while the programs stay as they are.
LEMMA InstanceEnds ==
    ASSUME TypeInv, NEW c \in Clients, pc[c] # "idle", NEW how, Return(c, how),
           UNCHANGED <<st, meta>>
    PROVE  Instance!End(c, how)
<1> USE DEF TypeInv, TypeOK
<1>1. [d \in Clients |-> IF pc[d] = "idle" THEN "none" ELSE call[d]]'
        = [[d \in Clients |-> IF pc[d] = "idle" THEN "none" ELSE call[d]] EXCEPT ![c] = "none"]
  BY DEF Return, GoTo
<1>2. [d \in Clients |-> result[d][2]]'
        = [[d \in Clients |-> result[d][2]] EXCEPT ![c] = how]
  BY DEF Return
<1>3. call[c] # "none"
  BY DEF Calls
<1>4. {p \in Processes : Running(p)}' = {p \in Processes : Running(p)}
  BY DEF Running
<1> QED
  BY <1>1, <1>2, <1>3, <1>4 DEF Return, Instance!End

LEMMA InstanceRaises ==
    ASSUME TypeInv, NEW c \in Clients, Clients = {c}, pc[c] # "idle",
           Raise(c) \/ GiveUp(c), UNCHANGED <<st, meta, pad>>
    PROVE  InstanceNext
<1>1. CASE Return(c, "error")
  BY <1>1, InstanceEnds DEF InstanceNext, Instance!Next, Instance!EndError
<1>2. CASE GoTo(c, "read") /\ UNCHANGED <<mine, result>>
  <2>1. pc'[c] # "idle" /\ UNCHANGED <<call, want, result, meta, pad>>
    BY <1>2 DEF GoTo, TypeInv, TypeOK, mine
  <2>2. \A p \in Processes : Running(p)' => Running(p)
    BY DEF Running
  <2> QED
    BY <2>1, <2>2, InstanceStops
<1> QED
  BY <1>1, <1>2 DEF Raise, GiveUp

\* What the steps of up() mean to the instance.
LEMMA InstanceUp ==
    ASSUME TypeInv, NEW c \in Clients, Clients = {c}, CallerInv(c),
           UpStatus(c) \/ UpCheck(c) \/ UpPad(c) \/ UpSeed(c) \/ UpDescribe(c)
    PROVE  InstanceNext
<1> USE DEF TypeInv, TypeOK, GoTo, files, mine
<1>1. CASE UpStatus(c) \/ UpCheck(c) \/ UpSeed(c)
  <2>1. pc[c] # "idle" /\ UNCHANGED <<st, meta, pad>>
    BY <1>1 DEF UpStatus, UpCheck, UpSeed
  <2>2. CASE Raise(c) \/ GiveUp(c)
    BY <2>1, <2>2, InstanceRaises
  <2>3. CASE ~(Raise(c) \/ GiveUp(c))
    BY <1>1, <2>1, <2>3, InstanceStops DEF UpStatus, UpCheck, UpSeed, Running
  <2> QED
    BY <2>2, <2>3
<1>2. CASE UpPad(c)
  <2>1. pc[c] = "pad" /\ UNCHANGED <<st, meta>> /\ Quiet /\ call[c] \in Instance!Ups
    BY <1>2 DEF UpPad, CallerInv, RecordsInv, CallInv, Instance!Ups
  <2>2. CASE Raise(c) /\ UNCHANGED pad
    BY <2>1, <2>2, InstanceRaises
  <2>3. CASE pad' = TRUE /\ GoTo(c, "seed") /\ UNCHANGED <<mine, result>>
    <3>1. [d \in Clients |-> IF pc[d] = "idle" THEN "none" ELSE call[d]]'
            = [d \in Clients |-> IF pc[d] = "idle" THEN "none" ELSE call[d]]
      BY <2>1, <2>3
    <3> QED
      BY <2>1, <2>3, <3>1, QuietInstance
         DEF InstanceNext, Instance!Next, Instance!MakePad, Instance!calls, Running
  <2> QED
    BY <1>2, <2>2, <2>3 DEF UpPad
<1>3. CASE UpDescribe(c)
  <2>1. /\ pc[c] = "describe" /\ pc'[c] = "spawn" /\ meta' = want[c] /\ Quiet
        /\ call[c] \in Instance!Ups /\ UNCHANGED <<st, pad, call, want, result>>
    BY <1>3 DEF UpDescribe, CallerInv, RecordsInv, CallInv, Instance!Ups
  <2>2. [d \in Clients |-> IF pc[d] = "idle" THEN "none" ELSE call[d]]'
          = [d \in Clients |-> IF pc[d] = "idle" THEN "none" ELSE call[d]]
    BY <2>1
  <2> QED
    BY <2>1, <2>2, QuietInstance
       DEF InstanceNext, Instance!Next, Instance!Describe, Instance!calls, Running
<1> QED
  BY <1>1, <1>2, <1>3

\* A spawn starts a component where neither it nor what needs it runs.
LEMMA InstanceSpawn ==
    ASSUME TypeInv, NEW c \in Clients, Clients = {c}, CallerInv(c), CauseInv(c), Spawn(c)
    PROVE  InstanceNext
<1> USE DEF TypeInv, TypeOK
<1>1. PICK n \in Slots : st' = [st EXCEPT ![<<due[c], n>>] = "starting"]
  BY DEF Spawn
<1>2. /\ pc[c] = "spawn" /\ pc'[c] = "record" /\ due[c] \in Components
      /\ UNCHANGED <<meta, pad, call, want, result>>
  BY DEF Spawn, GoTo, files, DueInv, Spawning
<1>3. /\ meta = want[c] /\ call[c] \in {"up", "replace", "apply"}
      /\ due[c] = "weston" => call[c] \in {"up", "replace"}
      /\ due[c] \in {"authorityd", "supervisor"} => want[c].authority
  BY <1>2 DEF CallerInv, SpawnInv, CallInv, CauseInv, Building
<1>4. From[due[c]] = Instance!NeedsIt(due[c]) /\ due[c] \in Instance!Expected(meta)
  BY <1>2, <1>3, FromFacts DEF Instance!NeedsIt, Instance!Expected, Components
<1>5. ASSUME NEW p \in Processes, Running(p), p[1] \in From[due[c]]
      PROVE  FALSE
  <2>1. recs[c][p[1]] = None
    BY <1>2, <1>5 DEF CallerInv, SpawnInv
  <2>2. recs[c][p[1]] = p[2]
    BY <1>2, <1>5, <2>1 DEF CallerInv, RecordsInv, Unrecorded
  <2> QED
    BY <1>5, <2>1, <2>2, ProcessPairs
<1>6. <<due[c], n>> \in Processes /\ <<due[c], n>>[1] = due[c]
  BY <1>2 DEF Processes
<1>7. {p \in Processes : Running(p)}' = {p \in Processes : Running(p)} \cup {<<due[c], n>>}
  <2>1. \A p \in Processes : Running(p)' <=> Running(p) \/ p = <<due[c], n>>
    BY <1>1, <1>6 DEF Running
  <2> QED
    BY <1>6, <2>1
<1>8. [d \in Clients |-> IF pc[d] = "idle" THEN "none" ELSE call[d]]'
        = [d \in Clients |-> IF pc[d] = "idle" THEN "none" ELSE call[d]]
  BY <1>2
<1>9. Instance!Kinds({p \in Processes : Running(p)}) \cap Instance!NeedsIt(due[c]) = {}
  BY <1>4, <1>5 DEF Instance!Kinds
<1>10. Instance!Start(c, <<due[c], n>>)
  BY <1>2, <1>3, <1>4, <1>6, <1>7, <1>8, <1>9 DEF Instance!Start, Instance!Ups, Instance!calls
<1>11. <<due[c], n>> \in Instance!Components \X Slots
  BY <1>2 DEF Components, Instance!Components
<1> QED
  BY <1>10, <1>11 DEF InstanceNext, Instance!Next

\* What up() and apply() find at their end.
LEMMA InstanceFinal ==
    ASSUME TypeInv, NEW c \in Clients, Clients = {c}, CallerInv(c), Final(c)
    PROVE  InstanceNext
<1> USE DEF TypeInv, TypeOK
<1> DEFINE Runs == Instance!Kinds({p \in Processes : Running(p)})
<1>1. /\ pc[c] = "final" /\ UNCHANGED <<st, meta, pad>> /\ meta = want[c]
      /\ call[c] \in {"up", "replace", "apply"} /\ recs[c] = pids
  BY DEF Final, files, CallerInv, RecordsInv, SpawnInv, CallInv, Building
<1>2. CASE Raise(c)
  BY <1>1, <1>2, InstanceRaises
<1>3. CASE ~Raise(c)
  <2>1. /\ Return(c, "ok")
        /\ \A k \in Components :
              recs[c][k] # None /\ (call[c] # "apply" \/ k = "shell") => Alive(recs[c], k)
    BY <1>3 DEF Final
  <2>2. Instance!End(c, "ok")
    BY <1>1, <2>1, InstanceEnds
  <2>3. meta # None /\ Expected(meta) = Instance!Expected(meta) /\ Expected(meta) \subseteq Components
    BY <1>1, ConstantsAssumption DEF Expected, Instance!Expected, Components
  <2>4. recs[c]["shell"] # None
    BY <1>1, FromFacts, ConstantsAssumption DEF CallerInv, SpawnInv
  <2>5. ASSUME NEW k \in Components, Alive(recs[c], k)
        PROVE  k \in Runs
    <3>1. <<k, recs[c][k]>> \in Processes /\ Running(<<k, recs[c][k]>>) /\ <<k, recs[c][k]>>[1] = k
      BY <2>5 DEF Alive, Processes
    <3> QED
      BY <3>1 DEF Instance!Kinds
  <2>6. Runs \subseteq Expected(meta)
    <3>1. ASSUME NEW p \in Processes, Running(p)
          PROVE  p[1] \in Expected(meta)
      <4>1. p[1] \in {"authorityd", "supervisor"} => meta.authority
        BY <3>1 DEF CallerInv, RunningMatchesMeta
      <4> QED
        BY <2>3, <4>1, ProcessPairs DEF Expected, Components
    <3> QED
      BY <3>1 DEF Instance!Kinds
  <2>7. CASE call[c] = "apply"
    <3>1. "shell" \in Runs
      BY <2>1, <2>4, <2>5 DEF Components
    <3>2. Instance!EndApply(c)
      BY <1>1, <2>2, <2>3, <2>6, <2>7, <3>1 DEF Instance!EndApply
    <3> QED
      BY <3>2 DEF InstanceNext, Instance!Next
  <2>8. CASE call[c] \in {"up", "replace"}
    <3>1. \A k \in Expected(want[c]) \ {"shell"} : recs[c][k] # None
      BY <1>1, <2>8, FromFacts DEF CallerInv, SpawnInv, WholeInv, Building
    <3>2. Runs = Expected(meta)
      BY <1>1, <2>1, <2>3, <2>4, <2>5, <2>6, <2>8, <3>1
    <3>3. Instance!EndUp(c)
      BY <1>1, <2>2, <2>3, <2>8, <3>1, <3>2 DEF Instance!EndUp, Instance!Ups
    <3> QED
      BY <3>3 DEF InstanceNext, Instance!Next
  <2> QED
    BY <1>1, <2>7, <2>8
<1> QED
  BY <1>2, <1>3

\* What the steps of apply() before its spawns mean to the instance.
LEMMA InstanceApply ==
    ASSUME TypeInv, NEW c \in Clients, Clients = {c}, CallerInv(c),
           ApplyRead(c) \/ ApplyTerm(c) \/ ApplyKill(c) \/ ApplyDrop(c) \/ ApplySeed(c)
             \/ ApplyDescribe(c)
    PROVE  InstanceNext
<1> USE DEF TypeInv, TypeOK, GoTo, files, mine
<1>1. CASE ApplyRead(c) \/ ApplySeed(c)
  <2>1. pc[c] # "idle" /\ UNCHANGED <<st, meta, pad>>
    BY <1>1 DEF ApplyRead, ApplySeed
  <2>2. CASE GiveUp(c)
    BY <2>1, <2>2, InstanceRaises
  <2>3. CASE ~GiveUp(c)
    BY <1>1, <2>1, <2>3, InstanceStops DEF ApplyRead, ApplySeed, Running
  <2> QED
    BY <2>2, <2>3
<1>2. CASE ApplyTerm(c)
  BY <1>2, TerminatedAreDead, InstanceStops DEF ApplyTerm
<1>3. CASE ApplyKill(c)
  BY <1>3, KilledAreDead, InstanceStops DEF ApplyKill
<1>4. CASE ApplyDrop(c)
  BY <1>4, InstanceStops DEF ApplyDrop, Running
<1>5. CASE ApplyDescribe(c)
  <2>1. /\ pc[c] = "redescribe" /\ pc'[c] = "spawn" /\ meta' = want[c]
        /\ call[c] = "apply" /\ UNCHANGED <<st, pad, call, want, result>>
    BY <1>5 DEF ApplyDescribe, CallerInv, CallInv, Planned
  <2>2. /\ recs[c] = pids /\ plan[c] \in Plans /\ (plan[c] = {"shell"} => meta = want[c])
        /\ \A k \in plan[c] : recs[c][k] = None
        /\ \A p \in Processes : Running(p) => pids[p[1]] = p[2]
    BY <2>1 DEF CallerInv, RecordsInv, PlanInv, Unrecorded, Planned
  <2>3. want[c] # meta => Instance!Kinds({p \in Processes : Running(p)}) \subseteq {"weston"}
    <3>1. ASSUME want[c] # meta, NEW p \in Processes, Running(p)
          PROVE  p[1] = "weston"
      <4>1. pids[p[1]] = p[2] /\ p[2] # None /\ p[1] \in Components
        BY <2>2, <3>1, ProcessPairs
      <4> QED
        BY <2>2, <3>1, <4>1 DEF Plans, Components
    <3> QED
      BY <3>1 DEF Instance!Kinds
  <2>4. [d \in Clients |-> IF pc[d] = "idle" THEN "none" ELSE call[d]]'
          = [d \in Clients |-> IF pc[d] = "idle" THEN "none" ELSE call[d]]
    BY <2>1
  <2> QED
    BY <2>1, <2>3, <2>4 DEF InstanceNext, Instance!Next, Instance!Describe, Instance!calls, Running
<1> QED
  BY <1>1, <1>2, <1>3, <1>4, <1>5

\* What the steps of down() mean to the instance.
LEMMA InstanceDown ==
    ASSUME TypeInv, NEW c \in Clients, Clients = {c}, CallerInv(c), CauseInv(c),
           DownRead(c) \/ DownTerm(c) \/ DownKill(c) \/ DownClear(c) \/ DownPad(c) \/ DownOrphans(c)
    PROVE  InstanceNext
<1> USE DEF TypeInv, TypeOK, GoTo, files, mine
<1>1. CASE DownRead(c) \/ DownClear(c)
  BY <1>1, InstanceStops DEF DownRead, DownClear, Running
<1>2. CASE DownTerm(c)
  BY <1>2, TerminatedAreDead, InstanceStops DEF DownTerm
<1>3. CASE DownKill(c)
  BY <1>3, KilledAreDead, InstanceStops DEF DownKill
<1>4. CASE DownPad(c)
  <2>1. /\ pc[c] = "unpad" /\ UNCHANGED <<st, meta>> /\ Quiet
        /\ call[c] \in {"up", "replace", "down", "reap"}
    BY <1>4 DEF DownPad, CallerInv, RecordsInv, CauseInv, Downward, Calls
  <2>2. CASE Return(c, "error") /\ UNCHANGED pad
    BY <2>1, <2>2, InstanceRaises DEF GiveUp
  <2>3. CASE ~pad' /\ pc'[c] # "idle" /\ UNCHANGED <<mine, result>>
    <3>1. [d \in Clients |-> IF pc[d] = "idle" THEN "none" ELSE call[d]]'
            = [d \in Clients |-> IF pc[d] = "idle" THEN "none" ELSE call[d]]
      BY <2>1, <2>3
    <3> QED
      BY <2>1, <2>3, <3>1, QuietInstance
         DEF InstanceNext, Instance!Next, Instance!LosePad, Instance!calls, Running, DownPad
  <2>4. ASSUME NEW how \in {"ok", "cleaned"}, ~pad', Return(c, how),
               how = "ok" => call[c] = "down", how = "cleaned" => call[c] \in {"up", "replace"}
        PROVE  InstanceNext
    <3>1. Instance!End(c, how)
      BY <2>1, <2>4, InstanceEnds
    <3>2. {p \in Processes : Running(p)} = {}
      BY <2>1, QuietInstance
    <3>3. pc[c] # "idle" /\ pad' = FALSE
      BY <1>4, <2>1, <2>4 DEF DownPad
    <3>4. Instance!EndDown(c)
      BY <2>1, <2>4, <3>1, <3>2, <3>3 DEF Instance!EndDown, Instance!Downs, Instance!Ups
    <3> QED
      BY <3>4 DEF InstanceNext, Instance!Next
  <2> QED
    BY <1>4, <2>1, <2>2, <2>3, <2>4 DEF DownPad
<1>5. CASE DownOrphans(c)
  <2>1. /\ pc[c] = "orphans" /\ Quiet /\ ~pad /\ call[c] = "reap" /\ Return(c, "ok")
        /\ UNCHANGED <<meta, pad>>
    BY <1>5 DEF DownOrphans, CallerInv, RecordsInv, CallInv, CauseInv
  <2>2. st' = st
    BY <1>5, <2>1 DEF DownOrphans, Killed, Quiet, Running
  <2> QED
    BY <2>1, <2>2, QuietInstance, InstanceEnds
       DEF InstanceNext, Instance!Next, Instance!EndDown, Instance!Downs
<1> QED
  BY <1>1, <1>2, <1>3, <1>4, <1>5

\* Each step of the backend is one of the instance, or none.
LEMMA InstanceStep ==
    ASSUME TypeInv, NEW c \in Clients, Clients = {c}, CallerInv(c), CauseInv(c), [Next]_vars
    PROVE  InstanceNext
<1> USE DEF TypeInv, TypeOK, GoTo, files, mine
<1>1. CASE UNCHANGED vars
  BY <1>1, InstanceStops DEF vars, Running
<1>2. ASSUME NEW p \in Processes, Starts(p) \/ Dies(p)
      PROVE  InstanceNext
  <2>1. \A q \in Processes : Running(q)' => Running(q)
    BY <1>2 DEF Starts, Dies, Running
  <2> QED
    BY <1>2, <2>1, InstanceStops DEF Starts, Dies
<1>3. CASE Call(c)
  <2>1. PICK k \in Calls : call' = [call EXCEPT ![c] = k]
    BY <1>3 DEF Call
  <2>2. PICK p \in Profiles : want' = [want EXCEPT ![c] = p]
    BY <1>3 DEF Call
  <2>3. /\ pc[c] = "idle" /\ pc'[c] # "idle" /\ UNCHANGED <<st, meta, pad>>
        /\ result' = [result EXCEPT ![c] = <<k, "none">>]
    BY <1>3, <2>1 DEF Call
  <2>4. [d \in Clients |-> IF pc[d] = "idle" THEN "none" ELSE call[d]]'
          = [[d \in Clients |-> IF pc[d] = "idle" THEN "none" ELSE call[d]] EXCEPT ![c] = k]
    BY <2>1, <2>3
  <2>5. [d \in Clients |-> result[d][2]]'
          = [[d \in Clients |-> result[d][2]] EXCEPT ![c] = "none"]
    BY <2>3
  <2>6. k \in Instance!Ups \cup Instance!Downs \cup {"apply"}
    BY DEF Calls, Instance!Ups, Instance!Downs
  <2>7. {q \in Processes : Running(q)}' = {q \in Processes : Running(q)}
    BY <2>3 DEF Running
  <2>8. Instance!Begin(c)
    <3>1. [d \in Clients |-> IF pc[d] = "idle" THEN "none" ELSE call[d]][c] = "none"
      BY <2>3
    <3> QED
      BY <2>2, <2>3, <2>4, <2>5, <2>6, <2>7, <3>1 DEF Instance!Begin
  <2> QED
    BY <2>8 DEF InstanceNext, Instance!Next
<1>4. CASE Record(c) \/ Wait(c)
  BY <1>4, InstanceStops DEF Record, Wait, Running
<1>5. CASE WaitFails(c) \/ SpawnRaises(c)
  BY <1>5, InstanceRaises DEF WaitFails, SpawnRaises
<1>6. CASE PadEnds
  <2>1. {q \in Processes : Running(q)}' = {q \in Processes : Running(q)}
    BY <1>6 DEF PadEnds, Running
  <2> QED
    BY <1>6, <2>1 DEF PadEnds, InstanceNext, Instance!Next, Instance!LosePad, Instance!calls
<1> QED
  BY <1>1, <1>2, <1>3, <1>4, <1>5, <1>6, InstanceUp, InstanceSpawn, InstanceFinal, InstanceApply,
     InstanceDown DEF Next, ClientStep

\* up(), apply() and down() implement the instance of InstanceLifecycle for one caller
\* at a time, whatever dies, hangs, resists or fails half way (desktop.py:138-343).
THEOREM InstanceImplemented ==
    ASSUME OneCaller
    PROVE  Spec => ImplementsInstance
<1>1. PICK b : Clients = {b}
  BY DEF OneCaller
<1>2. Init => CauseInv(b) /\ Instance!Init
  <2> SUFFICES ASSUME Init
               PROVE  CauseInv(b) /\ Instance!Init
    OBVIOUS
  <2>1. CauseInv(b)
    BY <1>1 DEF Init, CauseInv, Downward, Building
  <2>2. {p \in Processes : Running(p)} = {}
    BY DEF Init, Running, Processes
  <2> QED
    BY <2>1, <2>2 DEF Init, Instance!Init
<1>3. IInv /\ CauseInv(b) /\ [Next]_vars => CauseInv(b)'
  BY <1>1, CauseStep DEF IInv, CallerInv
<1>4. IInv /\ CauseInv(b) /\ [Next]_vars => [Instance!Next]_(Instance!vars)
  BY <1>1, InstanceStep DEF IInv, InstanceNext
<1> QED
  BY <1>2, <1>3, <1>4, Invariant, PTL DEF Spec, ImplementsInstance, Instance!Spec

=============================================================================
