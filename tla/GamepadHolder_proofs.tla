------------------------ MODULE GamepadHolder_proofs ------------------------
(***************************************************************************)
(* Proofs about GamepadHolder, for any sets of clients, holders and PIDs,  *)
(* and that it implements GamepadDevice.                                   *)
(*                                                                         *)
(* The inductive invariant has three parts.  Table and Locking hold        *)
(* whatever happens.  Accounting, on which OneHolder rests, holds as long  *)
(* as no client has been killed during a call: it says which files belong  *)
(* to a holder at each point of its life, and which client answers for a   *)
(* holder that has not published itself yet.                               *)
(***************************************************************************)
EXTENDS GamepadHolder, TLAPS, SequenceTheorems

-----------------------------------------------------------------------------
(* The inductive invariant.                                                *)

Starting(h) == hpc[h] \in {"init", "bind", "publish", "write"}
Published(h) == hpc[h] \in {"serve", "close", "close_state"}

\* May still touch gamepad.sock or gamepad.json.
Holding(h) == Starting(h) \/ Published(h)

StopPcs == {"quit", "quitting", "recheck", "kill", "waitdead"}

\* c has spawned child[c] and has neither returned nor stopped it.
Building(c) ==
    \/ cpc[c] \in {"poll", "polled", "access"}
    \/ cpc[c] \in StopPcs /\ cont[c] = "fail"

\* The process table and the holders agree on who has which PID.
Table ==
    /\ \A h \in Holders : hpc[h] # "free" => pidOf[h] \in Pids
    /\ \A h \in Holders : hpc[h] \notin {"free", "dead"} => occupant[pidOf[h]] = h
    /\ \A p \in Pids : occupant[p] \in Holders =>
         /\ hpc[occupant[p]] \notin {"free", "dead"}
         /\ pidOf[occupant[p]] = p

\* Every record names a process that was spawned.
Recorded ==
    /\ state \in Holders => hpc[state] # "free"
    /\ \A c \in Clients : target[c] \in Holders => hpc[target[c]] # "free"
    /\ \A c \in Clients : child[c] \in Holders => hpc[child[c]] # "free"
    /\ \A c \in Clients :
         cpc[c] \in StopPcs \cup {"asked", "access"} => target[c] \in Holders
    /\ \A c \in Clients : Building(c) => child[c] \in Holders

\* Whoever is in the body of create() or destroy() has the flock.
Locking ==
    \A c \in Clients :
        \/ cpc[c] \in StopPcs \cup {"read", "clear", "spawn", "poll", "polled", "access"}
        \/ cpc[c] \in {"check", "asked"} /\ op[c] # "status"
        => lock = c

\* What the files and the builder owe to a holder.
HolderOk(h) ==
    /\ Published(h) => state = h
    /\ Listening(h) => sock = h
    /\ hpc[h] = "bind" => sock = None
    /\ Starting(h) => \E c \in Clients : Building(c) /\ child[c] = h

\* What a client may rely on at each point of its call: an answer comes from a
\* holder that has published itself; while c builds, gamepad.json can name its
\* child only; while c stops a holder, that one only; and before c clears the
\* files or spawns, no holder is left that would touch them.
ClientOk(c) ==
    /\ answer[c] \in Holders => hpc[answer[c]] # "free" /\ ~Starting(answer[c])
    /\ cpc[c] = "access" => ~Starting(child[c])
    /\ cpc[c] = "waitdead" /\ cont[c] = "fail" => ~Starting(child[c])
    /\ Building(c) => state \in {None, Torn, child[c]}
    /\ cpc[c] = "access" \/ (cpc[c] \in StopPcs /\ cont[c] = "fail")
         => target[c] = child[c]
    /\ \/ cpc[c] \in StopPcs /\ cont[c] # "fail"
       \/ cpc[c] = "asked" /\ op[c] # "status"
       => state \in {None, target[c]}
    /\ cpc[c] \in {"clear", "spawn"} => \A h \in Holders : ~Holding(h)
    /\ cpc[c] = "spawn" => state = None

Accounting ==
    /\ \A g, h \in Holders : Holding(g) /\ Holding(h) => g = h
    /\ \A h \in Holders : HolderOk(h)
    /\ \A c \in Clients : ClientOk(c)

IInv == /\ TypeOK
        /\ Table
        /\ Recorded
        /\ Locking
        /\ crashes = 0 => Accounting

-----------------------------------------------------------------------------
(* Types.                                                                  *)

\* Sending a request appends one connection to a backlog.
LEMMA SendType ==
  ASSUME TypeOK, NEW c \in Clients, NEW kind \in Kinds, sock \in Holders, Send(c, kind)
  PROVE  /\ queue' \in [Holders -> Seq(Requests)]
         /\ answer' \in [Clients -> Holders \cup {None}]
<1>1. [from |-> c, kind |-> kind, open |-> TRUE] \in Requests
  BY DEF Requests
<1>2. Append(queue[sock], [from |-> c, kind |-> kind, open |-> TRUE]) \in Seq(Requests)
  BY <1>1, queue[sock] \in Seq(Requests) DEF TypeOK
<1>. QED
  BY <1>2 DEF Send, TypeOK

\* Hanging up closes connections and keeps their order and number.
LEMMA HangUpType ==
  ASSUME TypeOK, NEW c \in Clients, HangUp(c)
  PROVE  /\ queue' \in [Holders -> Seq(Requests)]
         /\ answer' \in [Clients -> Holders \cup {None}]
<1> DEFINE closed(r) == IF r.from = c THEN [r EXCEPT !.open = FALSE] ELSE r
<1>1. \A r \in Requests : closed(r) \in Requests
  BY DEF Requests
<1> HIDE DEF closed
<1>2. ASSUME NEW h \in Holders
      PROVE  [i \in DOMAIN queue[h] |-> closed(queue[h][i])] \in Seq(Requests)
  <2>1. queue[h] \in Seq(Requests)
    BY DEF TypeOK
  <2>2. /\ DOMAIN queue[h] = 1..Len(queue[h]) /\ Len(queue[h]) \in Nat
        /\ \A i \in DOMAIN queue[h] : queue[h][i] \in Requests
    BY <2>1
  <2>. QED
    BY <2>2, <1>1, IsASeq
<1>3. queue' = [h \in Holders |-> [i \in DOMAIN queue[h] |-> closed(queue[h][i])]]
  BY DEF HangUp, closed
<1>4. queue' \in [Holders -> Seq(Requests)]
  BY <1>2, <1>3
<1>. QED
  BY <1>4 DEF HangUp, TypeOK

\* A holder that dies leaves the process table well formed.
LEMMA DieType ==
  ASSUME TypeOK, NEW h \in Holders, Die(h)
  PROVE  /\ hpc' \in [Holders -> HolderPcs]
         /\ occupant' \in [Pids -> Holders \cup {None, Foreign}]
         /\ queue' \in [Holders -> Seq(Requests)]
         /\ UNCHANGED <<pidOf, parent>>
<1>1. <<>> \in Seq(Requests)
  OBVIOUS
<1>. QED
  BY <1>1 DEF Die, TypeOK, HolderPcs

\* A status() that is not "up" ends the call or goes on with a record.
LEMMA NotUpType ==
  ASSUME TypeOK, NEW c \in Clients, NEW result \in Outcomes,
         NEW recorded \in Holders \cup {None}, NEW alive \in BOOLEAN,
         NotUp(c, result, recorded, alive)
  PROVE  /\ outcome' \in [Clients -> Outcomes]
         /\ cpc' \in [Clients -> ClientPcs]
         /\ lock' \in Clients \cup {None}
         /\ target' \in [Clients -> Holders \cup {None}]
         /\ cont' \in [Clients -> Conts]
BY DEF NotUp, Return, GoTo, TypeOK, ClientPcs, Conts

\* A step leaves every variable in its set of values.
LEMMA TypeStep == TypeOK /\ [Next]_vars => TypeOK'
<1> SUFFICES ASSUME TypeOK, [Next]_vars PROVE TypeOK'
  OBVIOUS
<1> USE ConstantsAssumption DEF TypeOK, Ops, Conts, Waiting, Kinds, Outcomes,
        ClientPcs, HolderPcs, files, table, locals
<1>1. ASSUME NEW c \in Clients, Lock(c) PROVE TypeOK'
  BY <1>1 DEF Lock, GoTo
<1>2. ASSUME NEW c \in Clients, AskStatus(c) PROVE TypeOK'
  <2>1. Send(c, "status") /\ sock \in Holders
    BY <1>2 DEF AskStatus, Connectable
  <2>2. queue' \in [Holders -> Seq(Requests)] /\ answer' \in [Clients -> Holders \cup {None}]
    BY <2>1, SendType
  <2>. QED
    BY <1>2, <2>2 DEF AskStatus, GoTo
<1>3. ASSUME NEW c \in Clients, StatusFromFiles(c) PROVE TypeOK'
  <2>1. CASE state \in Holders
    <3>1. IdentityMatches(state) \in BOOLEAN /\ "degraded" \in Outcomes
      BY <1>3 DEF IdentityMatches
    <3>2. NotUp(c, "degraded", state, IdentityMatches(state))
      BY <1>3, <2>1 DEF StatusFromFiles
    <3>. QED
      BY <1>3, <2>1, <3>1, <3>2, NotUpType DEF StatusFromFiles
  <2>2. CASE state \notin Holders
    BY <1>3, <2>2, NotUpType DEF StatusFromFiles
  <2>. QED
    BY <2>1, <2>2
<1>4. ASSUME NEW c \in Clients, Tap(c) PROVE TypeOK'
  <2>1. CASE Connectable
    <3>1. Send(c, "tap") /\ sock \in Holders
      BY <1>4, <2>1 DEF Tap, Connectable
    <3>2. queue' \in [Holders -> Seq(Requests)] /\ answer' \in [Clients -> Holders \cup {None}]
      BY <3>1, SendType
    <3>. QED
      BY <1>4, <2>1, <3>2 DEF Tap, GoTo
  <2>2. CASE ~Connectable
    BY <1>4, <2>2 DEF Tap, Return, GoTo
  <2>. QED
    BY <2>1, <2>2
<1>5. ASSUME NEW c \in Clients, StatusAnswered(c) PROVE TypeOK'
  <2>1. CASE answer[c] = target[c]
    BY <1>5, <2>1 DEF StatusAnswered, Return, GoTo
  <2>2. CASE answer[c] # target[c]
    BY <1>5, <2>2, NotUpType DEF StatusAnswered
  <2>. QED
    BY <2>1, <2>2
<1>6. ASSUME NEW c \in Clients, PollAnswered(c) PROVE TypeOK'
  BY <1>6 DEF PollAnswered, GoTo
<1>7. ASSUME NEW c \in Clients, QuitAnswered(c) PROVE TypeOK'
  BY <1>7 DEF QuitAnswered, GoTo
<1>8. ASSUME NEW c \in Clients, TapAnswered(c) PROVE TypeOK'
  BY <1>8 DEF TapAnswered, Return, GoTo
<1>9. ASSUME NEW c \in Clients, RequestFails(c) PROVE TypeOK'
  <2>1. CASE cpc[c] = "asked"
    BY <1>9, <2>1, HangUpType, NotUpType DEF RequestFails
  <2>2. CASE cpc[c] = "polled"
    BY <1>9, <2>2, HangUpType DEF RequestFails, GoTo
  <2>3. CASE cpc[c] = "quitting"
    BY <1>9, <2>3, HangUpType DEF RequestFails, GoTo
  <2>4. CASE cpc[c] = "tapping"
    BY <1>9, <2>4, HangUpType DEF RequestFails, Return, GoTo
  <2>. QED
    BY <1>9, <2>1, <2>2, <2>3, <2>4 DEF RequestFails
<1>10. ASSUME NEW c \in Clients, StopStale(c) PROVE TypeOK'
  BY <1>10 DEF StopStale, GoTo
<1>11. ASSUME NEW c \in Clients, RequestQuit(c) PROVE TypeOK'
  <2>1. CASE Connectable
    <3>1. Send(c, "quit") /\ sock \in Holders
      BY <1>11, <2>1 DEF RequestQuit, Connectable
    <3>2. queue' \in [Holders -> Seq(Requests)] /\ answer' \in [Clients -> Holders \cup {None}]
      BY <3>1, SendType
    <3>. QED
      BY <1>11, <2>1, <3>2 DEF RequestQuit, GoTo
  <2>2. CASE ~Connectable
    BY <1>11, <2>2 DEF RequestQuit, GoTo
  <2>. QED
    BY <2>1, <2>2
<1>12. ASSUME NEW c \in Clients, Recheck(c) PROVE TypeOK'
  BY <1>12 DEF Recheck, GoTo
<1>13. ASSUME NEW c \in Clients, Kill(c) PROVE TypeOK'
  <2>1. CASE Die(occupant[pidOf[target[c]]]) /\ occupant[pidOf[target[c]]] \in Holders
    BY <1>13, <2>1, DieType DEF Kill, GoTo
  <2>2. CASE occupant[pidOf[target[c]]] = Foreign
    BY <1>13, <2>2 DEF Kill, GoTo
  <2>3. CASE UNCHANGED <<table, queue>>
    BY <1>13, <2>3 DEF Kill, GoTo
  <2>. QED
    BY <1>13, <2>1, <2>2, <2>3 DEF Kill
<1>14. ASSUME NEW c \in Clients, WaitDead(c) PROVE TypeOK'
  BY <1>14 DEF WaitDead, GoTo, Reapable
<1>15. ASSUME NEW c \in Clients, WouldNotStop(c) PROVE TypeOK'
  BY <1>15 DEF WouldNotStop, Return, GoTo
<1>16. ASSUME NEW c \in Clients, Clear(c) PROVE TypeOK'
  BY <1>16 DEF Clear, Return, GoTo
<1>17. ASSUME NEW c \in Clients, Spawn(c) PROVE TypeOK'
  BY <1>17 DEF Spawn, GoTo
<1>18. ASSUME NEW c \in Clients, Access(c) PROVE TypeOK'
  BY <1>18 DEF Access, Return, GoTo
<1>19. ASSUME NEW c \in Clients, Deadline(c) PROVE TypeOK'
  BY <1>19 DEF Deadline, GoTo
<1>20. ASSUME NEW c \in Clients, DestroyAbsent(c) PROVE TypeOK'
  BY <1>20 DEF DestroyAbsent, Return, GoTo
<1>21. ASSUME NEW c \in Clients, DestroyRecorded(c) PROVE TypeOK'
  BY <1>21 DEF DestroyRecorded, GoTo
<1>22. ASSUME NEW c \in Clients, Exit(c) PROVE TypeOK'
  BY <1>22 DEF Exit, Orphan, Forget, GoTo
<1>23. ASSUME NEW c \in Clients, Crash(c) PROVE TypeOK'
  BY <1>23, HangUpType DEF Crash, Orphan, Forget, GoTo
<1>24. ASSUME NEW c \in Clients, NEW o \in Ops, Start(c, o) PROVE TypeOK'
  BY <1>24 DEF Start, GoTo
<1>25. ASSUME NEW h \in Holders, HPrepare(h) PROVE TypeOK'
  BY <1>25 DEF HPrepare, HGoTo
<1>26. ASSUME NEW h \in Holders, HBind(h) PROVE TypeOK'
  BY <1>26 DEF HBind, HGoTo
<1>27. ASSUME NEW h \in Holders, HTruncate(h) PROVE TypeOK'
  BY <1>27 DEF HTruncate, HGoTo
<1>28. ASSUME NEW h \in Holders, HPublish(h) PROVE TypeOK'
  BY <1>28 DEF HPublish, HGoTo
<1>29. ASSUME NEW h \in Holders, HAnswer(h) PROVE TypeOK'
  <2>1. Head(queue[h]) \in Requests /\ Tail(queue[h]) \in Seq(Requests)
    BY <1>29 DEF HAnswer
  <2>2. Head(queue[h]).from \in Clients
    BY <2>1 DEF Requests
  <2>. QED
    BY <1>29, <2>1, <2>2 DEF HAnswer, HGoTo
<1>30. ASSUME NEW h \in Holders, HCloseSocket(h) PROVE TypeOK'
  BY <1>30 DEF HCloseSocket, HGoTo
<1>31. ASSUME NEW h \in Holders, HUnlinkState(h) PROVE TypeOK'
  BY <1>31 DEF HUnlinkState, HGoTo
<1>32. ASSUME NEW h \in Holders, HUnlinkFifo(h) PROVE TypeOK'
  BY <1>32, DieType DEF HUnlinkFifo
<1>33. ASSUME NEW h \in Holders, HKilled(h) PROVE TypeOK'
  BY <1>33, DieType DEF HKilled
<1>34. ASSUME NEW p \in Pids, Recycle(p) PROVE TypeOK'
  BY <1>34 DEF Recycle
<1>35. ASSUME NEW p \in Pids, ForeignExit(p) PROVE TypeOK'
  BY <1>35 DEF ForeignExit
<1>36. CASE UNCHANGED vars
  BY <1>36 DEF vars
<1>. QED
  BY <1>1, <1>2, <1>3, <1>4, <1>5, <1>6, <1>7, <1>8, <1>9, <1>10, <1>11, <1>12, <1>13, <1>14, <1>15, <1>16, <1>17, <1>18, <1>19, <1>20, <1>21, <1>22, <1>23, <1>24, <1>25, <1>26, <1>27, <1>28, <1>29, <1>30, <1>31, <1>32, <1>33, <1>34, <1>35, <1>36 DEF Next, ClientStep, HolderStep

-----------------------------------------------------------------------------
(* The process table, the records and the lock.                            *)

\* Spawns, deaths, reaping and foreign processes keep the process table and the
\* holders in agreement.
LEMMA TableStep == TypeOK /\ Table /\ Recorded /\ [Next]_vars => Table'
<1> SUFFICES ASSUME TypeOK, Table, Recorded, [Next]_vars PROVE Table'
  OBVIOUS
<1> USE ConstantsAssumption DEF TypeOK, Table, files, table
<1>1. ASSUME NEW c \in Clients, Lock(c) PROVE Table'
  BY <1>1 DEF Lock
<1>2. ASSUME NEW c \in Clients, AskStatus(c) PROVE Table'
  BY <1>2 DEF AskStatus
<1>3. ASSUME NEW c \in Clients, StatusFromFiles(c) PROVE Table'
  BY <1>3 DEF StatusFromFiles
<1>4. ASSUME NEW c \in Clients, Tap(c) PROVE Table'
  BY <1>4 DEF Tap
<1>5. ASSUME NEW c \in Clients, StatusAnswered(c) PROVE Table'
  BY <1>5 DEF StatusAnswered
<1>6. ASSUME NEW c \in Clients, PollAnswered(c) PROVE Table'
  BY <1>6 DEF PollAnswered
<1>7. ASSUME NEW c \in Clients, QuitAnswered(c) PROVE Table'
  BY <1>7 DEF QuitAnswered
<1>8. ASSUME NEW c \in Clients, TapAnswered(c) PROVE Table'
  BY <1>8 DEF TapAnswered
<1>9. ASSUME NEW c \in Clients, RequestFails(c) PROVE Table'
  BY <1>9 DEF RequestFails
<1>10. ASSUME NEW c \in Clients, StopStale(c) PROVE Table'
  BY <1>10 DEF StopStale
<1>11. ASSUME NEW c \in Clients, RequestQuit(c) PROVE Table'
  BY <1>11 DEF RequestQuit
<1>12. ASSUME NEW c \in Clients, Recheck(c) PROVE Table'
  BY <1>12 DEF Recheck
<1>13. ASSUME NEW c \in Clients, Kill(c) PROVE Table'
  <2> DEFINE victim == occupant[pidOf[target[c]]]
  <2>1. CASE victim \in Holders /\ Running(victim) /\ Die(victim)
    BY <2>1 DEF Die, Running
  <2>2. CASE victim = Foreign /\ occupant' = [occupant EXCEPT ![pidOf[target[c]]] = None]
                            /\ UNCHANGED <<hpc, pidOf, parent, queue>>
    BY <2>2
  <2>3. CASE UNCHANGED table
    BY <2>3
  <2>. QED
    BY <1>13, <2>1, <2>2, <2>3 DEF Kill
<1>14. ASSUME NEW c \in Clients, WaitDead(c) PROVE Table'
  <2>1. target[c] \in Holders
    BY <1>14 DEF WaitDead, Recorded, StopPcs
  <2>2. CASE UNCHANGED table
    BY <2>2
  <2>3. CASE Reapable(c) /\ ~UNCHANGED table
    <3>1. /\ hpc[target[c]] = "zombie"
          /\ hpc' = [hpc EXCEPT ![target[c]] = "dead"]
          /\ occupant' = [occupant EXCEPT ![pidOf[target[c]]] = None]
          /\ UNCHANGED pidOf
      BY <1>14, <2>3 DEF WaitDead, Reapable
    <3>. QED
      BY <2>1, <3>1
  <2>. QED
    BY <1>14, <2>2, <2>3 DEF WaitDead
<1>15. ASSUME NEW c \in Clients, WouldNotStop(c) PROVE Table'
  BY <1>15 DEF WouldNotStop
<1>16. ASSUME NEW c \in Clients, Clear(c) PROVE Table'
  BY <1>16 DEF Clear
<1>17. ASSUME NEW c \in Clients, Spawn(c) PROVE Table'
  BY <1>17 DEF Spawn
<1>18. ASSUME NEW c \in Clients, Access(c) PROVE Table'
  BY <1>18 DEF Access
<1>19. ASSUME NEW c \in Clients, Deadline(c) PROVE Table'
  BY <1>19 DEF Deadline
<1>20. ASSUME NEW c \in Clients, DestroyAbsent(c) PROVE Table'
  BY <1>20 DEF DestroyAbsent
<1>21. ASSUME NEW c \in Clients, DestroyRecorded(c) PROVE Table'
  BY <1>21 DEF DestroyRecorded
<1>22. ASSUME NEW c \in Clients, Exit(c) PROVE Table'
  BY <1>22 DEF Exit, Orphan
<1>23. ASSUME NEW c \in Clients, Crash(c) PROVE Table'
  BY <1>23 DEF Crash, Orphan
<1>24. ASSUME NEW c \in Clients, NEW o \in Ops, Start(c, o) PROVE Table'
  BY <1>24 DEF Start
<1>25. ASSUME NEW h \in Holders, HPrepare(h) PROVE Table'
  BY <1>25 DEF HPrepare, HGoTo
<1>26. ASSUME NEW h \in Holders, HBind(h) PROVE Table'
  BY <1>26 DEF HBind, HGoTo
<1>27. ASSUME NEW h \in Holders, HTruncate(h) PROVE Table'
  BY <1>27 DEF HTruncate, HGoTo
<1>28. ASSUME NEW h \in Holders, HPublish(h) PROVE Table'
  BY <1>28 DEF HPublish, HGoTo
<1>29. ASSUME NEW h \in Holders, HAnswer(h) PROVE Table'
  BY <1>29 DEF HAnswer, HGoTo
<1>30. ASSUME NEW h \in Holders, HCloseSocket(h) PROVE Table'
  BY <1>30 DEF HCloseSocket, HGoTo
<1>31. ASSUME NEW h \in Holders, HUnlinkState(h) PROVE Table'
  BY <1>31 DEF HUnlinkState, HGoTo
<1>32. ASSUME NEW h \in Holders, HUnlinkFifo(h) PROVE Table'
  BY <1>32 DEF HUnlinkFifo, Die
<1>33. ASSUME NEW h \in Holders, HKilled(h) PROVE Table'
  BY <1>33 DEF HKilled, Die, Running
<1>34. ASSUME NEW p \in Pids, Recycle(p) PROVE Table'
  BY <1>34 DEF Recycle
<1>35. ASSUME NEW p \in Pids, ForeignExit(p) PROVE Table'
  BY <1>35 DEF ForeignExit
<1>36. CASE UNCHANGED vars
  BY <1>36 DEF vars
<1>. QED
  BY <1>1, <1>2, <1>3, <1>4, <1>5, <1>6, <1>7, <1>8, <1>9, <1>10, <1>11, <1>12, <1>13, <1>14, <1>15, <1>16, <1>17, <1>18, <1>19, <1>20, <1>21, <1>22, <1>23, <1>24, <1>25, <1>26, <1>27, <1>28, <1>29, <1>30, <1>31, <1>32, <1>33, <1>34, <1>35, <1>36 DEF Next, ClientStep, HolderStep

\* What a client read from gamepad.json or spawned stays a spawned process.
LEMMA RecordedStep == TypeOK /\ Table /\ Recorded /\ [Next]_vars => Recorded'
<1> SUFFICES ASSUME TypeOK, Table, Recorded, [Next]_vars PROVE Recorded'
  OBVIOUS
<1> USE ConstantsAssumption DEF TypeOK, Recorded, Building, StopPcs, files, table, locals
<1>1. ASSUME NEW c \in Clients, Lock(c) PROVE Recorded'
  BY <1>1 DEF Lock, GoTo
<1>2. ASSUME NEW c \in Clients, AskStatus(c) PROVE Recorded'
  BY <1>2 DEF AskStatus, Send, GoTo
<1>3. ASSUME NEW c \in Clients, StatusFromFiles(c) PROVE Recorded'
  <2>1. CASE op[c] = "status"
    BY <1>3, <2>1 DEF StatusFromFiles, NotUp, Return, GoTo
  <2>2. CASE op[c] # "status"
    <3>1. /\ cpc' = [cpc EXCEPT ![c] = IF state \in Holders /\ IdentityMatches(state)
                                       THEN "quit" ELSE "clear"]
          /\ target' = [target EXCEPT ![c] = IF state \in Holders THEN state ELSE None]
          /\ cont' = [cont EXCEPT ![c] = "replace"]
          /\ UNCHANGED <<hpc, state, child>>
      BY <1>3, <2>2 DEF StatusFromFiles, NotUp, GoTo
    <3>. QED
      BY <3>1
  <2>. QED
    BY <2>1, <2>2
<1>4. ASSUME NEW c \in Clients, Tap(c) PROVE Recorded'
  BY <1>4 DEF Tap, Send, Return, GoTo
<1>5. ASSUME NEW c \in Clients, StatusAnswered(c) PROVE Recorded'
  <2>1. CASE answer[c] = target[c]
    BY <1>5, <2>1 DEF StatusAnswered, Return, GoTo
  <2>2. CASE answer[c] # target[c] /\ op[c] = "status"
    BY <1>5, <2>2 DEF StatusAnswered, NotUp, Return, GoTo
  <2>3. CASE answer[c] # target[c] /\ op[c] # "status"
    <3>1. /\ cpc[c] = "asked" /\ cpc' = [cpc EXCEPT ![c] = "quit"]
          /\ target' = [target EXCEPT ![c] = target[c]] /\ cont' = [cont EXCEPT ![c] = "replace"]
          /\ UNCHANGED <<hpc, state, child>>
      BY <1>5, <2>3 DEF StatusAnswered, NotUp, GoTo
    <3>. QED
      BY <3>1
  <2>. QED
    BY <2>1, <2>2, <2>3
<1>6. ASSUME NEW c \in Clients, PollAnswered(c) PROVE Recorded'
  BY <1>6 DEF PollAnswered, GoTo
<1>7. ASSUME NEW c \in Clients, QuitAnswered(c) PROVE Recorded'
  BY <1>7 DEF QuitAnswered, GoTo
<1>8. ASSUME NEW c \in Clients, TapAnswered(c) PROVE Recorded'
  BY <1>8 DEF TapAnswered, Return, GoTo
<1>9. ASSUME NEW c \in Clients, RequestFails(c) PROVE Recorded'
  <2>1. CASE cpc[c] = "asked" /\ op[c] = "status"
    BY <1>9, <2>1 DEF RequestFails, NotUp, Return, GoTo
  <2>2. CASE cpc[c] = "asked" /\ op[c] # "status"
    <3>1. /\ cpc[c] = "asked" /\ cpc' = [cpc EXCEPT ![c] = "quit"]
          /\ target' = [target EXCEPT ![c] = target[c]] /\ cont' = [cont EXCEPT ![c] = "replace"]
          /\ UNCHANGED <<hpc, state, child>>
      BY <1>9, <2>2 DEF RequestFails, NotUp, GoTo
    <3>. QED
      BY <3>1
  <2>3. CASE cpc[c] \in {"polled", "quitting"}
    <3>1. /\ cpc' = [cpc EXCEPT ![c] = IF cpc[c] = "polled" THEN "poll" ELSE "recheck"]
          /\ UNCHANGED <<hpc, state, target, child, cont>>
      BY <1>9, <2>3 DEF RequestFails, GoTo
    <3>. QED
      BY <2>3, <3>1
  <2>4. CASE cpc[c] = "tapping"
    BY <1>9, <2>4 DEF RequestFails, Return, GoTo
  <2>. QED
    BY <1>9, <2>1, <2>2, <2>3, <2>4 DEF RequestFails, Waiting
<1>10. ASSUME NEW c \in Clients, StopStale(c) PROVE Recorded'
  BY <1>10 DEF StopStale, GoTo
<1>11. ASSUME NEW c \in Clients, RequestQuit(c) PROVE Recorded'
  BY <1>11 DEF RequestQuit, Send, GoTo
<1>12. ASSUME NEW c \in Clients, Recheck(c) PROVE Recorded'
  BY <1>12 DEF Recheck, GoTo
<1>13. ASSUME NEW c \in Clients, Kill(c) PROVE Recorded'
  BY <1>13 DEF Kill, Die, GoTo, Running
<1>14. ASSUME NEW c \in Clients, WaitDead(c) PROVE Recorded'
  BY <1>14 DEF WaitDead, GoTo, Table
<1>15. ASSUME NEW c \in Clients, WouldNotStop(c) PROVE Recorded'
  BY <1>15 DEF WouldNotStop, Return, GoTo
<1>16. ASSUME NEW c \in Clients, Clear(c) PROVE Recorded'
  BY <1>16 DEF Clear, Return, GoTo
<1>17. ASSUME NEW c \in Clients, Spawn(c) PROVE Recorded'
  BY <1>17 DEF Spawn, GoTo
<1>18. ASSUME NEW c \in Clients, Access(c) PROVE Recorded'
  <2>1. CASE node
    BY <1>18, <2>1 DEF Access, Return, GoTo
  <2>2. CASE ~node
    BY <1>18, <2>2 DEF Access, GoTo
  <2>. QED
    BY <2>1, <2>2
<1>19. ASSUME NEW c \in Clients, Deadline(c) PROVE Recorded'
  BY <1>19 DEF Deadline, GoTo
<1>20. ASSUME NEW c \in Clients, DestroyAbsent(c) PROVE Recorded'
  BY <1>20 DEF DestroyAbsent, Return, GoTo
<1>21. ASSUME NEW c \in Clients, DestroyRecorded(c) PROVE Recorded'
  BY <1>21 DEF DestroyRecorded, GoTo
<1>22. ASSUME NEW c \in Clients, Exit(c) PROVE Recorded'
  BY <1>22 DEF Exit, Orphan, Forget, GoTo
<1>23. ASSUME NEW c \in Clients, Crash(c) PROVE Recorded'
  BY <1>23 DEF Crash, Orphan, HangUp, Forget, GoTo
<1>24. ASSUME NEW c \in Clients, NEW o \in Ops, Start(c, o) PROVE Recorded'
  BY <1>24 DEF Start, GoTo
<1>25. ASSUME NEW h \in Holders, HPrepare(h) PROVE Recorded'
  BY <1>25 DEF HPrepare, HGoTo
<1>26. ASSUME NEW h \in Holders, HBind(h) PROVE Recorded'
  BY <1>26 DEF HBind, HGoTo
<1>27. ASSUME NEW h \in Holders, HTruncate(h) PROVE Recorded'
  BY <1>27 DEF HTruncate, HGoTo
<1>28. ASSUME NEW h \in Holders, HPublish(h) PROVE Recorded'
  BY <1>28 DEF HPublish, HGoTo
<1>29. ASSUME NEW h \in Holders, HAnswer(h) PROVE Recorded'
  BY <1>29 DEF HAnswer, HGoTo
<1>30. ASSUME NEW h \in Holders, HCloseSocket(h) PROVE Recorded'
  BY <1>30 DEF HCloseSocket, HGoTo
<1>31. ASSUME NEW h \in Holders, HUnlinkState(h) PROVE Recorded'
  BY <1>31 DEF HUnlinkState, HGoTo
<1>32. ASSUME NEW h \in Holders, HUnlinkFifo(h) PROVE Recorded'
  BY <1>32 DEF HUnlinkFifo, Die
<1>33. ASSUME NEW h \in Holders, HKilled(h) PROVE Recorded'
  BY <1>33 DEF HKilled, Die, Running
<1>34. ASSUME NEW p \in Pids, Recycle(p) PROVE Recorded'
  BY <1>34 DEF Recycle
<1>35. ASSUME NEW p \in Pids, ForeignExit(p) PROVE Recorded'
  BY <1>35 DEF ForeignExit
<1>36. CASE UNCHANGED vars
  BY <1>36 DEF vars
<1>. QED
  BY <1>1, <1>2, <1>3, <1>4, <1>5, <1>6, <1>7, <1>8, <1>9, <1>10, <1>11, <1>12, <1>13, <1>14, <1>15, <1>16, <1>17, <1>18, <1>19, <1>20, <1>21, <1>22, <1>23, <1>24, <1>25, <1>26, <1>27, <1>28, <1>29, <1>30, <1>31, <1>32, <1>33, <1>34, <1>35, <1>36 DEF Next, ClientStep, HolderStep

\* The flock is held throughout the bodies of create() and destroy().
LEMMA LockingStep == TypeOK /\ Locking /\ [Next]_vars => Locking'
<1> SUFFICES ASSUME TypeOK, Locking, [Next]_vars PROVE Locking'
  OBVIOUS
<1> USE ConstantsAssumption DEF TypeOK, Locking, StopPcs, locals
<1>1. ASSUME NEW c \in Clients, Lock(c) PROVE Locking'
  BY <1>1 DEF Lock, GoTo
<1>2. ASSUME NEW c \in Clients, AskStatus(c) PROVE Locking'
  BY <1>2 DEF AskStatus, GoTo
<1>3. ASSUME NEW c \in Clients, StatusFromFiles(c) PROVE Locking'
  BY <1>3 DEF StatusFromFiles, NotUp, Return, GoTo
<1>4. ASSUME NEW c \in Clients, Tap(c) PROVE Locking'
  BY <1>4 DEF Tap, Return, GoTo
<1>5. ASSUME NEW c \in Clients, StatusAnswered(c) PROVE Locking'
  <2>1. CASE answer[c] = target[c]
    BY SMTT(60), <1>5, <2>1 DEF StatusAnswered, Return, GoTo
  <2>2. CASE answer[c] # target[c] /\ op[c] = "status"
    BY SMTT(60), <1>5, <2>2 DEF StatusAnswered, NotUp, Return, GoTo
  <2>3. CASE answer[c] # target[c] /\ op[c] # "status"
    BY <1>5, <2>3 DEF StatusAnswered, NotUp, GoTo
  <2>. QED
    BY <2>1, <2>2, <2>3
<1>6. ASSUME NEW c \in Clients, PollAnswered(c) PROVE Locking'
  BY <1>6 DEF PollAnswered, GoTo
<1>7. ASSUME NEW c \in Clients, QuitAnswered(c) PROVE Locking'
  BY <1>7 DEF QuitAnswered, GoTo
<1>8. ASSUME NEW c \in Clients, TapAnswered(c) PROVE Locking'
  BY <1>8 DEF TapAnswered, Return, GoTo
<1>9. ASSUME NEW c \in Clients, RequestFails(c) PROVE Locking'
  <2>1. CASE cpc[c] = "asked" /\ op[c] = "status"
    BY <1>9, <2>1 DEF RequestFails, NotUp, Return, GoTo
  <2>2. CASE cpc[c] = "asked" /\ op[c] # "status"
    BY <1>9, <2>2 DEF RequestFails, NotUp, GoTo
  <2>3. CASE cpc[c] \in {"polled", "quitting"}
    BY <1>9, <2>3 DEF RequestFails, GoTo
  <2>4. CASE cpc[c] = "tapping"
    BY <1>9, <2>4 DEF RequestFails, Return, GoTo
  <2>. QED
    BY <1>9, <2>1, <2>2, <2>3, <2>4 DEF RequestFails, Waiting
<1>10. ASSUME NEW c \in Clients, StopStale(c) PROVE Locking'
  BY <1>10 DEF StopStale, GoTo
<1>11. ASSUME NEW c \in Clients, RequestQuit(c) PROVE Locking'
  BY <1>11 DEF RequestQuit, GoTo
<1>12. ASSUME NEW c \in Clients, Recheck(c) PROVE Locking'
  BY <1>12 DEF Recheck, GoTo
<1>13. ASSUME NEW c \in Clients, Kill(c) PROVE Locking'
  BY <1>13 DEF Kill, GoTo
<1>14. ASSUME NEW c \in Clients, WaitDead(c) PROVE Locking'
  BY <1>14 DEF WaitDead, GoTo
<1>15. ASSUME NEW c \in Clients, WouldNotStop(c) PROVE Locking'
  BY <1>15 DEF WouldNotStop, Return, GoTo
<1>16. ASSUME NEW c \in Clients, Clear(c) PROVE Locking'
  BY <1>16 DEF Clear, Return, GoTo
<1>17. ASSUME NEW c \in Clients, Spawn(c) PROVE Locking'
  BY <1>17 DEF Spawn, GoTo
<1>18. ASSUME NEW c \in Clients, Access(c) PROVE Locking'
  <2>1. CASE node
    BY <1>18, <2>1 DEF Access, Return, GoTo
  <2>2. CASE ~node
    BY <1>18, <2>2 DEF Access, GoTo
  <2>. QED
    BY <2>1, <2>2
<1>19. ASSUME NEW c \in Clients, Deadline(c) PROVE Locking'
  BY <1>19 DEF Deadline, GoTo
<1>20. ASSUME NEW c \in Clients, DestroyAbsent(c) PROVE Locking'
  BY <1>20 DEF DestroyAbsent, Return, GoTo
<1>21. ASSUME NEW c \in Clients, DestroyRecorded(c) PROVE Locking'
  BY <1>21 DEF DestroyRecorded, GoTo
<1>22. ASSUME NEW c \in Clients, Exit(c) PROVE Locking'
  BY <1>22 DEF Exit, Forget, GoTo
<1>23. ASSUME NEW c \in Clients, Crash(c) PROVE Locking'
  BY <1>23 DEF Crash, Forget, GoTo
<1>24. ASSUME NEW c \in Clients, NEW o \in Ops, Start(c, o) PROVE Locking'
  BY <1>24 DEF Start, GoTo
<1>25. ASSUME NEW h \in Holders, HPrepare(h) PROVE Locking'
  BY <1>25 DEF HPrepare
<1>26. ASSUME NEW h \in Holders, HBind(h) PROVE Locking'
  BY <1>26 DEF HBind
<1>27. ASSUME NEW h \in Holders, HTruncate(h) PROVE Locking'
  BY <1>27 DEF HTruncate
<1>28. ASSUME NEW h \in Holders, HPublish(h) PROVE Locking'
  BY <1>28 DEF HPublish
<1>29. ASSUME NEW h \in Holders, HAnswer(h) PROVE Locking'
  BY <1>29 DEF HAnswer
<1>30. ASSUME NEW h \in Holders, HCloseSocket(h) PROVE Locking'
  BY <1>30 DEF HCloseSocket
<1>31. ASSUME NEW h \in Holders, HUnlinkState(h) PROVE Locking'
  BY <1>31 DEF HUnlinkState
<1>32. ASSUME NEW h \in Holders, HUnlinkFifo(h) PROVE Locking'
  BY <1>32 DEF HUnlinkFifo
<1>33. ASSUME NEW h \in Holders, HKilled(h) PROVE Locking'
  BY <1>33 DEF HKilled
<1>34. ASSUME NEW p \in Pids, Recycle(p) PROVE Locking'
  BY <1>34 DEF Recycle
<1>35. ASSUME NEW p \in Pids, ForeignExit(p) PROVE Locking'
  BY <1>35 DEF ForeignExit
<1>36. CASE UNCHANGED vars
  BY <1>36 DEF vars
<1>. QED
  BY <1>1, <1>2, <1>3, <1>4, <1>5, <1>6, <1>7, <1>8, <1>9, <1>10, <1>11, <1>12, <1>13, <1>14, <1>15, <1>16, <1>17, <1>18, <1>19, <1>20, <1>21, <1>22, <1>23, <1>24, <1>25, <1>26, <1>27, <1>28, <1>29, <1>30, <1>31, <1>32, <1>33, <1>34, <1>35, <1>36 DEF Next, ClientStep, HolderStep

-----------------------------------------------------------------------------
(* While no client has been killed during a call.                          *)

\* A holder that has not published itself has a client that polls for it or
\* stops it, and that client has the flock.
LEMMA NoBuilderNoStart ==
  ASSUME Locking, Accounting, NEW c \in Clients, lock = c, ~Building(c)
  PROVE  \A h \in Holders : ~Starting(h)
BY DEF Locking, Accounting, HolderOk, Building, StopPcs

\* Once the holder that is being stopped no longer touches the files, no holder
\* does: this is what lets a caller unlink them and spawn another.
LEMMA StoppedTarget ==
  ASSUME TypeOK, ConstantsAssumption, Locking, Accounting,
         NEW c \in Clients, cpc[c] \in StopPcs, target[c] \in Holders,
         ~Holding(target[c])
  PROVE  \A h \in Holders : ~Holding(h)
<1> SUFFICES ASSUME NEW h \in Holders, Holding(h) PROVE FALSE
  OBVIOUS
<1>1. lock = c
  BY DEF Locking, StopPcs
<1>2. ClientOk(c) /\ HolderOk(h)
  BY DEF Accounting
<1>3. CASE cont[c] = "fail"
  <2>1. child[c] = target[c] /\ state \in {None, Torn, child[c]}
    BY <1>2, <1>3 DEF ClientOk, Building
  <2>2. ASSUME Starting(h) PROVE h = child[c]
    BY <1>1, <1>2, <2>2 DEF HolderOk, Locking, Building, StopPcs
  <2>3. ASSUME Published(h) PROVE h = child[c]
    BY <1>2, <2>1, <2>3, ConstantsAssumption DEF HolderOk
  <2>. QED
    BY <2>1, <2>2, <2>3 DEF Holding
<1>4. CASE cont[c] # "fail"
  <2>1. ~Building(c)
    BY <1>4 DEF Building, StopPcs
  <2>2. ~Starting(h)
    BY <1>1, <2>1, NoBuilderNoStart
  <2>3. Published(h)
    BY <2>2 DEF Holding
  <2>. QED
    BY <1>2, <1>4, <2>3, ConstantsAssumption DEF ClientOk, HolderOk
<1>. QED
  BY <1>3, <1>4

OthersKeep(c) ==
  \A d \in Clients \ {c} :
    /\ cpc'[d] = cpc[d] /\ cont'[d] = cont[d] /\ target'[d] = target[d]
    /\ child'[d] = child[d] /\ answer'[d] = answer[d] /\ op'[d] = op[d]

\* c goes on answering for a holder that has not published itself.
StaysBuilder(c) ==
  Building(c) /\ Starting(child[c]) => Building(c)' /\ child'[c] = child[c]

\* No holder does anything but die or be reaped.
OnlyDeaths ==
  \A h \in Holders : \/ hpc'[h] = hpc[h]
                     \/ hpc[h] # "free" /\ hpc'[h] \in {"zombie", "dead"}

\* A client that leaves the files alone has to account for itself only.
LEMMA ClientMove ==
  ASSUME Recorded, Accounting, NEW c \in Clients, OthersKeep(c), OnlyDeaths,
         UNCHANGED <<state, sock>>, StaysBuilder(c), ClientOk(c)'
  PROVE  Accounting'
<1>1. ASSUME NEW h \in Holders PROVE HolderOk(h)'
  <2>1. HolderOk(h)
    BY DEF Accounting
  <2>2. ASSUME Starting(h)' PROVE \E d \in Clients : Building(d)' /\ child'[d] = h
    <3>1. Starting(h)
      BY <2>2 DEF Starting, OnlyDeaths
    <3>2. PICK d \in Clients : Building(d) /\ child[d] = h
      BY <2>1, <3>1 DEF HolderOk
    <3>3. CASE d = c
      BY <3>1, <3>2, <3>3 DEF StaysBuilder
    <3>4. CASE d # c
      BY <3>2, <3>4 DEF OthersKeep, Building
    <3>. QED
      BY <3>3, <3>4
  <2>. QED
    BY <2>1, <2>2 DEF HolderOk, Published, Listening, Starting, OnlyDeaths
<1>2. ASSUME NEW d \in Clients, d # c PROVE ClientOk(d)'
  <2>1. ClientOk(d)
    BY DEF Accounting
  <2>. QED
    <3>1. \A g \in Holders : (Holding(g)' => Holding(g)) /\ (Starting(g)' => Starting(g))
      BY DEF Holding, Starting, Published, OnlyDeaths
    <3>2. Building(d)' = Building(d)
      BY <1>2 DEF OthersKeep, Building
    <3>3. \A g \in Holders : hpc[g] # "free" => hpc'[g] # "free"
      BY DEF OnlyDeaths
    <3>4. Building(d) /\ ~Starting(child[d]) => ~Starting(child[d])'
      BY <1>2 DEF Recorded, OthersKeep, Starting, OnlyDeaths
    <3>5. answer[d] \in Holders /\ ~Starting(answer[d]) => ~Starting(answer[d])'
      BY <1>2 DEF OthersKeep, Starting, OnlyDeaths
    <3>6. cpc[d] = "access" \/ (cpc[d] = "waitdead" /\ cont[d] = "fail") => Building(d)
      BY DEF Building, StopPcs
    <3>. QED
      BY <1>2, <2>1, <3>1, <3>2, <3>3, <3>4, <3>5, <3>6 DEF OthersKeep, ClientOk
<1>. QED
  BY <1>1, <1>2 DEF Accounting, Holding, Starting, Published, OnlyDeaths

\* A holder's own steps: it may touch the files only while it is the one holder
\* that does, and it writes gamepad.json only while its builder waits for it.
LEMMA HolderMove ==
  ASSUME ConstantsAssumption, Recorded, Locking, Accounting, NEW h \in Holders,
         \A g \in Holders \ {h} : hpc'[g] = hpc[g],
         UNCHANGED <<cpc, op, cont, target, child>>,
         hpc'[h] # "free", Holding(h)' => Holding(h), Starting(h)' => Starting(h),
         Holding(h) \/ UNCHANGED <<state, sock>>,
         state' \in {state, None} \/ (Starting(h) /\ state' \in {Torn, h}),
         \A c \in Clients : answer'[c] = answer[c] \/ (answer'[c] = h /\ ~Starting(h)'),
         HolderOk(h)'
  PROVE  Accounting'
<1>1. \A g \in Holders : (Holding(g)' => Holding(g)) /\ (Starting(g)' => Starting(g))
  BY DEF Holding, Starting, Published
<1>2. ASSUME NEW g \in Holders, g # h PROVE HolderOk(g)'
  <2>1. CASE Holding(g)
    <3>1. ~Holding(h)
      BY <1>2, <2>1 DEF Accounting
    <3>2. HolderOk(g)
      BY DEF Accounting
    <3>. QED
      BY <1>2, <3>1, <3>2 DEF HolderOk, Published, Listening, Starting, Building
  <2>2. CASE ~Holding(g)
    BY <1>1, <2>2 DEF HolderOk, Holding, Published, Listening, Starting
  <2>. QED
    BY <2>1, <2>2
<1>3. ASSUME NEW c \in Clients PROVE ClientOk(c)'
  <2>1. ClientOk(c) /\ HolderOk(h)
    BY DEF Accounting
  <2>2. Building(c)' = Building(c)
    BY DEF Building
  <2>3. ASSUME \/ cpc[c] \in StopPcs \cup {"poll", "polled", "access", "spawn"}
               \/ cpc[c] = "asked" /\ op[c] # "status",
               state' # state, state' # None
        PROVE  Building(c) /\ child[c] = h
    <3>1. PICK d \in Clients : Building(d) /\ child[d] = h
      BY <2>1, <2>3 DEF HolderOk
    <3>2. lock = d /\ lock = c
      BY <2>3, <3>1 DEF Locking, Building, StopPcs
    <3>. QED
      BY <3>1, <3>2
  <2>4. Building(c) => state' \in {None, Torn, child[c]}
    BY <2>1, <2>3 DEF ClientOk, Building
  <2>5. \/ cpc[c] \in StopPcs /\ cont[c] # "fail"
        \/ cpc[c] = "asked" /\ op[c] # "status"
        => state' \in {None, target[c]}
    BY <2>1, <2>3 DEF ClientOk, Building, StopPcs
  <2>6. cpc[c] = "spawn" => state' = None
    BY <2>1, <2>3 DEF ClientOk, Building, StopPcs
  <2>7. answer'[c] \in Holders => hpc'[answer'[c]] # "free" /\ ~Starting(answer[c])'
    BY <1>1, <2>1 DEF ClientOk, Starting
  <2>8. Building(c) => child[c] \in Holders
    BY DEF Recorded
  <2>9. Building(c) /\ ~Starting(child[c]) => ~Starting(child[c])'
    BY <1>1, <2>8 DEF Starting
  <2>10. cpc[c] = "access" \/ (cpc[c] = "waitdead" /\ cont[c] = "fail") => Building(c)
    BY DEF Building, StopPcs
  <2>. QED
    BY <1>1, <2>1, <2>2, <2>4, <2>5, <2>6, <2>7, <2>9, <2>10 DEF ClientOk
<1>. QED
  BY <1>1, <1>2, <1>3 DEF Accounting

\* Files, builders and holders stay accounted for.
LEMMA AccountingStep ==
  ASSUME TypeOK, Table, Recorded, Locking, Accounting, [Next]_vars, crashes' = 0
  PROVE  Accounting'
<1> USE ConstantsAssumption DEF TypeOK, OthersKeep, StaysBuilder, Building, Starting,
        Published, Listening, StopPcs, files, table, locals
<1>1. ASSUME NEW c \in Clients, Lock(c) PROVE Accounting'
  <2>1. OthersKeep(c) /\ OnlyDeaths /\ UNCHANGED <<hpc, state, sock>>
    BY <1>1 DEF OnlyDeaths, Lock, GoTo
  <2>2. StaysBuilder(c) /\ ClientOk(c)'
    BY <1>1, <2>1 DEF Accounting, ClientOk, Holding, Lock, GoTo
  <2>. QED
    BY <2>1, <2>2, ClientMove DEF OnlyDeaths
<1>2. ASSUME NEW c \in Clients, AskStatus(c) PROVE Accounting'
  <2>1. OthersKeep(c) /\ OnlyDeaths /\ UNCHANGED <<hpc, state, sock>>
    BY <1>2 DEF OnlyDeaths, AskStatus, Send, GoTo
  <2>2. StaysBuilder(c) /\ ClientOk(c)'
    BY <1>2, <2>1 DEF Accounting, ClientOk, Holding, AskStatus, Send, GoTo
  <2>. QED
    BY <2>1, <2>2, ClientMove DEF OnlyDeaths
<1>3. ASSUME NEW c \in Clients, StatusFromFiles(c) PROVE Accounting'
  <2>1. OthersKeep(c) /\ OnlyDeaths /\ UNCHANGED <<hpc, state, sock>>
    BY <1>3 DEF OnlyDeaths, StatusFromFiles, NotUp, Return, GoTo
  <2>2. StaysBuilder(c) /\ ClientOk(c)'
    <3>1. ClientOk(c) /\ (op[c] # "status" => lock = c)
      BY <1>3 DEF StatusFromFiles, Accounting, Locking
    <3>2. ASSUME lock = c, ~(state \in Holders /\ IdentityMatches(state))
          PROVE  \A h \in Holders : ~Holding(h)
      <4>1. \A h \in Holders : ~Starting(h)
        BY <1>3, <3>2, NoBuilderNoStart DEF StatusFromFiles
      <4>2. \A h \in Holders : ~Published(h)
        BY <3>2 DEF Accounting, HolderOk, Table, IdentityMatches
      <4>. QED
        BY <4>1, <4>2 DEF Holding
    <3>3. CASE op[c] = "status"
      BY <1>3, <2>1, <3>1, <3>3 DEF StatusFromFiles, NotUp, Return, GoTo, ClientOk
    <3>4. CASE op[c] # "status" /\ state \in Holders /\ IdentityMatches(state)
      BY <1>3, <2>1, <3>1, <3>4 DEF StatusFromFiles, NotUp, GoTo, ClientOk
    <3>5. CASE op[c] # "status" /\ ~(state \in Holders /\ IdentityMatches(state))
      <4>1. cpc' = [cpc EXCEPT ![c] = "clear"] /\ cont' = [cont EXCEPT ![c] = "replace"]
        BY <1>3, <3>5 DEF StatusFromFiles, NotUp, GoTo
      <4>2. \A h \in Holders : ~Holding(h)'
        BY <2>1, <3>1, <3>2, <3>5 DEF Holding
      <4>. QED
        BY <1>3, <2>1, <3>1, <4>1, <4>2 DEF StatusFromFiles, ClientOk
    <3>. QED
      BY <3>3, <3>4, <3>5
  <2>. QED
    BY <2>1, <2>2, ClientMove DEF OnlyDeaths
<1>4. ASSUME NEW c \in Clients, Tap(c) PROVE Accounting'
  <2>1. OthersKeep(c) /\ OnlyDeaths /\ UNCHANGED <<hpc, state, sock>>
    BY <1>4 DEF OnlyDeaths, Tap, Send, Return, GoTo
  <2>2. StaysBuilder(c) /\ ClientOk(c)'
    BY <1>4, <2>1 DEF Accounting, ClientOk, Holding, Tap, Send, Return, GoTo
  <2>. QED
    BY <2>1, <2>2, ClientMove DEF OnlyDeaths
<1>5. ASSUME NEW c \in Clients, StatusAnswered(c) PROVE Accounting'
  <2>1. OthersKeep(c) /\ OnlyDeaths /\ UNCHANGED <<hpc, state, sock>>
    BY <1>5 DEF OnlyDeaths, StatusAnswered, NotUp, Return, GoTo
  <2>2. StaysBuilder(c) /\ ClientOk(c)'
    <3>1. ClientOk(c)
      BY <1>5 DEF Accounting
    <3>2. CASE answer[c] = target[c] \/ op[c] = "status"
      <4>1. cpc' = [cpc EXCEPT ![c] = "exit"] /\ answer' = [answer EXCEPT ![c] = None]
        BY <1>5, <3>2 DEF StatusAnswered, NotUp, Return, GoTo
      <4>. QED
        BY <1>5, <2>1, <3>1, <4>1 DEF StatusAnswered, ClientOk
    <3>3. CASE answer[c] # target[c] /\ op[c] # "status"
      <4>1. /\ cpc' = [cpc EXCEPT ![c] = "quit"] /\ answer' = [answer EXCEPT ![c] = None]
            /\ cont' = [cont EXCEPT ![c] = "replace"] /\ target' = [target EXCEPT ![c] = target[c]] /\ child' = child
        BY <1>5, <3>3 DEF StatusAnswered, NotUp, GoTo
      <4>. QED
        BY <1>5, <2>1, <3>1, <3>3, <4>1 DEF StatusAnswered, ClientOk
    <3>. QED
      BY <3>2, <3>3
  <2>. QED
    BY <2>1, <2>2, ClientMove DEF OnlyDeaths
<1>6. ASSUME NEW c \in Clients, PollAnswered(c) PROVE Accounting'
  <2>1. OthersKeep(c) /\ OnlyDeaths /\ UNCHANGED <<hpc, state, sock>>
    BY <1>6 DEF OnlyDeaths, PollAnswered, GoTo
  <2>2. StaysBuilder(c) /\ ClientOk(c)'
    BY <1>6, <2>1 DEF Accounting, ClientOk, Holding, PollAnswered, GoTo
  <2>. QED
    BY <2>1, <2>2, ClientMove DEF OnlyDeaths
<1>7. ASSUME NEW c \in Clients, QuitAnswered(c) PROVE Accounting'
  <2>1. OthersKeep(c) /\ OnlyDeaths /\ UNCHANGED <<hpc, state, sock>>
    BY <1>7 DEF OnlyDeaths, QuitAnswered, GoTo
  <2>2. StaysBuilder(c) /\ ClientOk(c)'
    BY <1>7, <2>1 DEF Accounting, ClientOk, Holding, QuitAnswered, GoTo
  <2>. QED
    BY <2>1, <2>2, ClientMove DEF OnlyDeaths
<1>8. ASSUME NEW c \in Clients, TapAnswered(c) PROVE Accounting'
  <2>1. OthersKeep(c) /\ OnlyDeaths /\ UNCHANGED <<hpc, state, sock>>
    BY <1>8 DEF OnlyDeaths, TapAnswered, Return, GoTo
  <2>2. StaysBuilder(c) /\ ClientOk(c)'
    BY <1>8, <2>1 DEF Accounting, ClientOk, Holding, TapAnswered, Return, GoTo
  <2>. QED
    BY <2>1, <2>2, ClientMove DEF OnlyDeaths
<1>9. ASSUME NEW c \in Clients, RequestFails(c) PROVE Accounting'
  <2>1. OthersKeep(c) /\ OnlyDeaths /\ UNCHANGED <<hpc, state, sock>>
    BY <1>9 DEF OnlyDeaths, RequestFails, HangUp, NotUp, Return, GoTo
  <2>2. StaysBuilder(c) /\ ClientOk(c)'
    <3>1. ClientOk(c) /\ answer' = [answer EXCEPT ![c] = None]
      BY <1>9 DEF Accounting, RequestFails, HangUp
    <3>2. CASE cpc[c] = "tapping" \/ (cpc[c] = "asked" /\ op[c] = "status")
      <4>1. cpc' = [cpc EXCEPT ![c] = "exit"]
        BY <1>9, <3>2 DEF RequestFails, NotUp, Return, GoTo
      <4>. QED
        BY <2>1, <3>1, <3>2, <4>1 DEF ClientOk
    <3>3. CASE cpc[c] = "asked" /\ op[c] # "status"
      <4>1. /\ cpc' = [cpc EXCEPT ![c] = "quit"]
            /\ cont' = [cont EXCEPT ![c] = "replace"] /\ target' = [target EXCEPT ![c] = target[c]] /\ child' = child
        BY <1>9, <3>3 DEF RequestFails, NotUp, GoTo
      <4>. QED
        BY <2>1, <3>1, <3>3, <4>1 DEF ClientOk
    <3>4. CASE cpc[c] \in {"polled", "quitting"}
      <4>1. /\ cpc' = [cpc EXCEPT ![c] = IF cpc[c] = "polled" THEN "poll" ELSE "recheck"]
            /\ UNCHANGED <<op, cont, target, child>>
        BY <1>9, <3>4 DEF RequestFails, GoTo
      <4>. QED
        BY <2>1, <3>1, <3>4, <4>1 DEF ClientOk
    <3>. QED
      BY <1>9, <3>2, <3>3, <3>4 DEF RequestFails, Waiting
  <2>. QED
    BY <2>1, <2>2, ClientMove DEF OnlyDeaths
<1>10. ASSUME NEW c \in Clients, StopStale(c) PROVE Accounting'
  <2>1. OthersKeep(c) /\ OnlyDeaths /\ UNCHANGED <<hpc, state, sock>>
    BY <1>10 DEF OnlyDeaths, StopStale, GoTo
  <2>2. StaysBuilder(c) /\ ClientOk(c)'
    <3>1. ClientOk(c) /\ target[c] \in Holders
      BY <1>10 DEF StopStale, Accounting, Recorded
    <3>2. ~Holding(target[c])
      BY <1>10, <3>1 DEF StopStale, IdentityMatches, Table, Holding
    <3>3. \A h \in Holders : ~Holding(h)
      BY <1>10, <3>1, <3>2, StoppedTarget DEF StopStale
    <3>. QED
      BY <1>10, <2>1, <3>1, <3>3 DEF StopStale, GoTo, ClientOk, Holding
  <2>. QED
    BY <2>1, <2>2, ClientMove DEF OnlyDeaths
<1>11. ASSUME NEW c \in Clients, RequestQuit(c) PROVE Accounting'
  <2>1. OthersKeep(c) /\ OnlyDeaths /\ UNCHANGED <<hpc, state, sock>>
    BY <1>11 DEF OnlyDeaths, RequestQuit, Send, GoTo
  <2>2. StaysBuilder(c) /\ ClientOk(c)'
    BY <1>11, <2>1 DEF Accounting, ClientOk, Holding, RequestQuit, Send, GoTo
  <2>. QED
    BY <2>1, <2>2, ClientMove DEF OnlyDeaths
<1>12. ASSUME NEW c \in Clients, Recheck(c) PROVE Accounting'
  <2>1. OthersKeep(c) /\ OnlyDeaths /\ UNCHANGED <<hpc, state, sock>>
    BY <1>12 DEF OnlyDeaths, Recheck, GoTo
  <2>2. StaysBuilder(c) /\ ClientOk(c)'
    <3>1. ClientOk(c) /\ target[c] \in Holders
      BY <1>12 DEF Recheck, Accounting, Recorded
    <3>2. ~IdentityMatches(target[c]) => ~Starting(target[c])
      BY <3>1 DEF IdentityMatches, Table
    <3>. QED
      BY <1>12, <2>1, <3>1, <3>2 DEF Recheck, GoTo, ClientOk, Holding
  <2>. QED
    BY <2>1, <2>2, ClientMove DEF OnlyDeaths
<1>13. ASSUME NEW c \in Clients, Kill(c) PROVE Accounting'
  <2> DEFINE victim == occupant[pidOf[target[c]]]
  <2>1. target[c] \in Holders /\ ClientOk(c)
    BY <1>13 DEF Kill, Recorded, Accounting
  <2>2. /\ OthersKeep(c) /\ OnlyDeaths /\ UNCHANGED <<state, sock, child, cont, target, answer>>
        /\ cpc' = [cpc EXCEPT ![c] = "waitdead"]
    BY <1>13 DEF Kill, Die, GoTo, Running, OnlyDeaths
  <2>3. ~Starting(target[c])'
    <3>1. CASE Running(target[c])
      <4>1. victim = target[c]
        BY <2>1, <3>1 DEF Table, Running
      <4>2. Die(target[c])
        BY <1>13, <2>1, <3>1, <4>1 DEF Kill
      <4>. QED
        BY <2>1, <2>2, <4>2 DEF Die
    <3>2. CASE ~Running(target[c])
      BY <2>1, <2>2, <3>2 DEF OnlyDeaths, Running
    <3>. QED
      BY <3>1, <3>2
  <2>4. StaysBuilder(c)
    BY <1>13, <2>2 DEF Kill
  <2>5. ClientOk(c)'
    BY <1>13, <2>1, <2>2, <2>3 DEF Kill, ClientOk, OnlyDeaths
  <2>. QED
    BY <2>2, <2>4, <2>5, ClientMove
<1>14. ASSUME NEW c \in Clients, WaitDead(c) PROVE Accounting'
  <2>1. target[c] \in Holders /\ ClientOk(c) /\ lock = c
    BY <1>14 DEF WaitDead, Recorded, Accounting, Locking
  <2>2. ~Holding(target[c])
    BY <1>14, <2>1 DEF WaitDead, Reapable, Alive, Table, Holding
  <2>3. \A h \in Holders : ~Holding(h)
    BY <1>14, <2>1, <2>2, StoppedTarget DEF WaitDead
  <2>4. /\ OthersKeep(c) /\ OnlyDeaths /\ UNCHANGED <<state, sock, child, cont, target, answer>>
        /\ cpc' = [cpc EXCEPT ![c] = "clear"]
    BY <1>14, <2>1 DEF WaitDead, Reapable, GoTo, OnlyDeaths
  <2>5. \A h \in Holders : ~Holding(h)'
    BY <2>3, <2>4 DEF Holding, OnlyDeaths
  <2>6. StaysBuilder(c)
    BY <1>14, <2>1, <2>3, <2>4 DEF WaitDead, Holding, Recorded
  <2>7. ClientOk(c)'
    BY <1>14, <2>1, <2>4, <2>5 DEF WaitDead, ClientOk, OnlyDeaths, Holding
  <2>. QED
    BY <2>4, <2>6, <2>7, ClientMove
<1>15. ASSUME NEW c \in Clients, WouldNotStop(c) PROVE Accounting'
  <2>1. OthersKeep(c) /\ OnlyDeaths /\ UNCHANGED <<hpc, state, sock>>
    BY <1>15 DEF OnlyDeaths, WouldNotStop, Return, GoTo
  <2>2. StaysBuilder(c) /\ ClientOk(c)'
    BY <1>15, <2>1 DEF Accounting, ClientOk, Holding, WouldNotStop, Return, GoTo
  <2>. QED
    BY <2>1, <2>2, ClientMove DEF OnlyDeaths
<1>16. ASSUME NEW c \in Clients, Clear(c) PROVE Accounting'
  <2>1. \A h \in Holders : ~Holding(h) /\ ~Holding(h)'
    BY <1>16 DEF Clear, Accounting, ClientOk, Holding
  <2>2. \A d \in Clients \ {c} : cpc[d] \notin StopPcs \cup {"clear", "spawn", "poll", "polled", "access"}
    BY <1>16 DEF Clear, Locking
  <2>3. ASSUME NEW d \in Clients \ {c} PROVE ClientOk(d)'
    BY <1>16, <2>2, <2>3 DEF Clear, Return, GoTo, Accounting, ClientOk
  <2>4. cpc'[c] \in {"spawn", "exit"} /\ state' = None /\ UNCHANGED <<hpc, answer>>
    BY <1>16 DEF Clear, Return, GoTo
  <2>5. ClientOk(c)'
    BY <2>1, <2>4 DEF Accounting, ClientOk
  <2>6. \A h \in Holders : HolderOk(h)'
    BY <2>1 DEF HolderOk, Holding
  <2>. QED
    BY <2>1, <2>3, <2>5, <2>6 DEF Accounting
<1>17. ASSUME NEW c \in Clients, Spawn(c) PROVE Accounting'
  <2>1. PICK h \in Holders :
        /\ hpc[h] = "free"
        /\ hpc' = [hpc EXCEPT ![h] = "init"]
        /\ child' = [child EXCEPT ![c] = h]
    BY <1>17 DEF Spawn
  <2>2. /\ \A g \in Holders : ~Holding(g)
        /\ state = None /\ ClientOk(c) /\ lock = c
    BY <1>17 DEF Spawn, Accounting, ClientOk, Locking
  <2>3. /\ cpc' = [cpc EXCEPT ![c] = "poll"]
        /\ UNCHANGED <<state, sock, op, cont, target, answer>>
    BY <1>17 DEF Spawn, GoTo
  <2>4. \A g \in Holders : Holding(g)' => g = h
    BY <2>1, <2>2 DEF Holding
  <2>5. ASSUME NEW g \in Holders PROVE HolderOk(g)'
    <3>1. CASE g = h
      BY <2>1, <2>3, <3>1 DEF HolderOk
    <3>2. CASE g # h
      BY <2>4, <3>2 DEF HolderOk, Holding
    <3>. QED
      BY <3>1, <3>2
  <2>6. ASSUME NEW d \in Clients PROVE ClientOk(d)'
    <3>1. CASE d = c
      BY <2>1, <2>2, <2>3, <3>1 DEF ClientOk
    <3>2. CASE d # c
      <4>1. /\ cpc[d] \notin StopPcs \cup {"clear", "spawn", "poll", "polled", "access"}
            /\ ~(cpc[d] = "asked" /\ op[d] # "status")
        BY <2>2, <3>2 DEF Locking
      <4>2. ClientOk(d)
        BY <1>17 DEF Accounting
      <4>. QED
        BY <2>1, <2>3, <3>2, <4>1, <4>2 DEF ClientOk
    <3>. QED
      BY <3>1, <3>2
  <2>. QED
    BY <2>4, <2>5, <2>6 DEF Accounting
<1>18. ASSUME NEW c \in Clients, Access(c) PROVE Accounting'
  <2>1. OthersKeep(c) /\ OnlyDeaths /\ UNCHANGED <<hpc, state, sock>>
    BY <1>18 DEF OnlyDeaths, Access, Return, GoTo
  <2>2. StaysBuilder(c) /\ ClientOk(c)'
    BY <1>18, <2>1 DEF Accounting, ClientOk, Holding, Access, Return, GoTo
  <2>. QED
    BY <2>1, <2>2, ClientMove DEF OnlyDeaths
<1>19. ASSUME NEW c \in Clients, Deadline(c) PROVE Accounting'
  <2>1. OthersKeep(c) /\ OnlyDeaths /\ UNCHANGED <<hpc, state, sock>>
    BY <1>19 DEF OnlyDeaths, Deadline, GoTo
  <2>2. StaysBuilder(c) /\ ClientOk(c)'
    BY <1>19, <2>1 DEF Accounting, ClientOk, Holding, Deadline, GoTo
  <2>. QED
    BY <2>1, <2>2, ClientMove DEF OnlyDeaths
<1>20. ASSUME NEW c \in Clients, DestroyAbsent(c) PROVE Accounting'
  <2>1. OthersKeep(c) /\ OnlyDeaths /\ UNCHANGED <<hpc, state, sock>>
    BY <1>20 DEF OnlyDeaths, DestroyAbsent, Return, GoTo
  <2>2. StaysBuilder(c) /\ ClientOk(c)'
    BY <1>20, <2>1 DEF Accounting, ClientOk, Holding, DestroyAbsent, Return, GoTo
  <2>. QED
    BY <2>1, <2>2, ClientMove DEF OnlyDeaths
<1>21. ASSUME NEW c \in Clients, DestroyRecorded(c) PROVE Accounting'
  <2>1. OthersKeep(c) /\ OnlyDeaths /\ UNCHANGED <<hpc, state, sock>>
    BY <1>21 DEF OnlyDeaths, DestroyRecorded, GoTo
  <2>2. StaysBuilder(c) /\ ClientOk(c)'
    BY <1>21, <2>1 DEF Accounting, ClientOk, Holding, DestroyRecorded, GoTo
  <2>. QED
    BY <2>1, <2>2, ClientMove DEF OnlyDeaths
<1>22. ASSUME NEW c \in Clients, Exit(c) PROVE Accounting'
  <2>1. OthersKeep(c) /\ OnlyDeaths /\ UNCHANGED <<state, sock, answer>>
    BY <1>22 DEF Exit, Orphan, Forget, GoTo, OnlyDeaths
  <2>2. StaysBuilder(c)
    BY <1>22 DEF Exit
  <2>3. ClientOk(c)'
    <3>1. cpc' = [cpc EXCEPT ![c] = "idle"] /\ ClientOk(c)
      BY <1>22 DEF Exit, Forget, GoTo, Accounting
    <3>2. answer[c] \in Holders /\ ~Starting(answer[c]) => ~Starting(answer[c])'
      BY <2>1 DEF OnlyDeaths
    <3>. QED
      BY <2>1, <3>1, <3>2 DEF ClientOk, OnlyDeaths
  <2>. QED
    BY <2>1, <2>2, <2>3, ClientMove
<1>23. ASSUME NEW c \in Clients, Crash(c) PROVE Accounting'
  BY <1>23 DEF Crash
<1>24. ASSUME NEW c \in Clients, NEW o \in Ops, Start(c, o) PROVE Accounting'
  <2>1. OthersKeep(c) /\ OnlyDeaths /\ UNCHANGED <<hpc, state, sock>>
    BY <1>24 DEF OnlyDeaths, Start, GoTo
  <2>2. StaysBuilder(c) /\ ClientOk(c)'
    BY <1>24, <2>1 DEF Accounting, ClientOk, Holding, Start, GoTo
  <2>. QED
    BY <2>1, <2>2, ClientMove DEF OnlyDeaths
<1>25. ASSUME NEW h \in Holders, HPrepare(h) PROVE Accounting'
  <2>1. /\ \A g \in Holders \ {h} : hpc'[g] = hpc[g]
        /\ UNCHANGED <<cpc, op, cont, target, child>>
        /\ hpc'[h] # "free" /\ (Holding(h)' => Holding(h)) /\ (Starting(h)' => Starting(h))
        /\ Holding(h) \/ UNCHANGED <<state, sock>>
        /\ state' \in {state, None} \/ (Starting(h) /\ state' \in {Torn, h})
    BY <1>25 DEF Holding, HPrepare, HGoTo
  <2>2. \A c \in Clients : answer'[c] = answer[c] \/ (answer'[c] = h /\ ~Starting(h)')
    BY <1>25 DEF HPrepare, HGoTo
  <2>3. HolderOk(h)'
    BY <1>25 DEF Accounting, HolderOk, HPrepare, HGoTo
  <2>. QED
    BY <2>1, <2>2, <2>3, HolderMove
<1>26. ASSUME NEW h \in Holders, HBind(h) PROVE Accounting'
  <2>1. /\ \A g \in Holders \ {h} : hpc'[g] = hpc[g]
        /\ UNCHANGED <<cpc, op, cont, target, child>>
        /\ hpc'[h] # "free" /\ (Holding(h)' => Holding(h)) /\ (Starting(h)' => Starting(h))
        /\ Holding(h) \/ UNCHANGED <<state, sock>>
        /\ state' \in {state, None} \/ (Starting(h) /\ state' \in {Torn, h})
    BY <1>26 DEF Holding, HBind, HGoTo
  <2>2. \A c \in Clients : answer'[c] = answer[c] \/ (answer'[c] = h /\ ~Starting(h)')
    BY <1>26 DEF HBind, HGoTo
  <2>3. HolderOk(h)'
    BY <1>26 DEF Accounting, HolderOk, HBind, HGoTo
  <2>. QED
    BY <2>1, <2>2, <2>3, HolderMove
<1>27. ASSUME NEW h \in Holders, HTruncate(h) PROVE Accounting'
  <2>1. /\ \A g \in Holders \ {h} : hpc'[g] = hpc[g]
        /\ UNCHANGED <<cpc, op, cont, target, child>>
        /\ hpc'[h] # "free" /\ (Holding(h)' => Holding(h)) /\ (Starting(h)' => Starting(h))
        /\ Holding(h) \/ UNCHANGED <<state, sock>>
        /\ state' \in {state, None} \/ (Starting(h) /\ state' \in {Torn, h})
    BY <1>27 DEF Holding, HTruncate, HGoTo
  <2>2. \A c \in Clients : answer'[c] = answer[c] \/ (answer'[c] = h /\ ~Starting(h)')
    BY <1>27 DEF HTruncate, HGoTo
  <2>3. HolderOk(h)'
    BY <1>27 DEF Accounting, HolderOk, HTruncate, HGoTo
  <2>. QED
    BY <2>1, <2>2, <2>3, HolderMove
<1>28. ASSUME NEW h \in Holders, HPublish(h) PROVE Accounting'
  <2>1. /\ \A g \in Holders \ {h} : hpc'[g] = hpc[g]
        /\ UNCHANGED <<cpc, op, cont, target, child>>
        /\ hpc'[h] # "free" /\ (Holding(h)' => Holding(h)) /\ (Starting(h)' => Starting(h))
        /\ Holding(h) \/ UNCHANGED <<state, sock>>
        /\ state' \in {state, None} \/ (Starting(h) /\ state' \in {Torn, h})
    BY <1>28 DEF Holding, HPublish, HGoTo
  <2>2. \A c \in Clients : answer'[c] = answer[c] \/ (answer'[c] = h /\ ~Starting(h)')
    BY <1>28 DEF HPublish, HGoTo
  <2>3. HolderOk(h)'
    BY <1>28 DEF Accounting, HolderOk, HPublish, HGoTo
  <2>. QED
    BY <2>1, <2>2, <2>3, HolderMove
<1>29. ASSUME NEW h \in Holders, HAnswer(h) PROVE Accounting'
  <2>1. /\ \A g \in Holders \ {h} : hpc'[g] = hpc[g]
        /\ UNCHANGED <<cpc, op, cont, target, child>>
        /\ hpc'[h] # "free" /\ (Holding(h)' => Holding(h)) /\ (Starting(h)' => Starting(h))
        /\ Holding(h) \/ UNCHANGED <<state, sock>>
        /\ state' \in {state, None} \/ (Starting(h) /\ state' \in {Torn, h})
    BY <1>29 DEF Holding, HAnswer, HGoTo
  <2>2. \A c \in Clients : answer'[c] = answer[c] \/ (answer'[c] = h /\ ~Starting(h)')
    BY <1>29 DEF HAnswer, HGoTo
  <2>3. HolderOk(h)'
    BY <1>29 DEF Accounting, HolderOk, HAnswer, HGoTo
  <2>. QED
    BY <2>1, <2>2, <2>3, HolderMove
<1>30. ASSUME NEW h \in Holders, HCloseSocket(h) PROVE Accounting'
  <2>1. /\ \A g \in Holders \ {h} : hpc'[g] = hpc[g]
        /\ UNCHANGED <<cpc, op, cont, target, child>>
        /\ hpc'[h] # "free" /\ (Holding(h)' => Holding(h)) /\ (Starting(h)' => Starting(h))
        /\ Holding(h) \/ UNCHANGED <<state, sock>>
        /\ state' \in {state, None} \/ (Starting(h) /\ state' \in {Torn, h})
    BY <1>30 DEF Holding, HCloseSocket, HGoTo
  <2>2. \A c \in Clients : answer'[c] = answer[c] \/ (answer'[c] = h /\ ~Starting(h)')
    BY <1>30 DEF HCloseSocket, HGoTo
  <2>3. HolderOk(h)'
    BY <1>30 DEF Accounting, HolderOk, HCloseSocket, HGoTo
  <2>. QED
    BY <2>1, <2>2, <2>3, HolderMove
<1>31. ASSUME NEW h \in Holders, HUnlinkState(h) PROVE Accounting'
  <2>1. /\ \A g \in Holders \ {h} : hpc'[g] = hpc[g]
        /\ UNCHANGED <<cpc, op, cont, target, child>>
        /\ hpc'[h] # "free" /\ (Holding(h)' => Holding(h)) /\ (Starting(h)' => Starting(h))
        /\ Holding(h) \/ UNCHANGED <<state, sock>>
        /\ state' \in {state, None} \/ (Starting(h) /\ state' \in {Torn, h})
    BY <1>31 DEF Holding, HUnlinkState, HGoTo
  <2>2. \A c \in Clients : answer'[c] = answer[c] \/ (answer'[c] = h /\ ~Starting(h)')
    BY <1>31 DEF HUnlinkState, HGoTo
  <2>3. HolderOk(h)'
    BY <1>31 DEF Accounting, HolderOk, HUnlinkState, HGoTo
  <2>. QED
    BY <2>1, <2>2, <2>3, HolderMove
<1>32. ASSUME NEW h \in Holders, HUnlinkFifo(h) PROVE Accounting'
  <2>1. /\ \A g \in Holders \ {h} : hpc'[g] = hpc[g]
        /\ UNCHANGED <<cpc, op, cont, target, child>>
        /\ hpc'[h] # "free" /\ (Holding(h)' => Holding(h)) /\ (Starting(h)' => Starting(h))
        /\ Holding(h) \/ UNCHANGED <<state, sock>>
        /\ state' \in {state, None} \/ (Starting(h) /\ state' \in {Torn, h})
    BY <1>32 DEF Holding, HUnlinkFifo, Die
  <2>2. \A c \in Clients : answer'[c] = answer[c] \/ (answer'[c] = h /\ ~Starting(h)')
    BY <1>32 DEF HUnlinkFifo, Die
  <2>3. HolderOk(h)'
    BY <1>32 DEF Accounting, HolderOk, HUnlinkFifo, Die
  <2>. QED
    BY <2>1, <2>2, <2>3, HolderMove
<1>33. ASSUME NEW h \in Holders, HKilled(h) PROVE Accounting'
  <2>1. /\ \A g \in Holders \ {h} : hpc'[g] = hpc[g]
        /\ UNCHANGED <<cpc, op, cont, target, child>>
        /\ hpc'[h] # "free" /\ (Holding(h)' => Holding(h)) /\ (Starting(h)' => Starting(h))
        /\ Holding(h) \/ UNCHANGED <<state, sock>>
        /\ state' \in {state, None} \/ (Starting(h) /\ state' \in {Torn, h})
    BY <1>33 DEF Holding, HKilled, Die, Running
  <2>2. \A c \in Clients : answer'[c] = answer[c] \/ (answer'[c] = h /\ ~Starting(h)')
    BY <1>33 DEF HKilled, Die, Running
  <2>3. HolderOk(h)'
    BY <1>33 DEF Accounting, HolderOk, HKilled, Die, Running
  <2>. QED
    BY <2>1, <2>2, <2>3, HolderMove
<1>34. ASSUME NEW p \in Pids, Recycle(p) PROVE Accounting'
  BY <1>34 DEF Accounting, HolderOk, ClientOk, Holding, Recycle
<1>35. ASSUME NEW p \in Pids, ForeignExit(p) PROVE Accounting'
  BY <1>35 DEF Accounting, HolderOk, ClientOk, Holding, ForeignExit
<1>36. CASE UNCHANGED vars
  BY <1>36 DEF Accounting, HolderOk, ClientOk, Holding, vars
<1>. QED
  BY <1>1, <1>2, <1>3, <1>4, <1>5, <1>6, <1>7, <1>8, <1>9, <1>10, <1>11, <1>12, <1>13, <1>14, <1>15, <1>16, <1>17, <1>18, <1>19, <1>20, <1>21, <1>22, <1>23, <1>24, <1>25, <1>26, <1>27, <1>28, <1>29, <1>30, <1>31, <1>32, <1>33, <1>34, <1>35, <1>36 DEF Next, ClientStep, HolderStep

-----------------------------------------------------------------------------
(* Theorems.                                                               *)

\* Clients killed during a call are only ever counted up.
LEMMA CrashesStep == TypeOK /\ [Next]_vars /\ crashes' = 0 => crashes = 0
<1> SUFFICES ASSUME TypeOK, [Next]_vars, crashes' = 0 PROVE crashes = 0
  OBVIOUS
<1> USE DEF TypeOK
<1>1. ASSUME NEW c \in Clients, Lock(c) PROVE crashes = 0
  BY <1>1 DEF Lock
<1>2. ASSUME NEW c \in Clients, AskStatus(c) PROVE crashes = 0
  BY <1>2 DEF AskStatus
<1>3. ASSUME NEW c \in Clients, StatusFromFiles(c) PROVE crashes = 0
  BY <1>3 DEF StatusFromFiles
<1>4. ASSUME NEW c \in Clients, Tap(c) PROVE crashes = 0
  BY <1>4 DEF Tap
<1>5. ASSUME NEW c \in Clients, StatusAnswered(c) PROVE crashes = 0
  BY <1>5 DEF StatusAnswered
<1>6. ASSUME NEW c \in Clients, PollAnswered(c) PROVE crashes = 0
  BY <1>6 DEF PollAnswered
<1>7. ASSUME NEW c \in Clients, QuitAnswered(c) PROVE crashes = 0
  BY <1>7 DEF QuitAnswered
<1>8. ASSUME NEW c \in Clients, TapAnswered(c) PROVE crashes = 0
  BY <1>8 DEF TapAnswered
<1>9. ASSUME NEW c \in Clients, RequestFails(c) PROVE crashes = 0
  BY <1>9 DEF RequestFails
<1>10. ASSUME NEW c \in Clients, StopStale(c) PROVE crashes = 0
  BY <1>10 DEF StopStale
<1>11. ASSUME NEW c \in Clients, RequestQuit(c) PROVE crashes = 0
  BY <1>11 DEF RequestQuit
<1>12. ASSUME NEW c \in Clients, Recheck(c) PROVE crashes = 0
  BY <1>12 DEF Recheck
<1>13. ASSUME NEW c \in Clients, Kill(c) PROVE crashes = 0
  BY <1>13 DEF Kill
<1>14. ASSUME NEW c \in Clients, WaitDead(c) PROVE crashes = 0
  BY <1>14 DEF WaitDead
<1>15. ASSUME NEW c \in Clients, WouldNotStop(c) PROVE crashes = 0
  BY <1>15 DEF WouldNotStop
<1>16. ASSUME NEW c \in Clients, Clear(c) PROVE crashes = 0
  BY <1>16 DEF Clear
<1>17. ASSUME NEW c \in Clients, Spawn(c) PROVE crashes = 0
  BY <1>17 DEF Spawn
<1>18. ASSUME NEW c \in Clients, Access(c) PROVE crashes = 0
  BY <1>18 DEF Access
<1>19. ASSUME NEW c \in Clients, Deadline(c) PROVE crashes = 0
  BY <1>19 DEF Deadline
<1>20. ASSUME NEW c \in Clients, DestroyAbsent(c) PROVE crashes = 0
  BY <1>20 DEF DestroyAbsent
<1>21. ASSUME NEW c \in Clients, DestroyRecorded(c) PROVE crashes = 0
  BY <1>21 DEF DestroyRecorded
<1>22. ASSUME NEW c \in Clients, Exit(c) PROVE crashes = 0
  BY <1>22 DEF Exit
<1>23. ASSUME NEW c \in Clients, Crash(c) PROVE crashes = 0
  BY <1>23 DEF Crash
<1>24. ASSUME NEW c \in Clients, NEW o \in Ops, Start(c, o) PROVE crashes = 0
  BY <1>24 DEF Start
<1>25. ASSUME NEW h \in Holders, HPrepare(h) PROVE crashes = 0
  BY <1>25 DEF HPrepare
<1>26. ASSUME NEW h \in Holders, HBind(h) PROVE crashes = 0
  BY <1>26 DEF HBind
<1>27. ASSUME NEW h \in Holders, HTruncate(h) PROVE crashes = 0
  BY <1>27 DEF HTruncate
<1>28. ASSUME NEW h \in Holders, HPublish(h) PROVE crashes = 0
  BY <1>28 DEF HPublish
<1>29. ASSUME NEW h \in Holders, HAnswer(h) PROVE crashes = 0
  BY <1>29 DEF HAnswer
<1>30. ASSUME NEW h \in Holders, HCloseSocket(h) PROVE crashes = 0
  BY <1>30 DEF HCloseSocket
<1>31. ASSUME NEW h \in Holders, HUnlinkState(h) PROVE crashes = 0
  BY <1>31 DEF HUnlinkState
<1>32. ASSUME NEW h \in Holders, HUnlinkFifo(h) PROVE crashes = 0
  BY <1>32 DEF HUnlinkFifo
<1>33. ASSUME NEW h \in Holders, HKilled(h) PROVE crashes = 0
  BY <1>33 DEF HKilled
<1>34. ASSUME NEW p \in Pids, Recycle(p) PROVE crashes = 0
  BY <1>34 DEF Recycle
<1>35. ASSUME NEW p \in Pids, ForeignExit(p) PROVE crashes = 0
  BY <1>35 DEF ForeignExit
<1>36. CASE UNCHANGED vars
  BY <1>36 DEF vars
<1>. QED
  BY <1>1, <1>2, <1>3, <1>4, <1>5, <1>6, <1>7, <1>8, <1>9, <1>10, <1>11, <1>12, <1>13, <1>14, <1>15, <1>16, <1>17, <1>18, <1>19, <1>20, <1>21, <1>22, <1>23, <1>24, <1>25, <1>26, <1>27, <1>28, <1>29, <1>30, <1>31, <1>32, <1>33, <1>34, <1>35, <1>36 DEF Next, ClientStep, HolderStep

LEMMA InitIInv == Init => IInv
<1> SUFFICES ASSUME Init PROVE IInv
  OBVIOUS
<1>1. TypeOK
  <2>1. <<>> \in Seq(Requests)
    OBVIOUS
  <2>. QED
    BY <2>1, ConstantsAssumption DEF Init, TypeOK, HolderPcs, ClientPcs, Waiting, Ops, Conts, Outcomes
<1>2. Table /\ Recorded /\ Locking
  BY ConstantsAssumption DEF Init, Table, Recorded, Locking, StopPcs, Building
<1>3. Accounting
  BY ConstantsAssumption DEF Init, Accounting, HolderOk, ClientOk, Holding, Starting,
     Published, Listening, StopPcs, Building
<1>. QED
  BY <1>1, <1>2, <1>3 DEF IInv

LEMMA NextIInv == IInv /\ [Next]_vars => IInv'
<1> SUFFICES ASSUME IInv, [Next]_vars PROVE IInv'
  OBVIOUS
<1>1. TypeOK /\ Table /\ Recorded /\ Locking
  BY DEF IInv
<1>2. TypeOK' /\ Table' /\ Recorded' /\ Locking'
  BY <1>1, TypeStep, TableStep, RecordedStep, LockingStep
<1>3. ASSUME crashes' = 0 PROVE Accounting'
  BY <1>1, <1>3, CrashesStep, AccountingStep DEF IInv
<1>. QED
  BY <1>2, <1>3 DEF IInv

\* IInv is an invariant.
THEOREM Invariance == Spec => []IInv
<1>. QED
  BY InitIInv, NextIInv, PTL DEF Spec

\* gamepad.py never leaves the values it is modelled with.
THEOREM TypeCorrectness == Spec => []TypeOK
<1>1. IInv => TypeOK
  BY DEF IInv
<1>. QED
  BY <1>1, Invariance, PTL

\* With any number of callers, spawns and PIDs, one holder at most runs the
\* device as long as no caller has been killed during a call.
THEOREM AtMostOneHolder == Spec => []OneHolder
<1>1. IInv => OneHolder
  BY DEF IInv, OneHolder, Accounting, Live, Holding, Starting, Published
<1>. QED
  BY <1>1, Invariance, PTL

\* A create() that times out, or fails in any other way it can by itself, leaves
\* no holder that destroy() could not find.
THEOREM HolderIsReachable == Spec => []NoUnreachableHolder
<1>1. ASSUME IInv, crashes = 0, lock = None, NEW h \in Holders, Live(h)
      PROVE  state = h
  <2>1. Locking /\ HolderOk(h)
    BY <1>1 DEF IInv, Accounting
  <2>2. ~Starting(h)
    BY <1>1, <2>1, ConstantsAssumption DEF HolderOk, Locking, Building, StopPcs
  <2>. QED
    BY <1>1, <2>1, <2>2 DEF Live, Starting, Published, HolderOk
<1>2. IInv => NoUnreachableHolder
  BY <1>1 DEF NoUnreachableHolder
<1>. QED
  BY <1>2, Invariance, PTL

\* No unlink by a caller, or by another holder, takes the socket from the holder
\* that serves the device.
THEOREM SocketIsKept == Spec => []ServingHolderKeepsSocket
<1>1. IInv => ServingHolderKeepsSocket
  BY DEF IInv, ServingHolderKeepsSocket, Accounting, HolderOk, Listening
<1>. QED
  BY <1>1, Invariance, PTL

\* A destroy() returns one of its three results in two places only, and no other
\* call returns "destroyed".
LEMMA ReturnsFromDestroy ==
  ASSUME TypeOK, [Next]_vars, NEW e \in Clients,
         op[e] = "destroy" \/ outcome'[e] = "destroyed",
         outcome'[e] # outcome[e],
         outcome'[e] \in {"destroyed", "stale_cleaned", "absent"}
  PROVE  Clear(e) \/ DestroyAbsent(e)
<1> USE DEF TypeOK, locals
<1>1. ASSUME NEW c \in Clients, Lock(c) PROVE Clear(e) \/ DestroyAbsent(e)
  BY <1>1 DEF Lock, GoTo
<1>2. ASSUME NEW c \in Clients, AskStatus(c) PROVE Clear(e) \/ DestroyAbsent(e)
  BY <1>2 DEF AskStatus, GoTo
<1>3. ASSUME NEW c \in Clients, StatusFromFiles(c) PROVE Clear(e) \/ DestroyAbsent(e)
  BY <1>3 DEF StatusFromFiles, NotUp, Return, GoTo
<1>4. ASSUME NEW c \in Clients, Tap(c) PROVE Clear(e) \/ DestroyAbsent(e)
  BY <1>4 DEF Tap, Return, GoTo
<1>5. ASSUME NEW c \in Clients, StatusAnswered(c) PROVE Clear(e) \/ DestroyAbsent(e)
  BY <1>5 DEF StatusAnswered, NotUp, Return, GoTo
<1>6. ASSUME NEW c \in Clients, PollAnswered(c) PROVE Clear(e) \/ DestroyAbsent(e)
  BY <1>6 DEF PollAnswered, GoTo
<1>7. ASSUME NEW c \in Clients, QuitAnswered(c) PROVE Clear(e) \/ DestroyAbsent(e)
  BY <1>7 DEF QuitAnswered, GoTo
<1>8. ASSUME NEW c \in Clients, TapAnswered(c) PROVE Clear(e) \/ DestroyAbsent(e)
  BY <1>8 DEF TapAnswered, Return, GoTo
<1>9. ASSUME NEW c \in Clients, RequestFails(c) PROVE Clear(e) \/ DestroyAbsent(e)
  BY <1>9 DEF RequestFails, NotUp, Return, GoTo
<1>10. ASSUME NEW c \in Clients, StopStale(c) PROVE Clear(e) \/ DestroyAbsent(e)
  BY <1>10 DEF StopStale, GoTo
<1>11. ASSUME NEW c \in Clients, RequestQuit(c) PROVE Clear(e) \/ DestroyAbsent(e)
  BY <1>11 DEF RequestQuit, GoTo
<1>12. ASSUME NEW c \in Clients, Recheck(c) PROVE Clear(e) \/ DestroyAbsent(e)
  BY <1>12 DEF Recheck, GoTo
<1>13. ASSUME NEW c \in Clients, Kill(c) PROVE Clear(e) \/ DestroyAbsent(e)
  BY <1>13 DEF Kill, GoTo
<1>14. ASSUME NEW c \in Clients, WaitDead(c) PROVE Clear(e) \/ DestroyAbsent(e)
  BY <1>14 DEF WaitDead, GoTo
<1>15. ASSUME NEW c \in Clients, WouldNotStop(c) PROVE Clear(e) \/ DestroyAbsent(e)
  BY <1>15 DEF WouldNotStop, Return, GoTo
<1>16. ASSUME NEW c \in Clients, Clear(c) PROVE Clear(e) \/ DestroyAbsent(e)
  BY <1>16 DEF Clear, Return, GoTo
<1>17. ASSUME NEW c \in Clients, Spawn(c) PROVE Clear(e) \/ DestroyAbsent(e)
  BY <1>17 DEF Spawn, GoTo
<1>18. ASSUME NEW c \in Clients, Access(c) PROVE Clear(e) \/ DestroyAbsent(e)
  BY <1>18 DEF Access, Return, GoTo
<1>19. ASSUME NEW c \in Clients, Deadline(c) PROVE Clear(e) \/ DestroyAbsent(e)
  BY <1>19 DEF Deadline, GoTo
<1>20. ASSUME NEW c \in Clients, DestroyAbsent(c) PROVE Clear(e) \/ DestroyAbsent(e)
  BY <1>20 DEF DestroyAbsent, Return, GoTo
<1>21. ASSUME NEW c \in Clients, DestroyRecorded(c) PROVE Clear(e) \/ DestroyAbsent(e)
  BY <1>21 DEF DestroyRecorded, GoTo
<1>22. ASSUME NEW c \in Clients, Exit(c) PROVE Clear(e) \/ DestroyAbsent(e)
  BY <1>22 DEF Exit, Forget, GoTo
<1>23. ASSUME NEW c \in Clients, Crash(c) PROVE Clear(e) \/ DestroyAbsent(e)
  BY <1>23 DEF Crash, Forget, GoTo
<1>24. ASSUME NEW c \in Clients, NEW o \in Ops, Start(c, o) PROVE Clear(e) \/ DestroyAbsent(e)
  BY <1>24 DEF Start, GoTo
<1>25. ASSUME NEW h \in Holders, HPrepare(h) PROVE Clear(e) \/ DestroyAbsent(e)
  BY <1>25 DEF HPrepare
<1>26. ASSUME NEW h \in Holders, HBind(h) PROVE Clear(e) \/ DestroyAbsent(e)
  BY <1>26 DEF HBind
<1>27. ASSUME NEW h \in Holders, HTruncate(h) PROVE Clear(e) \/ DestroyAbsent(e)
  BY <1>27 DEF HTruncate
<1>28. ASSUME NEW h \in Holders, HPublish(h) PROVE Clear(e) \/ DestroyAbsent(e)
  BY <1>28 DEF HPublish
<1>29. ASSUME NEW h \in Holders, HAnswer(h) PROVE Clear(e) \/ DestroyAbsent(e)
  BY <1>29 DEF HAnswer
<1>30. ASSUME NEW h \in Holders, HCloseSocket(h) PROVE Clear(e) \/ DestroyAbsent(e)
  BY <1>30 DEF HCloseSocket
<1>31. ASSUME NEW h \in Holders, HUnlinkState(h) PROVE Clear(e) \/ DestroyAbsent(e)
  BY <1>31 DEF HUnlinkState
<1>32. ASSUME NEW h \in Holders, HUnlinkFifo(h) PROVE Clear(e) \/ DestroyAbsent(e)
  BY <1>32 DEF HUnlinkFifo
<1>33. ASSUME NEW h \in Holders, HKilled(h) PROVE Clear(e) \/ DestroyAbsent(e)
  BY <1>33 DEF HKilled
<1>34. ASSUME NEW p \in Pids, Recycle(p) PROVE Clear(e) \/ DestroyAbsent(e)
  BY <1>34 DEF Recycle
<1>35. ASSUME NEW p \in Pids, ForeignExit(p) PROVE Clear(e) \/ DestroyAbsent(e)
  BY <1>35 DEF ForeignExit
<1>36. CASE UNCHANGED vars
  BY <1>36 DEF vars
<1>. QED
  BY <1>1, <1>2, <1>3, <1>4, <1>5, <1>6, <1>7, <1>8, <1>9, <1>10, <1>11, <1>12, <1>13, <1>14, <1>15, <1>16, <1>17, <1>18, <1>19, <1>20, <1>21, <1>22, <1>23, <1>24, <1>25, <1>26, <1>27, <1>28, <1>29, <1>30, <1>31, <1>32, <1>33, <1>34, <1>35, <1>36 DEF Next, ClientStep, HolderStep

\* When destroy() returns, no holder runs the device, whatever it returns.
THEOREM DestroyIsComplete == Spec => DestroyLeavesNoHolder
<1>1. ASSUME IInv, [Next]_vars, crashes' = 0, NEW c \in Clients, op[c] = "destroy",
             Returns(c, {"destroyed", "stale_cleaned", "absent"})
      PROVE  \A h \in Holders : ~Live(h)'
  <2> USE ConstantsAssumption DEF Returns
  <2>1. TypeOK /\ Table /\ Recorded /\ Locking /\ Accounting
    BY <1>1, CrashesStep DEF IInv
  <2>2. outcome'[c] # outcome[c] /\ outcome'[c] \in {"destroyed", "stale_cleaned", "absent"}
    BY <1>1
  <2>3. ASSUME Clear(c) PROVE \A h \in Holders : ~Live(h)'
    BY <2>1, <2>3 DEF Clear, table, Accounting, ClientOk, Holding, Live, Starting, Published
  <2>4. ASSUME DestroyAbsent(c) PROVE \A h \in Holders : ~Live(h)'
    <3>1. lock = c /\ state \notin Holders /\ ~Building(c) /\ UNCHANGED hpc
      BY <2>1, <2>4 DEF DestroyAbsent, Locking, Building, StopPcs, table
    <3>2. \A h \in Holders : ~Starting(h)
      BY <2>1, <3>1, NoBuilderNoStart
    <3>3. \A h \in Holders : ~Published(h)
      BY <2>1, <3>1 DEF Accounting, HolderOk
    <3>. QED
      BY <3>1, <3>2, <3>3 DEF Live, Starting, Published
  <2>5. Clear(c) \/ DestroyAbsent(c)
    BY <1>1, <2>1, <2>2, ReturnsFromDestroy
  <2>. QED
    BY <2>3, <2>4, <2>5
<1>2. IInv /\ [Next]_vars =>
        [\A c \in Clients :
           crashes' = 0 /\ Returns(c, {"destroyed", "stale_cleaned", "absent"})
             /\ op[c] = "destroy"
           => \A h \in Holders : ~Live(h)']_vars
  BY <1>1
<1>. QED
  BY <1>2, Invariance, PTL DEF Spec, DestroyLeavesNoHolder


-----------------------------------------------------------------------------
(* The abstract device.                                                    *)

\* What a client in the body of a call has been called for.
Purpose ==
    \A c \in Clients :
        /\ cpc[c] = "lock" => op[c] \in {"create", "destroy"}
        /\ cpc[c] \in {"check", "asked"} => op[c] \in {"create", "status"}
        /\ cpc[c] \in {"spawn", "poll", "polled", "access"} => op[c] = "create"
        /\ cpc[c] \in StopPcs \cup {"clear"} /\ cont[c] \in {"replace", "fail"}
             => op[c] = "create"

\* The flock is never kept from one call to the next.
Held == lock \in Clients => cpc[lock] \notin {"idle", "lock", "exit"}

\* gamepad.json names a holder from the moment the holder has written it.
Unnamed == \A h \in Holders : Starting(h) => state # h

DeviceInv == crashes = 0 /\ Purpose /\ Held /\ Unnamed

\* DeviceInv is kept while no client can be killed during a call.
LEMMA DeviceInvStep ==
  ASSUME MaxCrashes = 0, IInv, DeviceInv, [Next]_vars
  PROVE  DeviceInv'
<1> USE ConstantsAssumption DEF IInv, TypeOK, Recorded, DeviceInv, Purpose, Held, Unnamed,
        Starting, StopPcs, files, table, locals
<1>1. ASSUME NEW c \in Clients, Lock(c) PROVE DeviceInv'
  BY <1>1 DEF Lock, GoTo
<1>2. ASSUME NEW c \in Clients, AskStatus(c) PROVE DeviceInv'
  BY <1>2 DEF AskStatus, GoTo
<1>3. ASSUME NEW c \in Clients, StatusFromFiles(c) PROVE DeviceInv'
  BY <1>3 DEF StatusFromFiles, NotUp, GoTo, Return
<1>4. ASSUME NEW c \in Clients, Tap(c) PROVE DeviceInv'
  BY <1>4 DEF Tap, GoTo, Return
<1>5. ASSUME NEW c \in Clients, StatusAnswered(c) PROVE DeviceInv'
  BY <1>5 DEF StatusAnswered, Return, NotUp, GoTo
<1>6. ASSUME NEW c \in Clients, PollAnswered(c) PROVE DeviceInv'
  BY <1>6 DEF PollAnswered, GoTo
<1>7. ASSUME NEW c \in Clients, QuitAnswered(c) PROVE DeviceInv'
  BY <1>7 DEF QuitAnswered, GoTo
<1>8. ASSUME NEW c \in Clients, TapAnswered(c) PROVE DeviceInv'
  BY <1>8 DEF TapAnswered, Return, GoTo
<1>9. ASSUME NEW c \in Clients, RequestFails(c) PROVE DeviceInv'
  BY <1>9 DEF RequestFails, GoTo, Return, NotUp
<1>10. ASSUME NEW c \in Clients, StopStale(c) PROVE DeviceInv'
  BY <1>10 DEF StopStale, GoTo
<1>11. ASSUME NEW c \in Clients, RequestQuit(c) PROVE DeviceInv'
  BY <1>11 DEF RequestQuit, GoTo
<1>12. ASSUME NEW c \in Clients, Recheck(c) PROVE DeviceInv'
  BY <1>12 DEF Recheck, GoTo
<1>13. ASSUME NEW c \in Clients, Kill(c) PROVE DeviceInv'
  BY <1>13 DEF Kill, GoTo, Die
<1>14. ASSUME NEW c \in Clients, WaitDead(c) PROVE DeviceInv'
  BY <1>14 DEF WaitDead, GoTo
<1>15. ASSUME NEW c \in Clients, WouldNotStop(c) PROVE DeviceInv'
  BY <1>15 DEF WouldNotStop, Return, GoTo
<1>16. ASSUME NEW c \in Clients, Clear(c) PROVE DeviceInv'
  BY <1>16 DEF Clear, GoTo, Return
<1>17. ASSUME NEW c \in Clients, Spawn(c) PROVE DeviceInv'
  BY <1>17 DEF Spawn, GoTo
<1>18. ASSUME NEW c \in Clients, Access(c) PROVE DeviceInv'
  BY <1>18 DEF Access, GoTo, Return
<1>19. ASSUME NEW c \in Clients, Deadline(c) PROVE DeviceInv'
  BY <1>19 DEF Deadline, GoTo
<1>20. ASSUME NEW c \in Clients, DestroyAbsent(c) PROVE DeviceInv'
  BY <1>20 DEF DestroyAbsent, Return, GoTo
<1>21. ASSUME NEW c \in Clients, DestroyRecorded(c) PROVE DeviceInv'
  BY <1>21 DEF DestroyRecorded, GoTo
<1>22. ASSUME NEW c \in Clients, Exit(c) PROVE DeviceInv'
  BY <1>22 DEF Exit, Forget, Orphan, GoTo
<1>23. ASSUME NEW c \in Clients, Crash(c) PROVE DeviceInv'
  BY <1>23 DEF Crash, Forget, Orphan, GoTo
<1>24. ASSUME NEW c \in Clients, NEW o \in Ops, Start(c, o) PROVE DeviceInv'
  BY <1>24 DEF Start, GoTo
<1>25. ASSUME NEW h \in Holders, HPrepare(h) PROVE DeviceInv'
  BY <1>25 DEF HPrepare, HGoTo
<1>26. ASSUME NEW h \in Holders, HBind(h) PROVE DeviceInv'
  BY <1>26 DEF HBind, HGoTo
<1>27. ASSUME NEW h \in Holders, HTruncate(h) PROVE DeviceInv'
  BY <1>27 DEF HTruncate, HGoTo
<1>28. ASSUME NEW h \in Holders, HPublish(h) PROVE DeviceInv'
  BY <1>28 DEF HPublish, HGoTo
<1>29. ASSUME NEW h \in Holders, HAnswer(h) PROVE DeviceInv'
  BY <1>29 DEF HAnswer, HGoTo
<1>30. ASSUME NEW h \in Holders, HCloseSocket(h) PROVE DeviceInv'
  BY <1>30 DEF HCloseSocket, HGoTo
<1>31. ASSUME NEW h \in Holders, HUnlinkState(h) PROVE DeviceInv'
  BY <1>31 DEF HUnlinkState, HGoTo
<1>32. ASSUME NEW h \in Holders, HUnlinkFifo(h) PROVE DeviceInv'
  BY <1>32 DEF HUnlinkFifo, Die
<1>33. ASSUME NEW h \in Holders, HKilled(h) PROVE DeviceInv'
  BY <1>33 DEF HKilled, Die
<1>34. ASSUME NEW p \in Pids, Recycle(p) PROVE DeviceInv'
  BY <1>34 DEF Recycle
<1>35. ASSUME NEW p \in Pids, ForeignExit(p) PROVE DeviceInv'
  BY <1>35 DEF ForeignExit
<1>36. CASE UNCHANGED vars
  BY <1>36 DEF vars
<1>. QED
  BY <1>1, <1>2, <1>3, <1>4, <1>5, <1>6, <1>7, <1>8, <1>9, <1>10, <1>11, <1>12, <1>13, <1>14, <1>15, <1>16, <1>17, <1>18, <1>19, <1>20, <1>21, <1>22, <1>23, <1>24, <1>25, <1>26, <1>27, <1>28, <1>29, <1>30, <1>31, <1>32, <1>33, <1>34, <1>35, <1>36 DEF Next, ClientStep, HolderStep

\* What runs the device, and what has run it, before and after.
SameHolders ==
  \A h \in Holders : Live(h)' = Live(h) /\ (hpc'[h] = "free" <=> hpc[h] = "free")

NothingRuns == \A h \in Holders : ~Live(h)

\* The holders are left alone; the flock may be given back, and the record may be
\* taken away when nothing runs.
DeviceStays ==
  /\ SameHolders
  /\ lock' \in {lock, None}
  /\ lock # None => op'[lock] = op[lock]
  /\ \/ RecordedHolder' = RecordedHolder
     \/ NothingRuns /\ RecordedHolder' = None

\* To the device this is the end of a call, a lost record, or nothing at all.
LEMMA DeviceKept ==
  ASSUME NoUnreachableHolder', DeviceInv', DeviceStays
  PROVE  [Device!Next]_(Device!vars)
<1> USE DEF DeviceStays
<1>1. /\ {h \in Holders : Live(h)}' = {h \in Holders : Live(h)}
      /\ {h \in Holders : hpc[h] # "free" /\ ~Live(h)}'
           = {h \in Holders : hpc[h] # "free" /\ ~Live(h)}
  BY DEF SameHolders
<1>2. CASE lock' = lock
  <2>1. CallUnderWay' = CallUnderWay
    BY <1>2 DEF CallUnderWay
  <2>. QED
    BY <1>1, <1>2, <2>1 DEF Device!Next, Device!Withdraw, Device!vars, NothingRuns
<1>3. CASE lock # None /\ lock' = None
  <2>1. CallUnderWay' = "none"
    BY <1>3 DEF CallUnderWay
  <2>2. \A h \in Holders : Live(h)' => state' = h
    BY <1>3 DEF NoUnreachableHolder, DeviceInv
  <2>3. \A h \in {g \in Holders : Live(g)} : RecordedHolder = h
    BY <2>2, ConstantsAssumption DEF SameHolders, RecordedHolder, NothingRuns
  <2>. QED
    BY <1>1, <1>3, <2>1, <2>3 DEF Device!Next, Device!Leave, NothingRuns
<1>. QED
  BY <1>2, <1>3

\* A holder that leaves hold(), or is killed in it, lets go of the device.
LEMMA DeviceLost ==
  ASSUME NEW h \in Holders, Live(h), ~Live(h)', hpc'[h] # "free",
         \A g \in Holders \ {h} : hpc'[g] = hpc[g], UNCHANGED <<lock, op, state>>
  PROVE  Device!Detach(h)
<1>1. \A g \in Holders : Live(g)' <=> Live(g) /\ g # h
  BY DEF Live
<1>2. hpc[h] # "free"
  BY DEF Live
<1>3. {g \in Holders : Live(g)}' = {g \in Holders : Live(g)} \ {h}
  BY <1>1
<1>4. {g \in Holders : hpc[g] # "free" /\ ~Live(g)}'
        = {g \in Holders : hpc[g] # "free" /\ ~Live(g)} \cup {h}
  BY <1>1, <1>2
<1>. QED
  BY <1>3, <1>4 DEF Device!Detach, CallUnderWay, RecordedHolder

\* The steps of callers.
LEMMA DeviceCallers ==
  ASSUME IInv, DeviceInv, DeviceInv', NoUnreachableHolder', NEW c \in Clients, ClientStep(c)
  PROVE  [Device!Next]_(Device!vars)
<1> USE ConstantsAssumption DEF IInv, TypeOK, DeviceInv, DeviceStays, files, table, locals
<1>1. ASSUME Lock(c) PROVE Device!Enter(c)
  <2>1. lock = None /\ lock' = c /\ UNCHANGED <<hpc, state, op>> /\ op[c] \in {"create", "destroy"}
    BY <1>1 DEF Lock, Purpose
  <2>2. CallUnderWay' = op[c]
    BY <2>1 DEF CallUnderWay
  <2>3. UNCHANGED <<{h \in Holders : Live(h)}, RecordedHolder,
                    {h \in Holders : hpc[h] # "free" /\ ~Live(h)}>>
    BY <2>1 DEF Live, RecordedHolder
  <2>. QED
    BY <2>1, <2>2, <2>3 DEF Device!Enter
<1>2. ASSUME AskStatus(c) PROVE DeviceStays
  BY <1>2 DEF AskStatus, GoTo, SameHolders, Live, RecordedHolder
<1>3. ASSUME StatusFromFiles(c) PROVE DeviceStays
  BY <1>3 DEF StatusFromFiles, NotUp, GoTo, Return, SameHolders, Live, RecordedHolder
<1>4. ASSUME Tap(c) PROVE DeviceStays
  BY <1>4 DEF Tap, GoTo, Return, SameHolders, Live, RecordedHolder
<1>5. ASSUME StatusAnswered(c) PROVE DeviceStays
  BY <1>5 DEF StatusAnswered, Return, NotUp, GoTo, SameHolders, Live, RecordedHolder
<1>6. ASSUME PollAnswered(c) PROVE DeviceStays
  BY <1>6 DEF PollAnswered, GoTo, SameHolders, Live, RecordedHolder
<1>7. ASSUME QuitAnswered(c) PROVE DeviceStays
  BY <1>7 DEF QuitAnswered, GoTo, SameHolders, Live, RecordedHolder
<1>8. ASSUME TapAnswered(c) PROVE DeviceStays
  BY <1>8 DEF TapAnswered, Return, GoTo, SameHolders, Live, RecordedHolder
<1>9. ASSUME RequestFails(c) PROVE DeviceStays
  BY <1>9 DEF RequestFails, GoTo, Return, NotUp, SameHolders, Live, RecordedHolder
<1>10. ASSUME StopStale(c) PROVE DeviceStays
  BY <1>10 DEF StopStale, GoTo, SameHolders, Live, RecordedHolder
<1>11. ASSUME RequestQuit(c) PROVE DeviceStays
  BY <1>11 DEF RequestQuit, GoTo, SameHolders, Live, RecordedHolder
<1>12. ASSUME Recheck(c) PROVE DeviceStays
  BY <1>12 DEF Recheck, GoTo, SameHolders, Live, RecordedHolder
<1>13. ASSUME Kill(c) PROVE DeviceStays \/ \E h \in Holders : Device!Detach(h)
  <2>1. UNCHANGED <<lock, state, op>>
    BY <1>13 DEF Kill
  <2>2. CASE \E h \in Holders : Running(h) /\ Die(h)
    <3>1. PICK h \in Holders : Running(h) /\ Die(h)
      BY <2>2
    <3>2. hpc[h] # "free" /\ hpc'[h] \in {"zombie", "dead"}
          /\ \A g \in Holders \ {h} : hpc'[g] = hpc[g]
      BY <3>1 DEF Running, Die
    <3>3. CASE Live(h)
      BY <2>1, <3>2, <3>3, DeviceLost DEF Live
    <3>4. CASE ~Live(h)
      BY <2>1, <3>2, <3>4 DEF SameHolders, Live, RecordedHolder
    <3>. QED
      BY <3>3, <3>4
  <2>3. CASE UNCHANGED hpc
    BY <2>1, <2>3 DEF SameHolders, Live, RecordedHolder
  <2>. QED
    BY <1>13, <2>2, <2>3 DEF Kill
<1>14. ASSUME WaitDead(c) PROVE DeviceStays
  BY <1>14 DEF WaitDead, Reapable, GoTo, SameHolders, Live, RecordedHolder, Recorded, StopPcs
<1>15. ASSUME WouldNotStop(c) PROVE DeviceStays
  BY <1>15 DEF WouldNotStop, Return, GoTo, SameHolders, Live, RecordedHolder
<1>16. ASSUME Clear(c) PROVE DeviceStays
  <2>1. NothingRuns
    BY <1>16 DEF Clear, Accounting, ClientOk, NothingRuns, Live, Holding, Starting, Published
  <2>. QED
    BY <1>16, <2>1 DEF Clear, Return, GoTo, SameHolders, Live, RecordedHolder
<1>17. ASSUME Spawn(c) PROVE \E h \in Holders : Device!Attach(h)
  <2>1. NothingRuns /\ state = None /\ lock = c /\ op[c] = "create"
    BY <1>17 DEF Spawn, Purpose, Locking, Accounting, ClientOk, NothingRuns, Live, Holding,
       Starting, Published
  <2>2. UNCHANGED <<lock, state, op>>
    BY <1>17 DEF Spawn
  <2>3. PICK h \in Holders : hpc[h] = "free" /\ hpc' = [hpc EXCEPT ![h] = "init"]
    BY <1>17 DEF Spawn
  <2>4. \A g \in Holders : (Live(g)' <=> g = h) /\ (g # h => hpc'[g] = hpc[g])
    BY <2>1, <2>3 DEF NothingRuns, Live
  <2>5. {g \in Holders : Live(g)} = {} /\ {g \in Holders : Live(g)}' = {h}
    BY <2>1, <2>4 DEF NothingRuns
  <2>6. {g \in Holders : hpc[g] # "free" /\ ~Live(g)}'
          = {g \in Holders : hpc[g] # "free" /\ ~Live(g)}
    BY <2>1, <2>3, <2>4 DEF NothingRuns
  <2>7. CallUnderWay = "create" /\ UNCHANGED <<CallUnderWay, RecordedHolder>>
        /\ RecordedHolder = None
    BY <2>1, <2>2 DEF CallUnderWay, RecordedHolder
  <2>8. Device!Attach(h)
    BY <2>2, <2>3, <2>5, <2>6, <2>7 DEF Device!Attach
  <2>. QED
    BY <2>8
<1>18. ASSUME Access(c) PROVE DeviceStays
  BY <1>18 DEF Access, GoTo, Return, SameHolders, Live, RecordedHolder
<1>19. ASSUME Deadline(c) PROVE DeviceStays
  BY <1>19 DEF Deadline, GoTo, SameHolders, Live, RecordedHolder
<1>20. ASSUME DestroyAbsent(c) PROVE DeviceStays
  BY <1>20 DEF DestroyAbsent, Return, GoTo, SameHolders, Live, RecordedHolder
<1>21. ASSUME DestroyRecorded(c) PROVE DeviceStays
  BY <1>21 DEF DestroyRecorded, GoTo, SameHolders, Live, RecordedHolder
<1>22. ASSUME Exit(c) PROVE DeviceStays
  <2>1. SameHolders
    BY <1>22 DEF Exit, Orphan, SameHolders, Live
  <2>2. UNCHANGED <<lock, state>> /\ (lock # None => op'[lock] = op[lock])
    BY <1>22 DEF Exit, Forget, Held
  <2>. QED
    BY <2>1, <2>2 DEF RecordedHolder
<1>. QED
  BY DeviceKept, <1>1, <1>2, <1>3, <1>4, <1>5, <1>6, <1>7, <1>8, <1>9, <1>10, <1>11,
     <1>12, <1>13, <1>14, <1>15, <1>16, <1>17, <1>18, <1>19, <1>20, <1>21, <1>22
     DEF ClientStep, Device!Next

\* The steps of holders: each has the device, or touches nothing of it.
LEMMA DeviceHolders ==
  ASSUME IInv, DeviceInv, DeviceInv', NoUnreachableHolder', NEW h \in Holders,
         HolderStep(h) \/ HKilled(h)
  PROVE  [Device!Next]_(Device!vars)
<1> USE ConstantsAssumption DEF IInv, TypeOK, DeviceInv, DeviceStays, files, table, locals
<1>. DEFINE Ends == /\ hpc[h] # "free" /\ hpc'[h] # "free" /\ ~Live(h)'
                    /\ \A g \in Holders \ {h} : hpc'[g] = hpc[g]
                    /\ UNCHANGED <<lock, op, state>>
<1>1. ASSUME DeviceStays PROVE [Device!Next]_(Device!vars)
  BY <1>1, DeviceKept
<1>2. ASSUME Ends PROVE [Device!Next]_(Device!vars)
  <2>1. CASE Live(h)
    BY <1>2, <2>1, DeviceLost DEF Device!Next
  <2>2. CASE ~Live(h)
    <3>1. DeviceStays
      BY <1>2, <2>2 DEF SameHolders, Live, RecordedHolder
    <3>. QED
      BY <1>1, <3>1
  <2>. QED
    BY <2>1, <2>2
<1>3. ASSUME HPrepare(h) PROVE DeviceStays
  BY <1>3 DEF HPrepare, HGoTo, SameHolders, Live, RecordedHolder
<1>4. ASSUME HBind(h) PROVE DeviceStays \/ Ends
  BY <1>4 DEF HBind, HGoTo, SameHolders, Live, RecordedHolder
<1>5. ASSUME HTruncate(h) PROVE DeviceStays
  <2>1. RecordedHolder = None
    BY <1>5 DEF HTruncate, Accounting, HolderOk, ClientOk, Unnamed, Starting, RecordedHolder
  <2>. QED
    BY <1>5, <2>1 DEF HTruncate, HGoTo, SameHolders, Live, RecordedHolder
<1>6. ASSUME HPublish(h) PROVE Device!Publish(h)
  <2>1. Live(h) /\ state' = h /\ UNCHANGED <<lock, op>> /\ SameHolders
    BY <1>6 DEF HPublish, HGoTo, SameHolders, Live
  <2>2. PICK c \in Clients : Building(c) /\ child[c] = h
    BY <1>6 DEF HPublish, Accounting, HolderOk, Starting
  <2>3. lock = c /\ state \in {None, Torn, h}
    BY <2>2 DEF Accounting, ClientOk, Locking, Building, StopPcs
  <2>4. RecordedHolder = None /\ RecordedHolder' = h
    BY <1>6, <2>1, <2>3 DEF HPublish, Unnamed, Starting, RecordedHolder
  <2>5. UNCHANGED <<CallUnderWay, {g \in Holders : Live(g)},
                    {g \in Holders : hpc[g] # "free" /\ ~Live(g)}>>
    BY <2>1 DEF CallUnderWay, SameHolders
  <2>. QED
    BY <2>1, <2>3, <2>4, <2>5 DEF Device!Publish
<1>7. ASSUME HAnswer(h) PROVE DeviceStays \/ Ends
  BY <1>7 DEF HAnswer, HGoTo, SameHolders, Live, RecordedHolder
<1>8. ASSUME HCloseSocket(h) PROVE DeviceStays
  BY <1>8 DEF HCloseSocket, HGoTo, SameHolders, Live, RecordedHolder
<1>9. ASSUME HUnlinkState(h) PROVE DeviceStays
  <2>1. NothingRuns
    BY <1>9 DEF HUnlinkState, Accounting, Holding, Starting, Published, NothingRuns, Live
  <2>. QED
    BY <1>9, <2>1 DEF HUnlinkState, HGoTo, SameHolders, Live, RecordedHolder
<1>10. ASSUME HUnlinkFifo(h) PROVE Ends
  BY <1>10 DEF HUnlinkFifo, Die, Live
<1>11. ASSUME HKilled(h) PROVE Ends
  BY <1>11 DEF HKilled, Running, Die, Live
<1>. QED
  BY <1>1, <1>2, <1>3, <1>4, <1>5, <1>6, <1>7, <1>8, <1>9, <1>10, <1>11
     DEF HolderStep, Device!Next

\* gamepad.py implements the device of GamepadDevice as long as no client is killed
\* during a call: holders have it one after another, only a create() hands it out,
\* and whoever has it can be found.
THEOREM DeviceImplemented ==
  ASSUME MaxCrashes = 0
  PROVE  Spec => ImplementsDevice
<1>1. MaxCrashes = 0
  OBVIOUS
<1>2. Init => DeviceInv
  BY ConstantsAssumption DEF Init, DeviceInv, Purpose, Held, Unnamed, Starting, StopPcs
<1>3. IInv /\ DeviceInv /\ [Next]_vars => DeviceInv'
  BY <1>1, DeviceInvStep
<1>4. Init => Device!Init
  BY ConstantsAssumption DEF Init, Device!Init, CallUnderWay, RecordedHolder, Live
<1>5. ASSUME IInv, DeviceInv, DeviceInv', NoUnreachableHolder', [Next]_vars
      PROVE  [Device!Next]_(Device!vars)
  <2> USE <1>5
  <2>1. ASSUME NEW c \in Clients, ClientStep(c) PROVE [Device!Next]_(Device!vars)
    BY <2>1, DeviceCallers
  <2>2. ASSUME NEW c \in Clients, Crash(c) PROVE FALSE
    BY <2>2 DEF Crash, DeviceInv
  <2>3. ASSUME NEW c \in Clients, NEW o \in Ops, Start(c, o)
        PROVE  SameHolders /\ UNCHANGED <<lock, state>> /\ (lock # None => op'[lock] = op[lock])
    BY <2>3, ConstantsAssumption
       DEF Start, IInv, TypeOK, DeviceInv, Held, SameHolders, Live, files, table
  <2>4. ASSUME NEW h \in Holders, HolderStep(h) \/ HKilled(h)
        PROVE  [Device!Next]_(Device!vars)
    BY <2>4, DeviceHolders
  <2>5. ASSUME NEW p \in Pids, Recycle(p) \/ ForeignExit(p)
        PROVE  SameHolders /\ UNCHANGED <<lock, state, op>>
    BY <2>5 DEF Recycle, ForeignExit, SameHolders, Live, files, locals
  <2>6. CASE UNCHANGED vars
    BY <2>6 DEF vars, files, table, locals, Device!vars, CallUnderWay, RecordedHolder, Live
  <2>7. ASSUME SameHolders, UNCHANGED <<lock, state>>, lock # None => op'[lock] = op[lock]
        PROVE  [Device!Next]_(Device!vars)
    BY <2>7, DeviceKept DEF DeviceStays, RecordedHolder
  <2>. QED
    BY <2>1, <2>2, <2>3, <2>4, <2>5, <2>6, <2>7 DEF Next
<1>. QED
  BY <1>2, <1>3, <1>4, <1>5, Invariance, HolderIsReachable, PTL
     DEF Spec, ImplementsDevice, Device!Spec

=============================================================================
