----------------------- MODULE GamepadSignals_proofs -----------------------
(***************************************************************************)
(* Proofs about GamepadHolder that hold whichever clients are killed: what *)
(* a destroy() has verified when it says "destroyed", and whom a client    *)
(* signals.  Both rest on the process table (Table) and the records        *)
(* (Recorded) of GamepadHolder_proofs, and on what a client knows of its   *)
(* target at one point of its call.                                        *)
(***************************************************************************)
EXTENDS GamepadHolder_proofs

\* Before the files are removed for a "destroyed", the holder that was recorded
\* has died.
Verified ==
    \A c \in Clients :
        cpc[c] = "clear" /\ cont[c] = "destroy"
        => target[c] \in Holders /\ hpc[target[c]] \in {"zombie", "dead"}

\* Between a client's last look at /proc and its signal, the PID is not given to
\* a process of somebody else.
Undisturbed == \A c \in Clients : cpc[c] = "kill" => occupant[pidOf[target[c]]] # Foreign

\* What was verified dead stays dead, and is verified by waiting for its death only.
LEMMA VerifiedStep ==
  ASSUME TypeOK, Table, Recorded, Verified, [Next]_vars PROVE Verified'
<1> USE ConstantsAssumption DEF TypeOK, Table, Recorded, Verified, StopPcs, files, table, locals
<1>1. ASSUME NEW c \in Clients, Lock(c) PROVE Verified'
  BY <1>1 DEF Lock, GoTo
<1>2. ASSUME NEW c \in Clients, AskStatus(c) PROVE Verified'
  BY <1>2 DEF AskStatus, GoTo
<1>3. ASSUME NEW c \in Clients, StatusFromFiles(c) PROVE Verified'
  BY <1>3 DEF StatusFromFiles, NotUp, Return, GoTo
<1>4. ASSUME NEW c \in Clients, Tap(c) PROVE Verified'
  BY <1>4 DEF Tap, Return, GoTo
<1>5. ASSUME NEW c \in Clients, StatusAnswered(c) PROVE Verified'
  BY <1>5 DEF StatusAnswered, NotUp, Return, GoTo
<1>6. ASSUME NEW c \in Clients, PollAnswered(c) PROVE Verified'
  BY <1>6 DEF PollAnswered, GoTo
<1>7. ASSUME NEW c \in Clients, QuitAnswered(c) PROVE Verified'
  BY <1>7 DEF QuitAnswered, GoTo
<1>8. ASSUME NEW c \in Clients, TapAnswered(c) PROVE Verified'
  BY <1>8 DEF TapAnswered, Return, GoTo
<1>9. ASSUME NEW c \in Clients, RequestFails(c) PROVE Verified'
  <2>1. cpc[c] # "clear" /\ UNCHANGED hpc
        /\ \A d \in Clients \ {c} : /\ cpc'[d] = cpc[d] /\ cont'[d] = cont[d]
                                      /\ target'[d] = target[d]
    BY <1>9 DEF RequestFails, NotUp, Return, GoTo, Waiting
  <2>2. ~(cpc'[c] = "clear" /\ cont'[c] = "destroy")
    BY <1>9, <2>1 DEF RequestFails, NotUp, Return, GoTo, Waiting
  <2>. QED
    BY <2>1, <2>2
<1>10. ASSUME NEW c \in Clients, StopStale(c) PROVE Verified'
  <2>1. /\ cpc' = [cpc EXCEPT ![c] = "clear"] /\ UNCHANGED <<hpc, target>>
        /\ \A d \in Clients : cont'[d] = "destroy" => d # c /\ cont[d] = "destroy"
    BY <1>10 DEF StopStale, GoTo
  <2>. QED
    BY <2>1
<1>11. ASSUME NEW c \in Clients, RequestQuit(c) PROVE Verified'
  BY <1>11 DEF RequestQuit, GoTo
<1>12. ASSUME NEW c \in Clients, Recheck(c) PROVE Verified'
  BY <1>12 DEF Recheck, GoTo
<1>13. ASSUME NEW c \in Clients, Kill(c) PROVE Verified'
  <2>1. /\ cpc' = [cpc EXCEPT ![c] = "waitdead"] /\ UNCHANGED <<cont, target>>
        /\ \A h \in Holders : hpc'[h] # hpc[h] => hpc'[h] \in {"zombie", "dead"}
    BY <1>13 DEF Kill, Die, Running, GoTo
  <2>. QED
    BY <2>1
<1>14. ASSUME NEW c \in Clients, WaitDead(c) PROVE Verified'
  <2>1. target[c] \in Holders /\ hpc[target[c]] # "free"
    BY <1>14 DEF WaitDead
  <2>2. hpc'[target[c]] \in {"zombie", "dead"}
    BY <1>14, <2>1 DEF WaitDead, Reapable, Alive, HolderPcs
  <2>3. /\ \A d \in Clients \ {c} : cpc'[d] = cpc[d]
        /\ \A h \in Holders : hpc'[h] # hpc[h] => hpc'[h] \in {"zombie", "dead"}
        /\ UNCHANGED <<cont, target>>
    BY <1>14 DEF WaitDead, Reapable, GoTo
  <2>. QED
    BY <2>1, <2>2, <2>3
<1>15. ASSUME NEW c \in Clients, WouldNotStop(c) PROVE Verified'
  BY <1>15 DEF WouldNotStop, Return, GoTo
<1>16. ASSUME NEW c \in Clients, Clear(c) PROVE Verified'
  BY <1>16 DEF Clear, Return, GoTo
<1>17. ASSUME NEW c \in Clients, Spawn(c) PROVE Verified'
  BY <1>17 DEF Spawn, GoTo
<1>18. ASSUME NEW c \in Clients, Access(c) PROVE Verified'
  BY <1>18 DEF Access, Return, GoTo
<1>19. ASSUME NEW c \in Clients, Deadline(c) PROVE Verified'
  BY <1>19 DEF Deadline, GoTo
<1>20. ASSUME NEW c \in Clients, DestroyAbsent(c) PROVE Verified'
  BY <1>20 DEF DestroyAbsent, Return, GoTo
<1>21. ASSUME NEW c \in Clients, DestroyRecorded(c) PROVE Verified'
  BY <1>21 DEF DestroyRecorded, GoTo
<1>22. ASSUME NEW c \in Clients, Exit(c) PROVE Verified'
  BY <1>22 DEF Exit, Forget, GoTo, Orphan
<1>23. ASSUME NEW c \in Clients, Crash(c) PROVE Verified'
  BY <1>23 DEF Crash, Forget, GoTo, Orphan
<1>24. ASSUME NEW c \in Clients, NEW o \in Ops, Start(c, o) PROVE Verified'
  BY <1>24 DEF Start, GoTo
<1>25. ASSUME NEW h \in Holders, HPrepare(h) PROVE Verified'
  BY <1>25 DEF HPrepare, HGoTo
<1>26. ASSUME NEW h \in Holders, HBind(h) PROVE Verified'
  <2>1. /\ hpc[h] = "bind" /\ UNCHANGED <<cpc, locals>>
        /\ \A g \in Holders \ {h} : hpc'[g] = hpc[g]
    BY <1>26 DEF HBind, HGoTo
  <2>. QED
    BY <2>1
<1>27. ASSUME NEW h \in Holders, HTruncate(h) PROVE Verified'
  BY <1>27 DEF HTruncate, HGoTo
<1>28. ASSUME NEW h \in Holders, HPublish(h) PROVE Verified'
  BY <1>28 DEF HPublish, HGoTo
<1>29. ASSUME NEW h \in Holders, HAnswer(h) PROVE Verified'
  BY <1>29 DEF HAnswer, HGoTo
<1>30. ASSUME NEW h \in Holders, HCloseSocket(h) PROVE Verified'
  BY <1>30 DEF HCloseSocket, HGoTo
<1>31. ASSUME NEW h \in Holders, HUnlinkState(h) PROVE Verified'
  BY <1>31 DEF HUnlinkState, HGoTo
<1>32. ASSUME NEW h \in Holders, HUnlinkFifo(h) PROVE Verified'
  BY <1>32 DEF HUnlinkFifo, Die
<1>33. ASSUME NEW h \in Holders, HKilled(h) PROVE Verified'
  BY <1>33 DEF HKilled, Die, Running
<1>34. ASSUME NEW p \in Pids, Recycle(p) PROVE Verified'
  BY <1>34 DEF Recycle
<1>35. ASSUME NEW p \in Pids, ForeignExit(p) PROVE Verified'
  BY <1>35 DEF ForeignExit
<1>36. CASE UNCHANGED vars
  BY <1>36 DEF vars
<1>. QED
  BY <1>1, <1>2, <1>3, <1>4, <1>5, <1>6, <1>7, <1>8, <1>9, <1>10, <1>11, <1>12,
     <1>13, <1>14, <1>15, <1>16, <1>17, <1>18, <1>19, <1>20, <1>21, <1>22, <1>23,
     <1>24, <1>25, <1>26, <1>27, <1>28, <1>29, <1>30, <1>31, <1>32, <1>33, <1>34,
     <1>35, <1>36
  DEF Next, ClientStep, HolderStep

\* A look at /proc finds the holder, and nobody takes its PID before the signal.
LEMMA UndisturbedStep ==
  ASSUME RecycleInWindow = FALSE, TypeOK, Table, Recorded, Undisturbed, [Next]_vars
  PROVE  Undisturbed'
<1> USE ConstantsAssumption DEF TypeOK, Table, Recorded, Undisturbed, StopPcs, files, table, locals
<1>1. ASSUME NEW c \in Clients, Lock(c) PROVE Undisturbed'
  BY <1>1 DEF Lock, GoTo
<1>2. ASSUME NEW c \in Clients, AskStatus(c) PROVE Undisturbed'
  BY <1>2 DEF AskStatus, GoTo
<1>3. ASSUME NEW c \in Clients, StatusFromFiles(c) PROVE Undisturbed'
  BY <1>3 DEF StatusFromFiles, NotUp, Return, GoTo
<1>4. ASSUME NEW c \in Clients, Tap(c) PROVE Undisturbed'
  BY <1>4 DEF Tap, Return, GoTo
<1>5. ASSUME NEW c \in Clients, StatusAnswered(c) PROVE Undisturbed'
  BY <1>5 DEF StatusAnswered, NotUp, Return, GoTo
<1>6. ASSUME NEW c \in Clients, PollAnswered(c) PROVE Undisturbed'
  BY <1>6 DEF PollAnswered, GoTo
<1>7. ASSUME NEW c \in Clients, QuitAnswered(c) PROVE Undisturbed'
  BY <1>7 DEF QuitAnswered, GoTo
<1>8. ASSUME NEW c \in Clients, TapAnswered(c) PROVE Undisturbed'
  BY <1>8 DEF TapAnswered, Return, GoTo
<1>9. ASSUME NEW c \in Clients, RequestFails(c) PROVE Undisturbed'
  BY <1>9 DEF RequestFails, NotUp, Return, GoTo, HangUp, Waiting
<1>10. ASSUME NEW c \in Clients, StopStale(c) PROVE Undisturbed'
  BY <1>10 DEF StopStale, GoTo
<1>11. ASSUME NEW c \in Clients, RequestQuit(c) PROVE Undisturbed'
  BY <1>11 DEF RequestQuit, GoTo
<1>12. ASSUME NEW c \in Clients, Recheck(c) PROVE Undisturbed'
  <2>1. target[c] \in Holders
    BY <1>12 DEF Recheck
  <2>. QED
    BY <1>12, <2>1 DEF Recheck, GoTo, IdentityMatches
<1>13. ASSUME NEW c \in Clients, Kill(c) PROVE Undisturbed'
  BY <1>13 DEF Kill, GoTo, Die, Running
<1>14. ASSUME NEW c \in Clients, WaitDead(c) PROVE Undisturbed'
  BY <1>14 DEF WaitDead, GoTo, Reapable, Alive
<1>15. ASSUME NEW c \in Clients, WouldNotStop(c) PROVE Undisturbed'
  BY <1>15 DEF WouldNotStop, Return, GoTo
<1>16. ASSUME NEW c \in Clients, Clear(c) PROVE Undisturbed'
  BY <1>16 DEF Clear, Return, GoTo
<1>17. ASSUME NEW c \in Clients, Spawn(c) PROVE Undisturbed'
  BY <1>17 DEF Spawn, GoTo
<1>18. ASSUME NEW c \in Clients, Access(c) PROVE Undisturbed'
  BY <1>18 DEF Access, Return, GoTo
<1>19. ASSUME NEW c \in Clients, Deadline(c) PROVE Undisturbed'
  BY <1>19 DEF Deadline, GoTo
<1>20. ASSUME NEW c \in Clients, DestroyAbsent(c) PROVE Undisturbed'
  BY <1>20 DEF DestroyAbsent, Return, GoTo
<1>21. ASSUME NEW c \in Clients, DestroyRecorded(c) PROVE Undisturbed'
  BY <1>21 DEF DestroyRecorded, GoTo
<1>22. ASSUME NEW c \in Clients, Exit(c) PROVE Undisturbed'
  BY <1>22 DEF Exit, Forget, GoTo, Orphan
<1>23. ASSUME NEW c \in Clients, Crash(c) PROVE Undisturbed'
  BY <1>23 DEF Crash, Forget, GoTo, Orphan
<1>24. ASSUME NEW c \in Clients, NEW o \in Ops, Start(c, o) PROVE Undisturbed'
  BY <1>24 DEF Start, GoTo
<1>25. ASSUME NEW h \in Holders, HPrepare(h) PROVE Undisturbed'
  BY <1>25 DEF HPrepare, HGoTo
<1>26. ASSUME NEW h \in Holders, HBind(h) PROVE Undisturbed'
  BY <1>26 DEF HBind, HGoTo
<1>27. ASSUME NEW h \in Holders, HTruncate(h) PROVE Undisturbed'
  BY <1>27 DEF HTruncate, HGoTo
<1>28. ASSUME NEW h \in Holders, HPublish(h) PROVE Undisturbed'
  BY <1>28 DEF HPublish, HGoTo
<1>29. ASSUME NEW h \in Holders, HAnswer(h) PROVE Undisturbed'
  BY <1>29 DEF HAnswer, HGoTo
<1>30. ASSUME NEW h \in Holders, HCloseSocket(h) PROVE Undisturbed'
  BY <1>30 DEF HCloseSocket, HGoTo
<1>31. ASSUME NEW h \in Holders, HUnlinkState(h) PROVE Undisturbed'
  BY <1>31 DEF HUnlinkState, HGoTo
<1>32. ASSUME NEW h \in Holders, HUnlinkFifo(h) PROVE Undisturbed'
  BY <1>32 DEF HUnlinkFifo, Die
<1>33. ASSUME NEW h \in Holders, HKilled(h) PROVE Undisturbed'
  BY <1>33 DEF HKilled, Die, Running
<1>34. ASSUME NEW p \in Pids, Recycle(p) PROVE Undisturbed'
  BY <1>34 DEF Recycle
<1>35. ASSUME NEW p \in Pids, ForeignExit(p) PROVE Undisturbed'
  BY <1>35 DEF ForeignExit
<1>36. CASE UNCHANGED vars
  BY <1>36 DEF vars
<1>. QED
  BY <1>1, <1>2, <1>3, <1>4, <1>5, <1>6, <1>7, <1>8, <1>9, <1>10, <1>11, <1>12,
     <1>13, <1>14, <1>15, <1>16, <1>17, <1>18, <1>19, <1>20, <1>21, <1>22, <1>23,
     <1>24, <1>25, <1>26, <1>27, <1>28, <1>29, <1>30, <1>31, <1>32, <1>33, <1>34,
     <1>35, <1>36
  DEF Next, ClientStep, HolderStep

\* The step in which a client sends its signal leaves the other processes alone.
LEMMA SignalStep ==
  ASSUME TypeOK, Table, Recorded, Undisturbed, [Next]_vars,
         NEW e \in Clients, NEW q \in Pids,
         cpc[e] = "kill", cpc'[e] = "waitdead", occupant[q] = Foreign
  PROVE  occupant'[q] = Foreign
<1> USE ConstantsAssumption DEF TypeOK, Table, Recorded, StopPcs, files, table, locals
<1>1. ASSUME NEW c \in Clients, Lock(c) PROVE occupant'[q] = Foreign
  BY <1>1 DEF Lock, GoTo
<1>2. ASSUME NEW c \in Clients, AskStatus(c) PROVE occupant'[q] = Foreign
  BY <1>2 DEF AskStatus, GoTo
<1>3. ASSUME NEW c \in Clients, StatusFromFiles(c) PROVE occupant'[q] = Foreign
  BY <1>3 DEF StatusFromFiles, NotUp, Return, GoTo
<1>4. ASSUME NEW c \in Clients, Tap(c) PROVE occupant'[q] = Foreign
  BY <1>4 DEF Tap, Return, GoTo
<1>5. ASSUME NEW c \in Clients, StatusAnswered(c) PROVE occupant'[q] = Foreign
  BY <1>5 DEF StatusAnswered, NotUp, Return, GoTo
<1>6. ASSUME NEW c \in Clients, PollAnswered(c) PROVE occupant'[q] = Foreign
  BY <1>6 DEF PollAnswered, GoTo
<1>7. ASSUME NEW c \in Clients, QuitAnswered(c) PROVE occupant'[q] = Foreign
  BY <1>7 DEF QuitAnswered, GoTo
<1>8. ASSUME NEW c \in Clients, TapAnswered(c) PROVE occupant'[q] = Foreign
  BY <1>8 DEF TapAnswered, Return, GoTo
<1>9. ASSUME NEW c \in Clients, RequestFails(c) PROVE occupant'[q] = Foreign
  BY <1>9 DEF RequestFails, NotUp, Return, GoTo, HangUp, Waiting
<1>10. ASSUME NEW c \in Clients, StopStale(c) PROVE occupant'[q] = Foreign
  BY <1>10 DEF StopStale, GoTo
<1>11. ASSUME NEW c \in Clients, RequestQuit(c) PROVE occupant'[q] = Foreign
  BY <1>11 DEF RequestQuit, GoTo
<1>12. ASSUME NEW c \in Clients, Recheck(c) PROVE occupant'[q] = Foreign
  BY <1>12 DEF Recheck, GoTo
<1>13. ASSUME NEW c \in Clients, Kill(c) PROVE occupant'[q] = Foreign
  <2>1. CASE c = e
    <3>1. target[c] \in Holders /\ pidOf[target[c]] # q
      BY <2>1 DEF Undisturbed
    <3>2. ASSUME NEW h \in Holders, occupant[pidOf[target[c]]] = h PROVE pidOf[h] # q
      BY <3>1, <3>2
    <3>. QED
      BY <1>13, <3>1, <3>2 DEF Kill, Die
  <2>2. CASE c # e
    BY <1>13, <2>2 DEF Kill, GoTo
  <2>. QED
    BY <2>1, <2>2
<1>14. ASSUME NEW c \in Clients, WaitDead(c) PROVE occupant'[q] = Foreign
  BY <1>14 DEF WaitDead, GoTo, Reapable, Alive
<1>15. ASSUME NEW c \in Clients, WouldNotStop(c) PROVE occupant'[q] = Foreign
  BY <1>15 DEF WouldNotStop, Return, GoTo
<1>16. ASSUME NEW c \in Clients, Clear(c) PROVE occupant'[q] = Foreign
  BY <1>16 DEF Clear, Return, GoTo
<1>17. ASSUME NEW c \in Clients, Spawn(c) PROVE occupant'[q] = Foreign
  BY <1>17 DEF Spawn, GoTo
<1>18. ASSUME NEW c \in Clients, Access(c) PROVE occupant'[q] = Foreign
  BY <1>18 DEF Access, Return, GoTo
<1>19. ASSUME NEW c \in Clients, Deadline(c) PROVE occupant'[q] = Foreign
  BY <1>19 DEF Deadline, GoTo
<1>20. ASSUME NEW c \in Clients, DestroyAbsent(c) PROVE occupant'[q] = Foreign
  BY <1>20 DEF DestroyAbsent, Return, GoTo
<1>21. ASSUME NEW c \in Clients, DestroyRecorded(c) PROVE occupant'[q] = Foreign
  BY <1>21 DEF DestroyRecorded, GoTo
<1>22. ASSUME NEW c \in Clients, Exit(c) PROVE occupant'[q] = Foreign
  BY <1>22 DEF Exit, Forget, GoTo, Orphan
<1>23. ASSUME NEW c \in Clients, Crash(c) PROVE occupant'[q] = Foreign
  BY <1>23 DEF Crash, Forget, GoTo, Orphan
<1>24. ASSUME NEW c \in Clients, NEW o \in Ops, Start(c, o) PROVE occupant'[q] = Foreign
  BY <1>24 DEF Start, GoTo
<1>25. ASSUME NEW h \in Holders, HPrepare(h) PROVE occupant'[q] = Foreign
  BY <1>25 DEF HPrepare, HGoTo
<1>26. ASSUME NEW h \in Holders, HBind(h) PROVE occupant'[q] = Foreign
  BY <1>26 DEF HBind, HGoTo
<1>27. ASSUME NEW h \in Holders, HTruncate(h) PROVE occupant'[q] = Foreign
  BY <1>27 DEF HTruncate, HGoTo
<1>28. ASSUME NEW h \in Holders, HPublish(h) PROVE occupant'[q] = Foreign
  BY <1>28 DEF HPublish, HGoTo
<1>29. ASSUME NEW h \in Holders, HAnswer(h) PROVE occupant'[q] = Foreign
  BY <1>29 DEF HAnswer, HGoTo
<1>30. ASSUME NEW h \in Holders, HCloseSocket(h) PROVE occupant'[q] = Foreign
  BY <1>30 DEF HCloseSocket, HGoTo
<1>31. ASSUME NEW h \in Holders, HUnlinkState(h) PROVE occupant'[q] = Foreign
  BY <1>31 DEF HUnlinkState, HGoTo
<1>32. ASSUME NEW h \in Holders, HUnlinkFifo(h) PROVE occupant'[q] = Foreign
  BY <1>32 DEF HUnlinkFifo, Die
<1>33. ASSUME NEW h \in Holders, HKilled(h) PROVE occupant'[q] = Foreign
  BY <1>33 DEF HKilled, Die, Running
<1>34. ASSUME NEW p \in Pids, Recycle(p) PROVE occupant'[q] = Foreign
  BY <1>34 DEF Recycle
<1>35. ASSUME NEW p \in Pids, ForeignExit(p) PROVE occupant'[q] = Foreign
  BY <1>35 DEF ForeignExit
<1>36. CASE UNCHANGED vars
  BY <1>36 DEF vars
<1>. QED
  BY <1>1, <1>2, <1>3, <1>4, <1>5, <1>6, <1>7, <1>8, <1>9, <1>10, <1>11, <1>12,
     <1>13, <1>14, <1>15, <1>16, <1>17, <1>18, <1>19, <1>20, <1>21, <1>22, <1>23,
     <1>24, <1>25, <1>26, <1>27, <1>28, <1>29, <1>30, <1>31, <1>32, <1>33, <1>34,
     <1>35, <1>36
  DEF Next, ClientStep, HolderStep

-----------------------------------------------------------------------------
(* Theorems.                                                               *)

\* A destroy() that says "destroyed" has seen the recorded holder dead, whichever
\* clients were killed, whatever they left behind and whoever has its PID now.
THEOREM DestroyIsVerified == Spec => DestroyedHolderIsDead
<1>1. Init => Verified
  BY DEF Init, Verified
<1>2. IInv => TypeOK /\ Table /\ Recorded
  BY DEF IInv
<1>3. IInv /\ Verified /\ [Next]_vars => Verified'
  BY <1>2, VerifiedStep
<1>4. ASSUME IInv, Verified, [Next]_vars, NEW e \in Clients, Returns(e, {"destroyed"})
      PROVE  ~Running(target[e])'
  <2>1. TypeOK /\ outcome'[e] = "destroyed" /\ outcome'[e] # outcome[e]
    BY <1>2, <1>4 DEF Returns
  <2>2. Clear(e) \/ DestroyAbsent(e)
    BY <1>4, <2>1, ReturnsFromDestroy
  <2>3. ~DestroyAbsent(e)
    BY <2>1 DEF DestroyAbsent, Return, TypeOK
  <2>4. cont[e] = "destroy" /\ cpc[e] = "clear" /\ UNCHANGED <<hpc, target>>
    BY <2>1, <2>2, <2>3 DEF Clear, Return, TypeOK, table, locals
  <2>. QED
    BY <1>4, <2>4 DEF Verified, Running
<1>5. IInv /\ Verified /\ [Next]_vars
      => [\A c \in Clients : Returns(c, {"destroyed"}) => ~Running(target[c])']_vars
  BY <1>4
<1>. QED
  BY <1>1, <1>3, <1>5, Invariance, PTL DEF Spec, DestroyedHolderIsDead

\* Unless a PID is reused between the look at /proc and the signal, no signal of a
\* client ends a process that is no holder.
THEOREM SignalsAreForHolders ==
  ASSUME RecycleInWindow = FALSE
  PROVE  Spec => OnlyHoldersAreSignalled
<1>1. Init => Undisturbed
  BY DEF Init, Undisturbed
<1>2. IInv => TypeOK /\ Table /\ Recorded
  BY DEF IInv
<1>3. IInv /\ Undisturbed /\ [Next]_vars => Undisturbed'
  BY <1>2, UndisturbedStep
<1>4. IInv /\ Undisturbed /\ [Next]_vars
      => [\A c \in Clients, p \in Pids :
            cpc[c] = "kill" /\ cpc'[c] = "waitdead" /\ occupant[p] = Foreign
            => occupant'[p] = Foreign]_vars
  BY <1>2, SignalStep
<1>. QED
  BY <1>1, <1>3, <1>4, Invariance, PTL DEF Spec, OnlyHoldersAreSignalled

=============================================================================
