------------------------ MODULE SessionSupervisor_proofs ------------------------
(***************************************************************************)
(* One app at a time, for any sessions, stops and kills of the supervisor,  *)
(* when none of them meets a launch half way (LaunchMidRestart is FALSE).   *)
(***************************************************************************)
EXTENDS SessionSupervisor, TLAPS

Chain == {"unit_inactive", "target_released", "selected_owner_active",
          "presentation_acknowledged"}
Reporting == {"asking", "verdict"} \cup Chain
Restarting == {"read", "glob", "decide", "verdict"} \cup Chain

LaunchHook(s) == <<"launch", s>> \in hooks

\* What becomes of an app, its marker and the hook that starts it.
AppInv ==
    \A s \in Sessions :
        /\ Present(s) \/ LaunchHook(s) \/ s \in marker => open = s
        /\ LaunchHook(s) => app[s] = "none"
        /\ app[s] \in {"marked", "serving", "closing"} => s \in marker
        /\ s \in marker => app[s] \notin {"none", "starting"}

\* The session that is open has nothing left to show: it may be closed.
Over == open # None /\ open \notin marker /\ ~Present(open) /\ ~LaunchHook(open)

\* What a thread knows of the open session where it reports on it.
ThreadInv ==
    \A t \in Threads :
        /\ pc[t] \in Reporting => Over
        /\ pc[t] \in Chain => ended
        /\ pc[t] = "target_released" => stage >= 1
        /\ pc[t] = "selected_owner_active" => stage >= 2
        /\ pc[t] = "presentation_acknowledged" => stage >= 3

WatcherInv ==
    \A s \in Sessions :
        /\ pc[s] \notin {"idle", "pop"} => open = s
        /\ pc[s] \in Reporting => app[s] = "exited"
        /\ pc[s] \in {"idle", "launching", "running", "waiting", "pop"} \cup Reporting

AdopterInv ==
    /\ pc[Adopter] \in {"idle", "watching"} \cup Reporting
    /\ pc[Adopter] # "idle" =>
         /\ \A s \in Sessions : pc[s] = "idle"
         /\ adopted # None /\ open = adopted
         /\ app[adopted] \notin {"none", "starting"}

MainInv ==
    /\ pc[Main] \in {"down", "serve", "terminate", "leave"} \cup Restarting
    /\ pc[Main] \in Restarting \cup {"down"} => \A t \in Threads \ {Main} : pc[t] = "idle"
    /\ pc[Main] \in Restarting => \A s \in Sessions : app[s] # "starting" /\ ~LaunchHook(s)
    /\ pc[Main] \in {"glob", "decide"} => seen.active = open /\ (seen.ended => ended)
    /\ pc[Main] = "decide" => marker \subseteq found
    /\ \A s \in found : pc[Main] = "decide" => open = s /\ app[s] \notin {"none", "starting"}

\* The authority's verdict on the open session and on those before it.
VerdictInv ==
    /\ ended => verdict # "none"
    /\ open = None => ~ended
    /\ verdict = "crash" => open # None /\ code[open] = "fail" /\ app[open] = "exited"
    /\ open # None => receipt[open] = "none"
    /\ \A s \in Sessions : receipt[s] = "crash" => code[s] = "fail" /\ app[s] = "exited"

\* A viewer has its app, unless that app failed.
ViewerInv == \A s \in viewers : app[s] \in {"serving", "closing"} \/ Failed(s)

IInv == TypeOK /\ AppInv /\ ViewerInv /\ ThreadInv /\ WatcherInv /\ AdopterInv /\ MainInv /\ VerdictInv

-----------------------------------------------------------------------------
(* Types.                                                                  *)

LEMMA ChainFacts ==
    /\ Len(ReturnChain) = 4 /\ DOMAIN ReturnChain = 1 .. 4
    /\ ReturnChain[1] = "unit_inactive" /\ ReturnChain[2] = "target_released"
    /\ ReturnChain[3] = "selected_owner_active"
    /\ ReturnChain[4] = "presentation_acknowledged"
    /\ Range(ReturnChain) = Chain
<1>1. /\ Len(ReturnChain) = 4 /\ DOMAIN ReturnChain = 1 .. 4
      /\ ReturnChain[1] = "unit_inactive" /\ ReturnChain[2] = "target_released"
      /\ ReturnChain[3] = "selected_owner_active"
      /\ ReturnChain[4] = "presentation_acknowledged"
  BY DEF ReturnChain
<1>2. 1 .. 4 = {1, 2, 3, 4}
  OBVIOUS
<1> QED
  BY <1>1, <1>2 DEF Range, Chain

\* An observation of the return chain is ignored, taken as the next, or the last.
LEMMA ReturnObserved ==
    ASSUME TypeOK, NEW kind, ObserveReturn(kind)
    PROVE  \/ UNCHANGED entry /\ (open = None \/ ~ended \/ kind # ReturnChain[stage + 1])
           \/ /\ open # None /\ ended /\ kind = ReturnChain[stage + 1] /\ stage < 3
              /\ stage' = stage + 1 /\ UNCHANGED <<open, started, ended, verdict, receipt>>
           \/ /\ open # None /\ ended /\ kind = ReturnChain[stage + 1] /\ stage = 3
              /\ receipt' = [receipt EXCEPT ![open] = verdict]
              /\ open' = None /\ started' = FALSE /\ ended' = FALSE
              /\ verdict' = "none" /\ stage' = 0
BY ChainFacts DEF ObserveReturn, TypeOK

\* Where a reporting thread is, and where it goes.
LEMMA ReturnMoves ==
    ASSUME NEW t \in Threads, ReportReturn(t)
    PROVE  \/ pc[t] = "unit_inactive" /\ ObserveReturn(pc[t]) /\ GoTo(t, "target_released")
           \/ pc[t] = "target_released" /\ ObserveReturn(pc[t])
              /\ GoTo(t, "selected_owner_active")
           \/ pc[t] = "selected_owner_active" /\ ObserveReturn(pc[t])
              /\ GoTo(t, "presentation_acknowledged")
           \/ pc[t] = "presentation_acknowledged" /\ ObserveReturn(pc[t])
              /\ GoTo(t, AfterReturn(t))
<1>1. PICK i \in 1 .. 4 : /\ pc[t] = ReturnChain[i] /\ ObserveReturn(ReturnChain[i])
                         /\ GoTo(t, IF i = 4 THEN AfterReturn(t) ELSE ReturnChain[i + 1])
  BY ChainFacts DEF ReportReturn
<1>2. i = 1 \/ i = 2 \/ i = 3 \/ i = 4
  OBVIOUS
<1> QED
  BY <1>1, <1>2, ChainFacts

LEMMA ProcessEndsTyped ==
    ASSUME ProcessEnds
    PROVE  /\ pc' \in [Threads -> Pcs]
           /\ seen' \in [active : Sessions \cup {None}, ended : BOOLEAN, started : BOOLEAN]
           /\ found' = {} /\ adopted' = None /\ stopper' = {} /\ stopping' = FALSE
<1>1. "down" \in Pcs /\ "idle" \in Pcs
  BY DEF Pcs
<1> QED
  BY <1>1 DEF ProcessEnds, Nothing

LEMMA TypeStep ==
    ASSUME TypeOK, [Next]_vars
    PROVE  TypeOK'
<1> USE ConstantsAssumption DEF TypeOK, GoTo
<1>1. CASE UNCHANGED vars
  BY <1>1 DEF vars, authority, entry, apps, process, locals
<1>2. ASSUME NEW s \in Sessions, AuthorityStep(s)
      PROVE  TypeOK'
  <2>1. hooks' \subseteq HookKinds \X Sessions
    BY <1>2 DEF AuthorityStep, Launch, AskStop, AskKill, HookFails, HookKinds
  <2>2. /\ open' \in Sessions \cup {None} /\ ended' \in BOOLEAN
        /\ verdict' \in {"none", "returned", "crash"} /\ asked' \in [Sessions -> 0 .. 2]
        /\ UNCHANGED <<started, stage, receipt, apps, process, stops, kills>>
    <3>1. CASE Launch(s)
      BY <3>1 DEF Launch
    <3>2. CASE \E kind \in HookKinds : HookFails(<<kind, s>>)
      <4>1. UNCHANGED <<entry, asked, apps, process, stops, kills>>
        BY <3>2 DEF HookFails
      <4> QED
        BY <4>1 DEF entry
    <3>3. CASE AskStop(s)
      <4>1. asked' \in [Sessions -> 0 .. 2]
        BY <3>3 DEF AskStop
      <4>2. CASE UNCHANGED entry
        BY <3>3, <4>1, <4>2 DEF AskStop, entry
      <4>3. CASE ObserveExit("returned")
        BY <3>3, <4>1, <4>3 DEF AskStop, ObserveExit
      <4> QED
        BY <3>3, <4>2, <4>3 DEF AskStop
    <3>4. CASE AskKill(s)
      BY <3>4 DEF AskKill, entry
    <3> QED
      BY <1>2, <3>1, <3>2, <3>3, <3>4 DEF AuthorityStep
  <2> QED
    BY <2>1, <2>2 DEF apps, process, locals
<1>3. ASSUME NEW s \in Sessions, AppStep(s) \/ AppCommanded(s) \/ StopWhenReady(s)
      PROVE  TypeOK'
  BY <1>3 DEF AppStep, AppMarks, AppFails, AppBehaves, AppHides, AppCloses, AppExits,
              AppCommanded, StopWhenReady, App, Ends, MayShow, AppPcs, authority, entry, process,
              locals
<1>4. ASSUME NEW s \in Sessions, CommandStep(s)
      PROVE  TypeOK'
  <2>1. app' \in [Sessions -> AppPcs] /\ code' \in [Sessions -> {"none", "ok", "fail"}]
    BY <1>4 DEF CommandStep, HookLaunch, HookStop, HookKill, Signalled, AppPcs, apps
  <2>2. pc' \in [Threads -> Pcs]
    BY <1>4 DEF CommandStep, HookLaunch, HookStop, HookKill, Pcs, Threads, process
  <2>3. /\ hooks' \subseteq hooks /\ stopper' \subseteq Sessions
        /\ UNCHANGED <<entry, asked, marker, viewers, locals, stopping, stops, kills>>
    BY <1>4 DEF CommandStep, HookLaunch, HookStop, HookKill, Signalled, apps, process
  <2> QED
    BY <2>1, <2>2, <2>3 DEF entry, locals
<1>5. ASSUME NEW s \in Sessions, WatcherStep(s)
      PROVE  TypeOK'
  <2>1. pc' \in [Threads -> Pcs]
    BY <1>5 DEF WatcherStep, WatchLaunch, WatchRunning, WatchExit, WatchPop, Pcs, Threads
  <2>2. /\ started' \in BOOLEAN /\ marker' \subseteq Sessions
        /\ UNCHANGED <<open, ended, verdict, stage, receipt, hooks, asked, app, code, viewers, locals,
                       stopper, stopping, stops, kills>>
    BY <1>5 DEF WatcherStep, WatchLaunch, WatchRunning, WatchExit, WatchPop, ObserveRunning,
                authority, entry, apps
  <2> QED
    BY <2>1, <2>2 DEF locals
<1>6. ASSUME NEW t \in Threads, Ask(t) \/ ReportExit(t)
      PROVE  TypeOK'
  <2>1. pc' \in [Threads -> Pcs]
    BY <1>6, ChainFacts DEF Ask, ReportExit, Pcs, Chain
  <2>2. /\ ended' \in BOOLEAN /\ verdict' \in {"none", "returned", "crash"}
        /\ UNCHANGED <<open, started, stage, receipt, hooks, asked, apps, locals, stopper,
                       stopping, stops, kills>>
    BY <1>6 DEF Ask, ReportExit, ObserveExit, authority, entry
  <2> QED
    BY <2>1, <2>2 DEF apps, locals
<1>7. ASSUME NEW t \in Threads, ReportReturn(t)
      PROVE  TypeOK'
  <2>1. pc' \in [Threads -> Pcs] /\ UNCHANGED <<hooks, asked, apps, locals, stopper, stopping, stops, kills>>
    BY <1>7, ReturnMoves, ChainFacts DEF AfterReturn, Pcs, Chain, ReportReturn
  <2>2. ObserveReturn(pc[t])
    BY <1>7, ReturnMoves
  <2> QED
    <3>1. CASE UNCHANGED entry
      BY <2>1, <3>1 DEF entry, apps, locals
    <3>2. CASE stage < 3 /\ stage' = stage + 1 /\ UNCHANGED <<open, started, ended, verdict, receipt>>
      <4>1. stage' \in 0 .. Len(ReturnChain) - 1
        BY <3>2, ChainFacts
      <4> QED
        BY <2>1, <3>2, <4>1 DEF apps, locals
    <3>3. CASE /\ open # None /\ receipt' = [receipt EXCEPT ![open] = verdict]
               /\ open' = None /\ started' = FALSE /\ ended' = FALSE
               /\ verdict' = "none" /\ stage' = 0
      <4>1. stage' \in 0 .. Len(ReturnChain) - 1
        BY <3>3, ChainFacts
      <4> QED
        BY <2>1, <3>3, <4>1 DEF apps, locals
    <3> QED
      BY <2>2, <3>1, <3>2, <3>3, ReturnObserved
<1>8. CASE MainStep
  <2>1. CASE Start \/ ReadHistory \/ ListMarkers \/ StopServing
    BY <2>1 DEF Start, ReadHistory, ListMarkers, StopServing, Pcs, Threads,
                authority, entry, apps, locals
  <2>2. CASE ReconcileGone \/ ReconcileAdopt \/ ReconcileIdle
    <3>1. pc' \in [Threads -> Pcs]
      BY <2>2, ChainFacts DEF ReconcileGone, ReconcileAdopt, ReconcileIdle, Pcs, Chain, Threads
    <3>2. /\ started' \in BOOLEAN /\ adopted' \in Sessions \cup {None} /\ marker' \subseteq Sessions
          /\ seen' = Nothing /\ found' = {}
          /\ UNCHANGED <<open, ended, verdict, stage, receipt, hooks, asked, app, code, viewers, stopper,
                         stopping, stops, kills>>
      BY <2>2 DEF ReconcileGone, ReconcileAdopt, ReconcileIdle, Decided, ObserveRunning,
                  authority, entry, apps
    <3>3. seen' \in [active : Sessions \cup {None}, ended : BOOLEAN, started : BOOLEAN]
      BY <3>2 DEF Nothing
    <3> QED
      BY <3>1, <3>2, <3>3
  <2>3. CASE TerminateChildren
    BY <2>3 DEF TerminateChildren, Signalled, AppPcs, Pcs, Threads, authority, entry, locals
  <2>4. CASE Leave
    BY <2>4, ProcessEndsTyped DEF Leave, authority, entry, apps
  <2> QED
    BY <1>8, <2>1, <2>2, <2>3, <2>4 DEF MainStep
<1>9. CASE AdopterWakes \/ Stop \/ Kill
  <2>1. CASE AdopterWakes \/ Stop
    <3>1. pc' \in [Threads -> Pcs]
      BY <2>1 DEF AdopterWakes, Stop, Pcs, Threads
    <3>2. /\ stopping' \in BOOLEAN /\ stops' \in 0 .. MaxStops
          /\ UNCHANGED <<authority, apps, locals, stopper, kills>>
      <4>1. CASE AdopterWakes
        BY <4>1 DEF AdopterWakes
      <4>2. CASE Stop
        <5>1. stops + 1 \in 0 .. MaxStops
          BY <4>2 DEF Stop
        <5> QED
          BY <4>2, <5>1 DEF Stop
      <4> QED
        BY <2>1, <4>1, <4>2
    <3> QED
      BY <3>1, <3>2 DEF authority, entry, apps, locals
  <2>2. CASE Kill
    BY <2>2, ProcessEndsTyped DEF Kill, authority, entry, apps
  <2> QED
    BY <1>9, <2>1, <2>2
<1> QED
  BY <1>1, <1>2, <1>3, <1>4, <1>5, <1>6, <1>7, <1>8, <1>9 DEF Next, ReportStep

LEMMA TypeInit == Init => TypeOK
<1> SUFFICES ASSUME Init
             PROVE  TypeOK
  OBVIOUS
<1> USE DEF Init
<1>1. stage \in 0 .. Len(ReturnChain) - 1
  BY ChainFacts
<1>2. pc \in [Threads -> Pcs]
  <2>1. "down" \in Pcs /\ "idle" \in Pcs
    BY DEF Pcs
  <2> QED
    BY <2>1
<1>3. seen \in [active : Sessions \cup {None}, ended : BOOLEAN, started : BOOLEAN]
  BY DEF Nothing
<1>4. receipt \in [Sessions -> {"none", "returned", "crash"}] /\ asked \in [Sessions -> 0 .. 2]
  OBVIOUS
<1>5. app \in [Sessions -> AppPcs] /\ code \in [Sessions -> {"none", "ok", "fail"}]
  BY DEF AppPcs
<1>6. stops \in 0 .. MaxStops /\ kills \in 0 .. MaxKills
  BY ConstantsAssumption
<1> QED
  BY <1>1, <1>2, <1>3, <1>4, <1>5, <1>6 DEF TypeOK

-----------------------------------------------------------------------------
(* What a step may do to the open session and to the apps.                  *)

\* A session is opened by a launch, and closed only by the end of a return chain.
LEMMA OpenChanges ==
    ASSUME TypeOK, ThreadInv, [Next]_vars, open' # open
    PROVE  \/ \E s \in Sessions : Launch(s)
           \/ \E t \in Threads : /\ pc[t] = "presentation_acknowledged" /\ ReportReturn(t)
                                /\ GoTo(t, AfterReturn(t))
                                /\ open # None /\ open' = None /\ ended' = FALSE
                                /\ verdict' = "none"
                                /\ receipt' = [receipt EXCEPT ![open] = verdict]
<1>1. ASSUME NEW s \in Sessions, AuthorityStep(s)
      PROVE  Launch(s)
  BY <1>1 DEF AuthorityStep, AskStop, AskKill, HookFails, ObserveExit, entry
<1>2. ASSUME NEW s \in Sessions
      PROVE  /\ ~AppStep(s) /\ ~AppCommanded(s) /\ ~CommandStep(s) /\ ~StopWhenReady(s)
             /\ ~WatcherStep(s)
  BY DEF AppStep, AppMarks, AppFails, AppBehaves, AppHides, AppCloses, AppExits, AppCommanded,
         StopWhenReady, CommandStep, HookLaunch, HookStop, HookKill, WatcherStep, WatchLaunch,
         WatchRunning, WatchExit, WatchPop, ObserveRunning, authority, entry
<1>3. ASSUME NEW t \in Threads
      PROVE  ~Ask(t) /\ ~ReportExit(t)
  BY DEF Ask, ReportExit, ObserveExit, authority, entry
<1>4. ~MainStep /\ ~AdopterWakes /\ ~Stop /\ ~Kill /\ ~(UNCHANGED vars)
  BY DEF MainStep, Start, ReadHistory, ListMarkers, ReconcileGone, ReconcileAdopt, ReconcileIdle,
         ObserveRunning, StopServing, TerminateChildren, Leave, AdopterWakes, Stop, Kill,
         vars, authority, entry
<1>5. ASSUME NEW t \in Threads, ReportReturn(t)
      PROVE  /\ pc[t] = "presentation_acknowledged" /\ GoTo(t, AfterReturn(t))
             /\ open # None /\ open' = None /\ ended' = FALSE /\ verdict' = "none"
             /\ receipt' = [receipt EXCEPT ![open] = verdict]
  <2>1. /\ ObserveReturn(pc[t])
        /\ pc[t] = "presentation_acknowledged" => GoTo(t, AfterReturn(t))
    BY <1>5, ReturnMoves
  <2>2. /\ open # None /\ ended /\ pc[t] = ReturnChain[stage + 1] /\ stage = 3
        /\ receipt' = [receipt EXCEPT ![open] = verdict]
        /\ open' = None /\ started' = FALSE /\ ended' = FALSE
        /\ verdict' = "none" /\ stage' = 0
    BY <2>1, ReturnObserved DEF entry
  <2> QED
    BY <2>1, <2>2, ChainFacts
<1> QED
  BY <1>1, <1>2, <1>3, <1>4, <1>5 DEF Next, ReportStep

\* Only the apps, who commands them and who signals them change them.
LEMMA OthersLeaveApps ==
    ASSUME [Next]_vars, ~TerminateChildren,
           \A u \in Sessions : ~(AppStep(u) \/ AppCommanded(u) \/ StopWhenReady(u) \/ CommandStep(u))
    PROVE  UNCHANGED app /\ UNCHANGED code /\ UNCHANGED viewers
<1>1. ASSUME NEW u \in Sessions, AuthorityStep(u) \/ WatcherStep(u)
      PROVE  UNCHANGED app /\ UNCHANGED code /\ UNCHANGED viewers
  BY <1>1 DEF AuthorityStep, Launch, AskStop, AskKill, HookFails, WatcherStep, WatchLaunch,
              WatchRunning, WatchExit, WatchPop, apps
<1>2. ASSUME NEW t \in Threads, ReportStep(t)
      PROVE  UNCHANGED app /\ UNCHANGED code /\ UNCHANGED viewers
  BY <1>2 DEF ReportStep, Ask, ReportExit, ReportReturn, apps
<1>3. CASE MainStep \/ AdopterWakes \/ Stop \/ Kill \/ UNCHANGED vars
  BY <1>3 DEF MainStep, Start, ReadHistory, ListMarkers, ReconcileGone, ReconcileAdopt,
              ReconcileIdle, StopServing, Leave, AdopterWakes, Stop, Kill, vars, apps
<1> QED
  BY <1>1, <1>2, <1>3 DEF Next

\* An app that has exited stays so, and one that has been marked does not start again.
LEMMA AppsGoOn ==
    ASSUME TypeOK, AppInv, [Next]_vars, NEW s \in Sessions
    PROVE  /\ app[s] = "exited" => app'[s] = "exited" /\ code'[s] = code[s]
           /\ app[s] \notin {"none", "starting"} => app'[s] \notin {"none", "starting"}
           /\ ~Present(s) /\ ~LaunchHook(s) /\ ~(\E u \in Sessions : Launch(u))
                => ~Present(s)'
           /\ app'[s] = "starting" => app[s] = "starting" \/ (HookLaunch(s) /\ LaunchHook(s))
<1> USE DEF Present, LaunchHook, TypeOK
<1>1. CASE UNCHANGED app /\ UNCHANGED code
  BY <1>1
<1>2. ASSUME NEW u \in Sessions,
             AppStep(u) \/ AppCommanded(u) \/ StopWhenReady(u)
      PROVE  /\ app[s] = "exited" => app'[s] = "exited" /\ code'[s] = code[s]
             /\ app[s] \notin {"none", "starting"} => app'[s] \notin {"none", "starting"}
             /\ ~Present(s) => ~Present(s)'
             /\ app'[s] = "starting" => app[s] = "starting"
  BY <1>2 DEF AppStep, AppMarks, AppFails, AppBehaves, AppHides, AppCloses, AppExits,
              AppCommanded, StopWhenReady, App, Ends
<1>3. ASSUME NEW u \in Sessions, CommandStep(u)
      PROVE  /\ app[s] = "exited" => app'[s] = "exited" /\ code'[s] = code[s]
             /\ app[s] \notin {"none", "starting"} => app'[s] \notin {"none", "starting"}
             /\ ~Present(s) /\ ~LaunchHook(s) => ~Present(s)'
             /\ app'[s] = "starting" => app[s] = "starting" \/ (HookLaunch(s) /\ LaunchHook(s))
  <2>1. CASE HookLaunch(u)
    BY <2>1 DEF HookLaunch, AppInv
  <2>2. CASE HookStop(u)
    BY <2>2 DEF HookStop, apps
  <2>3. CASE HookKill(u)
    BY <2>3 DEF HookKill, Signalled, Alive, apps
  <2> QED
    BY <1>3, <2>1, <2>2, <2>3 DEF CommandStep
<1>4. CASE TerminateChildren
  BY <1>4 DEF TerminateChildren, Signalled, Alive
<1> QED
  BY <1>1, <1>2, <1>3, <1>4, OthersLeaveApps

\* A hook that starts an app comes from a launch, a marker from an app that starts.
LEMMA HooksAndMarkers ==
    ASSUME TypeOK, [Next]_vars, NEW s \in Sessions
    PROVE  /\ LaunchHook(s)' => LaunchHook(s) \/ Launch(s)
           /\ s \in marker' => s \in marker \/ AppMarks(s)
<1> USE DEF LaunchHook
<1>1. CASE UNCHANGED <<hooks, marker>>
  BY <1>1
<1>2. ASSUME NEW u \in Sessions, AuthorityStep(u)
      PROVE  /\ LaunchHook(s)' => LaunchHook(s) \/ Launch(s)
             /\ marker' = marker
  BY <1>2 DEF AuthorityStep, Launch, AskStop, AskKill, HookFails, apps
<1>3. ASSUME NEW u \in Sessions, CommandStep(u)
      PROVE  hooks' \subseteq hooks /\ marker' = marker
  BY <1>3 DEF CommandStep, HookLaunch, HookStop, HookKill, Signalled, apps
<1>4. ASSUME NEW u \in Sessions, AppStep(u) \/ AppCommanded(u) \/ StopWhenReady(u)
      PROVE  hooks' = hooks /\ (s \in marker' => s \in marker \/ AppMarks(s))
  BY <1>4 DEF AppStep, AppMarks, AppFails, AppBehaves, AppHides, AppCloses, AppExits,
              AppCommanded, StopWhenReady, authority
<1>5. ASSUME NEW u \in Sessions, WatcherStep(u)
      PROVE  hooks' = hooks /\ marker' \subseteq marker
  BY <1>5 DEF WatcherStep, WatchLaunch, WatchRunning, WatchExit, WatchPop, authority, apps
<1>6. ASSUME NEW t \in Threads, ReportStep(t)
      PROVE  hooks' = hooks /\ marker' = marker
  BY <1>6 DEF ReportStep, Ask, ReportExit, ReportReturn, authority, apps
<1>7. CASE MainStep
  <2>1. CASE ReconcileIdle
    BY <2>1 DEF ReconcileIdle, authority
  <2>2. CASE ~ReconcileIdle
    BY <1>7, <2>2, <1>1
       DEF MainStep, Start, ReadHistory, ListMarkers, ReconcileGone, ReconcileAdopt,
           StopServing, TerminateChildren, Signalled, Leave, authority, apps
  <2> QED
    BY <2>1, <2>2
<1>8. CASE AdopterWakes \/ Stop \/ Kill \/ UNCHANGED vars
  BY <1>8 DEF AdopterWakes, Stop, Kill, vars, authority, apps
<1> QED
  BY <1>1, <1>2, <1>3, <1>4, <1>5, <1>6, <1>7, <1>8 DEF Next

\* Two threads never report at the same time, nor does one while a launch is watched.
LEMMA OnlyReporter ==
    ASSUME IInv, NEW t \in Threads, pc[t] \in Reporting, NEW u \in Threads, u # t
    PROVE  /\ pc[u] \notin Reporting
           /\ u \in Sessions => pc[u] \in {"idle", "pop"}
           /\ u = Adopter => pc[u] = "idle"
           /\ u = Main => pc[u] \notin Restarting \cup {"down"}
<1> USE ConstantsAssumption DEF IInv, Threads
<1>1. Reporting \cap {"idle", "pop", "down", "serve", "terminate", "leave"} = {}
  BY DEF Reporting, Chain
<1>2. CASE t \in Sessions
  BY <1>1, <1>2 DEF WatcherInv, AdopterInv, MainInv, Restarting, Reporting
<1>3. CASE t = Adopter
  BY <1>1, <1>3 DEF AdopterInv, MainInv, Restarting, Reporting
<1>4. CASE t = Main
  <2>1. pc[Main] \in Restarting
    BY <1>4 DEF MainInv, Restarting, Reporting, Chain
  <2> QED
    BY <1>1, <1>4, <2>1 DEF MainInv
<1> QED
  BY <1>2, <1>3, <1>4

\* A session that is over stays so until its return chain closes it.
LEMMA OverKept ==
    ASSUME IInv, [Next]_vars, Over, open' = open
    PROVE  Over'
<1> USE DEF IInv
<1>1. open \in Sessions
  BY DEF Over, TypeOK
<1>2. ~(\E u \in Sessions : Launch(u))
  BY DEF Over, Launch
<1>3. ~AppMarks(open)
  BY DEF Over, AppMarks, App, Present
<1> QED
  BY <1>1, <1>2, <1>3, AppsGoOn, HooksAndMarkers DEF Over, Present, LaunchHook

\* An app waits for the hook that starts it.
LEMMA HookedAppWaits ==
    ASSUME TypeOK, AppInv, [Next]_vars, NEW s \in Sessions, LaunchHook(s), LaunchHook(s)'
    PROVE  app'[s] = "none"
<1> USE DEF LaunchHook, TypeOK
<1>1. app[s] = "none"
  BY DEF AppInv
<1>2. CASE UNCHANGED app
  BY <1>1, <1>2
<1>3. ASSUME NEW u \in Sessions,
             AppStep(u) \/ AppCommanded(u) \/ StopWhenReady(u)
      PROVE  app'[s] = "none"
  BY <1>1, <1>3
     DEF AppStep, AppMarks, AppFails, AppBehaves, AppHides, AppCloses, AppExits, AppCommanded,
         StopWhenReady, App
<1>4. ASSUME NEW u \in Sessions, CommandStep(u)
      PROVE  app'[s] = "none"
  BY <1>1, <1>4
     DEF CommandStep, HookLaunch, HookStop, HookKill, Signalled, Alive, apps
<1>5. CASE TerminateChildren
  BY <1>1, <1>5 DEF TerminateChildren, Signalled, Alive
<1> QED
  BY <1>2, <1>3, <1>4, <1>5, OthersLeaveApps

\* An app that shows itself has its marker.
LEMMA MarkedWhileShown ==
    ASSUME IInv, [Next]_vars, NEW s \in Sessions
    PROVE  (app[s] \in {"marked", "serving", "closing"} => s \in marker)'
<1> USE DEF IInv, TypeOK, AppInv
<1>1. CASE UNCHANGED <<app, marker>>
  BY <1>1
<1>2. ASSUME NEW u \in Sessions,
             AppStep(u) \/ AppCommanded(u) \/ StopWhenReady(u)
      PROVE  (app[s] \in {"marked", "serving", "closing"} => s \in marker)'
  BY <1>2
     DEF AppStep, AppMarks, AppFails, AppBehaves, AppHides, AppCloses, AppExits, AppCommanded,
         StopWhenReady, App
<1>3. ASSUME NEW u \in Sessions, CommandStep(u)
      PROVE  (app[s] \in {"marked", "serving", "closing"} => s \in marker)'
  BY <1>3 DEF CommandStep, HookLaunch, HookStop, HookKill, Signalled, Alive, apps
<1>4. CASE TerminateChildren
  BY <1>4 DEF TerminateChildren, Signalled, Alive
<1>5. ASSUME NEW u \in Sessions, WatchExit(u)
      PROVE  (app[s] \in {"marked", "serving", "closing"} => s \in marker)'
  BY <1>5 DEF WatchExit
<1>6. CASE ReconcileIdle
  <2>1. s \notin marker /\ app' = app
    BY <1>6, ConstantsAssumption DEF ReconcileIdle, Decided, MainInv
  <2> QED
    BY <2>1
<1>7. ASSUME UNCHANGED app, \A u \in Sessions : ~WatchExit(u), ~ReconcileIdle,
             \A u \in Sessions : ~(AppStep(u) \/ AppCommanded(u) \/ StopWhenReady(u) \/ CommandStep(u))
      PROVE  UNCHANGED marker
  <2>1. ASSUME NEW u \in Sessions, AuthorityStep(u) \/ WatcherStep(u)
        PROVE  UNCHANGED marker
    BY <1>7, <2>1 DEF AuthorityStep, Launch, AskStop, AskKill, HookFails, WatcherStep, WatchLaunch,
                WatchRunning, WatchPop, apps
  <2>2. ASSUME NEW t \in Threads, ReportStep(t)
        PROVE  UNCHANGED marker
    BY <2>2 DEF ReportStep, Ask, ReportExit, ReportReturn, apps
  <2>3. CASE MainStep \/ AdopterWakes \/ Stop \/ Kill \/ UNCHANGED vars
    BY <1>7, <2>3 DEF MainStep, Start, ReadHistory, ListMarkers, ReconcileGone, ReconcileAdopt,
         StopServing, TerminateChildren, Signalled, Leave, AdopterWakes, Stop, Kill, vars, apps
  <2> QED
    BY <1>7, <2>1, <2>2, <2>3 DEF Next
<1> QED
  BY <1>1, <1>2, <1>3, <1>4, <1>5, <1>6, <1>7, OthersLeaveApps

LEMMA AppStepHolds ==
    ASSUME IInv, [Next]_vars
    PROVE  AppInv'
<1> SUFFICES ASSUME NEW s \in Sessions
             PROVE  /\ (Present(s) \/ LaunchHook(s) \/ s \in marker => open = s)'
                    /\ (LaunchHook(s) => app[s] = "none")'
                    /\ (app[s] \in {"marked", "serving", "closing"} => s \in marker)'
                    /\ (s \in marker => app[s] \notin {"none", "starting"})'
  BY DEF AppInv
<1> USE DEF IInv
<1>1. (Present(s) \/ LaunchHook(s) \/ s \in marker => open = s)'
  <2>1. CASE \E u \in Sessions : Launch(u)
    <3>1. PICK u \in Sessions : Launch(u)
      BY <2>1
    <3>2. ~Present(s) /\ ~LaunchHook(s) /\ s \notin marker /\ UNCHANGED <<app, marker>>
      BY <3>1, ConstantsAssumption DEF AppInv, Launch, apps
    <3>3. open' = u /\ (LaunchHook(s)' => s = u)
      BY <3>1, <3>2 DEF Launch, LaunchHook
    <3> QED
      BY <3>2, <3>3 DEF Present
  <2>2. CASE ~\E u \in Sessions : Launch(u)
    <3>1. Present(s)' \/ LaunchHook(s)' \/ s \in marker' => open = s
      BY <2>2, AppsGoOn, HooksAndMarkers DEF AppInv, AppMarks, App, Present
    <3>2. ASSUME open' # open, open = s
          PROVE  ~Present(s)' /\ ~LaunchHook(s)' /\ s \notin marker'
      <4>1. Over
        BY <2>2, <3>2, OpenChanges DEF ThreadInv, Reporting, Chain
      <4> QED
        BY <2>2, <3>2, <4>1, AppsGoOn, HooksAndMarkers DEF Over, AppMarks, App, Present
    <3> QED
      BY <3>1, <3>2
  <2> QED
    BY <2>1, <2>2
<1>2. (LaunchHook(s) => app[s] = "none")'
  <2>1. CASE UNCHANGED app
    BY <2>1, HooksAndMarkers DEF AppInv, Launch
  <2>2. CASE ~UNCHANGED app
    <3>1. ~Launch(s)
      BY <2>2 DEF Launch, apps
    <3>2. ASSUME LaunchHook(s), LaunchHook(s)'
          PROVE  app'[s] = "none"
      BY <3>2, HookedAppWaits
    <3> QED
      BY <3>1, <3>2, HooksAndMarkers
  <2> QED
    BY <2>1, <2>2
<1>3. (app[s] \in {"marked", "serving", "closing"} => s \in marker)'
  BY MarkedWhileShown
<1>4. (s \in marker => app[s] \notin {"none", "starting"})'
  <2>1. CASE s \in marker
    BY <2>1, AppsGoOn DEF AppInv
  <2>2. CASE AppMarks(s)
    BY <2>2 DEF AppMarks, App, TypeOK
  <2> QED
    BY <2>1, <2>2, HooksAndMarkers
<1> QED
  BY <1>1, <1>2, <1>3, <1>4

\* An app that closes stops its viewer first; a signal leaves it up.
LEMMA ViewerStepHolds ==
    ASSUME IInv, [Next]_vars
    PROVE  ViewerInv'
<1> SUFFICES ASSUME NEW s \in Sessions, s \in viewers'
             PROVE  (app[s] \in {"serving", "closing"} \/ Failed(s))'
  BY TypeStep DEF IInv, TypeOK, ViewerInv
<1> USE DEF IInv, TypeOK, ViewerInv, Failed
<1>1. CASE UNCHANGED app /\ UNCHANGED code /\ UNCHANGED viewers
  BY <1>1
<1>2. ASSUME NEW u \in Sessions, AppStep(u) \/ AppCommanded(u) \/ StopWhenReady(u)
      PROVE  (app[s] \in {"serving", "closing"} \/ Failed(s))'
  BY <1>2 DEF AppStep, AppMarks, AppFails, AppBehaves, AppHides, AppCloses, AppExits,
              AppCommanded, StopWhenReady, App, Ends, MayShow
<1>3. ASSUME NEW u \in Sessions, CommandStep(u)
      PROVE  (app[s] \in {"serving", "closing"} \/ Failed(s))'
  <2>1. CASE HookLaunch(u)
    BY <2>1 DEF HookLaunch, AppInv, LaunchHook
  <2>2. CASE HookStop(u)
    BY <2>2 DEF HookStop, apps
  <2>3. CASE HookKill(u)
    BY <2>3 DEF HookKill, Signalled, Alive, apps
  <2> QED
    BY <1>3, <2>1, <2>2, <2>3 DEF CommandStep
<1>4. CASE TerminateChildren
  BY <1>4 DEF TerminateChildren, Signalled, Alive
<1> QED
  BY <1>1, <1>2, <1>3, <1>4, OthersLeaveApps

-----------------------------------------------------------------------------
(* Where the threads are.                                                  *)

\* What a thread does when it moves.
LEMMA WhoMoves ==
    ASSUME TypeOK, [Next]_vars, NEW u \in Threads, pc'[u] # pc[u]
    PROVE  \/ u \in Sessions /\ (HookLaunch(u) \/ WatcherStep(u))
           \/ ReportStep(u)
           \/ u = Main /\ MainStep /\ ~Leave
           \/ u = Adopter /\ (ReconcileAdopt \/ AdopterWakes)
           \/ ProcessEnds
<1> USE ConstantsAssumption DEF TypeOK, GoTo, Threads
<1>1. ASSUME NEW s \in Sessions
      PROVE  ~AuthorityStep(s) /\ ~AppStep(s) /\ ~AppCommanded(s) /\ ~StopWhenReady(s)
  BY DEF AuthorityStep, Launch, AskStop, AskKill, HookFails, AppStep, AppMarks, AppFails,
         AppBehaves, AppHides, AppCloses, AppExits, AppCommanded, StopWhenReady, process
<1>2. ASSUME NEW s \in Sessions, CommandStep(s)
      PROVE  u = s /\ HookLaunch(s)
  BY <1>2 DEF CommandStep, HookLaunch, HookStop, HookKill, process
<1>3. ASSUME NEW s \in Sessions, WatcherStep(s)
      PROVE  u = s
  BY <1>3 DEF WatcherStep, WatchLaunch, WatchRunning, WatchExit, WatchPop
<1>4. ASSUME NEW t \in Threads, ReportStep(t)
      PROVE  u = t
  <2>1. CASE Ask(t)
    BY <2>1 DEF Ask
  <2>2. CASE ReportExit(t)
    BY <2>2 DEF ReportExit
  <2>3. CASE ReportReturn(t)
    BY <2>3, ReturnMoves
  <2> QED
    BY <1>4, <2>1, <2>2, <2>3 DEF ReportStep
<1>5. CASE MainStep
  <2>1. CASE Leave
    BY <2>1 DEF Leave
  <2>2. CASE ReconcileAdopt
    BY <1>5, <2>2 DEF ReconcileAdopt, Leave, Decided
  <2>3. CASE ~Leave /\ ~ReconcileAdopt
    BY <1>5, <2>3
       DEF MainStep, Start, ReadHistory, ListMarkers, ReconcileGone, ReconcileIdle,
           StopServing, TerminateChildren
  <2> QED
    BY <2>1, <2>2, <2>3
<1>6. CASE AdopterWakes \/ Stop \/ Kill \/ UNCHANGED vars
  BY <1>6 DEF AdopterWakes, Stop, Kill, vars, process
<1> QED
  BY <1>1, <1>2, <1>3, <1>4, <1>5, <1>6 DEF Next

\* Nothing takes back what was observed of an open session.
LEMMA ObservedStays ==
    ASSUME IInv, [Next]_vars, open # None, open' = open
    PROVE  /\ ended => ended' /\ verdict' = verdict
           /\ stage' \in Nat /\ stage' >= stage
           /\ receipt' = receipt
           /\ ended' => ended \/ verdict' = "returned"
                        \/ \E t \in Threads : ReportExit(t)
           /\ verdict' \in {verdict, "returned"} \/ \E t \in Threads : ReportExit(t)
<1> USE DEF IInv, TypeOK
<1>1. stage \in Nat
  BY ChainFacts
<1>2. CASE UNCHANGED <<ended, verdict, stage, receipt>>
  BY <1>1, <1>2
<1>3. ASSUME NEW s \in Sessions, AuthorityStep(s)
      PROVE  /\ ended => ended' /\ verdict' = verdict
             /\ stage' = stage /\ receipt' = receipt
             /\ ended' => ended \/ verdict' = "returned"
             /\ verdict' \in {verdict, "returned"}
  <2>1. CASE AskStop(s)
    <3>1. UNCHANGED entry \/ ObserveExit("returned")
      BY <2>1 DEF AskStop
    <3> QED
      BY <3>1 DEF ObserveExit, entry
  <2>2. ~AskStop(s) => UNCHANGED <<ended, verdict, stage, receipt>>
    BY <1>3 DEF AuthorityStep, Launch, AskKill, HookFails, entry
  <2> QED
    BY <2>1, <2>2
<1>4. ASSUME NEW t \in Threads, Ask(t) \/ ReportExit(t)
      PROVE  /\ ended => ended' /\ verdict' = verdict
             /\ stage' = stage /\ receipt' = receipt
             /\ ended' => ended \/ ReportExit(t)
             /\ verdict' = verdict \/ ReportExit(t)
  BY <1>4 DEF Ask, ReportExit, ObserveExit, authority, entry
<1>5. ASSUME NEW t \in Threads, ReportReturn(t)
      PROVE  /\ UNCHANGED <<ended, verdict, receipt>>
             /\ stage' \in Nat /\ stage' >= stage
  <2>1. ObserveReturn(pc[t])
    BY <1>5, ReturnMoves
  <2> QED
    <3>1. UNCHANGED entry \/ (stage' = stage + 1 /\ UNCHANGED <<ended, verdict, receipt>>)
      BY <2>1, ReturnObserved
    <3> QED
      BY <1>1, <3>1 DEF entry
<1>6. ASSUME NEW s \in Sessions,
             AppStep(s) \/ AppCommanded(s) \/ CommandStep(s) \/ StopWhenReady(s) \/ WatcherStep(s)
      PROVE  UNCHANGED <<ended, verdict, stage, receipt>>
  BY <1>6
     DEF AppStep, AppMarks, AppFails, AppBehaves, AppHides, AppCloses, AppExits, AppCommanded,
         StopWhenReady, CommandStep, HookLaunch, HookStop, HookKill, WatcherStep, WatchLaunch,
         WatchRunning, WatchExit, WatchPop, ObserveRunning, authority, entry
<1>7. CASE MainStep \/ AdopterWakes \/ Stop \/ Kill \/ UNCHANGED vars
  BY <1>2, <1>7
     DEF MainStep, Start, ReadHistory, ListMarkers, ReconcileGone, ReconcileAdopt, ReconcileIdle,
         ObserveRunning, StopServing, TerminateChildren, Leave, AdopterWakes, Stop, Kill,
         vars, authority, entry
<1> QED
  BY <1>1, <1>2, <1>3, <1>4, <1>5, <1>6, <1>7 DEF Next, ReportStep

\* While a thread reports, the session stays open until that thread has closed it.
LEMMA OpenWhileReporting ==
    ASSUME IInv, [Next]_vars, NEW t \in Threads, pc[t] \in Reporting
    PROVE  \/ open' = open /\ Over'
           \/ /\ pc[t] = "presentation_acknowledged" /\ ReportReturn(t)
              /\ pc'[t] = AfterReturn(t) /\ open' = None
<1> USE DEF IInv
<1>1. Over
  BY DEF ThreadInv
<1>2. CASE open' = open
  BY <1>1, <1>2, OverKept
<1>3. CASE open' # open
  <2>1. ~\E s \in Sessions : Launch(s)
    BY <1>1 DEF Over, Launch
  <2>2. PICK u \in Threads : /\ pc[u] = "presentation_acknowledged" /\ ReportReturn(u)
                             /\ GoTo(u, AfterReturn(u)) /\ open' = None
    BY <1>3, <2>1, OpenChanges
  <2>3. u = t
    BY <2>2, OnlyReporter DEF Reporting, Chain
  <2> QED
    BY <2>2, <2>3 DEF GoTo, TypeOK
<1> QED
  BY <1>2, <1>3

\* How a thread gets to report, and how it goes on.
LEMMA ReportingMoves ==
    ASSUME IInv, [Next]_vars, NEW t \in Threads, pc'[t] \in Reporting, pc'[t] # pc[t]
    PROVE  \/ t \in Sessions /\ WatchExit(t)
           \/ t = Adopter /\ AdopterWakes
           \/ t = Main /\ ReconcileGone
           \/ Ask(t) \/ ReportExit(t)
           \/ pc[t] # "presentation_acknowledged" /\ ReportReturn(t)
<1> USE ConstantsAssumption DEF IInv, Reporting, Chain
<1>1. CASE t \in Sessions /\ (HookLaunch(t) \/ WatcherStep(t))
  BY <1>1 DEF HookLaunch, WatcherStep, WatchLaunch, WatchRunning, WatchPop, GoTo, TypeOK
<1>2. CASE ReportReturn(t)
  <2>1. pc[t] = "presentation_acknowledged" => pc'[t] \in {"serve", "idle", "pop"}
    BY <1>2, ReturnMoves DEF AfterReturn, GoTo, TypeOK
  <2> QED
    BY <1>2, <2>1
<1>3. CASE t = Main /\ MainStep /\ ~Leave
  BY <1>3
     DEF MainStep, Start, ReadHistory, ListMarkers, ReconcileAdopt, ReconcileIdle, StopServing,
         TerminateChildren, GoTo, TypeOK, Threads
<1>4. CASE t = Adopter /\ ReconcileAdopt
  BY <1>4 DEF ReconcileAdopt, TypeOK, Threads
<1>5. CASE ProcessEnds
  BY <1>5 DEF ProcessEnds
<1> QED
  BY <1>1, <1>2, <1>3, <1>4, <1>5, WhoMoves DEF ReportStep

LEMMA ThreadStepHolds ==
    ASSUME IInv, [Next]_vars
    PROVE  ThreadInv'
<1> SUFFICES ASSUME NEW t \in Threads, pc'[t] \in Reporting
             PROVE  /\ Over'
                    /\ pc'[t] \in Chain => ended'
                    /\ pc'[t] = "target_released" => stage' >= 1
                    /\ pc'[t] = "selected_owner_active" => stage' >= 2
                    /\ pc'[t] = "presentation_acknowledged" => stage' >= 3
  BY DEF ThreadInv, Reporting, Chain
<1> USE DEF IInv
<1>0. stage \in 0 .. 3
  BY ChainFacts DEF TypeOK
<1>1. CASE pc'[t] = pc[t]
  <2>1. open' = open /\ Over' /\ open # None
    BY <1>1, OpenWhileReporting DEF AfterReturn, Reporting, Chain, ThreadInv, Over
  <2>2. stage' \in Nat /\ stage' >= stage /\ (ended => ended')
    BY <2>1, ObservedStays
  <2> QED
    BY <1>0, <1>1, <2>1, <2>2 DEF ThreadInv
<1>2. CASE t \in Sessions /\ WatchExit(t)
  <2>1. open = t /\ app[t] = "exited" /\ UNCHANGED <<open, app, hooks>> /\ marker' = marker \ {t}
        /\ pc'[t] = "asking"
    BY <1>2 DEF WatchExit, WatcherInv, GoTo, TypeOK, authority, entry
  <2>2. ~LaunchHook(t)
    BY <1>2, <2>1 DEF AppInv
  <2> QED
    BY <1>2, <2>1, <2>2, ConstantsAssumption DEF Over, Present, LaunchHook, Chain
<1>3. CASE t = Adopter /\ AdopterWakes
  <2>1. /\ open = adopted /\ adopted # None /\ app[adopted] \notin {"none", "starting"}
        /\ adopted \notin marker /\ pc'[t] = "asking"
        /\ UNCHANGED <<open, app, hooks, marker>>
    BY <1>3 DEF AdopterWakes, AdopterInv, GoTo, TypeOK, Reporting, Chain, authority, entry, apps
  <2>2. adopted \in Sessions
    BY <2>1 DEF TypeOK
  <2>3. ~LaunchHook(adopted) /\ ~Present(adopted)
    BY <2>1, <2>2 DEF AppInv, Present
  <2> QED
    BY <2>1, <2>3 DEF Over, Present, LaunchHook, Chain
<1>4. CASE t = Main /\ ReconcileGone
  <2>1. /\ pc[Main] = "decide" /\ open = seen.active /\ open # None /\ found = {}
        /\ UNCHANGED <<open, app, hooks, marker, ended>>
        /\ pc'[t] = IF seen.ended THEN "unit_inactive" ELSE "verdict"
        /\ marker = {} /\ (seen.ended => ended)
    BY <1>4, ChainFacts
       DEF ReconcileGone, Decided, MainInv, GoTo, TypeOK, Threads, authority, entry, apps
  <2>2. open \in Sessions
    BY <2>1 DEF TypeOK
  <2>3. ~LaunchHook(open) /\ ~Present(open)
    BY <2>1, <2>2 DEF AppInv, MainInv, Restarting, Present
  <2> QED
    BY <2>1, <2>3 DEF Over, Present, LaunchHook, Chain
<1>5. CASE Ask(t)
  <2>1. /\ pc[t] = "asking" /\ UNCHANGED <<open, ended>>
        /\ pc'[t] = IF ended \/ (t = Adopter /\ open = None) THEN "unit_inactive" ELSE "verdict"
    BY <1>5, ChainFacts DEF Ask, GoTo, TypeOK, authority, entry
  <2>2. Over /\ open # None
    BY <2>1 DEF ThreadInv, Reporting, Over
  <2> QED
    BY <2>1, <2>2, OverKept DEF Chain
<1>6. CASE ReportExit(t)
  <2>1. /\ pc[t] = "verdict" /\ pc'[t] = "unit_inactive" /\ open' = open
        /\ (open # None /\ ~ended => ended') /\ (ended => ended')
    BY <1>6, ChainFacts DEF ReportExit, ObserveExit, GoTo, TypeOK
  <2>2. Over /\ open # None
    BY <2>1 DEF ThreadInv, Reporting, Over
  <2> QED
    BY <2>1, <2>2, OverKept
<1>7. CASE pc[t] # "presentation_acknowledged" /\ ReportReturn(t)
  <2>1. pc[t] \in Reporting
    BY <1>7, ReturnMoves DEF Reporting, Chain
  <2>2. open' = open /\ Over' /\ open # None /\ ended
    BY <1>7, <2>1, OpenWhileReporting, ReturnMoves DEF ThreadInv, Over, Chain
  <2>3. ended' /\ stage' \in Nat /\ stage' >= stage
    BY <2>2, ObservedStays
  <2>4. \/ stage' = stage /\ pc[t] # ReturnChain[stage + 1]
        \/ stage' = stage + 1
    <3>1. ObserveReturn(pc[t])
      BY <1>7, ReturnMoves
    <3> QED
      BY <2>2, <3>1, ReturnObserved DEF entry
  <2>5. pc[t] = "unit_inactive" => stage' >= 1
    BY <1>0, <2>4, ChainFacts
  <2>6. pc[t] = "target_released" => stage' >= 2
    BY <1>0, <2>4, ChainFacts DEF ThreadInv
  <2>7. pc[t] = "selected_owner_active" => stage' >= 3
    BY <1>0, <2>4, ChainFacts DEF ThreadInv
  <2> QED
    BY <1>7, <2>2, <2>3, <2>5, <2>6, <2>7, ReturnMoves DEF GoTo, TypeOK
<1> QED
  BY <1>1, <1>2, <1>3, <1>4, <1>5, <1>6, <1>7, ReportingMoves

LEMMA WatcherStepHolds ==
    ASSUME IInv, [Next]_vars
    PROVE  WatcherInv'
<1> SUFFICES ASSUME NEW s \in Sessions
             PROVE  /\ pc'[s] \notin {"idle", "pop"} => open' = s
                    /\ pc'[s] \in Reporting => app'[s] = "exited"
                    /\ pc'[s] \in {"idle", "launching", "running", "waiting", "pop"}
                                   \cup Reporting
  BY DEF WatcherInv
<1> USE ConstantsAssumption DEF IInv, Threads
<1>1. s # Main /\ s # Adopter
  OBVIOUS
<1>2. CASE pc'[s] = pc[s]
  <2>1. ASSUME pc[s] \notin {"idle", "pop"}
        PROVE  open' = s
    <3>1. open = s /\ s # None
      BY <2>1 DEF WatcherInv
    <3>2. ~\E u \in Sessions : Launch(u)
      BY <3>1 DEF Launch
    <3>3. ASSUME open' # open
          PROVE  FALSE
      <4>1. PICK t \in Threads : /\ pc[t] = "presentation_acknowledged" /\ ReportReturn(t)
                                 /\ GoTo(t, AfterReturn(t))
        BY <3>2, <3>3, OpenChanges
      <4>2. t = s
        BY <2>1, <4>1, OnlyReporter DEF Reporting, Chain
      <4> QED
        BY <1>1, <1>2, <4>1, <4>2 DEF GoTo, AfterReturn, TypeOK
    <3> QED
      BY <3>1, <3>3
  <2> QED
    BY <1>2, <2>1, AppsGoOn DEF WatcherInv
<1>3. CASE HookLaunch(s)
  <2>1. open = s /\ open' = open /\ pc'[s] = "launching"
    BY <1>3 DEF HookLaunch, AppInv, LaunchHook, GoTo, TypeOK, entry
  <2> QED
    BY <2>1 DEF Reporting, Chain
<1>4. CASE WatcherStep(s)
  <2>1. CASE WatchPop(s)
    BY <2>1 DEF WatchPop, GoTo, TypeOK, Reporting, Chain
  <2>2. CASE WatchExit(s)
    BY <2>2 DEF WatchExit, WatcherInv, GoTo, TypeOK, Reporting, Chain, authority, entry
  <2>3. CASE WatchLaunch(s)
    BY <2>3 DEF WatchLaunch, WatcherInv, GoTo, TypeOK, Reporting, Chain, authority, entry
  <2>4. CASE WatchRunning(s)
    BY <2>4 DEF WatchRunning, ObserveRunning, WatcherInv, GoTo, TypeOK, Reporting, Chain
  <2> QED
    BY <1>4, <2>1, <2>2, <2>3, <2>4 DEF WatcherStep
<1>5. CASE ReportStep(s)
  <2>1. pc[s] \in Reporting
    BY <1>5, ReturnMoves DEF ReportStep, Ask, ReportExit, Reporting, Chain
  <2>2. open = s /\ app'[s] = "exited"
    BY <2>1, AppsGoOn DEF WatcherInv, Reporting, Chain
  <2>3. pc'[s] \in Reporting \cup {"pop"}
    <3>1. CASE Ask(s)
      BY <3>1, ChainFacts DEF Ask, GoTo, TypeOK, Reporting, Chain
    <3>2. CASE ReportExit(s)
      BY <3>2, ChainFacts DEF ReportExit, GoTo, TypeOK, Reporting, Chain
    <3>3. CASE ReportReturn(s)
      BY <1>1, <3>3, ReturnMoves DEF AfterReturn, GoTo, TypeOK, Reporting, Chain
    <3> QED
      BY <1>5, <3>1, <3>2, <3>3 DEF ReportStep
  <2>4. open' = open \/ pc'[s] = "pop"
    BY <1>1, <2>1, OpenWhileReporting DEF AfterReturn
  <2> QED
    BY <2>2, <2>3, <2>4
<1>6. CASE ProcessEnds
  BY <1>6 DEF ProcessEnds, Reporting, Chain
<1> QED
  BY <1>1, <1>2, <1>3, <1>4, <1>5, <1>6, WhoMoves

\* The Adopter and the restarts of the supervisor.
LEMMA AdoptedStays ==
    ASSUME [Next]_vars, ~ReconcileAdopt, ~ProcessEnds
    PROVE  adopted' = adopted
<1>1. ASSUME NEW s \in Sessions,
             AuthorityStep(s) \/ AppStep(s) \/ AppCommanded(s) \/ CommandStep(s)
             \/ StopWhenReady(s) \/ WatcherStep(s)
      PROVE  adopted' = adopted
  BY <1>1
     DEF AuthorityStep, Launch, AskStop, AskKill, HookFails, AppStep, AppMarks, AppFails,
         AppBehaves, AppHides, AppCloses, AppExits, AppCommanded, StopWhenReady, CommandStep,
         HookLaunch, HookStop, HookKill, WatcherStep, WatchLaunch, WatchRunning, WatchExit,
         WatchPop, process, locals
<1>2. ASSUME NEW t \in Threads, ReportStep(t)
      PROVE  adopted' = adopted
  BY <1>2 DEF ReportStep, Ask, ReportExit, ReportReturn, locals
<1>3. CASE MainStep \/ AdopterWakes \/ Stop \/ Kill \/ UNCHANGED vars
  BY <1>3
     DEF MainStep, Start, ReadHistory, ListMarkers, ReconcileGone, ReconcileAdopt, ReconcileIdle,
         StopServing, TerminateChildren, Leave, AdopterWakes, Stop, Kill, vars, process, locals
<1> QED
  BY <1>1, <1>2, <1>3 DEF Next

LEMMA AdopterStepHolds ==
    ASSUME IInv, [Next]_vars
    PROVE  AdopterInv'
<1> USE ConstantsAssumption DEF IInv, Threads
<1>1. CASE pc'[Adopter] = "idle"
  BY <1>1 DEF AdopterInv
<1>2. CASE ReconcileAdopt
  <2>1. /\ pc[Main] = "decide" /\ adopted' \in found
        /\ pc' = [pc EXCEPT ![Main] = "serve", ![Adopter] = "watching"]
        /\ UNCHANGED <<open, app>>
    BY <1>2 DEF ReconcileAdopt, Decided, ObserveRunning, apps, entry
  <2>2. \A s \in Sessions : pc[s] = "idle"
    BY <2>1 DEF MainInv, Restarting
  <2>3. \A s \in Sessions : pc'[s] = "idle"
    BY <2>1, <2>2 DEF TypeOK
  <2>4. pc'[Adopter] = "watching"
    BY <2>1 DEF TypeOK
  <2>5. open = adopted' /\ app[adopted'] \notin {"none", "starting"} /\ adopted' \in Sessions
    BY <2>1 DEF MainInv, TypeOK
  <2> QED
    BY <2>1, <2>3, <2>4, <2>5 DEF AdopterInv
<1>3. CASE ~ReconcileAdopt /\ pc'[Adopter] # "idle"
  <2>1. ~ProcessEnds
    BY <1>3 DEF ProcessEnds
  <2>2. pc[Adopter] # "idle" /\ pc'[Adopter] \in {"watching"} \cup Reporting
    <3>1. CASE pc'[Adopter] = pc[Adopter]
      BY <1>3, <3>1 DEF AdopterInv
    <3>2. CASE AdopterWakes
      BY <1>3, <3>2 DEF AdopterWakes, GoTo, TypeOK, Reporting
    <3>3. CASE Ask(Adopter)
      BY <3>3, ChainFacts DEF Ask, GoTo, TypeOK, Reporting, Chain
    <3>4. CASE ReportExit(Adopter)
      BY <3>4, ChainFacts DEF ReportExit, GoTo, TypeOK, Reporting, Chain
    <3>5. CASE ReportReturn(Adopter)
      BY <1>3, <3>5, ReturnMoves DEF AfterReturn, GoTo, TypeOK, Reporting, Chain
    <3> QED
      BY <1>3, <2>1, <3>1, <3>2, <3>3, <3>4, <3>5, WhoMoves DEF ReportStep
  <2>3. /\ \A s \in Sessions : pc[s] = "idle"
        /\ adopted # None /\ open = adopted /\ adopted \in Sessions
        /\ app[adopted] \notin {"none", "starting"}
    BY <2>2 DEF AdopterInv, TypeOK
  <2>4. adopted' = adopted
    BY <1>3, <2>1, AdoptedStays
  <2>5. app'[adopted] \notin {"none", "starting"}
    BY <2>3, AppsGoOn
  <2>6. ASSUME NEW s \in Sessions
        PROVE  pc'[s] = "idle"
    <3>1. ~HookLaunch(s)
      BY <2>3 DEF HookLaunch, AppInv, LaunchHook
    <3>2. ~WatcherStep(s)
      BY <2>3 DEF WatcherStep, WatchLaunch, WatchRunning, WatchExit, WatchPop
    <3>3. ~ReportStep(s)
      BY <2>3, ReturnMoves DEF ReportStep, Ask, ReportExit
    <3> QED
      BY <2>1, <2>3, <3>1, <3>2, <3>3, WhoMoves
  <2>7. open' = open
    <3>1. ~\E s \in Sessions : Launch(s)
      BY <2>3 DEF Launch
    <3>2. ASSUME open' # open
          PROVE  FALSE
      <4>1. PICK t \in Threads : /\ pc[t] = "presentation_acknowledged"
                                 /\ GoTo(t, AfterReturn(t))
        BY <3>1, <3>2, OpenChanges
      <4>2. t = Adopter
        BY <2>2, <4>1, OnlyReporter DEF Reporting, Chain
      <4> QED
        BY <1>3, <4>1, <4>2 DEF GoTo, AfterReturn, TypeOK
    <3> QED
      BY <3>2
  <2> QED
    BY <2>2, <2>3, <2>4, <2>5, <2>6, <2>7 DEF AdopterInv
<1> QED
  BY <1>1, <1>2, <1>3

\* What the main thread read of the history and listed stays while it decides.
LEMMA ReadStays ==
    ASSUME [Next]_vars, ~MainStep, ~ProcessEnds
    PROVE  UNCHANGED <<seen, found>>
<1>1. ASSUME NEW s \in Sessions,
             AuthorityStep(s) \/ AppStep(s) \/ AppCommanded(s) \/ CommandStep(s)
             \/ StopWhenReady(s) \/ WatcherStep(s)
      PROVE  UNCHANGED <<seen, found>>
  BY <1>1
     DEF AuthorityStep, Launch, AskStop, AskKill, HookFails, AppStep, AppMarks, AppFails,
         AppBehaves, AppHides, AppCloses, AppExits, AppCommanded, StopWhenReady, CommandStep,
         HookLaunch, HookStop, HookKill, WatcherStep, WatchLaunch, WatchRunning, WatchExit,
         WatchPop, process, locals
<1>2. ASSUME NEW t \in Threads, ReportStep(t)
      PROVE  UNCHANGED <<seen, found>>
  BY <1>2 DEF ReportStep, Ask, ReportExit, ReportReturn, locals
<1>3. CASE AdopterWakes \/ Stop \/ Kill \/ UNCHANGED vars
  BY <1>3 DEF AdopterWakes, Stop, Kill, vars, process, locals
<1> QED
  BY <1>1, <1>2, <1>3 DEF Next

\* A restart begins with a start and goes through reconcile() to the end.
LEMMA RestartMoves ==
    ASSUME IInv, [Next]_vars, pc'[Main] \in Restarting \cup {"down"}, pc'[Main] # pc[Main]
    PROVE  \/ ProcessEnds
           \/ Start /\ pc'[Main] = "read"
           \/ ReadHistory /\ pc'[Main] = "glob"
           \/ ListMarkers /\ pc'[Main] = "decide"
           \/ pc[Main] \in Restarting /\ pc'[Main] \in {"verdict"} \cup Chain
<1> USE ConstantsAssumption DEF IInv, Threads, Restarting
<1>1. CASE MainStep /\ ~Leave
  <2>1. CASE Start \/ ReadHistory \/ ListMarkers
    BY <2>1 DEF Start, ReadHistory, ListMarkers, GoTo, TypeOK
  <2>2. CASE ReconcileGone
    BY <2>2, ChainFacts DEF ReconcileGone, Decided, GoTo, TypeOK, Chain
  <2>3. CASE ReconcileAdopt \/ ReconcileIdle \/ StopServing \/ TerminateChildren
    BY <2>3
       DEF ReconcileAdopt, ReconcileIdle, StopServing, TerminateChildren, GoTo, TypeOK, Chain
  <2> QED
    BY <1>1, <2>1, <2>2, <2>3 DEF MainStep
<1>2. CASE ReportStep(Main)
  <2>1. CASE Ask(Main)
    BY <2>1 DEF Ask, MainInv, Chain
  <2>2. CASE ReportExit(Main)
    BY <2>2, ChainFacts DEF ReportExit, GoTo, TypeOK, Chain
  <2>3. CASE ReportReturn(Main)
    BY <2>3, ReturnMoves DEF AfterReturn, GoTo, TypeOK, Chain
  <2> QED
    BY <1>2, <2>1, <2>2, <2>3 DEF ReportStep
<1> QED
  BY <1>1, <1>2, WhoMoves

\* Until reconcile() is done, no other thread of the supervisor runs.
LEMMA MainAlone ==
    ASSUME IInv, [Next]_vars, pc'[Main] \in Restarting \cup {"down"},
           NEW t \in Threads, t # Main
    PROVE  pc'[t] = "idle"
<1> USE ConstantsAssumption DEF IInv, Threads
<1>1. CASE ProcessEnds
  BY <1>1 DEF ProcessEnds
<1>2. CASE ~ProcessEnds
  <2>1. pc[Main] \in Restarting \cup {"down"}
    <3>1. CASE pc'[Main] = pc[Main]
      BY <3>1
    <3>2. CASE Start \/ ReadHistory \/ ListMarkers
      BY <3>2 DEF Start, ReadHistory, ListMarkers, Restarting
    <3> QED
      BY <1>2, <3>1, <3>2, RestartMoves
  <2>2. pc[t] = "idle"
    BY <2>1 DEF MainInv
  <2>3. pc[Main] # "serve"
    BY <2>1 DEF Restarting, Chain
  <2>4. ~ReportStep(t)
    BY <2>2, ReturnMoves DEF ReportStep, Ask, ReportExit
  <2>5. ~(t \in Sessions /\ (HookLaunch(t) \/ WatcherStep(t)))
    BY <2>2, <2>3
       DEF HookLaunch, Serving, WatcherStep, WatchLaunch, WatchRunning, WatchExit, WatchPop
  <2>6. ~(t = Adopter /\ AdopterWakes)
    BY <2>2 DEF AdopterWakes
  <2>7. ~ReconcileAdopt
    BY DEF ReconcileAdopt, Restarting, Chain, TypeOK
  <2> QED
    BY <1>2, <2>2, <2>4, <2>5, <2>6, <2>7, WhoMoves
<1> QED
  BY <1>1, <1>2

\* No app is on its way up while the supervisor starts.
LEMMA NothingStarts ==
    ASSUME IInv, [Next]_vars, ~LaunchMidRestart, pc'[Main] \in Restarting, NEW s \in Sessions
    PROVE  app'[s] # "starting" /\ ~LaunchHook(s)'
<1> USE ConstantsAssumption DEF IInv, Threads
<1>1. ~ProcessEnds
  BY DEF ProcessEnds, Restarting, Chain
<1>2. CASE Start
  BY <1>2 DEF Start, Launching, LaunchHook, authority, apps
<1>3. CASE pc[Main] \in Restarting
  <2>1. ~LaunchHook(s) /\ app[s] # "starting"
    BY <1>3 DEF MainInv
  <2>2. ~Launch(s)
    BY <1>3 DEF Launch, Restarting, Chain
  <2> QED
    BY <2>1, <2>2, AppsGoOn, HooksAndMarkers
<1> QED
  <2>1. CASE ReadHistory \/ ListMarkers
    BY <1>3, <2>1 DEF ReadHistory, ListMarkers, Restarting
  <2> QED
    BY <1>1, <1>2, <1>3, <2>1, RestartMoves

\* While the main thread reads, nothing is opened or closed behind its back.
LEMMA OpenWhileReading ==
    ASSUME IInv, [Next]_vars, ~LaunchMidRestart, pc[Main] \in {"read", "glob", "decide"}
    PROVE  open' = open /\ (ended => ended')
<1> USE ConstantsAssumption DEF IInv, Threads
<1>1. open' = open
  <2>1. ~\E s \in Sessions : Launch(s)
    BY DEF Launch
  <2>2. \A t \in Threads : pc[t] # "presentation_acknowledged"
    BY DEF MainInv, Restarting
  <2> QED
    BY <2>1, <2>2, OpenChanges
<1> QED
  BY <1>1, ObservedStays DEF VerdictInv

LEMMA MainStepHolds ==
    ASSUME IInv, [Next]_vars, ~LaunchMidRestart
    PROVE  MainInv'
<1> USE ConstantsAssumption DEF IInv, Threads
<1>1. (pc[Main] \in {"down", "serve", "terminate", "leave"} \cup Restarting)'
  <2>1. CASE ReportStep(Main)
    <3>1. CASE Ask(Main)
      BY <3>1 DEF Ask, MainInv, Restarting, Chain
    <3>2. CASE ReportExit(Main)
      BY <3>2, ChainFacts DEF ReportExit, GoTo, TypeOK, Restarting, Chain
    <3>3. CASE ReportReturn(Main)
      BY <3>3, ReturnMoves DEF AfterReturn, GoTo, TypeOK, Restarting, Chain
    <3> QED
      BY <2>1, <3>1, <3>2, <3>3 DEF ReportStep
  <2>2. CASE MainStep /\ ~Leave
    BY <2>2, ChainFacts
       DEF MainStep, Start, ReadHistory, ListMarkers, ReconcileGone, ReconcileAdopt,
           ReconcileIdle, StopServing, TerminateChildren, GoTo, TypeOK, Restarting, Chain
  <2>3. CASE ProcessEnds
    BY <2>3 DEF ProcessEnds
  <2> QED
    BY <2>1, <2>2, <2>3, WhoMoves DEF MainInv
<1>2. (pc[Main] \in Restarting \cup {"down"} => \A t \in Threads \ {Main} : pc[t] = "idle")'
  BY MainAlone
<1>3. (pc[Main] \in Restarting => \A s \in Sessions : app[s] # "starting" /\ ~LaunchHook(s))'
  BY NothingStarts DEF LaunchHook
<1>4. ASSUME pc'[Main] \in {"glob", "decide"}, pc'[Main] = pc[Main]
      PROVE  UNCHANGED <<seen, found>> /\ open' = open /\ (ended => ended')
  <2>1. ~ProcessEnds
    BY <1>4 DEF ProcessEnds
  <2>2. ~MainStep
    BY <1>4, <2>1
       DEF MainStep, Start, ReadHistory, ListMarkers, ReconcileGone, ReconcileAdopt, Decided,
           ReconcileIdle, StopServing, TerminateChildren, Leave, GoTo, TypeOK, Chain, ReturnChain
  <2> QED
    BY <1>4, <2>1, <2>2, ReadStays, OpenWhileReading
<1>5. ASSUME pc'[Main] \in {"glob", "decide"}, pc'[Main] # pc[Main]
      PROVE  \/ ReadHistory /\ pc'[Main] = "glob"
             \/ ListMarkers /\ pc'[Main] = "decide"
  <2>1. ~ProcessEnds
    BY <1>5 DEF ProcessEnds
  <2> QED
    BY <1>5, <2>1, RestartMoves DEF Restarting, Chain
<1>6. (pc[Main] \in {"glob", "decide"} => seen.active = open /\ (seen.ended => ended))'
  <2>1. CASE ReadHistory
    BY <2>1 DEF ReadHistory, authority, entry
  <2>2. CASE ListMarkers
    BY <2>2 DEF ListMarkers, MainInv, authority, entry
  <2> QED
    BY <1>4, <1>5, <2>1, <2>2 DEF MainInv
<1>7. (pc[Main] = "decide" => marker \subseteq found)'
  <2>1. CASE ListMarkers
    BY <2>1 DEF ListMarkers, apps
  <2>2. CASE pc[Main] = "decide" /\ pc'[Main] = "decide"
    <3>1. marker \subseteq found /\ found' = found
      BY <1>4, <2>2 DEF MainInv
    <3>2. \A s \in Sessions : ~AppMarks(s)
      BY <2>2 DEF MainInv, Restarting, AppMarks, App
    <3>3. TypeOK'
      BY TypeStep
    <3> QED
      BY <3>1, <3>2, <3>3, HooksAndMarkers DEF TypeOK
  <2> QED
    BY <1>5, <2>1, <2>2
<1>8. (\A s \in found : pc[Main] = "decide" => open = s /\ app[s] \notin {"none", "starting"})'
  <2>1. CASE ListMarkers
    BY <2>1 DEF ListMarkers, AppInv, TypeOK, authority, apps, entry
  <2>2. CASE pc[Main] = "decide" /\ pc'[Main] = "decide"
    <3>1. found' = found /\ open' = open
      BY <1>4, <2>2
    <3>2. \A s \in found : s \in Sessions /\ open = s /\ app[s] \notin {"none", "starting"}
      BY <2>2 DEF MainInv, TypeOK
    <3> QED
      BY <3>1, <3>2, AppsGoOn
  <2> QED
    BY <1>5, <2>1, <2>2
<1> QED
  BY <1>1, <1>2, <1>3, <1>6, <1>7, <1>8 DEF MainInv, LaunchHook

-----------------------------------------------------------------------------
(* The authority's verdicts.                                               *)

\* Observations made when no session is open are rejected.
LEMMA NothingObserved ==
    ASSUME IInv, [Next]_vars, open = None
    PROVE  UNCHANGED <<ended, verdict, receipt>>
<1> USE DEF IInv
<1>1. ASSUME NEW s \in Sessions, AuthorityStep(s)
      PROVE  UNCHANGED <<ended, verdict, receipt>>
  BY <1>1, ConstantsAssumption DEF AuthorityStep, Launch, AskStop, AskKill, HookFails, entry
<1>2. ASSUME NEW s \in Sessions,
             AppStep(s) \/ AppCommanded(s) \/ CommandStep(s) \/ StopWhenReady(s) \/ WatcherStep(s)
      PROVE  UNCHANGED <<ended, verdict, receipt>>
  BY <1>2
     DEF AppStep, AppMarks, AppFails, AppBehaves, AppHides, AppCloses, AppExits, AppCommanded,
         StopWhenReady, CommandStep, HookLaunch, HookStop, HookKill, WatcherStep, WatchLaunch,
         WatchRunning, WatchExit, WatchPop, ObserveRunning, authority, entry
<1>3. ASSUME NEW t \in Threads, ReportStep(t)
      PROVE  UNCHANGED <<ended, verdict, receipt>>
  <2>1. CASE Ask(t) \/ ReportExit(t)
    BY <2>1 DEF Ask, ReportExit, ObserveExit, authority, entry
  <2>2. CASE ReportReturn(t)
    BY <2>2, ReturnMoves, ReturnObserved DEF entry
  <2> QED
    BY <1>3, <2>1, <2>2 DEF ReportStep
<1>4. CASE MainStep \/ AdopterWakes \/ Stop \/ Kill \/ UNCHANGED vars
  BY <1>4
     DEF MainStep, Start, ReadHistory, ListMarkers, ReconcileGone, ReconcileAdopt, ReconcileIdle,
         ObserveRunning, StopServing, TerminateChildren, Leave, AdopterWakes, Stop, Kill,
         vars, authority, entry
<1> QED
  BY <1>1, <1>2, <1>3, <1>4 DEF Next

LEMMA VerdictStepHolds ==
    ASSUME IInv, [Next]_vars
    PROVE  VerdictInv'
<1> USE ConstantsAssumption DEF IInv
<1>1. ASSUME NEW s \in Sessions, receipt[s] = "crash"
      PROVE  code'[s] = "fail" /\ app'[s] = "exited"
  BY <1>1, AppsGoOn DEF VerdictInv
<1>2. ASSUME verdict = "crash"
      PROVE  open # None /\ code'[open] = "fail" /\ app'[open] = "exited"
  BY <1>2, AppsGoOn DEF VerdictInv, TypeOK
<1>3. CASE open' # open
  <2>1. ASSUME NEW s \in Sessions, Launch(s)
        PROVE  VerdictInv'
    <3>1. /\ open = None /\ open' = s /\ receipt[s] = "none"
          /\ UNCHANGED <<ended, verdict, receipt>>
      BY <2>1 DEF Launch
    <3> QED
      BY <1>1, <1>2, <3>1 DEF VerdictInv
  <2>2. ASSUME /\ open # None /\ open' = None /\ ended' = FALSE /\ verdict' = "none"
               /\ receipt' = [receipt EXCEPT ![open] = verdict]
        PROVE  VerdictInv'
    <3>1. ASSUME NEW s \in Sessions, receipt'[s] = "crash"
          PROVE  code'[s] = "fail" /\ app'[s] = "exited"
      BY <1>1, <1>2, <2>2, <3>1 DEF TypeOK
    <3> QED
      BY <2>2, <3>1 DEF VerdictInv
  <2> QED
    BY <1>3, <2>1, <2>2, OpenChanges
<1>4. CASE open' = open /\ open = None
  BY <1>1, <1>4, NothingObserved DEF VerdictInv
<1>5. CASE open' = open /\ open # None
  <2>1. open \in Sessions
    BY <1>5 DEF TypeOK
  <2>2. ASSUME NEW t \in Threads, ReportExit(t)
        PROVE  /\ ~ended => verdict' \in {"returned", "crash"}
               /\ ~ended /\ verdict' = "crash" => code'[open] = "fail" /\ app'[open] = "exited"
    <3>1. pc[t] = "verdict"
      BY <2>2 DEF ReportExit
    <3>2. t \in Sessions => t = open /\ app[t] = "exited"
      BY <3>1 DEF WatcherInv, Reporting, Chain
    <3>3. ~ended => verdict' = IF t \in Sessions /\ code[t] = "fail" THEN "crash" ELSE "returned"
      BY <1>5, <2>2 DEF ReportExit, ObserveExit
    <3> QED
      BY <2>1, <3>2, <3>3, AppsGoOn
  <2>3. ended' => verdict' # "none"
    BY <1>5, <2>2, ObservedStays DEF VerdictInv
  <2>4. verdict' = "crash" => code'[open] = "fail" /\ app'[open] = "exited"
    BY <1>2, <1>5, <2>2, ObservedStays
  <2>5. receipt' = receipt
    BY <1>5, ObservedStays
  <2> QED
    BY <1>1, <1>5, <2>3, <2>4, <2>5 DEF VerdictInv
<1> QED
  BY <1>3, <1>4, <1>5

-----------------------------------------------------------------------------
(* The theorems.                                                           *)

LEMMA InitHolds == Init => IInv
<1> SUFFICES ASSUME Init
             PROVE  IInv
  OBVIOUS
<1> USE ConstantsAssumption DEF Init, Threads
<1>1. TypeOK
  BY TypeInit
<1>2. AppInv /\ ViewerInv /\ VerdictInv
  BY DEF AppInv, ViewerInv, VerdictInv, Present, LaunchHook
<1>3. ThreadInv /\ WatcherInv /\ AdopterInv /\ MainInv
  BY DEF ThreadInv, WatcherInv, AdopterInv, MainInv, Reporting, Restarting, Chain
<1> QED
  BY <1>1, <1>2, <1>3 DEF IInv

LEMMA StepHolds ==
    ASSUME ~LaunchMidRestart, IInv, [Next]_vars
    PROVE  IInv'
BY TypeStep, AppStepHolds, ViewerStepHolds, ThreadStepHolds, WatcherStepHolds, AdopterStepHolds, MainStepHolds,
   VerdictStepHolds DEF IInv

LEMMA Invariant ==
    ASSUME ~LaunchMidRestart
    PROVE  Spec => []IInv
<1>1. ~LaunchMidRestart
  OBVIOUS
<1>2. IInv /\ [Next]_vars => IInv'
  BY <1>1, StepHolds
<1> QED
  BY InitHolds, <1>2, PTL DEF Spec

\* Every variable keeps its type, whatever a launch meets on its way
\* (supervisor.py:21-130): the return chain is never overrun.
THEOREM TypeCorrectness == Spec => []TypeOK
<1>1. TypeOK /\ [Next]_vars => TypeOK'
  BY TypeStep
<1> QED
  BY TypeInit, <1>1, PTL DEF Spec

\* However often the supervisor is stopped, killed and started again between
\* launches, neither an app nor its viewer outlives its session into the next,
\* unless that app failed or was killed (supervisor.py:34-104, fixture_app.py:58-77).
THEOREM AtMostOneApp ==
    ASSUME ~LaunchMidRestart
    PROVE  Spec => []OneApp
<1>1. IInv => OneApp
  <2> SUFFICES ASSUME IInv, NEW s \in Sessions, OnDisplay(s), ~Failed(s)
               PROVE  open = s
    BY DEF OneApp
  <2>1. Present(s)
    BY DEF IInv, ViewerInv, OnDisplay, Present
  <2> QED
    BY <2>1 DEF IInv, AppInv
<1> QED
  BY <1>1, Invariant, PTL

\* A crash in the history is the crash of that session's own app, although an
\* observation names no session (supervisor.py:46-61).
THEOREM CrashesAreTheirOwn ==
    ASSUME ~LaunchMidRestart
    PROVE  Spec => []CrashIsItsOwn
<1>1. IInv => CrashIsItsOwn
  BY DEF IInv, VerdictInv, CrashIsItsOwn
<1> QED
  BY <1>1, Invariant, PTL

LEMMA PhaseStep ==
    ASSUME ~LaunchMidRestart, IInv, [Next]_vars
    PROVE  [Lifecycle!Next]_Phase
<1> USE ConstantsAssumption DEF IInv, Gone, LaunchHook
<1>1. ASSUME NEW s \in Sessions, Launch(s)
      PROVE  Lifecycle!Launch(s)
  <2>1. /\ open = None /\ open' = s /\ receipt[s] = "none" /\ <<"launch", s>> \in hooks'
        /\ UNCHANGED receipt
    BY <1>1 DEF Launch
  <2>2. Phase' = [Phase EXCEPT ![s] = "open"]
    BY <2>1 DEF Phase
  <2>3. Phase[s] = "new" /\ \A t \in Sessions : Phase[t] \in {"new", "receipted"}
    BY <2>1 DEF Phase
  <2> QED
    BY <2>2, <2>3 DEF Lifecycle!Launch
<1>2. ASSUME open # None, open' = None, receipt' = [receipt EXCEPT ![open] = verdict], Over, ended
      PROVE  open \in Sessions /\ Lifecycle!Receipt(open)
  <2>1. open \in Sessions /\ receipt[open] = "none" /\ verdict # "none"
    BY <1>2 DEF TypeOK, VerdictInv
  <2>2. Phase[open] = "gone"
    BY <1>2, <2>1 DEF Phase, Over
  <2>3. \A t \in Sessions : receipt'[t] = IF t = open THEN verdict ELSE receipt[t]
    BY <1>2 DEF TypeOK
  <2>4. Phase' = [Phase EXCEPT ![open] = "receipted"]
    BY <1>2, <2>1, <2>3 DEF Phase
  <2> QED
    BY <2>1, <2>2, <2>4 DEF Lifecycle!Receipt
<1>3. CASE open' = open
  <2>1. receipt' = receipt
    BY <1>3, NothingObserved, ObservedStays
  <2>2. CASE open = None
    BY <1>3, <2>1, <2>2 DEF Phase
  <2>3. CASE open # None
    <3>1. open \in Sessions /\ receipt[open] = "none"
      BY <2>3 DEF TypeOK, VerdictInv
    <3>2. ~\E u \in Sessions : Launch(u)
      BY <2>3 DEF Launch
    <3>3. Gone(open) => ~Present(open)' /\ <<"launch", open>> \notin hooks'
      BY <1>3, <3>1, <3>2, AppsGoOn, HooksAndMarkers DEF Present
    <3>4. \A t \in Sessions \ {open} : Phase'[t] = Phase[t]
      BY <1>3, <2>1 DEF Phase
    <3>5. /\ Phase[open] = IF Gone(open) THEN "gone" ELSE "open"
          /\ Phase'[open] = IF ~Present(open)' /\ <<"launch", open>> \notin hooks'
                            THEN "gone" ELSE "open"
      BY <1>3, <2>1, <3>1 DEF Phase, Present
    <3>6. CASE Phase'[open] = Phase[open]
      BY <3>1, <3>4, <3>6 DEF Phase
    <3>7. CASE Phase'[open] # Phase[open]
      <4>1. Phase[open] = "open" /\ Phase'[open] = "gone"
        BY <3>3, <3>5, <3>7
      <4>2. Phase' = [Phase EXCEPT ![open] = "gone"]
        BY <3>1, <3>4, <4>1 DEF Phase
      <4> QED
        BY <3>1, <4>1, <4>2 DEF Lifecycle!AppGoes, Lifecycle!Next
    <3> QED
      BY <3>6, <3>7
  <2> QED
    BY <2>2, <2>3
<1>4. CASE open' # open
  <2>1. ASSUME NEW t \in Threads, pc[t] = "presentation_acknowledged"
        PROVE  Over /\ ended
    BY <2>1 DEF ThreadInv, Reporting, Chain
  <2> QED
    BY <1>1, <1>2, <1>4, <2>1, OpenChanges DEF Lifecycle!Next
<1> QED
  BY <1>3, <1>4

\* The supervisor, its threads, restarts and apps implement the life of a session:
\* one at a time, and no receipt before the app has gone (supervisor.py:46-104).
THEOREM LifecycleImplemented ==
    ASSUME ~LaunchMidRestart
    PROVE  Spec => ImplementsLifecycle
<1>1. ~LaunchMidRestart
  OBVIOUS
<1>2. Init => Lifecycle!Init
  BY ConstantsAssumption DEF Init, Lifecycle!Init, Phase
<1>3. IInv /\ [Next]_vars => [Lifecycle!Next]_Phase
  BY <1>1, PhaseStep
<1> QED
  BY <1>2, <1>3, Invariant, PTL DEF Spec, ImplementsLifecycle, Lifecycle!Spec

=============================================================================
