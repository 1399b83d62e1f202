-------------------------- MODULE SessionSupervisor --------------------------
(***************************************************************************)
(* pf_sim/supervisor.py and the fixture apps it starts (fixture_app.py).    *)
(*                                                                         *)
(* The session authority keeps the history of sessions, launches one at a   *)
(* time and runs a hook to start, stop or kill its app.  The supervisor     *)
(* starts the app, watches it with a thread of its own and reports what it  *)
(* sees as observations, which carry no session: the authority applies them *)
(* to the entry that is open and rejects those out of turn.  A supervisor   *)
(* that starts reconciles the open entry with the marker files it finds.    *)
(*                                                                         *)
(* A thread is named by the session it watches; Main is serve() with its    *)
(* reconcile(), Adopter is watch_adopted_marker().                          *)
(***************************************************************************)
EXTENDS Naturals, Sequences, Functions

CONSTANTS
    Sessions,
    MaxStops,           \* bound on SIGTERMs (or failed ticks) of the supervisor
    MaxKills,           \* bound on SIGKILLs of the supervisor
    LaunchMidRestart,   \* may a launch be under way while the supervisor (re)starts?
    Main, Adopter, None

ASSUME ConstantsAssumption ==
    /\ MaxStops \in Nat /\ MaxKills \in Nat
    /\ LaunchMidRestart \in BOOLEAN
    /\ None \notin Sessions
    /\ {Main, Adopter} \cap Sessions = {}
    /\ Main # Adopter

VARIABLES
    open,       \* history: the session whose entry has no receipt
    started,    \* its started_at is set
    ended,      \* its ended_at is set
    verdict,    \* how the authority was told it ended
    stage,      \* how much of the return chain has been observed
    receipt,    \* history: the receipts given
    hooks,      \* hook processes the authority started and that are not done
    asked,      \* how far the authority went in asking a session to return
    app,        \* where the fixture app of a session is in run()
    code,       \* its exit status
    marker,     \* the sessions that have a .running file
    viewers,    \* the sessions whose weston-image was started and nobody has stopped
    pc,         \* where each thread of the supervisor is
    seen,       \* reconcile(): the entry it read
    found,      \* reconcile(): the markers it listed
    adopted,    \* the session whose marker the Adopter watches
    stopper,    \* sessions with a stop_when_ready() thread
    stopping,   \* stop_event
    stops, kills

entry == <<open, started, ended, verdict, stage, receipt>>
authority == <<entry, hooks, asked>>
apps == <<app, code, marker, viewers>>
locals == <<seen, found, adopted>>
process == <<pc, locals, stopper, stopping>>
vars == <<authority, apps, process, stops, kills>>

Threads == Sessions \cup {Main, Adopter}

ReturnChain == <<"unit_inactive", "target_released", "selected_owner_active",
                 "presentation_acknowledged">>

HookKinds == {"launch", "stop", "kill"}
AppPcs == {"none", "starting", "marked", "serving", "closing", "unmarked", "exited"}
Pcs == {"idle", "launching", "running", "waiting", "watching", "asking", "verdict", "pop",
        "down", "read", "glob", "decide", "serve", "terminate", "leave"}
       \cup Range(ReturnChain)

Nothing == [active |-> None, ended |-> FALSE, started |-> FALSE]

\* self.children: a session is in it until its watcher has popped it.
Child(s) == pc[s] # "idle"

Alive(s) == app[s] \notin {"none", "exited"}

\* The app is up, is on its way up or has yet to take its marker away.
Present(s) == app[s] \in {"starting", "marked", "serving", "closing"}

\* It ended without leaving run() by a return: its `finally' may not have run.
Failed(s) == app[s] = "exited" /\ code[s] = "fail"

\* What draws is the viewer, a process in a session of its own.
OnDisplay(s) == Present(s) \/ s \in viewers

Launching == \/ \E s \in Sessions : app[s] = "starting"
             \/ \E h \in hooks : h[1] = "launch"

GoTo(t, where) == pc' = [pc EXCEPT ![t] = where]

-----------------------------------------------------------------------------
(* The authority (external).                                               *)

ObserveRunning ==
    /\ started' = (started \/ (open # None /\ ~ended))
    /\ UNCHANGED <<open, ended, verdict, stage, receipt>>

ObserveExit(how) ==
    /\ IF open # None /\ ~ended
       THEN ended' = TRUE /\ verdict' = how
       ELSE UNCHANGED <<ended, verdict>>
    /\ UNCHANGED <<open, started, stage, receipt>>

\* The last observation of the chain gives the receipt and closes the entry.
ObserveReturn(kind) ==
    IF open = None \/ ~ended \/ ReturnChain[stage + 1] # kind
    THEN UNCHANGED entry
    ELSE IF stage + 1 < Len(ReturnChain)
    THEN stage' = stage + 1 /\ UNCHANGED <<open, started, ended, verdict, receipt>>
    ELSE /\ receipt' = [receipt EXCEPT ![open] = verdict]
         /\ open' = None
         /\ started' = FALSE
         /\ ended' = FALSE
         /\ verdict' = "none"
         /\ stage' = 0

Launch(s) ==
    /\ open = None
    /\ app[s] = "none"
    /\ receipt[s] = "none"
    /\ LaunchMidRestart \/ pc[Main] = "serve"
    /\ open' = s
    /\ hooks' = hooks \cup {<<"launch", s>>}
    /\ UNCHANGED <<started, ended, verdict, stage, receipt, asked, apps, process, stops, kills>>

\* The user asks for the shell: the authority may set ended_at on its own.
AskStop(s) ==
    /\ open = s
    /\ asked[s] = 0
    /\ asked' = [asked EXCEPT ![s] = 1]
    /\ hooks' = hooks \cup {<<"stop", s>>}
    /\ \/ UNCHANGED entry
       \/ ObserveExit("returned")
    /\ UNCHANGED <<apps, process, stops, kills>>

AskKill(s) ==
    /\ open = s
    /\ asked[s] = 1
    /\ asked' = [asked EXCEPT ![s] = 2]
    /\ hooks' = hooks \cup {<<"kill", s>>}
    /\ UNCHANGED <<entry, apps, process, stops, kills>>

\* Nobody listens on supervisor.sock.
HookFails(h) ==
    /\ h \in hooks
    /\ pc[Main] \in {"down", "terminate", "leave"}
    /\ hooks' = hooks \ {h}
    /\ UNCHANGED <<entry, asked, apps, process, stops, kills>>

-----------------------------------------------------------------------------
(* The fixture app: run() of fixture_app.py.                                *)

App(s, from, to) == app[s] = from /\ app' = [app EXCEPT ![s] = to]

Ends(s, status) == code' = [code EXCEPT ![s] = status]

AppMarks(s) ==
    /\ App(s, "starting", "marked")
    /\ marker' = marker \cup {s}
    /\ UNCHANGED <<code, viewers, authority, process, stops, kills>>

\* A bad fixture.toml, or a directory that cannot be made.
AppFails(s) ==
    /\ App(s, "starting", "exited")
    /\ Ends(s, "fail")
    /\ UNCHANGED <<marker, viewers, authority, process, stops, kills>>

\* Without a pattern, or with PF_SIM_NO_WESTON_IMAGE, nothing is shown.
MayShow(s) == viewers' \in {viewers, viewers \cup {s}}

\* Behaviours "stay", "instant-exit" and "exit:N", and "crash"; an app that
\* cannot bind its socket fails with its viewer already up.
AppBehaves(s) ==
    /\ \/ App(s, "marked", "serving") /\ MayShow(s) /\ UNCHANGED <<code, marker>>
       \/ /\ App(s, "marked", "unmarked")
          /\ marker' = marker \ {s}
          /\ Ends(s, "ok") \/ Ends(s, "fail")
          /\ UNCHANGED viewers
       \/ App(s, "marked", "exited") /\ Ends(s, "fail") /\ MayShow(s) /\ UNCHANGED marker
    /\ UNCHANGED <<authority, process, stops, kills>>

\* "quit", "exit" and "crash" from the command line.
AppCommanded(s) ==
    /\ \/ App(s, "serving", "closing") /\ (Ends(s, "ok") \/ Ends(s, "fail"))
       \/ App(s, "serving", "exited") /\ Ends(s, "fail")
    /\ UNCHANGED <<marker, viewers, authority, process, stops, kills>>

ExitLeavesViewer(s) ==
    /\ App(s, "closing", "unmarked")
    /\ marker' = marker \ {s}
    /\ UNCHANGED <<code, viewers, authority, process, stops, kills>>

\* `finally': the viewer is terminated or killed, and then the marker goes.
AppHides(s) ==
    /\ app[s] = "closing"
    /\ s \in viewers
    /\ viewers' = viewers \ {s}
    /\ UNCHANGED <<app, code, marker, authority, process, stops, kills>>

AppCloses(s) ==
    /\ App(s, "closing", "unmarked")
    /\ s \notin viewers
    /\ marker' = marker \ {s}
    /\ UNCHANGED <<code, viewers, authority, process, stops, kills>>

AppExits(s) ==
    /\ App(s, "unmarked", "exited")
    /\ UNCHANGED <<code, marker, viewers, authority, process, stops, kills>>

\* No handler is installed: SIGTERM and SIGKILL leave marker and viewer as they are.
Signalled(victims) ==
    /\ app' = [s \in Sessions |-> IF s \in victims /\ Alive(s) THEN "exited" ELSE app[s]]
    /\ code' = [s \in Sessions |-> IF s \in victims /\ Alive(s) THEN "fail" ELSE code[s]]
    /\ UNCHANGED <<marker, viewers>>

-----------------------------------------------------------------------------
(* command(): one hook at a time, by the accept thread.                     *)

Serving == pc[Main] = "serve" /\ ~stopping

HookLaunch(s) ==
    /\ <<"launch", s>> \in hooks
    /\ Serving
    /\ hooks' = hooks \ {<<"launch", s>>}
    /\ app' = [app EXCEPT ![s] = "starting"]
    /\ GoTo(s, "launching")
    /\ UNCHANGED <<code, marker, viewers, entry, asked, locals, stopper, stopping, stops, kills>>

\* An adopted session is no child: the answer is "not_running".
HookStop(s) ==
    /\ <<"stop", s>> \in hooks
    /\ Serving
    /\ hooks' = hooks \ {<<"stop", s>>}
    /\ stopper' = IF Child(s) THEN stopper \cup {s} ELSE stopper
    /\ UNCHANGED <<entry, asked, apps, pc, locals, stopping, stops, kills>>

HookKill(s) ==
    /\ <<"kill", s>> \in hooks
    /\ Serving
    /\ hooks' = hooks \ {<<"kill", s>>}
    /\ IF Child(s) THEN Signalled({s}) ELSE UNCHANGED apps
    /\ UNCHANGED <<entry, asked, process, stops, kills>>

\* stop_when_ready(): "quit" reaches the app, or it exits or three seconds pass.
StopWhenReady(s) ==
    /\ s \in stopper
    /\ stopper' = stopper \ {s}
    /\ \/ App(s, "serving", "closing") /\ Ends(s, "ok")
       \/ UNCHANGED <<app, code>>
    /\ UNCHANGED <<marker, viewers, authority, pc, locals, stopping, stops, kills>>

-----------------------------------------------------------------------------
(* _watch(): one thread for each launched session.                          *)

\* The app is marked as running, or it has exited or not come up in 30 seconds.
WatchLaunch(s) ==
    /\ pc[s] = "launching"
    /\ GoTo(s, IF app[s] # "exited" /\ s \in marker THEN "running" ELSE "waiting")
    /\ UNCHANGED <<authority, apps, locals, stopper, stopping, stops, kills>>

WatchRunning(s) ==
    /\ pc[s] = "running"
    /\ ObserveRunning
    /\ GoTo(s, "waiting")
    /\ UNCHANGED <<hooks, asked, apps, locals, stopper, stopping, stops, kills>>

ExitIsNoMarker(s) ==
    /\ pc[s] = "waiting"
    /\ app[s] = "exited" \/ s \notin marker
    /\ marker' = marker \ {s}
    /\ GoTo(s, "asking")
    /\ UNCHANGED <<app, code, viewers, authority, locals, stopper, stopping, stops, kills>>

WatchExit(s) ==
    /\ pc[s] = "waiting"
    /\ app[s] = "exited"
    /\ marker' = marker \ {s}
    /\ GoTo(s, "asking")
    /\ UNCHANGED <<app, code, viewers, authority, locals, stopper, stopping, stops, kills>>

WatchPop(s) ==
    /\ pc[s] = "pop"
    /\ GoTo(s, "idle")
    /\ UNCHANGED <<authority, apps, locals, stopper, stopping, stops, kills>>

-----------------------------------------------------------------------------
(* Reporting an exit, which watchers, the Adopter and reconcile() share.    *)

\* Is the open entry ended already, by the authority itself?
Ask(t) ==
    /\ pc[t] = "asking"
    /\ GoTo(t, IF ended \/ (t = Adopter /\ open = None)
               THEN ReturnChain[1] ELSE "verdict")
    /\ UNCHANGED <<authority, apps, locals, stopper, stopping, stops, kills>>

StatusAsKind(t) ==
    /\ pc[t] = "verdict"
    /\ ObserveExit(IF t \in Sessions THEN code[t] ELSE "returned")
    /\ GoTo(t, ReturnChain[1])
    /\ UNCHANGED <<hooks, asked, apps, locals, stopper, stopping, stops, kills>>

CrashUnlessKnownClean(t) ==
    /\ pc[t] = "verdict"
    /\ ObserveExit(IF t \in Sessions /\ code[t] = "ok" THEN "returned" ELSE "crash")
    /\ GoTo(t, ReturnChain[1])
    /\ UNCHANGED <<hooks, asked, apps, locals, stopper, stopping, stops, kills>>

\* Only a watcher has waited for the process and knows its exit status.
ReportExit(t) ==
    /\ pc[t] = "verdict"
    /\ ObserveExit(IF t \in Sessions /\ code[t] = "fail" THEN "crash" ELSE "returned")
    /\ GoTo(t, ReturnChain[1])
    /\ UNCHANGED <<hooks, asked, apps, locals, stopper, stopping, stops, kills>>

AfterReturn(t) == IF t = Main THEN "serve" ELSE IF t = Adopter THEN "idle" ELSE "pop"

ReportReturn(t) ==
    /\ \E i \in DOMAIN ReturnChain :
          /\ pc[t] = ReturnChain[i]
          /\ ObserveReturn(ReturnChain[i])
          /\ GoTo(t, IF i = Len(ReturnChain) THEN AfterReturn(t) ELSE ReturnChain[i + 1])
    /\ UNCHANGED <<hooks, asked, apps, locals, stopper, stopping, stops, kills>>

-----------------------------------------------------------------------------
(* serve() and reconcile().                                                *)

Start ==
    /\ pc[Main] = "down"
    /\ LaunchMidRestart \/ ~Launching
    /\ GoTo(Main, "read")
    /\ UNCHANGED <<authority, apps, locals, stopper, stopping, stops, kills>>

ReadHistory ==
    /\ pc[Main] = "read"
    /\ seen' = [active |-> open, ended |-> ended, started |-> started]
    /\ GoTo(Main, "glob")
    /\ UNCHANGED <<authority, apps, found, adopted, stopper, stopping, stops, kills>>

ListMarkers ==
    /\ pc[Main] = "glob"
    /\ found' = marker
    /\ GoTo(Main, "decide")
    /\ UNCHANGED <<authority, apps, seen, adopted, stopper, stopping, stops, kills>>

Decided == pc[Main] = "decide" /\ seen' = Nothing /\ found' = {}

NothingLeftToReport ==
    /\ Decided
    /\ seen.active # None /\ found = {}
    /\ GoTo(Main, IF seen.ended THEN "serve" ELSE "verdict")
    /\ UNCHANGED <<authority, apps, adopted, stopper, stopping, stops, kills>>

\* An open entry and no marker: the app ended while nobody watched.
ReconcileGone ==
    /\ Decided
    /\ seen.active # None /\ found = {}
    /\ GoTo(Main, IF seen.ended THEN ReturnChain[1] ELSE "verdict")
    /\ UNCHANGED <<authority, apps, adopted, stopper, stopping, stops, kills>>

ReconcileAdopt ==
    /\ Decided
    /\ seen.active # None /\ found # {}
    /\ IF seen.started THEN UNCHANGED entry ELSE ObserveRunning
    /\ adopted' \in found
    /\ pc' = [pc EXCEPT ![Main] = "serve", ![Adopter] = "watching"]
    /\ UNCHANGED <<hooks, asked, apps, stopper, stopping, stops, kills>>

ReconcileIdle ==
    /\ Decided
    /\ seen.active = None
    /\ marker' = marker \ found
    /\ GoTo(Main, "serve")
    /\ UNCHANGED <<app, code, viewers, authority, adopted, stopper, stopping, stops, kills>>

\* The marker disappears, or the supervisor is told to stop.
AdopterWakes ==
    /\ pc[Adopter] = "watching"
    /\ stopping \/ adopted \notin marker
    /\ GoTo(Adopter, IF stopping THEN "idle" ELSE "asking")
    /\ UNCHANGED <<authority, apps, locals, stopper, stopping, stops, kills>>

\* SIGTERM sets stop_event; a tick() that raises takes the same way out.
Stop ==
    /\ pc[Main] # "down"
    /\ ~stopping
    /\ stops < MaxStops
    /\ stops' = stops + 1
    /\ stopping' = TRUE
    /\ UNCHANGED <<authority, apps, pc, locals, stopper, kills>>

StopServing ==
    /\ pc[Main] = "serve"
    /\ stopping
    /\ GoTo(Main, "terminate")
    /\ UNCHANGED <<authority, apps, locals, stopper, stopping, stops, kills>>

TerminateChildren ==
    /\ pc[Main] = "terminate"
    /\ Signalled({s \in Sessions : Child(s)})
    /\ GoTo(Main, "leave")
    /\ UNCHANGED <<authority, locals, stopper, stopping, stops, kills>>

\* All threads are daemon threads: they end with the process, wherever they are.
ProcessEnds ==
    /\ pc' = [t \in Threads |-> IF t = Main THEN "down" ELSE "idle"]
    /\ seen' = Nothing
    /\ found' = {}
    /\ adopted' = None
    /\ stopper' = {}
    /\ stopping' = FALSE

Leave ==
    /\ pc[Main] = "leave"
    /\ ProcessEnds
    /\ UNCHANGED <<authority, apps, stops, kills>>

Kill ==
    /\ pc[Main] # "down"
    /\ LaunchMidRestart \/ ~Launching
    /\ kills < MaxKills
    /\ kills' = kills + 1
    /\ ProcessEnds
    /\ UNCHANGED <<authority, apps, stops>>

-----------------------------------------------------------------------------
Init ==
    /\ open = None
    /\ started = FALSE
    /\ ended = FALSE
    /\ verdict = "none"
    /\ stage = 0
    /\ receipt = [s \in Sessions |-> "none"]
    /\ hooks = {}
    /\ asked = [s \in Sessions |-> 0]
    /\ app = [s \in Sessions |-> "none"]
    /\ code = [s \in Sessions |-> "none"]
    /\ marker = {}
    /\ viewers = {}
    /\ pc = [t \in Threads |-> IF t = Main THEN "down" ELSE "idle"]
    /\ seen = Nothing
    /\ found = {}
    /\ adopted = None
    /\ stopper = {}
    /\ stopping = FALSE
    /\ stops = 0
    /\ kills = 0

AuthorityStep(s) ==
    \/ Launch(s) \/ AskStop(s) \/ AskKill(s)
    \/ \E kind \in HookKinds : HookFails(<<kind, s>>)

\* What the app does on its own; commands come from its users.
AppStep(s) ==
    AppMarks(s) \/ AppFails(s) \/ AppBehaves(s) \/ AppHides(s) \/ AppCloses(s) \/ AppExits(s)

CommandStep(s) == HookLaunch(s) \/ HookStop(s) \/ HookKill(s)

WatcherStep(s) == WatchLaunch(s) \/ WatchRunning(s) \/ WatchExit(s) \/ WatchPop(s)

ReportStep(t) == Ask(t) \/ ReportExit(t) \/ ReportReturn(t)

MainStep ==
    \/ Start \/ ReadHistory \/ ListMarkers
    \/ ReconcileGone \/ ReconcileAdopt \/ ReconcileIdle
    \/ StopServing \/ TerminateChildren \/ Leave

Next ==
    \/ \E s \in Sessions : AuthorityStep(s) \/ AppStep(s) \/ AppCommanded(s)
                           \/ CommandStep(s) \/ StopWhenReady(s) \/ WatcherStep(s)
    \/ \E t \in Threads : ReportStep(t)
    \/ MainStep \/ AdopterWakes \/ Stop \/ Kill

Spec == Init /\ [][Next]_vars

\* Threads and apps that can run do; a supervisor that is down is started again
\* (by up or apply).  Nobody has to launch, stop or command anything.
FairSpec ==
    /\ Spec
    /\ WF_vars(MainStep) /\ WF_vars(AdopterWakes)
    /\ \A t \in Threads : WF_vars(ReportStep(t))
    /\ \A s \in Sessions : WF_vars(WatcherStep(s)) /\ WF_vars(AppStep(s))
                           /\ WF_vars(CommandStep(s))

-----------------------------------------------------------------------------
(* Properties.                                                             *)

\* The values of the variables: what is observed are kinds the authority knows,
\* and the return chain is never overrun.
TypeOK ==
    /\ open \in Sessions \cup {None}
    /\ started \in BOOLEAN
    /\ ended \in BOOLEAN
    /\ verdict \in {"none", "returned", "crash"}
    /\ stage \in 0 .. Len(ReturnChain) - 1
    /\ receipt \in [Sessions -> {"none", "returned", "crash"}]
    /\ hooks \subseteq HookKinds \X Sessions
    /\ asked \in [Sessions -> 0 .. 2]
    /\ app \in [Sessions -> AppPcs]
    /\ code \in [Sessions -> {"none", "ok", "fail"}]
    /\ marker \subseteq Sessions
    /\ viewers \subseteq Sessions
    /\ pc \in [Threads -> Pcs]
    /\ seen \in [active : Sessions \cup {None}, ended : BOOLEAN, started : BOOLEAN]
    /\ found \subseteq Sessions
    /\ adopted \in Sessions \cup {None}
    /\ stopper \subseteq Sessions
    /\ stopping \in BOOLEAN
    /\ stops \in 0 .. MaxStops
    /\ kills \in 0 .. MaxKills

\* Two sessions are on the display together only when one of them failed or was
\* killed and left its viewer behind (fixture_app.py:58-77): otherwise no app and
\* no viewer outlives its session into the next one, through any stop, kill and
\* restart of the supervisor (supervisor.py:88-104).
OneApp ==
    \A s, t \in Sessions :
        OnDisplay(s) /\ OnDisplay(t) => s = t \/ Failed(s) \/ Failed(t)

\* Observations name no session: a crash is never charged to the session that
\* happens to be open when a watcher gets round to reporting it.
CrashIsItsOwn == \A s \in Sessions : receipt[s] = "crash" => code[s] = "fail"

\* A session whose app is not there: it exited, or its launch hook found nobody.
Gone(s) == ~Present(s) /\ <<"launch", s>> \notin hooks

Phase == [s \in Sessions |->
            IF receipt[s] # "none" THEN "receipted"
            ELSE IF open # s THEN "new"
            ELSE IF Gone(s) THEN "gone" ELSE "open"]

Lifecycle == INSTANCE SessionLifecycle WITH phase <- Phase

\* One session at a time, and no receipt before its app has gone: not a watcher,
\* nor a supervisor that reconciles, closes a session over its running app (the
\* process of the app: its viewer is what OneApp speaks of).
ImplementsLifecycle == Lifecycle!Spec

\* supervisor.py:92, 97: an app that took its marker away is reported, if need be
\* by the next supervisor, however often this one is stopped or killed.
UnmarkedExitIsReceipted ==
    \A s \in Sessions :
        open = s /\ app[s] = "exited" /\ s \notin marker ~> receipt[s] # "none"

\* docs/gui-dev-loop.md:87-88, "`app crash` yields a `Crash` receipt": an app that
\* fails, with no stop asked for, gets its session a receipt.
CrashYieldsReceipt ==
    \A s \in Sessions :
        open = s /\ asked[s] = 0 /\ app[s] = "exited" /\ code[s] = "fail"
            ~> receipt[s] # "none"

=============================================================================
