------------------------------- MODULE Matrix -------------------------------
(***************************************************************************)
(* The matrix runner, run() of pf_sim/matrix.py over LiveMatrixBackend:    *)
(* one instance per group of cells, a reset of the navigation before each  *)
(* cell, the recipe of its route, a look at where that led, and captures.  *)
(*                                                                         *)
(* A tap is acknowledged by the holder when it is in the FIFO; the shell   *)
(* consumes it when it gets there.  A group stands for one combination of  *)
(* profile, scale and contrast, and is named for its profile.              *)
(***************************************************************************)
EXTENDS Capture, SequencesExt

CONSTANTS
    Profiles,       \* the groups, in the order they are run
    Degraded,       \* the profiles whose shell churns (degraded-authority)
    Routes,         \* in the order of the matrix file
    Recipe,         \* the steps of each route
    Expect,         \* the places that count as each route
    Applies,        \* the pairs of profile and route that are not skipped
    ResetTries,     \* range(8) in _reset
    Repeats         \* --repeat

Input(seq) == [op |-> "input", seq |-> seq]
Text(value) == [op |-> "text", query |-> value]

Steps == [op : {"input"}, seq : Seq(Taps)] \cup [op : {"text"}, query : BOOLEAN]

\* The groups are the keys of a dictionary.
ASSUME MatrixAssumption ==
    /\ ResetTries \in Nat \ {0}
    /\ Repeats \in Nat \ {0}
    /\ Profiles \in Seq(STRING)
    /\ IsInjective(Profiles)
    /\ \A r \in Range(Routes) : Recipe[r] \in Seq(Steps)

VARIABLES
    pc,         \* where run() is
    group,      \* index of the group under way
    left,       \* the routes of the group that are left
    route,      \* the route of the cell under way, or of the last one
    broken,     \* start_error
    phase,      \* what the steps under way are for: the reset or the recipe
    todo,       \* the steps left, the first one under way
    taps,       \* taps of the step under way that are left to send
    tries,      \* iterations of the loop in _reset
    shots,      \* the captures of the cell under way, or of the last one (repeats)
    record      \* the status of each cell

runner == <<pc, group, left, route, broken, phase, todo, taps, tries, shots, record>>
vars == <<launcher, capture, runner>>

Cells == Range(Profiles) \X Range(Routes)

Profile == Profiles[group]
Cell == <<Profile, route>>
Steady == Profile \notin Degraded
Home == [screen |-> "home", query |-> FALSE]

PcsInCell == {"steps", "revision", "send", "idle", "ack", "settle", "locate",
              "observe", "capture", "capturing"}
Pcs == {"group", "start", "cell", "begin", "done"} \cup PcsInCell

GoTo(p) == pc' = p

-----------------------------------------------------------------------------
(* Groups and cells.                                                       *)

RunnableAll(p) == Range(Routes)

Runnable(p) == {r \in Range(Routes) : <<p, r>> \in Applies}

\* The cells in the order of the matrix file, but the first presentation is looked at
\* before any navigation.
Before(q, r) ==
    \/ q = "first-run"
    \/ /\ r # "first-run"
       /\ \E i, j \in DOMAIN Routes : i < j /\ Routes[i] = q /\ Routes[j] = r

NextGroup ==
    /\ pc = "group"
    /\ group <= Len(Profiles)
    /\ record' = [c \in Cells |->
                    IF c[1] = Profile /\ c \notin Applies THEN "skip" ELSE record[c]]
    /\ left' = Runnable(Profile)
    /\ IF left' = {} THEN GoTo("group") /\ group' = group + 1
                     ELSE GoTo("start") /\ UNCHANGED group
    /\ UNCHANGED <<launcher, capture, route, broken, phase, todo, taps, tries, shots>>

\* up(replace=True): a new holder with an empty FIFO and a shell in its first place.
Start ==
    /\ pc = "start"
    /\ GoTo("cell")
    /\ \/ /\ broken' = FALSE
          /\ fifo' = <<>>
          /\ place' = [Home EXCEPT !.screen =
                         IF Profile = "first-run" THEN "first-run" ELSE "home"]
          /\ UNCHANGED <<acked, drifted>>
       \/ broken' = TRUE /\ UNCHANGED launcher
    /\ UNCHANGED <<capture, group, left, route, phase, todo, taps, tries, shots, record>>

EndCell(status) ==
    /\ record' = [record EXCEPT ![Cell] = status]
    /\ GoTo("cell")

NextCell ==
    /\ pc = "cell"
    /\ \E r \in left :
          /\ \A q \in left \ {r} : Before(r, q)
          /\ route' = r
          /\ left' = left \ {r}
    /\ shots' = <<>>
    /\ GoTo("begin")
    /\ UNCHANGED <<launcher, capture, group, broken, phase, todo, taps, tries, record>>

GroupOver ==
    /\ pc = "cell"
    /\ left = {}
    /\ group' = group + 1
    /\ shots' = <<>>
    /\ GoTo("group")
    /\ UNCHANGED <<launcher, capture, left, route, broken, phase, todo, taps, tries, record>>

\* Whatever raises ends the cell; what it sent is still on its way to the shell.
Raise ==
    /\ EndCell("error")
    /\ UNCHANGED <<launcher, capture, group, left, route, broken, phase, todo, taps, tries, shots>>

\* A start that failed fails every cell of its group.
BeginCell ==
    /\ pc = "begin"
    /\ IF broken
       THEN Raise
       ELSE /\ GoTo("steps")
            /\ tries' = 0
            /\ IF route = "first-run"
               THEN phase' = "recipe" /\ todo' = Recipe["first-run"]
               ELSE phase' = "reset" /\ todo' = <<Input(<<"menu">>)>>
            /\ UNCHANGED <<launcher, capture, group, left, route, broken, taps, shots, record>>

Finish ==
    /\ pc = "group"
    /\ group > Len(Profiles)
    /\ GoTo("done")
    /\ UNCHANGED <<launcher, capture, group, left, route, broken, phase, todo, taps,
                   tries, shots, record>>

\* A request to the holder or to the automation socket fails, an idle wait that
\* may not time out does, or a copy or the measurement fails.
CellFails == pc \in PcsInCell /\ cpc \in {"off", "ok"} /\ Raise

-----------------------------------------------------------------------------
(* execute(): one step, with the barrier behind an input step.             *)

\* A text is applied when its request is answered (an assumption on pf-shell:
\* there is no barrier behind it).
BeginStep ==
    /\ pc = "steps"
    /\ todo # <<>>
    /\ IF Head(todo).op = "input"
       THEN /\ GoTo(IF Steady THEN "revision" ELSE "send")
            /\ taps' = Head(todo).seq
            /\ UNCHANGED <<launcher, todo>>
       ELSE /\ place' = [place EXCEPT !.query = Head(todo).query]
            /\ drifted' = TRUE
            /\ todo' = Tail(todo)
            /\ UNCHANGED <<fifo, acked, pc, taps>>
    /\ UNCHANGED <<capture, group, left, route, broken, phase, tries, shots, record>>

NoteRevision ==
    /\ pc = "revision"
    /\ acked' = FALSE
    /\ GoTo("send")
    /\ UNCHANGED <<fifo, place, drifted, capture, group, left, route, broken, phase,
                   todo, taps, tries, shots, record>>

SendTap ==
    /\ pc = "send"
    /\ taps # <<>>
    /\ fifo' = Append(fifo, Head(taps))
    /\ taps' = Tail(taps)
    /\ UNCHANGED <<place, acked, drifted, capture, pc, group, left, route, broken,
                   phase, todo, tries, shots, record>>

TapsSent ==
    /\ pc = "send"
    /\ taps = <<>>
    /\ GoTo("idle")
    /\ UNCHANGED <<launcher, capture, group, left, route, broken, phase, todo, taps,
                   tries, shots, record>>

\* The wait of the input step itself: it can report the frame before the input.
\* With a degraded profile its timeout is taken for an answer.
InputReturns ==
    /\ pc = "idle"
    /\ GoTo(IF Steady THEN "ack" ELSE "settle")
    /\ UNCHANGED <<launcher, capture, group, left, route, broken, phase, todo, taps,
                   tries, shots, record>>

AckAnything ==
    /\ pc = "ack"
    /\ GoTo("settle")
    /\ UNCHANGED <<launcher, capture, group, left, route, broken, phase, todo, taps,
                   tries, shots, record>>

AckForever ==
    /\ pc = "ack"
    /\ acked
    /\ GoTo("settle")
    /\ UNCHANGED <<launcher, capture, group, left, route, broken, phase, todo, taps,
                   tries, shots, record>>

\* The revision has moved since it was noted, or the deadline has passed.
Ack ==
    /\ pc = "ack"
    /\ IF acked
       THEN /\ GoTo("settle")
            /\ UNCHANGED <<launcher, capture, group, left, route, broken, phase, todo,
                           taps, tries, shots, record>>
       ELSE Raise

Settle ==
    /\ pc = "settle"
    /\ todo' = Tail(todo)
    /\ GoTo("steps")
    /\ UNCHANGED <<launcher, capture, group, left, route, broken, phase, taps, tries,
                   shots, record>>

-----------------------------------------------------------------------------
(* _reset(), the look at the route, and the captures.  Both look through    *)
(* LiveBackend.observe(): a ping, the history of the authority where there  *)
(* is one, and the scene.  The scene is what is used of it; the history is  *)
(* asked over a connection without a timeout.                               *)

StepsDone ==
    /\ pc = "steps"
    /\ todo = <<>>
    /\ GoTo(IF phase = "reset" THEN "locate" ELSE "observe")
    /\ UNCHANGED <<launcher, capture, group, left, route, broken, phase, todo, taps,
                   tries, shots, record>>

WayHome ==
    CASE place.screen = "first-run" -> <<Input(<<"start">>)>>
      [] place.screen = "home" -> <<Input(<<"search">>), Text(FALSE), Input(<<"back">>)>>
      [] OTHER -> <<Input(<<"back">>)>>

\* The eighth way back is not looked at as a success.
Locate ==
    /\ pc = "locate"
    /\ IF tries = ResetTries
       THEN Raise
       ELSE /\ GoTo("steps")
            /\ IF place = Home
               THEN phase' = "recipe" /\ todo' = Recipe[route] /\ UNCHANGED tries
               ELSE todo' = WayHome /\ tries' = tries + 1 /\ UNCHANGED phase
            /\ UNCHANGED <<launcher, capture, group, left, route, broken, taps, shots, record>>

Matches(r, p) == p \in Expect[r]

Observe ==
    /\ pc = "observe"
    /\ IF Matches(route, place)
       THEN /\ GoTo("capture")
            /\ UNCHANGED <<launcher, capture, group, left, route, broken, phase, todo,
                           taps, tries, shots, record>>
       ELSE Raise

BeginCapture ==
    /\ pc = "capture"
    /\ StartCapture
    /\ GoTo("capturing")
    /\ UNCHANGED <<launcher, group, left, route, broken, phase, todo, taps, tries,
                   shots, record>>

CaptureGoesOn ==
    /\ pc = "capturing"
    /\ CaptureStep
    /\ UNCHANGED runner

CaptureGivesUp ==
    /\ pc = "capturing"
    /\ CaptureRaises
    /\ UNCHANGED runner

CaptureFailed ==
    /\ pc = "capturing"
    /\ cpc = "raised"
    /\ CGoTo("off")
    /\ EndCell("error")
    /\ UNCHANGED <<launcher, churn, attempt, png, scene, group, left, route, broken,
                   phase, todo, taps, tries, shots>>

Shot == [cell |-> Cell, png |-> png, scene |-> scene, churn |-> churn]

\* One repeat is copied and measured; the cell fails if one of its repeats does.
Measured ==
    /\ pc = "capturing"
    /\ cpc = "ok"
    /\ CGoTo("off")
    /\ shots' = Append(shots, Shot)
    /\ IF Len(shots') < Repeats
       THEN GoTo("capture") /\ UNCHANGED record
       ELSE EndCell("measured")
    /\ UNCHANGED <<launcher, churn, attempt, png, scene, group, left, route, broken,
                   phase, todo, taps, tries>>

-----------------------------------------------------------------------------
Init ==
    /\ fifo = <<>> /\ place = Home /\ acked = FALSE /\ drifted = TRUE
    /\ cpc = "off" /\ churn = FALSE /\ attempt = 1 /\ png = Home /\ scene = Home
    /\ pc = "group" /\ group = 1 /\ left = {} /\ route = "first-run" /\ broken = FALSE
    /\ phase = "reset" /\ todo = <<>> /\ taps = <<>> /\ tries = 0
    /\ shots = <<>>
    /\ record = [c \in Cells |-> "none"]

Progress ==
    \/ NextGroup \/ Start \/ NextCell \/ BeginCell \/ GroupOver \/ Finish
    \/ BeginStep \/ NoteRevision \/ SendTap \/ TapsSent \/ InputReturns \/ Ack
    \/ Settle \/ StepsDone \/ Locate \/ Observe
    \/ BeginCapture \/ CaptureGoesOn \/ CaptureFailed \/ Measured

LauncherStep == (Consume \/ Present) /\ UNCHANGED <<capture, runner>>

Next == Progress \/ CellFails \/ CaptureGivesUp \/ LauncherStep

Spec == Init /\ [][Next]_vars

\* The runner asks the authority, which may take the connection and never answer;
\* the degraded profile runs none.
AsksAuthority == pc \in {"locate", "observe"} /\ Steady

\* The runner goes on where a request is answered, or fails within its timeout.
\* Nothing is assumed of the authority, and nothing of the taps: the shell may
\* leave them in the FIFO for ever.
FairSpec == Spec /\ WF_vars(Progress /\ ~AsksAuthority)

-----------------------------------------------------------------------------
(* Properties.                                                             *)

TypeOK ==
    /\ LauncherTypeOK
    /\ CaptureTypeOK
    /\ pc \in Pcs
    /\ group \in 1..Len(Profiles) + 1
    /\ left \subseteq Range(Routes)
    /\ route \in Range(Routes) \cup {"first-run"}
    /\ broken \in BOOLEAN
    /\ phase \in {"reset", "recipe"}
    /\ todo \in Seq(Steps)
    /\ taps \in Seq(Taps)
    /\ tries \in 0..ResetTries
    /\ Len(shots) <= Repeats
    /\ record \in [Cells -> {"none", "skip", "error", "measured"}]

\* README.md:3, "frame-complete captures": the picture and the scene of an idle
\* capture show the same, although the shell presents frames and consumes taps
\* between the two requests.
EvidenceIsOneFrame == \A s \in Range(shots) : ~s.churn => s.png = s.scene

\* Each cell gets one verdict, whichever of its neighbours fail or are skipped,
\* and none is left without at the end.
CellRecordedOnce ==
    [][/\ \A c \in Cells : record'[c] # record[c] => record[c] = "none"
       /\ pc' = "done" => \A c \in Cells : record'[c] # "none"]_vars

SingleTaps(r) == \A s \in Range(Recipe[r]) : s.op = "input" => Len(s.seq) = 1

\* In the profile p every step so far sent one tap, and no cell failed half way.
Undisturbed(p) ==
    /\ p \notin Degraded
    /\ \A r \in Range(Routes) :
          /\ record[<<p, r>>] # "error"
          /\ record[<<p, r>>] = "measured" => SingleTaps(r)

\* matrix.py:184-185, "Give the reader one dispatch interval, then put a second
\* idle barrier after the event": a tap cannot reach the shell between the look
\* at the route and the picture, so each picture shows the route of its cell, as
\* long as no tap is left over from a step of several taps or a failed cell.
PictureShowsItsRoute ==
    \A s \in Range(shots) :
        Undisturbed(s.cell[1]) /\ SingleTaps(s.cell[2]) => Matches(s.cell[2], s.png)

\* Every loop has its bound or its deadline: unless the authority leaves a look
\* at the shell without an answer for ever (authority.py:24), the run ends with its
\* report, even if the shell never consumes a tap.
RunEnds == <>[](pc = "done" \/ AsksAuthority)

=============================================================================
