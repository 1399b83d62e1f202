------------------------------ MODULE Capture -------------------------------
(***************************************************************************)
(* capture() of pf_sim/capture.py, the automation route: wait until the    *)
(* shell settles, ask it for a picture and for its scene, and write both   *)
(* with a sidecar.  Every request is answered from what is presented then. *)
(* The picture and the scene are represented by the place they show.       *)
(***************************************************************************)
EXTENDS Launcher

CONSTANTS Attempts      \* range(3)

ASSUME AttemptsAssumption == Attempts \in Nat \ {0}

VARIABLES
    cpc,        \* where the call is; "ok" and "raised" once it is over
    churn,      \* revision_churn: settled by stable content, not by idleness
    attempt,
    png,        \* what the picture shows
    scene       \* the scene read last

capture == <<cpc, churn, attempt, png, scene>>

CapturePcs == {"off", "probe", "previous", "current", "png", "scene", "confirm",
               "ok", "raised"}

CGoTo(pc) == cpc' = pc

StartCapture ==
    /\ CGoTo("probe")
    /\ churn' = FALSE
    /\ attempt' = 1
    /\ UNCHANGED <<png, scene>>

\* A request that is refused or breaks raises out of capture(), and so does the
\* bounded wait of a later attempt.
CaptureRaises ==
    /\ cpc \in CapturePcs \ {"off", "ok", "raised"}
    /\ CGoTo("raised")
    /\ UNCHANGED <<launcher, churn, attempt, png, scene>>

\* wait_idle() answers in time or not: not before the shell has been quiet, and
\* quiet says nothing of the taps it has yet to consume.
Probe ==
    /\ cpc = "probe"
    /\ \/ CGoTo("png") /\ churn' = FALSE
       \/ CGoTo("previous") /\ churn' = TRUE
    /\ UNCHANGED <<launcher, attempt, png, scene>>

FirstScene ==
    /\ cpc = "previous"
    /\ scene' = place
    /\ CGoTo("current")
    /\ UNCHANGED <<launcher, churn, attempt, png>>

\* _content_stable(): two scenes in a row with one body.
NextScene ==
    /\ cpc = "current"
    /\ scene' = place
    /\ CGoTo(IF place = scene THEN "png" ELSE "current")
    /\ UNCHANGED <<launcher, churn, attempt, png>>

TakePicture ==
    /\ cpc = "png"
    /\ png' = place
    /\ drifted' = FALSE
    /\ CGoTo("scene")
    /\ UNCHANGED <<fifo, place, acked, churn, attempt, scene>>

ConcludeLate(good) ==
    /\ CGoTo(CASE good -> "ok"
               [] ~good /\ attempt <= Attempts -> "png"
               [] OTHER -> "raised")
    /\ attempt' = IF ~good /\ attempt <= Attempts THEN attempt + 1 ELSE attempt

\* The attempt succeeds, the next one begins, or there is none left.
Conclude(good) ==
    /\ CGoTo(CASE good -> "ok"
               [] ~good /\ attempt < Attempts -> "png"
               [] OTHER -> "raised")
    /\ attempt' = IF ~good /\ attempt < Attempts THEN attempt + 1 ELSE attempt

SceneUnchecked ==
    /\ cpc = "scene"
    /\ scene' = place
    /\ IF churn THEN CGoTo("confirm") /\ UNCHANGED attempt ELSE Conclude(TRUE)
    /\ UNCHANGED <<launcher, churn, png>>

\* frames and revision of the picture against those of the scene.
ReadScene ==
    /\ cpc = "scene"
    /\ scene' = place
    /\ IF churn THEN CGoTo("confirm") /\ UNCHANGED attempt ELSE Conclude(~drifted)
    /\ UNCHANGED <<launcher, churn, png>>

ConfirmScene ==
    /\ cpc = "confirm"
    /\ Conclude(place = scene)
    /\ UNCHANGED <<launcher, churn, png, scene>>

CaptureStep ==
    \/ Probe \/ FirstScene \/ NextScene
    \/ TakePicture \/ ReadScene \/ ConfirmScene

CaptureTypeOK ==
    /\ cpc \in CapturePcs
    /\ churn \in BOOLEAN
    /\ attempt \in 1..Attempts
    /\ png \in Places
    /\ scene \in Places

=============================================================================
