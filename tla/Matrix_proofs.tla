---------------------------- MODULE Matrix_proofs ----------------------------
(***************************************************************************)
(* Proofs about Matrix, for any groups, routes, recipes and applicable      *)
(* cells, any number of attempts and repeats, and whatever the launcher     *)
(* does between two requests.                                              *)
(***************************************************************************)
EXTENDS Matrix, TLAPS, SequenceTheorems

\* A call of capture() is under way only while run() waits for it; until a frame
\* is presented the picture shows what is presented; and what a call or a cell has
\* to show for itself is of one frame.
OneFrame ==
    /\ cpc \in {"off", "ok"} \/ pc = "capturing"
    /\ cpc = "scene" /\ ~drifted => png = place
    /\ cpc = "confirm" => churn
    /\ cpc = "ok" /\ ~churn => png = scene
    /\ shots \in Seq(Range(shots))
    /\ EvidenceIsOneFrame

\* The invariant does not depend on the launcher while no capture is under way.
LEMMA QuietStep ==
  ASSUME OneFrame, cpc \in {"off", "ok"}, UNCHANGED capture, shots' \in {shots, <<>>}
  PROVE  OneFrame'
<1>1. shots' \in Seq(Range(shots')) /\ EvidenceIsOneFrame'
  <2>1. CASE shots' = shots
    BY <2>1 DEF OneFrame, EvidenceIsOneFrame, Range
  <2>2. CASE shots' = <<>>
    BY <2>2, EmptySeq DEF EvidenceIsOneFrame, Range
  <2>. QED
    BY <2>1, <2>2
<1>. QED
  BY <1>1 DEF OneFrame, capture

\* A new shot of one frame keeps the shots of a cell of one frame.
LEMMA AppendShot ==
  ASSUME OneFrame, NEW s, ~s.churn => s.png = s.scene, shots' = Append(shots, s)
  PROVE  shots' \in Seq(Range(shots')) /\ EvidenceIsOneFrame'
<1> DEFINE S == Range(shots) \cup {s}
<1>1. shots \in Seq(S)
  BY SeqMonotonic, Range(shots) \subseteq S DEF OneFrame
<1>2. /\ Append(shots, s) \in Seq(S)
      /\ Len(Append(shots, s)) = Len(shots) + 1
      /\ \A i \in 1 .. Len(shots) : Append(shots, s)[i] = shots[i]
      /\ Append(shots, s)[Len(shots) + 1] = s
      /\ Len(shots) \in Nat /\ DOMAIN shots = 1 .. Len(shots)
  BY <1>1, AppendProperties, LenProperties
<1>3. DOMAIN shots' = 1 .. Len(shots) + 1
  BY <1>2, LenProperties
<1>4. \A i \in DOMAIN shots' : shots'[i] \in S /\ shots'[i] \in Range(shots')
  BY <1>2, <1>3 DEF Range
<1>5. shots' \in Seq(Range(shots'))
  BY <1>2, <1>4, LenProperties, IsASeq
<1>6. \A t \in Range(shots') : t \in S
  BY <1>4 DEF Range
<1>. QED
  BY <1>5, <1>6 DEF OneFrame, EvidenceIsOneFrame

\* Every step keeps it.
LEMMA OneFrameStep == OneFrame /\ [Next]_vars => OneFrame'
<1> SUFFICES ASSUME OneFrame, [Next]_vars PROVE OneFrame'
  OBVIOUS
<1> USE DEF GoTo, CGoTo
<1>1. CASE NextGroup
  BY <1>1, QuietStep DEF NextGroup, OneFrame, capture
<1>2. CASE Start
  BY <1>2, QuietStep DEF Start, OneFrame, capture
<1>3. CASE NextCell
  BY <1>3, QuietStep DEF NextCell, OneFrame, capture
<1>4. CASE Finish
  BY <1>4, QuietStep DEF Finish, OneFrame, capture
<1>5. CASE CellFails
  BY <1>5, QuietStep DEF CellFails, Raise, OneFrame, capture
<1>6. CASE BeginStep
  BY <1>6, QuietStep DEF BeginStep, OneFrame, capture
<1>7. CASE NoteRevision
  BY <1>7, QuietStep DEF NoteRevision, OneFrame, capture
<1>8. CASE SendTap
  BY <1>8, QuietStep DEF SendTap, OneFrame, capture
<1>9. CASE TapsSent
  BY <1>9, QuietStep DEF TapsSent, OneFrame, capture
<1>10. CASE InputReturns
  BY <1>10, QuietStep DEF InputReturns, OneFrame, capture
<1>11. CASE Ack
  BY <1>11, QuietStep DEF Ack, Raise, OneFrame, capture
<1>12. CASE Settle
  BY <1>12, QuietStep DEF Settle, OneFrame, capture
<1>13. CASE StepsDone
  BY <1>13, QuietStep DEF StepsDone, OneFrame, capture
<1>14. CASE Locate
  BY <1>14, QuietStep DEF Locate, Raise, OneFrame, capture
<1>15. CASE Observe
  BY <1>15, QuietStep DEF Observe, Raise, OneFrame, capture
<1>16. CASE BeginCapture
  BY <1>16 DEF BeginCapture, StartCapture, OneFrame, EvidenceIsOneFrame, Range
<1>17. CASE CaptureGoesOn
  <2>0. pc' = "capturing" /\ shots' = shots /\ EvidenceIsOneFrame'
    BY <1>17 DEF CaptureGoesOn, runner, OneFrame, EvidenceIsOneFrame, Range
  <2> USE <2>0 DEF OneFrame, launcher, Range
  <2>1. CASE Probe
    BY <2>1 DEF Probe
  <2>2. CASE FirstScene
    BY <2>2 DEF FirstScene
  <2>3. CASE NextScene
    BY <2>3 DEF NextScene
  <2>4. CASE TakePicture
    BY <2>4 DEF TakePicture
  <2>5. CASE ReadScene
    BY <2>5 DEF ReadScene, Conclude
  <2>6. CASE ConfirmScene
    BY <2>6 DEF ConfirmScene, Conclude
  <2>. QED
    BY <1>17, <2>1, <2>2, <2>3, <2>4, <2>5, <2>6 DEF CaptureGoesOn, CaptureStep
<1>18. CASE CaptureGivesUp
  BY <1>18 DEF CaptureGivesUp, CaptureRaises, runner, OneFrame, EvidenceIsOneFrame, Range
<1>19. CASE CaptureFailed
  BY <1>19 DEF CaptureFailed, EndCell, OneFrame, EvidenceIsOneFrame, Range
<1>20. CASE Measured
  <2>1. ~Shot.churn => Shot.png = Shot.scene
    BY <1>20 DEF Measured, Shot, OneFrame
  <2>2. shots' = Append(shots, Shot)
    BY <1>20 DEF Measured
  <2>3. shots' \in Seq(Range(shots')) /\ EvidenceIsOneFrame'
    BY <2>1, <2>2, AppendShot
  <2>. QED
    BY <1>20, <2>3 DEF Measured, OneFrame
<1>21. CASE LauncherStep
  BY <1>21 DEF LauncherStep, Consume, Present, capture, runner, OneFrame,
            EvidenceIsOneFrame, Range
<1>22. CASE BeginCell
  BY <1>22, QuietStep DEF BeginCell, Raise, OneFrame, capture
<1>23. CASE GroupOver
  BY <1>23, QuietStep DEF GroupOver, OneFrame, capture
<1>24. CASE UNCHANGED vars
  BY <1>24 DEF vars, launcher, capture, runner, OneFrame, EvidenceIsOneFrame, Range
<1>. QED
  BY <1>1, <1>2, <1>3, <1>4, <1>5, <1>6, <1>7, <1>8, <1>9, <1>10, <1>11, <1>12, <1>13, <1>14, <1>15, <1>16, <1>17, <1>18, <1>19, <1>20, <1>21, <1>22,
     <1>23, <1>24 DEF Next, Progress

\* matrix.py:217 with capture.py:101: whatever is presented between its requests,
\* the picture and the scene of a capture that settled by idleness are of one frame.
THEOREM EvidenceIsConsistent == Spec => []EvidenceIsOneFrame
<1>1. Init => OneFrame
  BY EmptySeq DEF Init, OneFrame, EvidenceIsOneFrame, Range
<1>2. OneFrame => EvidenceIsOneFrame
  BY DEF OneFrame
<1>. QED
  BY <1>1, <1>2, OneFrameStep, PTL DEF Spec

-----------------------------------------------------------------------------
(* Types, and which group and cell is under way.                           *)

InGroup == Pcs \ {"group", "done"}
InCell == {"begin"} \cup PcsInCell
Capturing == {"capture", "capturing"}
InStep == {"revision", "send", "idle", "ack", "settle"}

CellInv ==
    /\ pc \in InGroup => group <= Len(Profiles)
    /\ pc = "done" => group = Len(Profiles) + 1
    /\ pc \in InCell => route \in Range(Routes) \ left
    /\ pc \in InStep => todo # <<>>

\* The pictures of a cell are taken one after the other.
ShotsInv ==
    /\ \A s \in Range(shots) : s.cell \in Cells
    /\ pc \in InCell \ Capturing => shots = <<>>
    /\ pc \in Capturing => Len(shots) < Repeats

TypeInv == TypeOK /\ CellInv /\ ShotsInv /\ OneFrame

LEMMA AppendedShots ==
    ASSUME shots \in Seq(Range(shots)), NEW s
    PROVE  /\ Len(Append(shots, s)) = Len(shots) + 1
           /\ Range(Append(shots, s)) = Range(shots) \cup {s}
<1> DEFINE S == Range(shots) \cup {s}
<1>1. shots \in Seq(S)
  BY SeqMonotonic, Range(shots) \subseteq S
<1>2. /\ Append(shots, s) \in Seq(S)
      /\ Len(Append(shots, s)) = Len(shots) + 1
      /\ \A i \in 1 .. Len(shots) : Append(shots, s)[i] = shots[i]
      /\ Append(shots, s)[Len(shots) + 1] = s
      /\ Len(shots) \in Nat /\ DOMAIN shots = 1 .. Len(shots)
  BY <1>1, AppendProperties, LenProperties
<1>3. DOMAIN Append(shots, s) = 1 .. Len(shots) + 1
  BY <1>2, LenProperties
<1> QED
  BY <1>2, <1>3 DEF Range

LEMMA NoShots == Range(<<>>) = {} /\ Len(<<>>) = 0
  BY EmptySeq DEF Range

LEMMA PcFacts ==
    /\ InGroup = {"start", "cell"} \cup InCell /\ InCell \subseteq Pcs
    /\ Capturing \subseteq InCell /\ PcsInCell \subseteq InCell
    /\ {"group", "done"} \cap InGroup = {} /\ {"group", "start", "cell", "begin", "done"} \cap PcsInCell = {}
    /\ {"group", "start", "cell", "done"} \cap InCell = {}
    /\ InStep \subseteq InCell \ Capturing
  BY DEF InStep, InGroup, InCell, Capturing, Pcs, PcsInCell

LEMMA LandsInPlaces ==
    ASSUME place \in Places, NEW tap
    PROVE  Lands(tap) \subseteq Places
  BY DEF Lands, OnScreen, Places, Screens, QuickScreens

\* What is sent, and the ways back to the first place.
LEMMA StepsAreSteps ==
    /\ \A t \in Taps : <<Input(<<t>>)>> \in Seq(Steps)
    /\ WayHome \in Seq(Steps)
<1>1. \A t \in Taps : <<t>> \in Seq(Taps)
  OBVIOUS
<1>2. \A t \in Taps : Input(<<t>>) \in Steps
  BY <1>1 DEF Input, Steps
<1>3. Text(FALSE) \in Steps
  BY DEF Text, Steps
<1>4. {"menu", "start", "search", "back"} \subseteq Taps
  BY DEF Taps
<1>5. /\ Input(<<"start">>) \in Steps /\ Input(<<"search">>) \in Steps
      /\ Input(<<"back">>) \in Steps
  BY <1>2, <1>4
<1>6. /\ \A a \in Steps : <<a>> \in Seq(Steps)
      /\ \A a, b, c \in Steps : <<a, b, c>> \in Seq(Steps)
  OBVIOUS
<1>7. \/ WayHome = <<Input(<<"start">>)>>
      \/ WayHome = <<Input(<<"search">>), Text(FALSE), Input(<<"back">>)>>
      \/ WayHome = <<Input(<<"back">>)>>
  BY DEF WayHome
<1> QED
  BY <1>2, <1>3, <1>5, <1>6, <1>7

LEMMA StartPlaces == Home \in Places /\ [Home EXCEPT !.screen = "first-run"] \in Places
                     /\ [Home EXCEPT !.screen = "home"] \in Places
  BY DEF Home, Places, Screens

LEMMA CellIsCell ==
    ASSUME TypeInv, pc \in InCell
    PROVE  Cell \in Cells /\ Profile = Profiles[group] /\ group \in 1 .. Len(Profiles)
<1>1. group \in 1 .. Len(Profiles)
  BY MatrixAssumption, PcFacts DEF TypeInv, TypeOK, CellInv
<1>2. Profiles[group] \in Range(Profiles)
  BY <1>1, MatrixAssumption DEF Range
<1> QED
  BY <1>1, <1>2 DEF Cell, Cells, Profile, TypeInv, CellInv

\* What becomes of the runner's own variables where a cell ends.
LEMMA EndCellTyped ==
    ASSUME TypeInv, pc \in InCell, NEW status \in {"error", "measured"}, EndCell(status),
           UNCHANGED <<group, left, route, broken, phase, todo, taps, tries>>
    PROVE  /\ pc' \in Pcs /\ record' \in [Cells -> {"none", "skip", "error", "measured"}]
           /\ CellInv' /\ pc' = "cell"
<1>1. Cell \in Cells
  BY CellIsCell
<1> QED
  BY <1>1, PcFacts DEF EndCell, GoTo, TypeInv, TypeOK, CellInv, Pcs

Typed == TypeOK /\ CellInv /\ ShotsInv

LEMMA RaiseTyped ==
    ASSUME TypeInv, pc \in InCell, Raise
    PROVE  Typed'
<1>1. PICK w \in {"error"} : EndCell(w)
  BY DEF Raise
<1>2. /\ pc' = "cell" /\ record' \in [Cells -> {"none", "skip", "error", "measured"}] /\ CellInv'
  BY <1>1, EndCellTyped DEF Raise
<1>3. UNCHANGED <<launcher, capture, group, left, route, broken, phase, todo, taps, tries, shots>>
  BY DEF Raise
<1>4. ShotsInv'
  BY <1>2, <1>3, PcFacts DEF TypeInv, ShotsInv, Cells
<1>5. TypeOK'
  BY <1>2, <1>3, PcFacts DEF TypeInv, TypeOK, LauncherTypeOK, CaptureTypeOK, launcher, capture, Pcs
<1> QED
  BY <1>2, <1>4, <1>5 DEF Typed

\* A step inside a cell before its pictures are taken.
LEMMA InsideCell ==
    ASSUME TypeInv, pc \in InCell \ Capturing, pc' \in InCell \ Capturing,
           UNCHANGED <<capture, group, left, route, broken, shots, record>>,
           LauncherTypeOK', phase' \in {"reset", "recipe"}, todo' \in Seq(Steps),
           taps' \in Seq(Taps), tries' \in 0 .. ResetTries, pc' \in InStep => todo' # <<>>
    PROVE  Typed'
<1>1. CellInv' /\ ShotsInv'
  BY PcFacts DEF TypeInv, CellInv, ShotsInv, Cells
<1>2. TypeOK'
  BY PcFacts DEF TypeInv, TypeOK, CaptureTypeOK, capture
<1> QED
  BY <1>1, <1>2 DEF Typed

LEMMA TypeStep ==
    ASSUME TypeInv, [Next]_vars
    PROVE  Typed'
<1> USE DEF TypeInv, GoTo
<1>0. LauncherTypeOK /\ CaptureTypeOK /\ Len(shots) \in Nat
  BY LenProperties DEF TypeOK, OneFrame
<1>1. CASE NextGroup
  <2>1. /\ left' \subseteq Range(Routes) /\ pc' \in {"group", "start"}
        /\ group' \in 1 .. Len(Profiles) + 1 /\ (pc' = "start" => group' <= Len(Profiles))
    BY <1>1, MatrixAssumption DEF NextGroup, Runnable, TypeOK
  <2>2. record' \in [Cells -> {"none", "skip", "error", "measured"}]
    BY <1>1 DEF NextGroup, TypeOK
  <2>3. UNCHANGED <<launcher, capture, route, broken, phase, taps, todo, tries, shots>>
    BY <1>1 DEF NextGroup
  <2>4. CellInv' /\ ShotsInv'
    BY <2>1, <2>3, PcFacts DEF CellInv, ShotsInv, InGroup
  <2>5. TypeOK'
    BY <2>1, <2>2, <2>3, PcFacts
       DEF TypeOK, LauncherTypeOK, CaptureTypeOK, launcher, capture, Pcs
  <2> QED
    BY <2>4, <2>5 DEF Typed
<1>2. CASE Start
  <2>1. LauncherTypeOK' /\ broken' \in BOOLEAN
    BY <1>2, <1>0, StartPlaces, EmptySeq DEF Start, LauncherTypeOK, launcher
  <2>2. UNCHANGED <<capture, group, left, route, phase, todo, taps, tries, shots, record>>
        /\ pc = "start" /\ pc' = "cell"
    BY <1>2 DEF Start
  <2>3. CellInv' /\ ShotsInv'
    BY <2>2, PcFacts DEF CellInv, ShotsInv
  <2>4. TypeOK'
    BY <2>1, <2>2 DEF TypeOK, CaptureTypeOK, capture, Pcs
  <2> QED
    BY <2>3, <2>4 DEF Typed
<1>3. CASE NextCell
  <2>1. /\ route' \in Range(Routes) \ left' /\ left' \subseteq left
        /\ pc = "cell" /\ pc' = "begin" /\ shots' = <<>>
    BY <1>3 DEF NextCell, TypeOK
  <2>2. UNCHANGED <<launcher, capture, group, broken, phase, todo, taps, tries, record>>
    BY <1>3 DEF NextCell
  <2>3. CellInv'
    BY <2>1, <2>2, PcFacts DEF CellInv, InStep
  <2>4. ShotsInv' /\ Len(shots') = 0
    BY <2>1, NoShots DEF ShotsInv, Capturing
  <2>5. TypeOK'
    BY <2>1, <2>2, <2>4, MatrixAssumption
       DEF TypeOK, LauncherTypeOK, CaptureTypeOK, launcher, capture, Pcs
  <2> QED
    BY <2>3, <2>4, <2>5 DEF Typed
<1>4. CASE BeginCell
  <2>0. pc = "begin" /\ pc \in InCell \ Capturing
    BY <1>4 DEF BeginCell, InCell, Capturing
  <2>1. CASE broken
    BY <1>4, <2>0, <2>1, RaiseTyped DEF BeginCell
  <2>2. CASE ~broken
    <3>1. pc' = "steps" /\ pc' \in InCell \ Capturing /\ tries' = 0
      BY <1>4, <2>2 DEF BeginCell, InCell, PcsInCell, Capturing, InStep
    <3>2. todo' \in Seq(Steps)
      <4>1. CASE route = "first-run"
        BY <1>4, <2>0, <2>2, <4>1, MatrixAssumption DEF BeginCell, CellInv
      <4>2. CASE route # "first-run"
        BY <1>4, <2>2, <4>2, StepsAreSteps DEF BeginCell, Taps
      <4> QED
        BY <4>1, <4>2
    <3>3. /\ UNCHANGED <<launcher, capture, group, left, route, broken, taps, shots, record>>
          /\ phase' \in {"reset", "recipe"}
      BY <1>4, <2>2 DEF BeginCell
    <3>4. tries' \in 0 .. ResetTries
      BY <3>1, MatrixAssumption
    <3> QED
      BY <1>0, <2>0, <3>1, <3>2, <3>3, <3>4, InsideCell
         DEF launcher, LauncherTypeOK, TypeOK, InStep
  <2> QED
    BY <2>1, <2>2
<1>5. CASE GroupOver
  <2>1. /\ pc = "cell" /\ pc' = "group" /\ group' = group + 1 /\ shots' = <<>>
        /\ UNCHANGED <<launcher, capture, left, route, broken, phase, todo, taps, tries, record>>
    BY <1>5 DEF GroupOver
  <2>2. group' \in 1 .. Len(Profiles) + 1
    BY <2>1, PcFacts, MatrixAssumption DEF CellInv, TypeOK
  <2>3. CellInv' /\ ShotsInv' /\ Len(shots') = 0
    BY <2>1, PcFacts, NoShots DEF CellInv, ShotsInv, Capturing
  <2>4. TypeOK'
    BY <2>1, <2>2, <2>3, MatrixAssumption
       DEF TypeOK, LauncherTypeOK, CaptureTypeOK, launcher, capture, Pcs
  <2> QED
    BY <2>3, <2>4 DEF Typed
<1>6. CASE Finish
  <2>1. /\ pc' = "done" /\ group = Len(Profiles) + 1
        /\ UNCHANGED <<launcher, capture, group, left, route, broken, phase, todo, taps,
                       tries, shots, record>>
    BY <1>6, MatrixAssumption DEF Finish, TypeOK
  <2>2. CellInv' /\ ShotsInv'
    BY <2>1, PcFacts DEF CellInv, ShotsInv, Capturing
  <2>3. TypeOK'
    BY <2>1 DEF TypeOK, LauncherTypeOK, CaptureTypeOK, launcher, capture, Pcs
  <2> QED
    BY <2>2, <2>3 DEF Typed
<1>7. CASE CellFails
  BY <1>7, RaiseTyped, PcFacts DEF CellFails
<1>8. CASE BeginStep
  <2>1. pc = "steps" /\ pc' \in {"revision", "send", "steps"} /\ Head(todo) \in Steps
        /\ Tail(todo) \in Seq(Steps)
    BY <1>8, HeadTailProperties DEF BeginStep, TypeOK
  <2>2. /\ UNCHANGED <<capture, group, left, route, broken, phase, tries, shots, record>>
        /\ todo' \in {todo, Tail(todo)} /\ (pc' \in InStep => todo' # <<>>)
    BY <1>8 DEF BeginStep, InStep
  <2>3. LauncherTypeOK' /\ taps' \in Seq(Taps)
    <3>1. CASE Head(todo).op = "input"
      BY <1>0, <1>8, <2>1, <3>1 DEF BeginStep, Steps, launcher, LauncherTypeOK
    <3>2. CASE Head(todo).op # "input"
      <4>1. Head(todo).query \in BOOLEAN
        BY <2>1, <3>2 DEF Steps
      <4> QED
        BY <1>0, <1>8, <3>2, <4>1 DEF BeginStep, LauncherTypeOK, Places, TypeOK
    <3> QED
      BY <3>1, <3>2
  <2> QED
    BY <2>1, <2>2, <2>3, InsideCell DEF InCell, PcsInCell, Capturing, TypeOK
<1>9. CASE NoteRevision \/ SendTap \/ TapsSent \/ InputReturns \/ StepsDone \/ Settle
  <2>1. pc \in InCell \ Capturing /\ pc' \in InCell \ Capturing
    BY <1>9 DEF NoteRevision, SendTap, TapsSent, InputReturns, StepsDone, Settle,
                InCell, PcsInCell, Capturing
  <2>0. pc' \in InStep => todo' # <<>>
    BY <1>9 DEF NoteRevision, SendTap, TapsSent, InputReturns, StepsDone, Settle, CellInv, InStep
  <2>2. LauncherTypeOK' /\ taps' \in Seq(Taps) /\ todo' \in Seq(Steps)
    <3>1. CASE SendTap
      BY <1>0, <3>1, HeadTailProperties, AppendProperties DEF SendTap, LauncherTypeOK, TypeOK
    <3>2. CASE Settle
      BY <1>0, <3>2, HeadTailProperties
         DEF Settle, launcher, LauncherTypeOK, TypeOK, CellInv, InStep
    <3>3. CASE NoteRevision \/ TapsSent \/ InputReturns \/ StepsDone
      BY <1>0, <3>3 DEF NoteRevision, TapsSent, InputReturns, StepsDone, launcher,
                        LauncherTypeOK, TypeOK
    <3> QED
      BY <1>9, <3>1, <3>2, <3>3
  <2>3. UNCHANGED <<capture, group, left, route, broken, phase, tries, shots, record>>
    BY <1>9 DEF NoteRevision, SendTap, TapsSent, InputReturns, StepsDone, Settle
  <2> QED
    BY <2>0, <2>1, <2>2, <2>3, InsideCell DEF TypeOK
<1>10. CASE Ack
  <2>1. pc = "ack" /\ pc \in InCell \ Capturing /\ "settle" \in InCell \ Capturing
    BY <1>10 DEF Ack, InCell, PcsInCell, Capturing
  <2>2. CASE Raise
    BY <2>1, <2>2, RaiseTyped
  <2>3. CASE ~Raise
    BY <1>0, <1>10, <2>1, <2>3, InsideCell DEF Ack, launcher, LauncherTypeOK, TypeOK, CellInv, InStep
  <2> QED
    BY <2>2, <2>3
<1>11. CASE Locate
  <2>1. pc = "locate" /\ pc \in InCell \ Capturing /\ "steps" \in InCell \ Capturing
    BY <1>11 DEF Locate, InCell, PcsInCell, Capturing
  <2>2. CASE tries = ResetTries
    BY <1>11, <2>1, <2>2, RaiseTyped DEF Locate
  <2>3. CASE tries # ResetTries
    <3>1. /\ pc' = "steps"
          /\ UNCHANGED <<launcher, capture, group, left, route, broken, taps, shots, record>>
          /\ phase' \in {"reset", "recipe"} /\ tries' \in {tries, tries + 1}
      BY <1>11, <2>3 DEF Locate, TypeOK
    <3>2. tries' \in 0 .. ResetTries
      BY <2>3, <3>1, MatrixAssumption DEF TypeOK
    <3>3. todo' \in {Recipe[route], WayHome}
      BY <1>11, <2>3 DEF Locate
    <3>4. todo' \in Seq(Steps)
      BY <2>1, <3>3, StepsAreSteps, MatrixAssumption DEF CellInv
    <3> QED
      BY <1>0, <2>1, <3>1, <3>2, <3>4, InsideCell DEF launcher, LauncherTypeOK, TypeOK, InStep
  <2> QED
    BY <2>2, <2>3
<1>12. CASE Observe
  <2>1. pc = "observe" /\ pc \in InCell \ Capturing
    BY <1>12 DEF Observe, InCell, PcsInCell, Capturing
  <2>2. CASE ~Matches(route, place)
    BY <1>12, <2>1, <2>2, RaiseTyped DEF Observe
  <2>3. CASE Matches(route, place)
    <3>1. pc' = "capture" /\ UNCHANGED <<launcher, capture, group, left, route, broken, phase,
                                        todo, taps, tries, shots, record>>
      BY <1>12, <2>3 DEF Observe
    <3>2. CellInv'
      BY <2>1, <3>1, PcFacts DEF CellInv, Capturing
    <3>3. ShotsInv'
      BY <2>1, <3>1, EmptySeq, MatrixAssumption DEF ShotsInv, Capturing, Range
    <3>4. TypeOK'
      BY <3>1 DEF TypeOK, LauncherTypeOK, CaptureTypeOK, launcher, capture, Pcs, PcsInCell
    <3> QED
      BY <3>2, <3>3, <3>4 DEF Typed
  <2> QED
    BY <2>2, <2>3
<1>13. CASE BeginCapture \/ CaptureGoesOn \/ CaptureGivesUp
  <2>1. /\ pc \in Capturing /\ pc' = "capturing"
        /\ UNCHANGED <<group, left, route, broken, phase, todo, taps, tries, shots, record>>
    BY <1>13 DEF BeginCapture, CaptureGoesOn, CaptureGivesUp, runner, Capturing
  <2>2. CellInv' /\ ShotsInv'
    BY <2>1, PcFacts DEF CellInv, ShotsInv, Capturing
  <2>3. LauncherTypeOK' /\ CaptureTypeOK'
    <3>1. CASE BeginCapture
      <4>1. /\ cpc' = "probe" /\ churn' = FALSE /\ attempt' = 1
            /\ UNCHANGED <<launcher, png, scene>>
        BY <3>1 DEF BeginCapture, StartCapture, CGoTo
      <4>2. attempt' \in 1 .. Attempts
        BY <4>1, AttemptsAssumption
      <4> QED
        BY <1>0, <4>1, <4>2 DEF LauncherTypeOK, CaptureTypeOK, CapturePcs, launcher
    <3>2. CASE CaptureGivesUp
      BY <1>0, <3>2 DEF CaptureGivesUp, CaptureRaises, CGoTo, LauncherTypeOK, CaptureTypeOK,
                        CapturePcs, launcher
    <3>3. CASE CaptureGoesOn
      <4>1. CASE Probe \/ FirstScene \/ NextScene \/ TakePicture
        BY <1>0, <4>1 DEF Probe, FirstScene, NextScene, TakePicture, CGoTo, LauncherTypeOK,
                          CaptureTypeOK, CapturePcs, launcher
      <4>2. CASE ReadScene \/ ConfirmScene
        BY <1>0, <4>2, AttemptsAssumption
           DEF ReadScene, ConfirmScene, Conclude, CGoTo, LauncherTypeOK, CaptureTypeOK,
               CapturePcs, launcher
      <4> QED
        BY <3>3, <4>1, <4>2 DEF CaptureGoesOn, CaptureStep
    <3> QED
      BY <1>13, <3>1, <3>2, <3>3
  <2>4. TypeOK'
    BY <2>1, <2>3, PcFacts DEF TypeOK, Capturing
  <2> QED
    BY <2>2, <2>4 DEF Typed
<1>14. CASE CaptureFailed
  <2>1. /\ pc \in InCell /\ EndCell("error") /\ UNCHANGED <<group, left, route, broken, phase, todo, taps, tries, shots>>
        /\ UNCHANGED <<launcher, churn, attempt, png, scene>> /\ cpc' = "off"
    BY <1>14 DEF CaptureFailed, CGoTo, InCell, PcsInCell
  <2>2. /\ pc' = "cell" /\ record' \in [Cells -> {"none", "skip", "error", "measured"}] /\ CellInv'
    BY <2>1, EndCellTyped
  <2>3. ShotsInv'
    BY <2>1, <2>2, PcFacts DEF ShotsInv
  <2>4. TypeOK'
    BY <2>1, <2>2 DEF TypeOK, LauncherTypeOK, CaptureTypeOK, CapturePcs, launcher, Pcs
  <2> QED
    BY <2>2, <2>3, <2>4 DEF Typed
<1>15. CASE Measured
  <2>1. /\ pc = "capturing" /\ pc \in InCell /\ cpc' = "off" /\ shots' = Append(shots, Shot)
        /\ UNCHANGED <<group, left, route, broken, phase, todo, taps, tries>>
        /\ UNCHANGED <<launcher, churn, attempt, png, scene>>
    BY <1>15 DEF Measured, CGoTo, InCell, PcsInCell
  <2>2. Len(shots) < Repeats /\ Shot.cell \in Cells
    BY <2>1, CellIsCell DEF ShotsInv, Capturing, Shot
  <2>3. Len(shots') = Len(shots) + 1 /\ Range(shots') = Range(shots) \cup {Shot}
    BY <2>1, AppendedShots DEF OneFrame
  <2>4. Len(shots') <= Repeats /\ \A s \in Range(shots') : s.cell \in Cells
    BY <1>0, <2>2, <2>3, MatrixAssumption DEF ShotsInv
  <2>5. CASE Len(shots') < Repeats
    <3>1. pc' = "capture" /\ UNCHANGED record
      BY <1>15, <2>5 DEF Measured
    <3>2. CellInv' /\ ShotsInv'
      BY <2>1, <2>4, <2>5, <3>1, PcFacts DEF CellInv, ShotsInv, Capturing
    <3>3. TypeOK'
      BY <2>1, <2>4, <3>1
         DEF TypeOK, LauncherTypeOK, CaptureTypeOK, CapturePcs, launcher, Pcs, PcsInCell
    <3> QED
      BY <3>2, <3>3 DEF Typed
  <2>6. CASE ~(Len(shots') < Repeats)
    <3>1. EndCell("measured")
      BY <1>15, <2>6 DEF Measured
    <3>2. /\ pc' = "cell" /\ record' \in [Cells -> {"none", "skip", "error", "measured"}]
          /\ CellInv'
      BY <2>1, <3>1, EndCellTyped
    <3>3. ShotsInv'
      BY <2>4, <3>2, PcFacts DEF ShotsInv
    <3>4. TypeOK'
      BY <2>1, <2>4, <3>2 DEF TypeOK, LauncherTypeOK, CaptureTypeOK, CapturePcs, launcher, Pcs
    <3> QED
      BY <3>2, <3>3, <3>4 DEF Typed
  <2> QED
    BY <2>5, <2>6
<1>16. CASE LauncherStep
  <2>1. UNCHANGED <<capture, runner>>
    BY <1>16 DEF LauncherStep
  <2>2. LauncherTypeOK'
    BY <1>0, <1>16, HeadTailProperties, LandsInPlaces
       DEF LauncherStep, Consume, Present, LauncherTypeOK
  <2>3. CellInv' /\ ShotsInv' /\ TypeOK'
    BY <2>1, <2>2 DEF CellInv, ShotsInv, TypeOK, CaptureTypeOK, capture, runner
  <2> QED
    BY <2>3 DEF Typed
<1>17. CASE UNCHANGED vars
  BY <1>17 DEF vars, launcher, capture, runner, Typed, CellInv, ShotsInv, TypeOK,
               LauncherTypeOK, CaptureTypeOK
<1> QED
  BY <1>1, <1>2, <1>3, <1>4, <1>5, <1>6, <1>7, <1>8, <1>9, <1>10, <1>11, <1>12, <1>13,
     <1>14, <1>15, <1>16, <1>17 DEF Next, Progress

-----------------------------------------------------------------------------
(* The verdicts.                                                           *)

\* Which cells have theirs: those of the groups before, and of the group under way
\* those that are neither left nor under way.
VerdictInv ==
    \A i \in 1 .. Len(Profiles), r \in Range(Routes) :
        /\ i < group => record[<<Profiles[i], r>>] # "none"
        /\ i > group => record[<<Profiles[i], r>>] = "none"
        /\ i = group /\ pc = "group" => record[<<Profiles[i], r>>] = "none"
        /\ i = group /\ pc \in InGroup =>
             (record[<<Profiles[i], r>>] = "none" <=> r \in left \/ (pc \in InCell /\ r = route))

Ends == \E status \in {"error", "measured"} : record' = [record EXCEPT ![Cell] = status]

\* What a step does to the order of the cells.
LEMMA StepOfCell ==
    ASSUME TypeInv, [Next]_vars
    PROVE  \/ pc \in InCell /\ pc' \in InCell /\ UNCHANGED <<group, left, route, record>>
           \/ pc \in InCell /\ pc' = "cell" /\ UNCHANGED <<group, left, route>> /\ Ends
           \/ UNCHANGED <<pc, group, left, route, record>>
           \/ NextGroup \/ Start \/ NextCell \/ GroupOver \/ Finish
<1> USE DEF GoTo, InCell, PcsInCell
<1>1. CASE BeginCell \/ CellFails \/ Ack \/ Locate \/ Observe
  BY <1>1 DEF BeginCell, CellFails, Ack, Locate, Observe, Raise, EndCell, Ends
<1>2. CASE BeginStep
  BY <1>2 DEF BeginStep
<1>3. CASE NoteRevision \/ SendTap \/ TapsSent \/ InputReturns \/ Settle \/ StepsDone
  BY <1>3 DEF NoteRevision, SendTap, TapsSent, InputReturns, Settle, StepsDone
<1>4. CASE BeginCapture \/ CaptureGoesOn \/ CaptureGivesUp
  BY <1>4 DEF BeginCapture, CaptureGoesOn, CaptureGivesUp, runner
<1>5. CASE CaptureFailed \/ Measured
  BY <1>5 DEF CaptureFailed, Measured, EndCell, Ends
<1>6. CASE LauncherStep \/ UNCHANGED vars
  BY <1>6 DEF LauncherStep, runner, vars
<1> QED
  BY <1>1, <1>2, <1>3, <1>4, <1>5, <1>6 DEF Next, Progress

LEMMA ProfilesDiffer ==
    /\ \A i, j \in 1 .. Len(Profiles) : Profiles[i] = Profiles[j] => i = j
    /\ \A c \in Cells : \E i \in 1 .. Len(Profiles), r \in Range(Routes) : c = <<Profiles[i], r>>
    /\ \A i \in 1 .. Len(Profiles), r \in Range(Routes) : <<Profiles[i], r>> \in Cells
    /\ Len(Profiles) \in Nat
<1>1. DOMAIN Profiles = 1 .. Len(Profiles) /\ Len(Profiles) \in Nat
  BY MatrixAssumption, LenProperties
<1>2. \A i, j \in 1 .. Len(Profiles) : Profiles[i] = Profiles[j] => i = j
  BY <1>1, MatrixAssumption DEF IsInjective
<1> QED
  BY <1>1, <1>2 DEF Cells, Range

LEMMA VerdictStep ==
    ASSUME TypeInv, VerdictInv, [Next]_vars
    PROVE  /\ VerdictInv'
           /\ \A c \in Cells : record'[c] # record[c] => record[c] = "none"
           /\ pc' = "done" => \A c \in Cells : record'[c] # "none"
<1> USE DEF VerdictInv, GoTo
<1>0. /\ record \in [Cells -> {"none", "skip", "error", "measured"}]
      /\ group \in 1 .. Len(Profiles) + 1 /\ left \subseteq Range(Routes)
      /\ pc \in Pcs /\ CellInv
  BY DEF TypeInv, TypeOK
<1>1. CASE pc \in InCell /\ pc' \in InCell /\ UNCHANGED <<group, left, route, record>>
  BY <1>1, PcFacts
<1>2. CASE pc \in InCell /\ pc' = "cell" /\ UNCHANGED <<group, left, route>> /\ Ends
  <2>1. PICK w \in {"error", "measured"} : record' = [record EXCEPT ![Cell] = w]
    BY <1>2 DEF Ends
  <2>2. /\ Cell \in Cells /\ Cell = <<Profiles[group], route>> /\ group \in 1 .. Len(Profiles)
        /\ route \in Range(Routes) \ left
    BY <1>0, <1>2, CellIsCell DEF Cell, CellInv
  <2>3. record[Cell] = "none"
    BY <1>2, <2>2, PcFacts
  <2>4. \A c \in Cells : record'[c] = IF c = Cell THEN w ELSE record[c]
    BY <1>0, <2>1
  <2>5. \A i \in 1 .. Len(Profiles), r \in Range(Routes) :
           <<Profiles[i], r>> = Cell <=> i = group /\ r = route
    BY <2>2, ProfilesDiffer
  <2>6. VerdictInv'
    BY <1>2, <2>2, <2>4, <2>5, ProfilesDiffer, PcFacts
  <2> QED
    BY <1>2, <2>3, <2>4, <2>6
<1>3. CASE UNCHANGED <<pc, group, left, route, record>>
  BY <1>0, <1>3, ProfilesDiffer DEF CellInv
<1>4. CASE NextGroup
  <2>1. /\ pc = "group" /\ group \in 1 .. Len(Profiles)
        /\ left' = Runnable(Profile) /\ Profile = Profiles[group]
        /\ IF left' = {} THEN pc' = "group" /\ group' = group + 1 ELSE pc' = "start" /\ group' = group
        /\ \A c \in Cells :
              record'[c] = IF c[1] = Profile /\ c \notin Applies THEN "skip" ELSE record[c]
    BY <1>0, <1>4, ProfilesDiffer DEF NextGroup, Profile
  <2>2. \A i \in 1 .. Len(Profiles), r \in Range(Routes) :
           /\ i # group => record'[<<Profiles[i], r>>] = record[<<Profiles[i], r>>]
           /\ i = group => record[<<Profiles[i], r>>] = "none"
                           /\ (record'[<<Profiles[i], r>>] = "none" <=> r \in left')
    BY <2>1, ProfilesDiffer DEF Runnable
  <2>3. VerdictInv'
    BY <2>1, <2>2, PcFacts
  <2>4. \A c \in Cells : record'[c] # record[c] => record[c] = "none"
    BY <2>2, ProfilesDiffer
  <2> QED
    BY <2>1, <2>3, <2>4
<1>5. CASE Start
  BY <1>5, PcFacts DEF Start
<1>6. CASE NextCell
  <2>1. /\ pc = "cell" /\ pc' = "begin" /\ UNCHANGED <<group, record>>
        /\ route' \in left /\ left' = left \ {route'}
    BY <1>6 DEF NextCell
  <2> QED
    BY <2>1, PcFacts
<1>7. CASE GroupOver
  <2>1. /\ pc = "cell" /\ pc' = "group" /\ left = {} /\ group' = group + 1 /\ UNCHANGED record
    BY <1>7 DEF GroupOver
  <2>2. VerdictInv'
    BY <1>0, <2>1, PcFacts, ProfilesDiffer
  <2> QED
    BY <2>1, <2>2
<1>8. CASE Finish
  <2>1. /\ pc' = "done" /\ group > Len(Profiles) /\ UNCHANGED <<group, record>>
    BY <1>8 DEF Finish
  <2>2. \A i \in 1 .. Len(Profiles) : i < group
    BY <1>0, <2>1, ProfilesDiffer
  <2> QED
    BY <2>1, <2>2, PcFacts, ProfilesDiffer
<1> QED
  BY <1>1, <1>2, <1>3, <1>4, <1>5, <1>6, <1>7, <1>8, StepOfCell

-----------------------------------------------------------------------------
(* The taps.                                                               *)

OneTapEach(steps) == \A i \in DOMAIN steps : steps[i].op = "input" => Len(steps[i].seq) = 1

\* A step waits for the one tap it has sent: nothing is in the FIFO behind it.
OneAtATime ==
    /\ OneTapEach(todo)
    /\ pc = "revision" => Len(taps) = 1
    /\ pc = "send" => taps = <<>> \/ (Len(taps) = 1 /\ fifo = <<>> /\ ~acked)
    /\ pc \in {"send", "idle", "ack"} => fifo = <<>> \/ (Len(fifo) = 1 /\ ~acked)
    /\ pc \notin {"send", "idle", "ack"} => fifo = <<>>
    /\ pc \in Capturing => Matches(route, place)
    /\ pc = "capturing" /\ cpc \in {"scene", "confirm", "ok"} => Matches(route, png)

Single == phase = "reset" \/ SingleTaps(route)

\* So it is where no cell of the group has failed and no step has sent several taps.
CalmInv ==
    pc \in InGroup \ {"start"} /\ Undisturbed(Profile) =>
      /\ pc \in {"cell", "begin"} => broken \/ fifo = <<>>
      /\ pc \in PcsInCell /\ Single => OneAtATime

LEMMA StaysUndisturbed ==
    ASSUME TypeInv, VerdictInv, [Next]_vars, NEW p \in Range(Profiles), Undisturbed(p)'
    PROVE  Undisturbed(p)
<1>1. \A r \in Range(Routes) : <<p, r>> \in Cells
  BY DEF Cells
<1>2. \A c \in Cells : record'[c] # record[c] => record[c] = "none"
  BY VerdictStep
<1> QED
  BY <1>1, <1>2 DEF Undisturbed

\* A cell that ends leaves an empty FIFO, or it is one that disturbs its profile.
LEMMA EndCalm ==
    ASSUME TypeInv, VerdictInv, CalmInv, pc \in InCell, pc' = "cell",
           UNCHANGED <<group, left, route, fifo, broken>>, Undisturbed(Profile)',
           NEW w \in {"error", "measured"}, record' = [record EXCEPT ![Cell] = w],
           w = "measured" => pc = "capturing", [Next]_vars
    PROVE  fifo' = <<>>
<1>1. Cell \in Cells /\ group \in 1 .. Len(Profiles) /\ Cell = <<Profile, route>>
      /\ route \in Range(Routes)
  BY CellIsCell DEF Cell, TypeInv, CellInv
<1>2. record'[Cell] = w
  BY <1>1 DEF TypeInv, TypeOK
<1>3. Profile' = Profile /\ Undisturbed(Profile)'
  BY DEF Profile
<1>4. w = "measured" /\ SingleTaps(route)
  BY <1>1, <1>2, <1>3 DEF Undisturbed
<1>5. Profile \in Range(Profiles)
  BY <1>1 DEF Cell, Cells
<1>6. Undisturbed(Profile)
  BY <1>3, <1>5, StaysUndisturbed DEF Undisturbed
<1>7. pc \in InGroup \ {"start"} /\ pc \in PcsInCell
  BY <1>4, PcFacts DEF PcsInCell
<1>8. OneAtATime
  BY <1>4, <1>6, <1>7 DEF CalmInv, Single
<1> QED
  BY <1>4, <1>8 DEF OneAtATime

LEMMA OneTap ==
    /\ \A t \in Taps : OneTapEach(<<Input(<<t>>)>>)
    /\ OneTapEach(WayHome)
    /\ OneTapEach(<<>>)
    /\ \A r \in Range(Routes) : SingleTaps(r) => OneTapEach(Recipe[r])
    /\ \A s \in Seq(Steps) : s # <<>> /\ OneTapEach(s) =>
          /\ OneTapEach(Tail(s))
          /\ Head(s).op = "input" => Len(Head(s).seq) = 1
<1>1. \A t : Input(<<t>>).op = "input" /\ Len(Input(<<t>>).seq) = 1
  BY DEF Input
<1>2. \A t : OneTapEach(<<Input(<<t>>)>>)
  BY <1>1 DEF OneTapEach
<1>3. OneTapEach(WayHome)
  <2>1. Text(FALSE).op # "input"
    BY DEF Text
  <2> DEFINE back == <<Input(<<"search">>), Text(FALSE), Input(<<"back">>)>>
  <2>2. OneTapEach(back)
    <3>1. DOMAIN back = 1 .. 3 /\ back[1] = Input(<<"search">>) /\ back[2] = Text(FALSE)
          /\ back[3] = Input(<<"back">>)
      OBVIOUS
    <3>2. \A i \in 1 .. 3 : i = 1 \/ i = 2 \/ i = 3
      OBVIOUS
    <3> HIDE DEF back
    <3> QED
      BY <1>1, <2>1, <3>1, <3>2 DEF OneTapEach
  <2> HIDE DEF back
  <2>3. WayHome \in {<<Input(<<"start">>)>>, back, <<Input(<<"back">>)>>}
    BY DEF WayHome, back
  <2> QED
    BY <1>2, <2>2, <2>3
<1>4. OneTapEach(<<>>)
  BY EmptySeq DEF OneTapEach
<1>5. \A r \in Range(Routes) : SingleTaps(r) => OneTapEach(Recipe[r])
  BY DEF SingleTaps, OneTapEach, Range
<1>6. ASSUME NEW s \in Seq(Steps), s # <<>>, OneTapEach(s)
      PROVE  /\ OneTapEach(Tail(s))
             /\ Head(s).op = "input" => Len(Head(s).seq) = 1
  <2>1. /\ Len(s) \in Nat \ {0} /\ DOMAIN s = 1 .. Len(s) /\ Head(s) = s[1]
        /\ DOMAIN Tail(s) = 1 .. Len(s) - 1
        /\ \A i \in 1 .. Len(s) - 1 : Tail(s)[i] = s[i + 1]
    BY <1>6, HeadTailProperties, LenProperties, EmptySeq
  <2> QED
    BY <1>6, <2>1 DEF OneTapEach
<1> QED
  BY <1>2, <1>3, <1>4, <1>5, <1>6

LEMMA CalmStep ==
    ASSUME TypeInv, VerdictInv, CalmInv, [Next]_vars
    PROVE  CalmInv'
<1> SUFFICES ASSUME pc' \in InGroup \ {"start"}, Undisturbed(Profile)'
             PROVE  /\ pc' \in {"cell", "begin"} => broken' \/ fifo' = <<>>
                    /\ pc' \in PcsInCell /\ Single' => OneAtATime'
  BY DEF CalmInv
<1> USE DEF GoTo, CGoTo
<1>0. /\ fifo \in Seq(Taps) /\ todo \in Seq(Steps) /\ taps \in Seq(Taps) /\ TypeOK /\ CellInv
      /\ pc \in {"cell"} \cup InCell => pc \in InGroup \ {"start"}
      /\ {"cell", "begin"} \cap PcsInCell = {} /\ PcsInCell \subseteq InCell
  BY PcFacts DEF TypeInv, TypeOK, LauncherTypeOK
<1>u. ASSUME pc \in {"cell"} \cup InCell, group' = group
      PROVE  Undisturbed(Profile) /\ Profile' = Profile
  <2>1. Profile' = Profile /\ Profile \in Range(Profiles)
    BY <1>0, <1>u, PcFacts, MatrixAssumption DEF Profile, TypeOK, CellInv, Range
  <2> QED
    BY <2>1, StaysUndisturbed DEF Undisturbed
<1>c. ASSUME pc \in PcsInCell, Single, group' = group
      PROVE  OneAtATime
  BY <1>0, <1>c, <1>u DEF CalmInv
<1>r. ASSUME Raise, pc \in InCell
      PROVE  fifo' = <<>> /\ pc' = "cell"
  BY <1>r, EndCalm DEF Raise, EndCell, launcher
<1>1. CASE NextGroup \/ GroupOver \/ Finish
  BY <1>1, PcFacts DEF NextGroup, GroupOver, Finish
<1>2. CASE Start
  BY <1>2, PcFacts DEF Start, PcsInCell
<1>3. CASE NextCell
  <2>1. pc = "cell" /\ pc' = "begin" /\ UNCHANGED <<launcher, group, broken>>
    BY <1>3 DEF NextCell
  <2> QED
    BY <1>0, <1>u, <2>1 DEF CalmInv, launcher
<1>4. CASE BeginCell
  <2>0. pc = "begin" /\ pc \in InCell
    BY <1>4 DEF BeginCell, InCell
  <2>1. CASE broken
    BY <1>0, <1>4, <1>r, <2>0, <2>1 DEF BeginCell
  <2>2. CASE ~broken
    <3>1. /\ pc' = "steps" /\ UNCHANGED <<launcher, group, route>>
          /\ \/ phase' = "recipe" /\ todo' = Recipe[route] /\ route = "first-run"
             \/ todo' = <<Input(<<"menu">>)>>
      BY <1>4, <2>2 DEF BeginCell
    <3>2. fifo' = <<>>
      BY <1>0, <1>u, <2>0, <2>2, <3>1 DEF CalmInv, launcher
    <3>3. ASSUME Single' PROVE OneTapEach(todo')
      <4>1. CASE todo' = <<Input(<<"menu">>)>>
        BY <4>1, OneTap DEF Taps
      <4>2. CASE phase' = "recipe" /\ todo' = Recipe[route]
        <5>1. SingleTaps(route) /\ route \in Range(Routes)
          BY <1>0, <2>0, <3>1, <3>3, <4>2 DEF Single, SingleTaps, CellInv
        <5> QED
          BY <4>2, <5>1, OneTap
      <4> QED
        BY <3>1, <4>1, <4>2
    <3> QED
      BY <3>1, <3>2, <3>3 DEF OneAtATime, OneTapEach, Capturing
  <2> QED
    BY <2>1, <2>2
<1>5. CASE CellFails
  BY <1>0, <1>5, <1>r DEF CellFails
<1>6. CASE BeginStep
  <2>1. /\ pc = "steps" /\ todo # <<>> /\ UNCHANGED <<group, phase, route>>
        /\ pc \in PcsInCell /\ pc' \in PcsInCell
    BY <1>6 DEF BeginStep, PcsInCell
  <2>2. ASSUME Single' PROVE OneAtATime'
    <3>1. OneAtATime
      BY <1>c, <2>1, <2>2 DEF Single, SingleTaps
    <3>2. /\ fifo = <<>> /\ OneTapEach(todo) /\ OneTapEach(Tail(todo))
          /\ Head(todo).op = "input" => Len(Head(todo).seq) = 1
      BY <1>0, <2>1, <3>1, OneTap DEF OneAtATime
    <3>3. Profile \notin Degraded
      BY <1>0, <1>u, <2>1 DEF Undisturbed
    <3>4. CASE Head(todo).op = "input"
      <4>1. pc' = "revision" /\ taps' = Head(todo).seq /\ UNCHANGED <<launcher, todo>>
        BY <1>6, <3>3, <3>4 DEF BeginStep, Steady
      <4> QED
        BY <3>2, <3>4, <4>1 DEF OneAtATime, OneTapEach, Capturing, launcher
    <3>5. CASE Head(todo).op # "input"
      <4>1. pc' = "steps" /\ todo' = Tail(todo) /\ fifo' = fifo
        BY <1>6, <2>1, <3>5 DEF BeginStep
      <4> QED
        BY <3>2, <4>1 DEF OneAtATime, OneTapEach, Capturing
    <3> QED
      BY <3>4, <3>5
  <2> QED
    BY <1>0, <2>1, <2>2
<1>7. CASE NoteRevision \/ SendTap \/ TapsSent \/ InputReturns
  <2>1. /\ UNCHANGED <<group, phase, route, todo>> /\ pc \in PcsInCell /\ pc' \in PcsInCell
        /\ pc \in {"revision", "send", "idle"} /\ pc' \in {"send", "idle", "ack", "settle"}
    BY <1>7 DEF NoteRevision, SendTap, TapsSent, InputReturns, PcsInCell
  <2>2. ASSUME Single' PROVE OneAtATime'
    <3>1. OneAtATime /\ OneTapEach(todo)'
      BY <1>c, <2>1, <2>2 DEF Single, SingleTaps, OneAtATime, OneTapEach
    <3>2. CASE NoteRevision
      BY <2>1, <3>1, <3>2 DEF NoteRevision, OneAtATime, Capturing
    <3>3. CASE SendTap
      <4>1. /\ pc = "send" /\ pc' = "send" /\ taps # <<>> /\ acked' = acked
            /\ fifo' = Append(fifo, Head(taps)) /\ taps' = Tail(taps)
        BY <3>3 DEF SendTap
      <4>2. Len(taps) = 1 /\ fifo = <<>> /\ ~acked
        BY <3>1, <4>1 DEF OneAtATime
      <4>3. taps' = <<>> /\ Len(fifo') = 1
        <5>1. Len(taps') = 0 /\ taps' \in Seq(Taps)
          BY <1>0, <4>1, <4>2, HeadTailProperties
        <5>2. taps' = <<>>
          BY <5>1, EmptySeq
        <5> QED
          BY <1>0, <4>1, <4>2, <5>2, EmptySeq, AppendProperties, HeadTailProperties
      <4> QED
        BY <3>1, <4>1, <4>2, <4>3 DEF OneAtATime, Capturing
    <3>4. CASE TapsSent
      BY <2>1, <3>1, <3>4 DEF TapsSent, OneAtATime, Capturing, launcher
    <3>5. CASE InputReturns
      <4>1. Profile \notin Degraded
        BY <1>0, <1>u, <2>1 DEF Undisturbed
      <4>2. pc = "idle" /\ pc' = "ack" /\ UNCHANGED launcher
        BY <3>5, <4>1 DEF InputReturns, Steady
      <4> QED
        BY <3>1, <4>2 DEF OneAtATime, Capturing, launcher
    <3> QED
      BY <1>7, <3>2, <3>3, <3>4, <3>5
  <2> QED
    BY <1>0, <2>1, <2>2
<1>8. CASE Ack
  <2>0. pc = "ack" /\ pc \in PcsInCell
    BY <1>8 DEF Ack, PcsInCell
  <2>1. CASE ~acked
    BY <1>0, <1>8, <1>r, <2>0, <2>1 DEF Ack
  <2>2. CASE acked
    <3>1. pc' = "settle" /\ UNCHANGED <<launcher, group, phase, route, todo>>
      BY <1>8, <2>2 DEF Ack
    <3>2. ASSUME Single' PROVE OneAtATime'
      <4>1. OneAtATime
        BY <1>c, <2>0, <3>1, <3>2 DEF Single, SingleTaps
      <4> QED
        BY <2>0, <2>2, <3>1, <4>1 DEF OneAtATime, OneTapEach, Capturing, launcher
    <3> QED
      BY <3>1, <3>2
  <2> QED
    BY <2>1, <2>2
<1>9. CASE Settle \/ StepsDone
  <2>1. /\ pc \in {"settle", "steps"} /\ pc' \in {"steps", "locate", "observe"}
        /\ UNCHANGED <<launcher, group, phase, route>> /\ todo' \in {todo, Tail(todo)}
        /\ pc = "settle" => todo # <<>>
        /\ todo' = todo \/ pc = "settle"
        /\ pc \in PcsInCell /\ pc' \in PcsInCell
    BY <1>0, <1>9 DEF Settle, StepsDone, PcsInCell, CellInv, InStep
  <2>2. ASSUME Single' PROVE OneAtATime'
    <3>1. OneAtATime
      BY <1>c, <2>1, <2>2 DEF Single, SingleTaps
    <3>2. OneTapEach(todo)'
      BY <1>0, <2>1, <3>1, OneTap DEF OneAtATime, OneTapEach
    <3> QED
      BY <2>1, <3>1, <3>2 DEF OneAtATime, Capturing, launcher
  <2> QED
    BY <1>0, <2>1, <2>2
<1>10. CASE Locate
  <2>0. pc = "locate" /\ pc \in PcsInCell
    BY <1>10 DEF Locate, PcsInCell
  <2>1. CASE tries = ResetTries
    BY <1>0, <1>10, <1>r, <2>0, <2>1 DEF Locate
  <2>2. CASE tries # ResetTries
    <3>1. /\ pc' = "steps" /\ UNCHANGED <<launcher, group, route>>
          /\ \/ phase' = "recipe" /\ todo' = Recipe[route]
             \/ todo' = WayHome /\ phase' = phase
      BY <1>10, <2>2 DEF Locate
    <3>2. ASSUME Single' PROVE OneAtATime'
      <4>1. OneTapEach(todo')
        BY <1>0, <2>0, <3>1, <3>2, OneTap, PcFacts DEF Single, SingleTaps, CellInv
      <4>2. fifo = <<>>
        <5> QED
          BY <1>c, <2>0, <3>1, <3>2 DEF Single, SingleTaps, OneAtATime
      <4> QED
        BY <3>1, <4>1, <4>2 DEF OneAtATime, OneTapEach, Capturing, launcher
    <3> QED
      BY <3>1, <3>2
  <2> QED
    BY <2>1, <2>2
<1>11. CASE Observe
  <2>0. pc = "observe" /\ pc \in PcsInCell
    BY <1>11 DEF Observe, PcsInCell
  <2>1. CASE ~Matches(route, place)
    BY <1>0, <1>11, <1>r, <2>0, <2>1 DEF Observe
  <2>2. CASE Matches(route, place)
    <3>1. pc' = "capture" /\ UNCHANGED <<launcher, group, phase, route, todo>>
      BY <1>11, <2>2 DEF Observe
    <3>2. ASSUME Single' PROVE OneAtATime'
      <4>1. OneAtATime
        BY <1>c, <2>0, <3>1, <3>2 DEF Single, SingleTaps
      <4> QED
        BY <2>0, <2>2, <3>1, <4>1 DEF OneAtATime, OneTapEach, Matches, launcher
    <3> QED
      BY <3>1, <3>2
  <2> QED
    BY <2>1, <2>2
<1>12. CASE BeginCapture \/ CaptureGoesOn \/ CaptureGivesUp
  <2>1. /\ pc \in {"capture", "capturing"} /\ pc' = "capturing" /\ pc \in PcsInCell
        /\ UNCHANGED <<group, phase, route, todo>> /\ UNCHANGED <<fifo, place>>
    BY <1>12 DEF BeginCapture, CaptureGoesOn, CaptureGivesUp, runner, PcsInCell, StartCapture,
                 CaptureRaises, CaptureStep, Probe, FirstScene, NextScene, TakePicture, ReadScene,
                 ConfirmScene, launcher
  <2>2. ASSUME Single' PROVE OneAtATime'
    <3>1. OneAtATime
      BY <1>c, <2>1, <2>2 DEF Single, SingleTaps
    <3>2. Matches(route, place) /\ fifo = <<>>
      BY <2>1, <3>1 DEF OneAtATime, Capturing
    <3>3. cpc' \in {"scene", "confirm", "ok"} => Matches(route, png')
      <4>1. CASE BeginCapture \/ CaptureGivesUp \/ Probe \/ FirstScene \/ NextScene
        BY <4>1 DEF BeginCapture, CaptureGivesUp, StartCapture, CaptureRaises, Probe, FirstScene,
                    NextScene
      <4>2. CASE TakePicture
        BY <3>2, <4>2 DEF TakePicture
      <4>3. CASE CaptureGoesOn /\ (ReadScene \/ ConfirmScene)
        <5>1. pc = "capturing" /\ cpc \in {"scene", "confirm"} /\ png' = png
          BY <4>3 DEF CaptureGoesOn, ReadScene, ConfirmScene
        <5> QED
          BY <3>1, <5>1 DEF OneAtATime
      <4> QED
        BY <1>12, <4>1, <4>2, <4>3 DEF CaptureGoesOn, CaptureStep
    <3> QED
      BY <2>1, <3>1, <3>2, <3>3 DEF OneAtATime, OneTapEach, Matches
  <2> QED
    BY <1>0, <2>1, <2>2
<1>13. CASE CaptureFailed
  <2>1. pc \in InCell /\ EndCell("error") /\ UNCHANGED <<fifo, group, left, route, broken>>
    BY <1>13 DEF CaptureFailed, launcher, InCell, PcsInCell
  <2> QED
    BY <1>0, <2>1, EndCalm DEF EndCell
<1>14. CASE Measured
  <2>1. /\ pc = "capturing" /\ pc \in InCell /\ pc \in PcsInCell /\ cpc' = "off"
        /\ UNCHANGED <<fifo, place, group, left, route, broken, phase, todo>>
    BY <1>14 DEF Measured, launcher, InCell, PcsInCell
  <2>2. CASE Len(shots') < Repeats
    <3>1. pc' = "capture"
      BY <1>14, <2>2 DEF Measured
    <3>2. ASSUME Single' PROVE OneAtATime'
      <4>1. OneAtATime
        BY <1>c, <2>1, <3>2 DEF Single, SingleTaps
      <4> QED
        BY <2>1, <3>1, <4>1 DEF OneAtATime, OneTapEach, Matches, Capturing
    <3> QED
      BY <3>1, <3>2
  <2>3. CASE ~(Len(shots') < Repeats)
    <3>1. EndCell("measured")
      BY <1>14, <2>3 DEF Measured
    <3> QED
      BY <1>0, <2>1, <3>1, EndCalm DEF EndCell
  <2> QED
    BY <2>2, <2>3
<1>15. CASE LauncherStep
  <2>1. UNCHANGED <<pc, group, broken, phase, route, todo, taps, cpc, png>>
    BY <1>15 DEF LauncherStep, runner, capture
  <2>2. Undisturbed(Profile) /\ pc \in InGroup \ {"start"}
    BY <1>15, <2>1 DEF LauncherStep, runner, Undisturbed, Profile
  <2>3. CASE Present
    BY <2>1, <2>2, <2>3 DEF Present, CalmInv, Single, SingleTaps, OneAtATime, OneTapEach,
                            Matches, Capturing
  <2>4. CASE Consume
    <3>1. pc \in {"cell", "begin"} => broken
      BY <2>2, <2>4 DEF Consume, CalmInv
    <3>2. ASSUME pc \in PcsInCell, Single PROVE OneAtATime'
      <4>1. OneAtATime
        BY <2>2, <3>2 DEF CalmInv
      <4>2. Len(fifo) = 1 /\ pc \in {"send", "idle", "ack"} /\ fifo # <<>> /\ fifo' = Tail(fifo)
        BY <2>4, <4>1 DEF Consume, OneAtATime
      <4>3. Len(fifo') = 0 /\ fifo' \in Seq(Taps)
        BY <1>0, <4>2, HeadTailProperties
      <4>4. fifo' = <<>>
        BY <4>3, EmptySeq
      <4>5. pc = "send" => taps = <<>>
        BY <4>1, <4>2 DEF OneAtATime
      <4> QED
        BY <2>1, <4>1, <4>2, <4>4, <4>5 DEF OneAtATime, OneTapEach, Capturing
    <3> QED
      BY <2>1, <3>1, <3>2 DEF Single, SingleTaps
  <2> QED
    BY <1>15, <2>3, <2>4 DEF LauncherStep
<1>16. CASE UNCHANGED vars
  BY <1>16 DEF vars, launcher, capture, runner, CalmInv, Undisturbed, Profile, Single, SingleTaps,
               OneAtATime, OneTapEach, Matches
<1> QED
  BY <1>1, <1>2, <1>3, <1>4, <1>5, <1>6, <1>7, <1>8, <1>9, <1>10, <1>11, <1>12, <1>13,
     <1>14, <1>15, <1>16 DEF Next, Progress

LEMMA PictureStep ==
    ASSUME TypeInv, VerdictInv, CalmInv, PictureShowsItsRoute, [Next]_vars
    PROVE  PictureShowsItsRoute'
<1> SUFFICES ASSUME NEW s \in Range(shots'), Undisturbed(s.cell[1])', SingleTaps(s.cell[2])
             PROVE  Matches(s.cell[2], s.png)
  BY DEF PictureShowsItsRoute, SingleTaps, Matches
<1>1. s \in Range(shots) => Matches(s.cell[2], s.png)
  <2>1. ASSUME s \in Range(shots) PROVE s.cell[1] \in Range(Profiles)
    BY <2>1 DEF TypeInv, ShotsInv, Cells
  <2> QED
    BY <2>1, StaysUndisturbed DEF PictureShowsItsRoute
<1>2. CASE Measured
  <2>1. /\ pc = "capturing" /\ cpc = "ok" /\ shots' = Append(shots, Shot) /\ pc \in InCell
        /\ UNCHANGED <<group, route, png>>
    BY <1>2 DEF Measured, InCell, PcsInCell
  <2>2. s \in Range(shots) \/ s = Shot
    BY <2>1, AppendedShots DEF TypeInv, OneFrame
  <2>3. CASE s = Shot
    <3>1. s.cell = <<Profile, route>> /\ s.png = png
      BY <2>3 DEF Shot, Cell
    <3>2. Profile \in Range(Profiles)
      BY <2>1, CellIsCell DEF Cell, Cells
    <3>3. Undisturbed(Profile) /\ SingleTaps(route)
      BY <3>1, <3>2, StaysUndisturbed
    <3>4. OneAtATime
      BY <2>1, <3>3, PcFacts DEF CalmInv, Single, PcsInCell
    <3> QED
      BY <2>1, <3>1, <3>4 DEF OneAtATime
  <2> QED
    BY <1>1, <2>2, <2>3
<1>3. CASE ~Measured
  <2>1. shots' = shots \/ shots' = <<>>
    <3>1. CASE NextGroup \/ Start \/ NextCell \/ BeginCell \/ GroupOver \/ Finish \/ CellFails
      BY <3>1 DEF NextGroup, Start, NextCell, BeginCell, GroupOver, Finish, CellFails, Raise
    <3>2. CASE BeginStep \/ NoteRevision \/ SendTap \/ TapsSent \/ InputReturns \/ Ack \/ Settle
               \/ StepsDone \/ Locate \/ Observe
      BY <3>2 DEF BeginStep, NoteRevision, SendTap, TapsSent, InputReturns, Ack, Settle,
                  StepsDone, Locate, Observe, Raise
    <3>3. CASE BeginCapture \/ CaptureGoesOn \/ CaptureGivesUp \/ CaptureFailed \/ LauncherStep
               \/ UNCHANGED vars
      BY <3>3 DEF BeginCapture, CaptureGoesOn, CaptureGivesUp, CaptureFailed, LauncherStep,
                  runner, vars
    <3> QED
      BY <1>3, <3>1, <3>2, <3>3 DEF Next, Progress
  <2> QED
    BY <1>1, <2>1, NoShots
<1> QED
  BY <1>2, <1>3

-----------------------------------------------------------------------------
(* The theorems.                                                           *)

Inv == TypeInv /\ VerdictInv /\ CalmInv /\ PictureShowsItsRoute

LEMMA InitInv == Init => Inv
<1> SUFFICES ASSUME Init PROVE Inv
  OBVIOUS
<1> USE DEF Init
<1>1. LauncherTypeOK
  <2>1. Home \in Places /\ <<>> \in Seq(Taps)
    BY StartPlaces
  <2> QED
    BY <2>1 DEF LauncherTypeOK
<1>2. CaptureTypeOK
  <2>1. Home \in Places /\ 1 \in 1 .. Attempts
    BY StartPlaces, AttemptsAssumption
  <2> QED
    BY <2>1 DEF CaptureTypeOK, CapturePcs
<1>3. Len(Profiles) \in Nat /\ Repeats \in Nat /\ ResetTries \in Nat
  BY ProfilesDiffer, MatrixAssumption
<1>4. /\ \A c \in Cells : record[c] = "none"
      /\ record \in [Cells -> {"none", "skip", "error", "measured"}]
  OBVIOUS
<1>5. TypeOK
  <2>1. <<>> \in Seq(Steps) /\ <<>> \in Seq(Taps)
    BY EmptySeq
  <2>2. 1 \in 1 .. Len(Profiles) + 1 /\ 0 \in 0 .. ResetTries /\ Len(shots) <= Repeats
    BY <1>3, NoShots
  <2> QED
    BY <1>1, <1>2, <1>4, <2>1, <2>2 DEF TypeOK, Pcs
<1>6. CellInv /\ ShotsInv
  BY PcFacts, NoShots DEF CellInv, ShotsInv
<1>7. OneFrame
  BY EmptySeq DEF OneFrame, EvidenceIsOneFrame, Range
<1>8. VerdictInv
  BY <1>3, <1>4, ProfilesDiffer, PcFacts DEF VerdictInv
<1>9. CalmInv /\ PictureShowsItsRoute
  BY PcFacts, NoShots DEF CalmInv, PictureShowsItsRoute
<1> QED
  BY <1>5, <1>6, <1>7, <1>8, <1>9 DEF TypeInv, Inv

LEMMA InvStep == Inv /\ [Next]_vars => Inv'
  BY TypeStep, VerdictStep, OneFrameStep, CalmStep, PictureStep DEF Inv, TypeInv, Typed

LEMMA Invariance == Spec => []Inv
  BY InitInv, InvStep, PTL DEF Spec

\* matrix.py:255-334 with capture.py:64-117: the counters of the run, the resets
\* and the attempts stay in range, and what is sent is a tap.
THEOREM TypeCorrectness == Spec => []TypeOK
<1>1. Inv => TypeOK
  BY DEF Inv, TypeInv
<1> QED
  BY <1>1, Invariance, PTL

\* matrix.py:262-320: no verdict is given twice or taken back, and the run ends
\* with one for each cell, whichever of the groups and cells fail.
THEOREM OneVerdictEach == Spec => CellRecordedOnce
<1> DEFINE Once == /\ \A c \in Cells : record'[c] # record[c] => record[c] = "none"
                   /\ pc' = "done" => \A c \in Cells : record'[c] # "none"
<1>1. Inv /\ [Next]_vars => [Once]_vars
  BY VerdictStep DEF Inv
<1>2. Spec => [][Once]_vars
  BY <1>1, Invariance, PTL DEF Spec
<1> QED
  BY <1>2 DEF CellRecordedOnce

\* matrix.py:183-208 with capture.py:64-117: whatever the launcher does with the
\* taps, and however long it takes, a picture of a profile with no failed cell and
\* no step of several taps shows the route of its cell.
THEOREM PicturesShowTheirRoutes == Spec => []PictureShowsItsRoute
<1>1. Inv => PictureShowsItsRoute
  BY DEF Inv
<1> QED
  BY <1>1, Invariance, PTL

=============================================================================
