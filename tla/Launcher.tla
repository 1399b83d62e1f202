------------------------------ MODULE Launcher ------------------------------
(***************************************************************************)
(* pf-shell as pf-sim sees it: taps go in through the input FIFO and are   *)
(* consumed when the presentation loop gets to them; scene, capture and    *)
(* text are requests to the automation socket, served between two frames.  *)
(*                                                                         *)
(* The two counters of a response, frames and revision, only grow, and     *)
(* callers only compare two of their values, so the model keeps the        *)
(* outcome of the comparison: acked (has the revision grown since a caller *)
(* last noted it?) and drifted (has a frame been presented since the last  *)
(* picture?).  Outside the churning profile a tap moves the revision and   *)
(* nothing else does: that is what the callers build on.                   *)
(***************************************************************************)
EXTENDS Naturals, Sequences

VARIABLES
    fifo,       \* taps the holder has written and the shell has not consumed
    place,      \* what the shell presents: a screen, and whether a query is left
    acked,
    drifted

launcher == <<fifo, place, acked, drifted>>

\* The quick panel is shown with its first row focused, or a lower one.
QuickScreens == {"quick", "quick-lower"}
Screens == {"first-run", "home", "library", "search"} \cup QuickScreens
Places == [screen : Screens, query : BOOLEAN]
Taps == {"menu", "back", "start", "up", "quick", "activate", "search"}

OnScreen(s) == [place EXCEPT !.screen = s]

\* Where a tap may lead.  The Menu control may or may not leave a panel, and the
\* quick panel remembers its row.
Lands(tap) ==
    CASE place.screen = "first-run" ->
            {OnScreen(IF tap = "start" THEN "home" ELSE "first-run")}
      [] tap = "menu"   -> {place, OnScreen("home")}
      [] tap = "back"   -> {OnScreen("home")}
      [] tap = "search" -> {OnScreen("search")}
      [] tap = "quick" /\ place.screen = "home" -> {OnScreen(q) : q \in QuickScreens}
      [] tap = "up" /\ place.screen = "quick-lower" -> {OnScreen(q) : q \in QuickScreens}
      [] tap = "activate" /\ place.screen = "quick" -> {OnScreen("library")}
      [] OTHER -> {place}

Consume ==
    /\ fifo # <<>>
    /\ place' \in Lands(Head(fifo))
    /\ fifo' = Tail(fifo)
    /\ acked' = TRUE
    /\ drifted' = TRUE

\* A frame of the same content.
Present ==
    /\ ~drifted
    /\ drifted' = TRUE
    /\ UNCHANGED <<fifo, place, acked>>

LauncherTypeOK ==
    /\ fifo \in Seq(Taps)
    /\ place \in Places
    /\ acked \in BOOLEAN
    /\ drifted \in BOOLEAN

=============================================================================
