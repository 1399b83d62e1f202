--------------------------- MODULE SessionLifecycle ---------------------------
(***************************************************************************)
(* What the simulator promises of launched sessions, without saying who     *)
(* keeps the promise: one session at a time, and its receipt comes after    *)
(* its app has gone.  SessionSupervisor implements it.                      *)
(***************************************************************************)
CONSTANT Sessions

VARIABLE phase

Phases == {"new", "open", "gone", "receipted"}

Init == phase = [s \in Sessions |-> "new"]

Launch(s) ==
    /\ phase[s] = "new"
    /\ \A t \in Sessions : phase[t] \in {"new", "receipted"}
    /\ phase' = [phase EXCEPT ![s] = "open"]

AppGoes(s) ==
    /\ phase[s] = "open"
    /\ phase' = [phase EXCEPT ![s] = "gone"]

Receipt(s) ==
    /\ phase[s] = "gone"
    /\ phase' = [phase EXCEPT ![s] = "receipted"]

Next == \E s \in Sessions : Launch(s) \/ AppGoes(s) \/ Receipt(s)

Spec == Init /\ [][Next]_phase

=============================================================================
