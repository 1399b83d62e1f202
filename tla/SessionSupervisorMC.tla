------------------------- MODULE SessionSupervisorMC -------------------------
(* Small instances of SessionSupervisor for TLC.                           *)
EXTENDS SessionSupervisor, TLC

Symmetry == Permutations(Sessions)

=============================================================================
