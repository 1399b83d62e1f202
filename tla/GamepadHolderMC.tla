--------------------------- MODULE GamepadHolderMC ---------------------------
(* Small instances of GamepadHolder for TLC.                               *)
EXTENDS GamepadHolder, UinputDomainMC, TLC

Symmetry == Permutations(Holders) \cup Permutations(Pids)

=============================================================================
