---------------------------- MODULE SystemMenuMC -----------------------------
(* Small instances of SystemMenu for TLC.                                   *)
EXTENDS SystemMenu, TLC

\* The committed contracts bind the Menu control, an edited one need not.
CleanBinds == {c \in Content : c[2] = "clean"}

Symmetry == Permutations(Revs)

=============================================================================
