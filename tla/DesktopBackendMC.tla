--------------------------- MODULE DesktopBackendMC ---------------------------
(* Small instances of DesktopBackend for TLC.                              *)
EXTENDS DesktopBackend

Seeded == [authority |-> TRUE, supervisor |-> "pf-sim"]
ShellSupervised == [authority |-> TRUE, supervisor |-> "shell"]
Degraded == [authority |-> FALSE, supervisor |-> "pf-sim"]

AllProfiles == {Seeded, ShellSupervised, Degraded}
TwoProfiles == {Seeded, Degraded}

=============================================================================
