\* Two callers, one of them a long-lived runner; two spawns; no client killed.
CONSTANTS
    Clients = {c1, c2}
    Runners = {c2}
    Holders = {h1, h2}
    Pids = {p1, p2}
    Backlog = 2
    MaxCrashes = 0
    RecycleInWindow = FALSE
    None = None
    Foreign = Foreign
    Torn = Torn
SPECIFICATION Spec
SYMMETRY Symmetry
INVARIANTS OneHolder NoUnreachableHolder ServingHolderKeepsSocket
PROPERTIES DestroyLeavesNoHolder ImplementsDevice
