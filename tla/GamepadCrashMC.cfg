\* One client may be killed at any point of a call; liveness, so no symmetry.
CONSTANTS
    Clients = {c1, c2}
    Runners = {c2}
    Holders = {h1}
    Pids = {p1, p2}
    Backlog = 1
    MaxCrashes = 1
    RecycleInWindow = FALSE
    None = None
    Foreign = Foreign
    Torn = Torn
SPECIFICATION FairSpec
INVARIANTS TypeOK
PROPERTIES LockIsReleased DestroyedHolderIsDead OnlyHoldersAreSignalled
