\* No two calls at a time: builds, up, apply and send follow one another.
CONSTANTS
    Builders = {b1}
    Revs = {r1, r2}
    CrashInCache = FALSE
    Overlap = FALSE
    None = None
    Torn = Torn
    Foreign = Foreign
    Binds <- CleanBinds
SPECIFICATION Spec
SYMMETRY Symmetry
INVARIANTS RunningShellIsProven
