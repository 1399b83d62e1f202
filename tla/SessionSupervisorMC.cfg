\* Two sessions; the supervisor is stopped once and killed once, anywhere.
\* Once both sessions have their receipts and the bounds are spent nothing is left to do.
CONSTANTS
    Sessions = {s1, s2}
    MaxStops = 1
    MaxKills = 1
    LaunchMidRestart = FALSE
    Main = Main
    Adopter = Adopter
    None = None
SPECIFICATION Spec
SYMMETRY Symmetry
INVARIANTS TypeOK OneApp CrashIsItsOwn
PROPERTIES ImplementsLifecycle
CHECK_DEADLOCK FALSE
