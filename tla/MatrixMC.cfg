\* Three groups and every route of the launcher; nothing is assumed of the shell.
\* A run ends: nothing is left to do.
CONSTANTS
    Attempts = 3
    Profiles <- ThreeProfiles
    Degraded = {"degraded"}
    Routes <- FiveRoutes
    Recipe <- FiveRecipes
    Expect <- FiveExpectations
    Applies <- SixCells
    ResetTries = 4
    Repeats = 2
SPECIFICATION FairSpec
INVARIANTS TypeOK EvidenceIsOneFrame PictureShowsItsRoute
PROPERTIES CellRecordedOnce RunEnds
CHECK_DEADLOCK FALSE
