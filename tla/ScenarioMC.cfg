\* Three scenarios run twice, and snapshots under one name.
CONSTANTS
    Committed <- FourProfiles
    HomeNames = {"saved"}
    Edits <- Copies
    Scripts <- ThreeScripts
    Repeat = 2
    Capacity = 1
    None = None
SPECIFICATION FairSpec
INVARIANTS TypeOK LoadableIsSanitized
PROPERTIES GreenIsEarned EveryRunStartsAlike SnapshotReseeds ScenarioEnds
