\* One session; the supervisor is stopped twice and killed twice, anywhere.
\* Once the session has its receipt and the bounds are spent nothing is left to do.
CONSTANTS
    Sessions = {s1}
    MaxStops = 2
    MaxKills = 2
    LaunchMidRestart = FALSE
    Main = Main
    Adopter = Adopter
    None = None
SPECIFICATION FairSpec
PROPERTIES UnmarkedExitIsReceipted
CHECK_DEADLOCK FALSE
