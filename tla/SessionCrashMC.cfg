\* One session whose supervisor is killed once while its app runs.
\* Once the session is over and the bound is spent nothing is left to do.
CONSTANTS
    Sessions = {s1}
    MaxStops = 0
    MaxKills = 1
    LaunchMidRestart = FALSE
    Main = Main
    Adopter = Adopter
    None = None
SPECIFICATION FairSpec
PROPERTIES CrashYieldsReceipt
CHECK_DEADLOCK FALSE
