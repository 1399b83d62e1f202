\* One caller, any sequence of calls, and programs that may die at any time.
CONSTANTS
    Clients = {c1}
    Slots = {1, 2}
    Mortal = {"weston", "authorityd", "supervisor", "shell"}
    Profiles <- AllProfiles
    None = None
SPECIFICATION FairSpec
INVARIANTS TypeOK NoStray OneOfEach RunningMatchesMeta
PROPERTIES TearDownIsComplete UpReturnsWhole ImplementsInstance CallsReturn
