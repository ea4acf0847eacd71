SPECIFICATION FairSpec
CONSTANTS
    Runs = {r1, r2}
    Stops = {s1}
    NoRun = NoRun
    Startup <- MCStartup
    MaxCrashes = 1
INVARIANTS
    IdentityNamesHolder
    HelpersUnderLock
    EndedLeavesNothing
PROPERTIES
    StopEndsRun
CHECK_DEADLOCK FALSE
