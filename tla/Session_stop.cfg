SPECIFICATION Spec
CONSTANTS
    Runs = {r1, r2}
    Stops = {s1}
    NoRun = NoRun
    Startup <- MCFullStartup
    MaxCrashes = 0
INVARIANTS
    StopLeavesNothing
CHECK_DEADLOCK FALSE
