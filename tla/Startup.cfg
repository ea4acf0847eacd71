SPECIFICATION BothSpec
CONSTANTS
    Adapters = {conpty}
    Legacy = powershell
    MaxVersion = 2
    Apps = {1, 2}
    MaxApps = 1
    Started = {"setup", "display", "run", "bridge", "capture"}
    MaxSecrets = 2
    MaxGrants = 1
CHECK_DEADLOCK FALSE
INVARIANTS
    ExecutablesAreWhole
    OriginalRetained
    LegacyOriginalKept
    EntriesAreTracked
    SessionAgrees
    ChangesStay
