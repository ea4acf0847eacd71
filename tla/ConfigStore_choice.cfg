SPECIFICATION ConfigSpec
CONSTANTS
    Started = {"display", "run", "capture"}
    MaxSecrets = 1
    MaxGrants = 1
CHECK_DEADLOCK FALSE
PROPERTY NextRunAsks
