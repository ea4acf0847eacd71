SPECIFICATION Spec
CONSTANTS
    Tokens = {t1}
    NoToken = NoToken
    MaxLayouts = 0
    MaxSessions = 3
CHECK_DEADLOCK FALSE
PROPERTY StopSharingIsFinal
