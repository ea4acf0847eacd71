SPECIFICATION FairSpec
CONSTANTS
    Tokens = {t1, t2}
    NoToken = NoToken
    MaxLayouts = 2
    MaxSessions = 3
CHECK_DEADLOCK FALSE
INVARIANTS
    OneHelper
    FramesAreCurrent
    OnlyUserEndsSharing
    RetryBudget
    TokenOnDisk
PROPERTIES
    StopIsFinalInOrder
    StopEnds
