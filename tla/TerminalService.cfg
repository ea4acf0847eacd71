SPECIFICATION FairSpec
CONSTANTS
    Peers = {p1, p2}
    MaxSessions = 1
    MaxFrames = 2
CHECK_DEADLOCK FALSE
INVARIANTS
    SlotsAreSessions
    DoneLeavesNoShell
    KeystrokesIntact
PROPERTY CloseFreesSlot
