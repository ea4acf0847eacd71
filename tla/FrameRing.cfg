SPECIFICATION FairSpec
CONSTANTS
    Parts = {p1, p2}
    MaxTries = 2
    MaxFrame <- MCMaxFrame
    MaxInode = 2
INVARIANTS
    NoTornFrame
    OvertakenByTheRing
PROPERTIES
    ImplementsFrameFeed
    CaptureReturns
