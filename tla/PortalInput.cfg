SPECIFICATION FairSpec
CONSTANTS
    Lines = {k1, k2}
    Wheel = Wheel
    Kinds = {"absolute", "relative"}
    MaxMotions = 3
    MaxQueue = 2
CHECK_DEADLOCK FALSE
INVARIANTS
    NoStrandedMotion
    InputFollowsMotion
    PointerArrives
    DisconnectLiftsKeys
PROPERTY MotionArrives
