SPECIFICATION Spec
CONSTANTS
    c1 = c1
    c2 = c2
    Conns = {c1, c2}
    Keys <- ShiftKeys
    Buttons <- OneButton
    Lines <- MCLines
    LineOf <- MCLineOf
    NoLine <- NO_EVDEV
    NoVk <- SCANCODE
    UnmappedFails = FALSE
    MayFail = FALSE
PROPERTY
    DisconnectPreservesOthersKeys
