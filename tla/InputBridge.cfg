SPECIFICATION FairSpec
CONSTANTS
    c1 = c1
    c2 = c2
    Conns = {c1, c2}
    Keys <- MCKeys
    Buttons <- OneButton
    Lines <- MCLines
    LineOf <- MCLineOf
    NoLine <- NO_EVDEV
    NoVk <- SCANCODE
    UnmappedFails = TRUE
    MayFail = TRUE
INVARIANTS
    OwnersMatchHeld
    HeldKeysAreDown
    UnheldKeysAreUp
PROPERTIES
    ImplementsSharedKeyboard
    DisconnectPreservesOthersKeys
    DisconnectCompletes
