SPECIFICATION Spec
CONSTANTS
    MayPurge = TRUE
    MaxLockFiles = 2
CHECK_DEADLOCK FALSE
INVARIANTS
    ExcludedWhileLocked
    SuccessIsUsable
PROPERTIES
    NothingRemovedInUse
    ReceiptIsLast
