SPECIFICATION Spec
CONSTANTS
    MaxBegun = 6
    MaxLoop = 3
    MaxClear = 3
    RefClipCheck = FALSE
INVARIANTS
    TypeOK
    CleanCallIsFresh
    CleanCallLeavesQuiet
    AtMostOneBehind
    PageRestored
PROPERTIES
    NoDuplicate
    CallReturns
