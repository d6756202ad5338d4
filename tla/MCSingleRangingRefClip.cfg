SPECIFICATION Spec
CONSTANTS
    MaxBegun = 6
    MaxLoop = 3
    MaxClear = 3
    RefClipCheck = TRUE
INVARIANTS
    CleanCallIsFresh
    PageRestored
