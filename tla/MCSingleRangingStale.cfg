SPECIFICATION Spec
CONSTANTS
    MaxBegun = 6
    MaxLoop = 3
    MaxClear = 3
    RefClipCheck = FALSE
INVARIANTS
    ReturnsOwnMeasurement
