SPECIFICATION Spec
CONSTANTS
    MaxBegun = 6
    MaxBoots = 3
INVARIANTS
    SpadsFromNvm
CHECK_DEADLOCK FALSE
