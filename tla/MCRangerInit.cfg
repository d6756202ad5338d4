SPECIFICATION Spec
CONSTANTS
    MaxBegun = 6
    MaxBoots = 3
INVARIANTS
    TypeOK
    HandedOutConfigured
    HandedOutQuiet
    HandedOutToRanging
PROPERTIES
    InitReturns
CHECK_DEADLOCK FALSE
