SPECIFICATION Spec
CONSTANTS
    MaxRetry = 2
    MaxDisconnects = 2
    StopMayFail = FALSE
PROPERTIES
    ReportsConnected
