SPECIFICATION Spec
CONSTANTS
    MaxRetry = 2
    MaxDisconnects = 2
    StopMayFail = TRUE
INVARIANTS
    TypeOK
    ServerMatchesLink
    LossesCounted
    GiveUpIsFinal
PROPERTIES
    ScrapeIsConsistent
    RefinesLinkStats
    SensorStarts
