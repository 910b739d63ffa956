CONSTANTS
    Configs = {good, other, bad}
    Valid = {good, other}
    NoConfig = NoConfig
    Torn = Torn
    MaxClients = 2
    ConfigClients = 3
    BadgeLists <- AllBadgeLists
    MaxCalls = 2
SPECIFICATION FairSpec
INVARIANT TypeOK
INVARIANT ServedOnlyWhenReady
INVARIANT SuccessMeansApplied
PROPERTY StateOrder
PROPERTY ConfigurationDecided
CHECK_DEADLOCK FALSE
