SPECIFICATION FairSpec
CONSTANTS
    MaxCalls = 3
    MaxEvents = 3
    HasTimeout = TRUE
    MayClose = FALSE
PROPERTY CallReturns
CHECK_DEADLOCK FALSE
