SPECIFICATION FairSpec
CONSTANTS
    Messages <- MCMessages
    Uris <- MCUris
    Globs <- MCGlobs
    Servlets = {"page", "moved"}
    BufSize = 64
    MaxOps = 3
INVARIANTS GlobsExact DeliveredAsSent RoundTrip
PROPERTY ConnectionEnds
CHECK_DEADLOCK FALSE
