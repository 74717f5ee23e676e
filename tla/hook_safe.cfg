SPECIFICATION Spec
CONSTANTS
    MaxCalls = 3
    MaxEvents = 3
    HasTimeout = TRUE
    MayClose = TRUE
INVARIANTS OneWakeup TimeoutIsOwn NoTimerLeft
CHECK_DEADLOCK FALSE
