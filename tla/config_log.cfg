SPECIFICATION MCSpec
CONSTANTS
    Threads = {t1, t2}
    Documents <- MCDocuments
    MaxLoads = 4
INVARIANTS ListenersFollow FormattersFollow PatternExact
CHECK_DEADLOCK FALSE
