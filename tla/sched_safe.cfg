SPECIFICATION Spec
CONSTANTS
    Workers = {w1, w2}
    Root = root
    UseCaller = TRUE
    Tasks = {f1, c1, c2}
    Callbacks = {c1, c2}
    ReadyTasks = {f1}
    WaitTasks = {c1}
    Pins = {root}
    AnyThread = any
    None = none
    Spare = spare
    MaxCalls = 3
    MaxStarts = 1
    MaxStops = 2
SYMMETRY Symmetry
INVARIANTS OneCarrier SwapAssertions ActiveCountExact NoLostWakeup
PROPERTY LastThreadDrains
CHECK_DEADLOCK FALSE
