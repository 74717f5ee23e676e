SPECIFICATION FairSpec
CONSTANTS
    Workers = {w1, w2}
    Root = root
    UseCaller = TRUE
    Tasks = {f1, c1}
    Callbacks = {c1}
    ReadyTasks = {f1}
    WaitTasks = {c1}
    Pins = {}
    AnyThread = any
    None = none
    Spare = spare
    MaxCalls = 2
    MaxStarts = 1
    MaxStops = 1
PROPERTIES StopReturns QueuedIsTaken
CHECK_DEADLOCK FALSE
