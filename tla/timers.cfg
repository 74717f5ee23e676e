SPECIFICATION FairSpec
CONSTANTS
    Timers = {1, 2}
    Pollers = {p1}
    Delays = {1, 2}
    Width = 16
    Start = 16
    MaxNow = 18
INVARIANTS CallbackIffInSet FrontIsTickled
PROPERTIES ImplementsAbstract DueIsHandedOut
CHECK_DEADLOCK FALSE
