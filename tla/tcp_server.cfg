SPECIFICATION FairSpec
CONSTANTS
    Fds = {1, 2}
    Sockets = {l1, c1, d1}
    Listeners = {l1}
    Clients = {c1}
    Dialers = {d1}
    PoolSizes = {1, 2}
    MaxDials = 2
    MaxStarts = 2
INVARIANTS OwnDescriptor CtxIsOwn NeverBlocks ConnectTrue
PROPERTIES StopEndsAccept ClientIsServed
CHECK_DEADLOCK FALSE
