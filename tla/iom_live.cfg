SPECIFICATION FairSpec
CONSTANTS
    Fds = {d1}
    Threads = {p1, p2}
    Fibers = {f1, f2}
    Callbacks = {}
    None = none
PROPERTY EventIsDelivered
CHECK_DEADLOCK FALSE
