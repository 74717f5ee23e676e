SPECIFICATION Spec
CONSTANTS
    Fds = {d1}
    Threads = {p1, p2}
    Fibers = {f1, f2, c1}
    Callbacks = {c1}
    None = none
SYMMETRY Symmetry
INVARIANTS PendingExact KernelAgrees OnePlace NoWaiterStranded
CHECK_DEADLOCK FALSE
