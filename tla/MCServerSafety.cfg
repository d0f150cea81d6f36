SPECIFICATION Spec
CONSTANTS
    Main = Main
    Workers = {w1, w2}
    Fds = {f1, f2, f3}
    NoFd = NoFd
    NoThread = NoThread
    Capacity = 2
    Faults = TRUE
    MaxAccepts = 3
    MaxRequests = 2
INVARIANTS OneOwner NoUseAfterDestroy CleanExit ActiveNeverUndercounts
SYMMETRY Symmetry
