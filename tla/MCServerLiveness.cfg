SPECIFICATION FairSpecReadingClients
CONSTANTS
    Main = Main
    Workers = {w1, w2}
    Fds = {f1, f2}
    NoFd = NoFd
    NoThread = NoThread
    Capacity = 1
    Faults = FALSE
    MaxAccepts = 2
    MaxRequests = 2
INVARIANT DrainedBeforeDestroy
PROPERTIES ShutdownCompletes ConnectionsEnd
