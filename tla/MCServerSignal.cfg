SPECIFICATION FairSpecReadingClients
CONSTANTS
    Main = Main
    Workers = {w1}
    Fds = {f1}
    NoFd = NoFd
    NoThread = NoThread
    Capacity = 1
    Faults = FALSE
    MaxAccepts = 2
    MaxRequests = 1
PROPERTY SignalEndsServer
