SPECIFICATION ProcessSpec
CONSTANTS
    MaxRequests = 2
    MaxLines = 0
    Main = Main
    Self = w1
    Workers = {w1, w2}
    Fds = {f1}
    NoFd = NoFd
    NoThread = NoThread
    Capacity = 1
    Faults = FALSE
    MaxAccepts = 1
PROPERTY ImplementsServer
