CONSTANTS
    Streams <- MCStreams
    MaxHeader = 4
    MaxBody = 5
    InitialCapacity = 2
    RecvChunk = 2
    KeepAliveTimeout = 1
    RequestTimeout = 2
    Faults = TRUE
    Interrupts = TRUE
SPECIFICATION FairSpec
INVARIANTS
    NothingLost
    DeadlineHonoured
PROPERTIES
    ImplementsRequestStream
    CallReturns
