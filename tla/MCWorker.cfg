SPECIFICATION WorkerSpec
CONSTANTS
    MaxRequests = 3
    MaxLines = 2
    HeaderBytes = 2
    MaxBody = 4
    MaxFile = 5
    Chunk = 2
    Threads = {t1, t2, t3}
    NoThread = NoThread
    MaxCalls = 3
INVARIANTS
    NoReadAfterClose AllAnswered
    WireInOrder CompleteOnSuccess
    CountersExact SnapshotIsInstant
PROPERTIES
    PersistenceKept TimeoutAnsweredIfBegun ImplementsService
    SendReturns
