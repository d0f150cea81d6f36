SPECIFICATION FairSpec
CONSTANTS
    Producers = {p1}
    Consumers = {c1, c2}
    Fds = {f1, f2}
    NoFd = NoFd
    NoThread = NoThread
    Capacity = 2
    Faults = TRUE
INVARIANTS RingConsistent NoLostWakeup NoSleepAfterShutdown
PROPERTIES ImplementsBoundedQueue CallersReleased SleeperIsServed
