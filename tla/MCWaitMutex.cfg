\* Once every thread has ended nothing is left to do.
CONSTANTS
    Threads = {t1, t2, t3}
    Addrs = {a1}
    Values = {0, 1}
    Counts = {1}
    Timeouts = {2}
    Forever = Forever
    Mutex = a1
    None = None
SPECIFICATION FairMutexSpec
INVARIANTS
    NodesListed
    NoLostWakeup
PROPERTIES
    QueueSpec
    SomeoneLocks
    WaitEnds
CHECK_DEADLOCK FALSE
