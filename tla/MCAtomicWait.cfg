\* Once every thread has ended nothing is left to do.
CONSTANTS
    Threads = {t1, t2, t3}
    Addrs = {a1}
    Values = {0, 1}
    Counts = {1, 2}
    Timeouts = {0, 2}
    Forever = Forever
    None = None
SPECIFICATION Spec
INVARIANTS
    NodesListed
PROPERTIES
    QueueSpec
SYMMETRY Symmetry
CHECK_DEADLOCK FALSE
