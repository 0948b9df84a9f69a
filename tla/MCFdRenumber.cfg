CONSTANTS
    Threads = {t1, t2}
    Objects = {o1, o2}
    Streams = 1
    Dirs = 1
    MaxSize = 4
    Width = 4
    MaxStray = 1
    Rights = {r}
    None = None
SPECIFICATION Spec
INVARIANTS
    DetachAsserts
SYMMETRY Symmetry
CHECK_DEADLOCK FALSE
