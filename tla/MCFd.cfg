CONSTANTS
    Threads = {t1, t2}
    Objects = {o1, o2}
    Streams = 0
    Dirs = 2
    MaxSize = 4
    Width = 4
    MaxStray = 1
    Rights = {r}
    None = None
SPECIFICATION Spec
INVARIANTS
    RefcountExact
    NoUseAfterClose
    PrestatFollows
PROPERTIES
    RightsNeverReturn
SYMMETRY Symmetry
CHECK_DEADLOCK FALSE
