CONSTANTS
    Threads = {m, t1, t2}
    Main = m
    Envs = {em, e1, e2}
    MainEnv = em
    MaxThreadNum = 2
    May <- MayThreads
    None = None
SPECIFICATION Spec
INVARIANTS
    TypeOK
    FoundIsAlive
    ListedHandleIsSet
    NativeReleasedOnce
    SegmentsAccounted
SYMMETRY Symmetry
