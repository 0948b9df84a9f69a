CONSTANTS
    Threads = {m, t1, t2}
    Main = m
    Envs = {em, e1, e2}
    MainEnv = em
    MaxThreadNum = 2
    May <- MayDetach
    None = None
SPECIFICATION Spec
INVARIANTS
    MainIsLast
