\* A trap can meet a creation half way and both threads then wait for ever
\* (instance MCTrap shows it), so the process may stop before its end.
CONSTANTS
    Threads = {m, t1, t2, t3}
    Main = m
    Envs = {em, e1, e2}
    MainEnv = em
    MaxThreadNum = 3
    May <- MayProcess
    None = None
SPECIFICATION Spec
INVARIANTS
    LockingInv
    ExceptionReachesAll
    MainIsLast
SYMMETRY Symmetry
CHECK_DEADLOCK FALSE
