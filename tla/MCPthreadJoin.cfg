\* After the end of the cluster nothing is left to do.
CONSTANTS
    Main = m
    Workers = {w1, w2}
    Results = {r}
    Calls = {"join"}
    None = None
SPECIFICATION Spec
INVARIANTS
    JoinGetsResult
CHECK_DEADLOCK FALSE
