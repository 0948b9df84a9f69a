\* After the end of the cluster nothing is left to do.
CONSTANTS
    Main = m
    Workers = {w1, w2}
    Results = {r}
    Calls = {"join", "cancel"}
    None = None
SPECIFICATION Spec
INVARIANTS
    StoredIsJoinable
CHECK_DEADLOCK FALSE
