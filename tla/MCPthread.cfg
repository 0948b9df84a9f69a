\* After the end of the cluster nothing is left to do.
CONSTANTS
    Main = m
    Workers = {w1, w2}
    Results = {r}
    Calls = {"join", "detach", "cancel"}
    None = None
SPECIFICATION FairSpec
INVARIANTS
    NodesFreedOnce
    HandleResolved
    JoinMeansOver
    StoredIsResult
PROPERTIES
    CreateEnds
    JoinEnds
CHECK_DEADLOCK FALSE
