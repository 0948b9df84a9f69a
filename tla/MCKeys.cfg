CONSTANTS
    Main = Main
    Workers = {w1, w2}
    KeysMax = 2
    MaxSets = 2
    Alone = TRUE
    None = None
SPECIFICATION Spec
INVARIANTS
    ListMatches
    DestroyedOnce
SYMMETRY Symmetry
CHECK_DEADLOCK FALSE
\* Once the cluster is destroyed nothing is left to do.
