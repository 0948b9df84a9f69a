CONSTANTS
    Main = Main
    Workers = {w1, w2}
    KeysMax = 1
    MaxSets = 1
    Alone = FALSE
    None = None
SPECIFICATION Spec
INVARIANTS
    OneNodeLeft
SYMMETRY Symmetry
CHECK_DEADLOCK FALSE
\* Once the cluster is destroyed nothing is left to do.
