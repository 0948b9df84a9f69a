CONSTANTS
    Main = Main
    Workers = {w1}
    KeysMax = 1
    MaxSets = 1
    Alone = TRUE
    None = None
SPECIFICATION Spec
INVARIANTS
    DeletedKeysEmpty
SYMMETRY Symmetry
CHECK_DEADLOCK FALSE
\* Once the cluster is destroyed nothing is left to do.
