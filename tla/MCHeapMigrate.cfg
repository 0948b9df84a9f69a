CONSTANTS
    HeapUnits = 12
    NormalCnts = {5}
    Bases = {1, 21}
    MaxObjects = 6
    Width = 8
    Requests = {8, 24}
    Words = {0}
    MayGrow <- Anytime
    Root = Root
SPECIFICATION Spec
INVARIANTS
    NotCorrupted
CHECK_DEADLOCK FALSE
