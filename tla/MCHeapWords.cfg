CONSTANTS
    HeapUnits = 14
    NormalCnts = {4}
    Bases = {1}
    MaxObjects = 5
    Width = 8
    Requests = {12, 28}
    Words = {0, 6}
    MayGrow <- ListsEmpty
    Root = Root
SPECIFICATION Spec
INVARIANTS
    ChunksTile
CHECK_DEADLOCK FALSE
