CONSTANTS
    HeapUnits = 14
    NormalCnts = {4}
    Bases = {1}
    MaxObjects = 6
    Width = 8
    Requests = {8, 20}
    Words = {0}
    MayGrow <- ListsEmpty
    Root = Root
SPECIFICATION Spec
INVARIANTS
    ChunksTile
CHECK_DEADLOCK FALSE
