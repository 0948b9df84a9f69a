CONSTANTS
    HeapUnits = 18
    NormalCnts = {5}
    Bases = {1, 21}
    MaxObjects = 5
    Width = 8
    Requests = {8, 24, 254}
    Words = {0}
    MayGrow <- ListsEmpty
    Root = Root
SPECIFICATION Spec
INVARIANTS
    ChunksTile
    FreeChunksListed
    TreeOrdered
    ServesWhatFits
    NotCorrupted
PROPERTIES
    AllocatorSpec
CHECK_DEADLOCK FALSE
