CONSTANTS
    Size = 8
    Sector = 2
    Images <- MCImages
    Erased = "FF"
    MaxSize = 6
    Magic <- MCMagic
    Dump = 3
    SizeMax = 15
SPECIFICATION Spec
INVARIANTS
    VerifiedIsInFlash
