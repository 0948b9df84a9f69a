CONSTANTS
    Locals = 1
    FuncResults = 1
    ResultCounts = {0, 1}
    MaxDynamic = 3
    MaxPreserved = 1
    MaxOperands = 2
    MaxBlocks = 3
    MaxPolymorphic = 1
    Ops = {"const", "global.get", "sub", "drop", "local.get", "local.set", "local.tee", "block", "loop", "if", "br", "br_if", "return", "unreachable"}
    Values = {v1, v2}
    None = None
SYMMETRY Symmetry
SPECIFICATION Spec
INVARIANTS
    SlotsReserved
    BlocksKeepLocals
    Represents
CHECK_DEADLOCK FALSE
