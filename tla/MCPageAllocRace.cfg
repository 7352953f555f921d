SPECIFICATION MemorySpec
CONSTANTS
    Parts = {"pages"}
    CPU = {"cpu 0", "cpu 1"}
    Lowest = 4
    Highest = 7
    MaxOrder = 2
    Uses <- MCBlocks
    RamBase = 3
    RamSize = 14
    Limit32 = 16
    NrRegions = 2
    Aligns = {1, 2, 8}
    MaxSize = 3
    PtrSize = 1
    DefaultAlign = 2
INVARIANTS ExclusiveOwner
CHECK_DEADLOCK FALSE
