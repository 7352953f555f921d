SPECIFICATION ClockSpec
CONSTANTS
    CPU = {c1, c2}
    Modulus = 16
    Mul = 3
    Frac = 2
    Div = 1
    Offsets = {0, 1}
    RawCycle = FALSE
    MaxTsc = 2
    MaxUpdates = 1
    Loops = 1
    U32 = 8
    Bases = {1, 2, 3, 4, 5, 6, 7}
    MaxWrites = 2
    HvCpus = {0}
    Versions = 3
    Reads = 2
SYMMETRY Symmetry
INVARIANTS ClockReads Monotonic WallReads SequenceGuards
CHECK_DEADLOCK FALSE
