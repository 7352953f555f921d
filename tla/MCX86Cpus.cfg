SPECIFICATION CpusSpec
CONSTANTS
    Parts = {"boot", "calls"}
    Ncpus = 4
    NbCpus = 4
    X2apic = TRUE
    MaxSwitch = 1
    NCpus = 3
    MaxCalls = 5
    BspIF = FALSE
    MayCall <- NoNestedCall
INVARIANTS BootMemory CpuStateMatches
PROPERTIES BootEnds CallsComplete
CHECK_DEADLOCK FALSE
