SPECIFICATION CpusSpec
CONSTANTS
    Parts = {"boot"}
    Ncpus = 1
    NbCpus = 2
    X2apic = TRUE
    MaxSwitch = 0
    NCpus = 3
    MaxCalls = 5
    BspIF = FALSE
    MayCall <- NoNestedCall
PROPERTIES BootEnds
CHECK_DEADLOCK FALSE
