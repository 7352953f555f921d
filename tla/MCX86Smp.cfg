SPECIFICATION SmpSpec
CONSTANTS
    NCpus = 3
    MaxCalls = 6
    BspIF = TRUE
    MayCall <- MayCallFromOne
INVARIANTS ArgumentsMatch RunsOnce ReturnAfterCall IoApicVerdict ApicVerdict HyperVVerdict
PROPERTIES OnCpusIsBarrier
CHECK_DEADLOCK FALSE
