SPECIFICATION ArmSpec
CONSTANTS
    Parts = {"smp", "gic", "psci", "timer", "virtio"}
    N = 3
    Programs <- OneCallerPerTarget
    MaxCalls = 3
    MaxDepth = 4
    PCpus = 4
    Firmwares = {"none", "accepts_all", "affinity", "denies", "always_succeeds", "pending", "stays_on"}
    Callers = {1, 2, 3}
    Num = 2
    Wrap = 4
    Nodes <- MCNodes
    Devices = {"sync", "async", "set up", "small"}
INVARIANTS BootMatches CallsRun DeadlockIsReal PsciVerdict ArmVerdict RingIntact
PROPERTIES CallsEnd
CHECK_DEADLOCK FALSE
