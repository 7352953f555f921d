SPECIFICATION TestsSpec
CONSTANTS
    Parts = {"access", "vmcs", "guest", "vmx", "svm", "faults", "events", "real mode", "emulator", "wakeup", "ept", "s390x"}
    Machines <- MCMachines
    PoolPages = 11
    Defects = {"none", "no flush", "no flush of others", "clears current", "loads again", "one cache", "writes all",
               "vmxon when clear", "vmxon unlocked", "enabled", "lock bit", "vmxon unaligned", "vmxon wide",
               "vmxon revision", "vmxon", "vmptrld unaligned", "vmptrld wide", "vmptrld vmxon", "vmptrld error",
               "vmclear unaligned", "vmclear wide", "vmclear vmxon", "vmclear", "vmptrst", "high half"}
    GuestMachines <- MCGuestMachines
    Tests <- FrameworkTests
    TableSize = 3
    Pages = 3
    WakePrograms = {"init", "s3", "tscdeadline", "asyncpf"}
    MaxTeardown = 2
    MaxSteps = 4
INVARIANTS AccessVerdict AccessLayout VmxVerdict SvmVerdict FaultsVerdict EventsVerdict InstructionsVerdict WakesUp
CHECK_DEADLOCK FALSE
