SPECIFICATION TestsSpec
CONSTANTS
    Parts = {"vmx"}
    Machines <- MCMachines
    PoolPages = 11
    Defects = {"none", "no flush", "no flush of others", "clears current", "loads again", "one cache", "writes all"}
    GuestMachines <- MCGuestMachines
    Tests <- FrameworkTests
    TableSize = 3
    Pages = 3
    WakePrograms = {"init"}
    MaxTeardown = 2
    MaxSteps = 4
INVARIANTS EntryReported
CHECK_DEADLOCK FALSE
