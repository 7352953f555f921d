SPECIFICATION HarnessSpec
CONSTANTS
    Groups = {"nodefault", "migration"}
    BufSize = 8
    PrefixLen = {0, 3}
    MaxTests = 2
    Commit = {"c1"}
    MaxNumber = 1
    Timeouts = TRUE
    Aborts = TRUE
INVARIANTS VerdictMeant ScriptsRight
PROPERTIES ScriptEnds
CHECK_DEADLOCK FALSE
