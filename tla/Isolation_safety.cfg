SPECIFICATION FairSpec
CONSTANTS
    MaxInterrupts = 3
    Interruptible = {"join", "grace", "term_join", "kill_join", "get", "emit", "atexit", "child"}
    Sizes = {"small", "large"}
    ChildMayDie = TRUE
INVARIANTS TypeOK ExitCodeTruthful EvidenceBehindSample NoChildLeft CooperativeMeansClean
PROPERTIES EveryRunEnds UndisturbedShutdownCompletes
CHECK_DEADLOCK FALSE
