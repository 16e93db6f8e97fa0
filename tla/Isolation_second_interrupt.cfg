SPECIFICATION FairSpec
CONSTANTS
    MaxInterrupts = 2
    Interruptible = {"join", "grace"}
    Sizes = {"small"}
    ChildMayDie = FALSE
PROPERTIES
    ShutdownCompletes
CHECK_DEADLOCK FALSE
