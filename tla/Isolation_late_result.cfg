SPECIFICATION Spec
CONSTANTS
    MaxInterrupts = 0
    Interruptible = {}
    Sizes = {"small"}
    ChildMayDie = FALSE
INVARIANTS
    DeadlineMeansTimeout
CHECK_DEADLOCK FALSE
