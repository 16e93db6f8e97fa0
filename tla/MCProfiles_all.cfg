SPECIFICATION FairSpec
CONSTANTS
    w1 = w1
    w2 = w2
    Configurations <- AllConfigurations
    Repetitions = 2
    Operations = 2
    Tasks <- ThreeTasks
    Workers = {w1, w2}
INVARIANTS TypeOK CleanExit OnlyFaultsCounted SuccessIsComplete FailuresVisible
PROPERTIES  CancellationEnds
