SPECIFICATION Spec
CONSTANTS
    Casefold <- Names
    ExpectedMetrics <- OneMetric
    SomeSamples = 2
    ManySamples = 3
    SomeDays = 2
    ManyDays = 4
    Inputs <- MixedCaseInputs
INVARIANTS OutputModelsAgree
