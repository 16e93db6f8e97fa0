SPECIFICATION FairSpec
CONSTANTS
    s1 = s1
    s2 = s2
    Savers = {s1, s2}
    SensitiveKeys <- Secrets
    MaxSamples = 2
    MaxPayload = 13
    MaxEntries = 5
    MaxManifest = 7
    Scenarios <- AllScenarios
INVARIANTS TypeOK WritesAtomic SavesLast BundlesSound 
PROPERTIES EveryCommandEnds
