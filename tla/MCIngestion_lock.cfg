SPECIFICATION FairSpec
CONSTANTS
    t1 = t1
    t2 = t2
    t3 = t3
    None = None
    Threads = {t1, t2}
    Payloads = {"a", "b", "c", "d"}
    Digests = {"da", "db", "dc", "dd"}
    SubmissionIds = {"sa", "sb", "sc", "sd"}
    BundleIds = {"ia", "ib", "ic", "id"}
    SampleIds = {"x", "y", "z"}
    RawPaths = {"r1", "r2"}
    Content <- MCContent
    Requests <- AllBundles
    MaxRequestBytes <- MCMaxRequestBytes
    Faults = {"busy"}
    MaxCrashes = 0
INVARIANTS
    NoOrphanBundle
PROPERTIES
    EveryRequestEnds
