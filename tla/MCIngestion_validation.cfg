SPECIFICATION Spec
CONSTANTS
    t1 = t1
    t2 = t2
    t3 = t3
    None = None
    Threads = {t1}
    Payloads = {"a", "b", "c", "d"}
    Digests = {"da", "db", "dc", "dd"}
    SubmissionIds = {"sa", "sb", "sc", "sd"}
    BundleIds = {"ia", "ib", "ic", "id"}
    SampleIds = {"x", "y", "z"}
    RawPaths = {"r1", "r2"}
    Content <- MCContent
    Requests <- MixedRequests
    MaxRequestBytes <- MCMaxRequestBytes
    Faults = {"disk", "database", "corruption"}
    MaxCrashes = 0
INVARIANTS
    TypeOK
    OnlyVerifiedRecorded
    NoScratchLeak
