SPECIFICATION Spec
CONSTANTS
    t1 = t1
    t2 = t2
    t3 = t3
    None = None
    Threads = {t1, t2}
    Payloads = {"a", "b", "c", "d"}
    Digests = {"da", "db", "dc", "dd"}
    SubmissionIds = {"sa", "sb", "sc", "sd"}
    BundleIds = {"ia", "ib", "ic", "id"}
    SampleIds = {"x", "y", "z"}
    RawPaths = {"r1", "r2"}
    Content <- MCContent
    Requests <- TwoBundles
    MaxRequestBytes <- MCMaxRequestBytes
    Faults = {"disk"}
    MaxCrashes = 1
SYMMETRY ThreadSymmetry
INVARIANTS
    TablesConsistent
    CommittedBundleStored
    AcknowledgedOnce
    ConflictIsFinal
    RetryFindsBundle
    IInv
PROPERTIES
    ImplementsLedger
