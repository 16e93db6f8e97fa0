SPECIFICATION Spec
CONSTANTS
    t1 = t1
    t2 = t2
    t3 = t3
    None = None
    Threads = {t1, t2}
    Payloads = {"a", "b", "c", "d"}
    Digests = {"da", "db", "dc", "dd"}
    SubmissionIds = {"sa", "sb", "sc", "sd"}
    BundleIds = {"ia", "ib", "ic", "id"}
    SampleIds = {"x", "y", "z"}
    RawPaths = {"r1", "r2"}
    Content <- MCContent
    Requests <- OneBundle
    MaxRequestBytes <- MCMaxRequestBytes
    Faults = {}
    MaxCrashes = 0
SYMMETRY ThreadSymmetry
INVARIANTS
    ReplayIsDuplicate
