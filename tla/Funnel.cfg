SPECIFICATION Spec
CONSTANTS
    s1 = s1
    s2 = s2
    s3 = s3
    c1 = c1
    c2 = c2
    m1 = m1
    m2 = m2
    o1 = o1
    t1 = t1
    t2 = t2
    NoSlug = NoSlug
    NoTopic = NoTopic
    NoRun = NoRun
    MaxRaw = 5
    MaxCandidates = 5
    Slugs = {s1, s2, s3}
    Topics = {t1, t2}
    Unsupported = {3}
    StructuralLow = {2}
    ClusterRuns = {c1}
    BatchSize = 1
    OnlyNewModes = {TRUE}
    MaxSignals = 2
    MaxBuckets = 1
    MaxCards = 1
    Mergers = {m1}
    Operators = {o1}
    Asked = {"rejected"}
    MaxApprovals = 1
SYMMETRY Interchangeable
INVARIANTS
    TypeOK
    LiveHasEvidence
    LinkedAreClusterable
    MergedIntoNewer
    NormalizedPrefix
PROPERTIES
    EvidenceNeverLost
    MergedOnce
    MarksSurvive
    ImplementsLedger
