SPECIFICATION CalmSpec
CONSTANTS
    s1 = s1
    s2 = s2
    s3 = s3
    c1 = c1
    c2 = c2
    m1 = m1
    m2 = m2
    o1 = o1
    t1 = t1
    t2 = t2
    NoSlug = NoSlug
    NoTopic = NoTopic
    NoRun = NoRun
    MaxRaw = 2
    MaxCandidates = 2
    Slugs = {s1}
    Topics = {t1}
    Unsupported = {}
    StructuralLow = {}
    ClusterRuns = {c1}
    BatchSize = 1
    OnlyNewModes = {TRUE}
    MaxSignals = 1
    MaxBuckets = 1
    MaxCards = 1
    Mergers = {}
    Operators = {}
    Asked = {"rejected"}
    MaxApprovals = 0
PROPERTY ExcessIsProcessed
