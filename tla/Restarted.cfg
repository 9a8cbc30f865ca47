CONSTANTS
    ingest = ingest
    normalize = normalize
    cluster = cluster
    Jobs <- MCJobs
    NormalizeJob = normalize
    ClusterJob = cluster
    Operators = {o1}
    Cycle = 4
    Slots <- MCSlots
    Grace = 1
SPECIFICATION Spec
PROPERTIES RestartRevives
