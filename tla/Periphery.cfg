SPECIFICATION PeripherySpec
CONSTANTS
    a1 = a1
    a2 = a2
    b1 = b1
    Kinds = {"hn", "producthunt", "reddit", "indiehackers", "review_sites"}
    Interval <- MCInterval
    Window <- MCWindow
    PageSize <- MCPageSize
    MaxPages <- MCMaxPages
    Grace = 1
    MaxPosts <- MCMaxPosts
    MaxTime = 6
    Callers = {r1, r2, app}
    Runs = {r1, r2}
    Tasks = {"buildability", "cluster", "dedup"}
    Costs = {1}
    MaxCandidate = 3
    Limits = {1, 3}
    Budget = 1
    MaxStarts = 2
    Importers = {i1, i2}
    Seeder = seeder
    Nobody = nobody
    Reviews = {a1, a2, b1}
    Invalid = bad
    Product <- MCProduct
    Files <- MCFiles
    Namings <- MCNamings
    SeedNames <- MCSeedNames
    Scraper = "scraper"
    MaxScripts = 3
INVARIANTS
    PeripheryTypeOK CapturedInTime RowPerCall BillRecorded OldestFirst OwnSpendBounded
    ReportHonest TailImported RightSource NamesUnique
PROPERTIES
    AloneNeverAsksTwice RunsShorten BackfillEnds
CHECK_DEADLOCK FALSE
