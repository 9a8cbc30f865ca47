CONSTANTS
    s1 = s1
    Sources = {s1, s2}
    Listings <- TwoListings
    Hashes = {h1, h2}
    Statuses = {"ok", "forbidden", "gone", "transient"}
    Terminal = {"forbidden", "gone"}
    Threshold = 2
    UABlockGuard = TRUE
    Callers = {job, hand}
    Attached = {hand}
    Nobody = Nobody
    NoRow = NoRow
    MaxFirings = 2
SPECIFICATION Spec
INVARIANTS TypeOK ReportedItems
PROPERTIES DisabledByStrikes GlobalBlockSparesAll
SYMMETRY HashesAlike
CHECK_DEADLOCK FALSE
