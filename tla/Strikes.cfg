CONSTANTS
    s1 = s1
    Sources = {s1, s2}
    Listings <- TwoListings
    Hashes = {h1}
    Statuses = {"ok", "forbidden", "gone", "transient"}
    Terminal = {"forbidden", "gone"}
    Threshold = 3
    UABlockGuard = TRUE
    Callers = {job}
    Attached = {}
    Nobody = Nobody
    NoRow = NoRow
    MaxFirings = 3
SPECIFICATION Spec
INVARIANT ThreeStrikesDisable
CHECK_DEADLOCK FALSE
