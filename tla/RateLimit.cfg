CONSTANTS
    Threads = {t1, t2}
    Unit = 2
    Rate = 1
    Burst = 2
    MaxRetries = 3
    BackoffDelay = 1
    MaxClock = 7
SPECIFICATION Spec
INVARIANTS TypeOK GrantsWithinRate RequestsWithinRate
