SPECIFICATION Spec
CONSTANTS
    Creators = {c1, c2}
    Requests = {}
    Cleaner = cleaner
    MaxConcurrent = 1
    Ttl = 2
    IdleTimeout = 0
    JtiBlacklist = TRUE
    MaxSessions = 2
    MaxTime = 1
CHECK_DEADLOCK FALSE
INVARIANT MaxConcurrentSessions
