SPECIFICATION LiveSpec
CONSTANTS
    Creators = {c1}
    Requests = {r1}
    Cleaner = cleaner
    MaxConcurrent = 1
    Ttl = 2
    IdleTimeout = 1
    JtiBlacklist = TRUE
    MaxSessions = 2
    MaxTime = 3
INVARIANTS
    TypeOK
    IndexedLive
    RevocationCovers
    LimitKept
PROPERTIES
    EndedForGood
    StaleReclaimed
