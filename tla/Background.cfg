SPECIFICATION MCSpec
CONSTANTS
    Borrowers = {b1, b2}
    Reloads = {r1, r2}
    Urls = {u1, u2}
    NoUrl = NoUrl
    MaxSize = 1
    Retries = 1
    MaxClients = 3
    Secrets = {s1, s2}
    None = None
    Redis = redis
    Postgres = postgres
    FailClosed = TRUE
    DbCalls = {d1}
    MaxPools = 3
    Ips = {i1, i2}
    Excluded = {i2}
    Feeds = {f1, f2}
    FeedTtl = 1
    Agents = {"loop", "caller"}
    RotationSizes = {1, 3}
    BackupCount = 3
    MaxEntries = 5
    MaxRestarts = 1
    Hooks = {h1, h2}
    MaxEvents = 2
    RetryBudgets = {1, 2}
    RetryDelays = 1
    MaxConcurrent = 2
    WafProcesses = {w1, w2}
    Addresses = {a1, a2}
    StrikeCount = 2
    StrikeWindow = 1
    MaxStrikes = 3
    MaxStrikeTime = 2
    QueueSize = 2
    MaxEmitted = 3
CHECK_DEADLOCK FALSE
INVARIANTS
    MCTypeOK
    PoolConsistent
    RotationConsistent
    BlocklistFollowsFeeds
    LogTrusted
    DeliveryAccounted
    ShutdownComplete
PROPERTY EscalationsKept
