SPECIFICATION MCSpec
CONSTANTS
    MaxAbsent = 1
    Requests = {q1, q2}
    Counters = {ip, user}
    Ip = ip
    CountWindow = 1
    MaxRequests = 1
    BanThreshold = 1
    BanDuration = 1
    Multiplier = 2
    MaxBan = 2
    TrapBan = 3
    ViolationTtl = 2
    MaxViolations = 2
    SlideLength = 4
    SlideLimit = 3
    MaxSlideTime = 12
    MaxSlideCount = 6
    Logins = {l1, l2, l3}
    MaxAttempts = 2
    LockoutTime = 2
    AttemptTtl = 3
    MaxFailures = 4
    Ceremonies = {v1, v2}
    MaxChallenges = 2
    ChallengeTtl = 1
    MaxResponses = 2
    Providers = {p1, p2}
    ServerProcesses = {w1, w2}
    Callbacks = {c1, c2}
    StateTtl = 1
    MaxLogins = 2
    MaxLoginTime = 2
    Discoveries = {d1, d2}
    CacheTtl = 2
    FetchTimeout = 2
    MaxVersions = 2
    MaxFetchTime = 7
    Period = 2
    DriftWindow = 1
    MaxEpoch = 3
    CodeCount = 2
    MaxSetups = 2
    Recoveries = {m1, m2}
    Roles = {r1, r2, r3}
    Grants <- MCGrants
    MaxParents = 1
    MaxChanges = 4
    Documents <- MCDocuments
    DepthLimit = 2
    BreadthLimit = 2
    CostLimit = 16
    Introspection = FALSE
    Pages = {g1, g2}
    TokenExpiry = 1
    MaxTokens = 2
    MaxCsrfTime = 2
    AuthCalls = {a1, a2}
    Callers = {x1}
    NoCaller = NoCaller
    FailThreshold = 2
    FailWindow = 2
    MaxTracked = 3
    MaxFailTime = 3
    Visits = {k1}
    Clients = {i1, i2}
    Proxies = {x1, x2}
    TrustedProxies = {x1}
    NoAddress = NoAddress
    MaxHops = 2
SYMMETRY Interchanged
CHECK_DEADLOCK FALSE
INVARIANTS
    MCTypeOK
    LayersCompose
    RatesHold
    FailuresCounted
    MetadataAge
    FactorsHonoured
    IpJudged
    WalksExact
    CsrfHonoured
PROPERTY StateTakenOnce

