SPECIFICATION MCSpec
CONSTANTS
    Rotations = {r1, r2}
    Second = 2
    RefreshTtl = 4
    Leeway = 1
    FamilyTtl = 3
    MaxTokens = 2
    MaxTime = 6
    Calls = {c1, c2}
    Prefixes = {p1, p2}
    NoPrefix = NoPrefix
    MaxKeys = 2
    Bearers = {b1, b2}
    NoBearer = NoBearer
    Rights = {admin}
    KeyPairs = {k1}
    NoPair = NoPair
    SecretKey = SecretKey
    AccessTtl = 1
    RefreshLife = 2
    ClockLeeway = 1
    Deployments <- MCDeployments
    MaxPairs = 2
    MaxDeployments = 1
    MaxJwtTime = 3
CHECK_DEADLOCK FALSE
INVARIANTS
    TypeOK
    TokensJudged
    KeysHonoured
PROPERTY SpentForGood
