SPECIFICATION KeySpec
CONSTANTS
    Calls = {c1, c2}
    Prefixes = {p1}
    NoPrefix = NoPrefix
    MaxKeys = 1
CHECK_DEADLOCK FALSE
INVARIANT RevokedInactive
