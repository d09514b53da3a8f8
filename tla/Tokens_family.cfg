SPECIFICATION TokenSpec
CONSTANTS
    Rotations = {r1, r2}
    Second = 1
    RefreshTtl = 3
    Leeway = 0
    FamilyTtl = 3
    MaxTokens = 2
    MaxTime = 2
CHECK_DEADLOCK FALSE
INVARIANT DescendantsRevoked
