SPECIFICATION Spec
CONSTANTS
    Events = {e1, e2}
    Urls = {u1, u2}
    None = None
    Consumers = {c1}
    Operators = {o1}
    Calls = {"replay", "purge_all", "purge_url"}
    RetryMax = 0
    DlqMaxRetries = 2
    Batch = 2
    MaxFaults = 1
SYMMETRY EventSymmetry
INVARIANTS
    TypeOK
    NoEventLost
    EntriesInPlace
