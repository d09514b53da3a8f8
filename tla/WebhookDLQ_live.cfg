SPECIFICATION LiveSpec
CONSTANTS
    Events = {e1, e2}
    Urls = {u1}
    None = None
    Consumers = {c1}
    Operators = {o1}
    Calls = {"replay"}
    RetryMax = 0
    DlqMaxRetries = 2
    Batch = 2
    MaxFaults = 1
INVARIANT RetriesBounded
PROPERTIES
    PendingSettles
    AgedReclaimed
