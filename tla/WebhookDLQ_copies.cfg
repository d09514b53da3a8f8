SPECIFICATION Spec
CONSTANTS
    Events = {e1, e2}
    Urls = {u1}
    None = None
    Consumers = {c1}
    Operators = {}
    Calls = {}
    RetryMax = 3
    DlqMaxRetries = 5
    Batch = 2
    MaxFaults = 0
INVARIANT OneEntryPerEvent
