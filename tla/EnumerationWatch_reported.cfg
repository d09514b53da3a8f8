SPECIFICATION EnumerationSpec
CONSTANTS
    AuthCalls = {a1, a2}
    Callers = {x1, x2}
    NoCaller = NoCaller
    FailThreshold = 2
    FailWindow = 2
    MaxTracked = 3
    MaxFailTime = 3
CHECK_DEADLOCK FALSE
INVARIANT ThresholdReported
