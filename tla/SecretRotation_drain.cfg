SPECIFICATION FairRotationSpec
CONSTANTS
    Secrets = {s1, s2}
    None = None
    Redis = redis
    Postgres = postgres
    FailClosed = FALSE
    DbCalls = {d1}
    MaxPools = 2
CHECK_DEADLOCK FALSE
PROPERTY DrainEnds
