SPECIFICATION ThreatSpec
CONSTANTS
    Ips = {i1, i2}
    Excluded = {}
    Feeds = {f1}
    FeedTtl = 2
    Agents = {"loop"}
CHECK_DEADLOCK FALSE
PROPERTY TtlKept
