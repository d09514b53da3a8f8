SPECIFICATION IpSpec
CONSTANTS
    Visits = {v1}
    Clients = {i1, i2}
    Proxies = {x1, x2}
    TrustedProxies = {x1}
    NoAddress = NoAddress
    MaxHops = 2
INVARIANT SpoofingPrevented
