SPECIFICATION FairSpec
CONSTANTS
    Requests = {q1, q2, q3}
    Devices = {d1, d2}
    None = none
    MaxActive = 1
    RequestTimeout = 2
    VerifyTime = 1
    CacheTTL = 1
    RateWindow = 2
    RateLimit = 1
    MaxTracked = 1
    MaxTouches = 1
    TouchTimeout = 1
INVARIANTS TypeOK RateHolds
PROPERTIES ForwardedWhileLive CapacityReturns
