SPECIFICATION CollectorFairSpec
CONSTANTS
    TokenDays = 5
    WindowDays = 2
    MaxBadDays = 1
    MaxDay = 9
    MaxToken = 5
    MaxInstalls = 2
    MaxStragglers = 2
INVARIANTS FileAccepted CollectorServed
PROPERTIES GoesLive
