SPECIFICATION Spec
CONSTANTS
    HOUR = 2
    DAY = 4
    Minute = 1
    Lookback = 4
    RawSpan = 3
    Fine = 2
    Live = 1
    Segments = 2
    MaxNow = 7
    MaxSamples = 3
    MaxWire = 1
INVARIANT ComparePeriodsAdjoin
CHECK_DEADLOCK FALSE
