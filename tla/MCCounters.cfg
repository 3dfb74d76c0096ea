SPECIFICATION Spec
CONSTANTS
    HOUR = 4
    DAY = 8
    Minute = 2
    Lookback = 8
    RawSpan = 4
    Fine = 2
    Live = 1
    Segments = 2
    MaxNow = 9
    MaxSamples = 3
    MaxWire = 1
INVARIANTS SeriesSumsToSnapshot FiguresExact ObservedMeansMeasured
CHECK_DEADLOCK FALSE
