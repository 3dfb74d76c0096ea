SPECIFICATION FairSpec
CONSTANTS
    Callers = {c1, c2, c3, c4, c5}
    Maximum = 2
    MaxWaiting = 2
INVARIANTS
    SlotsAccounted
    WorkConserving
PROPERTIES
    NoOvertaking
    WaitersServed
