SPECIFICATION HookFairSpec
CONSTANTS
    Identities = {i1, i2}
    Periods = {p1, p2, p3}
    Alike = {p1, p2}
    MaxSelections = 2
    MaxWindow = 1
    MaxTicks = 1
    Slots = 5
INVARIANTS
    TypeOK
    ShownIsSelected
PROPERTIES
    FreshStays
    LoadsSettle
CHECK_DEADLOCK FALSE
