SPECIFICATION FairSpec
CONSTANTS
    Keys = {k1, k2, k3}
    NoKey = NoKey
    Jobs = {j1, j2, j3}
    MaxPending = 1
    MaxWaiting = 1
    MaxEntries = 2
    MaxBytes = 3
    MaxEntryBytes = 2
    Sizes = {1, 2, 3}
INVARIANTS TypeOK BytesExact OneLoadPerKey
PROPERTIES BudgetContract LoadsEnd
