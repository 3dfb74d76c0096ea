SPECIFICATION LeaseFairSpec
CONSTANTS
    Pods = {p1, p2, p3}
    LeaseTime = 1
    MaxAttempts = 2
    NoLease = NoLease
    NoResult = NoResult
    IdleClock = 2
    MaxFaults = 1
INVARIANTS
    OneWorker
    OneWorkerPerAttempt
    CallsBounded
PROPERTIES
    Settles
