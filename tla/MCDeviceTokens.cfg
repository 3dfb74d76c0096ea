CONSTANTS
    Replicas = {r1, r2}
    Requests = {q1, q2}
    NoReplica = none
    Lifetime = 2
    RenewWindow = 1
    CacheTTL = 1
    PurgeGrace = 1
    MaxClock = 3
    MaxSecret = 2
SPECIFICATION Spec
INVARIANTS NoStaleAcceptance PurgeOutlivesSecrets
PROPERTIES RotationMovesForward RevocationIsFinal NoEarlyRenewal
SYMMETRY Symmetry
