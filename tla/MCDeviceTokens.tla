--------------------------- MODULE MCDeviceTokens ---------------------------
EXTENDS DeviceTokens, TLC

\* Replicas are interchangeable, and so are request slots.
Symmetry == Permutations(Replicas) \cup Permutations(Requests)

=============================================================================
