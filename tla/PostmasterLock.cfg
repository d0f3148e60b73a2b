SPECIFICATION RecoverySpec
CONSTANTS
    Pid = {p1, p2, p3}
    NoPid = NoPid
SYMMETRY Interchangeable
INVARIANTS
    ServerHoldsLock
    ReleasedMeansStopped
PROPERTIES
    OnlyTheServerIsSignalled
