\* Two workers, two table slots for three sites.
CONSTANTS
    w1 = w1
    w2 = w2
    Workers = {w1, w2}
    Addrs <- MCAddrs
    Loopback <- MCLoopback
    ZeroHost = "0"
    Idle = Idle
    Burst = 2
    Cost = 2
    MaxTracked = 2
    GcInterval = 1
    IdleThreshold = 2
    MaxClock = 3
    MaxSwaps = 1
SYMMETRY WorkerSymmetry
SPECIFICATION Spec
INVARIANTS
    TableBounded
    NoCollateral
    SingleRateBound
