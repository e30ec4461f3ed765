\* Two workers: a late one winds last_refill back.
CONSTANTS
    w1 = w1
    w2 = w2
    Workers = {w1, w2}
    Addrs <- MCAddrs
    Loopback <- MCLoopback
    ZeroHost = "0"
    Idle = Idle
    Burst = 3
    Cost = 2
    MaxTracked = 2
    GcInterval = 2
    IdleThreshold = 3
    MaxClock = 7
    MaxSwaps = 1
SPECIFICATION Spec
INVARIANT RateBound
