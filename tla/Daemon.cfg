\* Six configurations, two edits, three signals, every bind may fail.
CONSTANTS
    Addrs <- MCAddrs
    Privileged = {"low"}
    Public = {"any"}
    LoopbackOf <- MCLoopbackOf
    Overlapping <- MCOverlapping
    TlsFiles = {"cert"}
    Timeouts = {1, 2}
    Paths = {"good", "bad"}
    BadPaths = {"bad"}
    Configs <- MCConfigs
    None = None
    MaxWrites = 2
    MaxSignals = 2
SPECIFICATION FairSpec
INVARIANTS
    NeverGoesDark
    ServesWhatWasLoaded
PROPERTIES
    SignalsHonoured
    RetiredGenerationsEnd
CHECK_DEADLOCK FALSE
