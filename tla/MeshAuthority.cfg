\* Poll loop and SIGHUP, one restart, a clock that may step back.
CONSTANTS
    Reloaders = {poller, sighup}
    Poller = poller
    Bundles <- MCBundles
    NoBundle = NoBundle
    Unloadable = Unloadable
    Free = Free
    MaxAge = 1
    TrustFloor = 1
    MaxClock = 2
    MaxBoots = 1
SPECIFICATION FairSpec
INVARIANTS
    WatermarkTracksSnapshot
PROPERTIES
    ImplementsMonotoneZone
    FreshBundleIsServed
