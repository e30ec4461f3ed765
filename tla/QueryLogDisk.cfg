\* No fault, failing writes alone, or every fault and edits of max_files as well; a
\* crash or a restart at any point.
CONSTANTS
    RingSize = 2
    ChannelCap = 2
    MaxFileSize = 1
    BufferSize = 2
    MaxFiles = {1, 2, 3}
    FaultSets <- MCFaultSets
    MaxEntries = 4
    MaxRestarts = 2
    Absent = Absent
    Unlinked = Unlinked
    Nothing = Nothing
SPECIFICATION Spec
INVARIANTS
    RetainsLatest
    Accounted
    FootprintBounded
CHECK_DEADLOCK FALSE
