\* Opening the fresh file may fail (no descriptors left).
CONSTANTS
    RingSize = 2
    ChannelCap = 2
    MaxFileSize = 1
    BufferSize = 2
    MaxFiles = {3}
    FaultSets <- MCOpenFails
    MaxEntries = 6
    MaxRestarts = 0
    Absent = Absent
    Unlinked = Unlinked
    Nothing = Nothing
SPECIFICATION Spec
INVARIANT StreamKept
CHECK_DEADLOCK FALSE
