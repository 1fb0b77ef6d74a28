CONSTANTS
    TickPeriod = 9
    TicksPerUnit = 1
    First = 1
    StampMod = 9
    Platforms = {"host", "tiva"}
    Bytes = 3
    Ends = {2}
    Depth = 2
    Lens = {0, 3}
    Timeouts = {0, 2, 3}
    Entries = {"read_block", "read_error"}
    IntMax = 2
    MaxGap = 1
SPECIFICATION FairSpec
INVARIANT NothingMissing
PROPERTIES ReadEnds ImplementsAtomicRead
CHECK_DEADLOCK FALSE
