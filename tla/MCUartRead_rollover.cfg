CONSTANTS
    TickPeriod = 6
    TicksPerUnit = 1
    First = 1
    StampMod = 32
    Platforms = {"tiva"}
    Bytes = 4
    Ends = {2, 4}
    Depth = 2
    Lens = {0, 3}
    Timeouts = {8}
    Entries = {"read_block", "read_error"}
    IntMax = 8
    MaxGap = 1
SPECIFICATION Spec
INVARIANT LoopSkippedAfterTimeout
CHECK_DEADLOCK FALSE
