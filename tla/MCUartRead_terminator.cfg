CONSTANTS
    TickPeriod = 10
    TicksPerUnit = 1
    First = 0
    StampMod = 16
    Platforms = {"host"}
    Bytes = 4
    Ends = {2, 4}
    Depth = 4
    Lens = {0, 3}
    Timeouts = {0, 2}
    Entries = {"read_block", "read_error"}
    IntMax = 2
    MaxGap = 1
SPECIFICATION Spec
INVARIANT StopsAtTerminator
CHECK_DEADLOCK FALSE
