CONSTANTS
    TickPeriod = 10
    TicksPerUnit = 4
    First = 1
    StampMod = 16
    Platforms = {"host", "tiva"}
    Depth = 2
    Lens = {0, 1, 3}
    Timeouts = {0, 2}
    PrintLens = {0, 1, 4, 6}
    BufferLen = 5
    WarnLen = 3
    MaxGap = 2
SPECIFICATION FairSpec
INVARIANTS NotTimedOutEarly OverInTime
PROPERTY WriteEnds
CHECK_DEADLOCK FALSE
