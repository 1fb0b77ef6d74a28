CONSTANTS
    TickPeriod = 7
    TicksPerUnit = 1
    First = 0
    StampMod = 16
    Platforms = {"host"}
    Depth = 2
    Lens = {0, 1, 3}
    Timeouts = {0, 2}
    PrintLens = {4}
    BufferLen = 5
    WarnLen = 3
    MaxGap = 2
SPECIFICATION Spec
INVARIANT FullBufferIsWaitedFor
CHECK_DEADLOCK FALSE
