CONSTANTS
    TickPeriod = 10
    TicksPerUnit = 4
    First = 1
    StampMod = 16
    Platforms = {"tiva"}
    Depth = 2
    Lens = {0, 1, 3}
    Timeouts = {0, 2}
    PrintLens = {1}
    BufferLen = 5
    WarnLen = 3
    MaxGap = 2
SPECIFICATION FairSpec
PROPERTY PrintfEnds
CHECK_DEADLOCK FALSE
