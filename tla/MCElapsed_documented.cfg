CONSTANTS
    TickPeriod = 10
    TicksPerUnit = 4
    First = 1
    StampMod = 32
    Limit = 6
    MaxGap = 8
    MaxTicks = 60
    MaxStep = 0
SPECIFICATION Spec
INVARIANT ElapsedTracks
CHECK_DEADLOCK FALSE
