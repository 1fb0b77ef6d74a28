CONSTANTS
    TickPeriod = 7
    TicksPerUnit = 1
    First = 0
    StampMod = 32
    Limit = 5
    MaxGap = 6
    MaxTicks = 30
    MaxStep = 2
SPECIFICATION SteppingSpec
INVARIANT NotEarly
CHECK_DEADLOCK FALSE
