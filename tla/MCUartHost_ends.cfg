SPECIFICATION FairSpec
CONSTANTS
    Ports = {p1, p2}
    Devices = {d1, d2}
    NULL = NULL
    LowLatency = {d1}
    Rs485 = {d2}
    Held = {d2}
    MaxPending = 2
    CLOSE_TIMEOUT = 1
    MaxFaults = 2
PROPERTY
    CallsEnd
CHECK_DEADLOCK FALSE
