CONSTANTS
    Commands = {5}
    Bootloader = {}
    Timeouts = {0}
    Modes = {TRUE}
    PerByte = 1
    PollTimeout = 2
    WordMod = 16
    Leftover = {0}
    Prompt = TRUE
    MaxRequests = 1
SPECIFICATION Spec
INVARIANT ZeroIsInfinite
CHECK_DEADLOCK FALSE
