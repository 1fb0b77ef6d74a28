CONSTANTS
    Commands = {5}
    Bootloader = {7}
    Timeouts = {2}
    Modes = {FALSE}
    PerByte = 1
    PollTimeout = 2
    WordMod = 16
    Leftover = {0}
    Prompt = TRUE
    MaxRequests = 1
SPECIFICATION Spec
INVARIANT FalseMeansTimeout
CHECK_DEADLOCK FALSE
