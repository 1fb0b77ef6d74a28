CONSTANTS
    Commands = {5}
    Bootloader = {}
    Timeouts = {2}
    Modes = {FALSE}
    PerByte = 1
    PollTimeout = 2
    WordMod = 16
    Leftover = {0}
    Prompt = TRUE
    MaxRequests = 1
SPECIFICATION Spec
INVARIANT TimeoutReturnsFalse
CHECK_DEADLOCK FALSE
