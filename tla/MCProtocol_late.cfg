CONSTANTS
    Commands = {5}
    Bootloader = {}
    Timeouts = {2}
    Modes = {TRUE, FALSE}
    PerByte = 1
    PollTimeout = 2
    WordMod = 16
    Leftover = {0}
    Prompt = TRUE
    MaxRequests = 2
SPECIFICATION Spec
INVARIANT MatchingResponse
CHECK_DEADLOCK FALSE
