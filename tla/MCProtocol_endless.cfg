CONSTANTS
    Commands = {5}
    Bootloader = {}
    Timeouts = {1}
    Modes = {TRUE, FALSE}
    PerByte = 1
    PollTimeout = 2
    WordMod = 16
    Leftover = {1}
    Prompt = TRUE
    MaxRequests = 1
SPECIFICATION FairSpec
PROPERTY TimedRequestEnds
CHECK_DEADLOCK FALSE
