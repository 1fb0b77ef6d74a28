CONSTANTS
    Commands = {5, 6}
    Bootloader = {7}
    Timeouts = {0, 1, 2}
    Modes = {TRUE, FALSE}
    PerByte = 1
    PollTimeout = 2
    WordMod = 16
    Leftover = {0, 1, 9}
    Prompt = FALSE
    MaxRequests = 2
SPECIFICATION FairSpec
INVARIANTS TypeOK AnswersMatch InStep
PROPERTY RequestEnds
CHECK_DEADLOCK FALSE
