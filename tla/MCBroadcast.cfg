SPECIFICATION FairSpec
CONSTANTS
    NumPorts = 2
    ResponseLength <- MCResponseLength
    RequestLengths = {2, 3, 9}
    LongestRequest = 8
    TxDepth = 2
    RxDepth = 3
    Chunk = 2
    Paces = {2, 4}
    timeout = 1
    Platforms = {"host", "tiva"}
    MaxRounds = 2
INVARIANTS
    OwnResponses
    InStep
    NoOverrun
PROPERTY
    BroadcastEnds
CHECK_DEADLOCK FALSE
