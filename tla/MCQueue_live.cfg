CONSTANTS
    Capacity = 4
    IndexMod = 8
    ItemSize <- MCItemSize
    Byte <- MCByte
    Items <- MCItems
    Garbage <- MCGarbage
    PushOps <- BlockOnly
    PopOps <- BlockOnly
    NoItem = NoItem
SPECIFICATION FairSpec
PROPERTIES PushReturns ConsumerCatchesUp
