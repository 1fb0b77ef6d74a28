CONSTANTS
    Capacity = 4
    IndexMod = 8
    ItemSize <- MCItemSize
    Byte <- MCByte
    Items <- MCItems
    Garbage <- MCGarbage
    PushOps <- AllOps
    PopOps <- AllOps
    NoItem = NoItem
SPECIFICATION Spec
INVARIANTS RoomKept NoTornItem
PROPERTY ImplementsFifo
CHECK_DEADLOCK FALSE
