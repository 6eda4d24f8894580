\* A ring of four slots, used up to two; more bytes arrive than it has slots.
SPECIFICATION UartSpec
CONSTANTS
    QUEUE_SIZE = 4
    Size = 3
    MaxBytes = 5
    Ufcons = {{"LEVEL"}, {"FIFO"}}
    IntValues = {{"RXD"}}
    Masks = {{"TXD", "ERROR"}, {"RXD"}}
INVARIANTS RoomKept NoLostReceive
PROPERTIES ImplementsQueue EveryByteRead
CHECK_DEADLOCK FALSE
