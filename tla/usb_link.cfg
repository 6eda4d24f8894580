\* Attaching, partial reads and writes, bus resets between transfers, a device side that
\* may drop the connection at any time.
SPECIFICATION Spec
CONSTANTS
    MaxPackets = 2
    MaxLen = 2
    SockBuf = 3
    EWouldBlock = 9
    Ops = {"reset", "cancel", "softreset"}
INVARIANTS TypeOK FramesIntact  BuffersFilled
PROPERTIES Implements Completes 
CHECK_DEADLOCK FALSE
