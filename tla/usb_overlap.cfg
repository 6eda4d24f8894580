\* Packets and bus resets that do not wait for the transfer under way.
SPECIFICATION Spec
CONSTANTS
    MaxPackets = 2
    MaxLen = 1
    SockBuf = 8
    EWouldBlock = 9
    Ops = {"reset", "cancel", "overlap"}
PROPERTY CompletesOnlyAsync
CHECK_DEADLOCK FALSE
