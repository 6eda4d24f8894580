\* A data stage of just EWOULDBLOCK units, headers shorter, sockets roomy.
SPECIFICATION Spec
CONSTANTS
    MaxPackets = 1
    MaxLen = 3
    SockBuf = 8
    EWouldBlock = 3
    Ops = {}
PROPERTY Completes
CHECK_DEADLOCK FALSE
