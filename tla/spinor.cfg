\* Reads shorter than the FIFO, as long, and of two refills.
SPECIFICATION SpiSpec
CONSTANTS
    Fifo = 7
    Base = 4
    TxWords = 10
    Addrs = {0, 22}
    Lens = {2, 7, 16}
INVARIANTS TxInBounds BytesInOrder WakeupComing LeftCovers
PROPERTIES TransferEnds
