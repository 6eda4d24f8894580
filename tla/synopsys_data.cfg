\* Transfers: partial ones through FIFOs the guest makes too small, too large
\* or puts at the end, stalls, resets.  All interrupts stay masked.
SPECIFICATION UsbSpec
CONSTANTS
    USB_NUM_ENDPOINTS = 1
    USB_NUM_FIFOS = 1
    FifoUnit = 2
    MaxXfer = 2
    AddrSpace = 2
    Controls = {{"ENABLE"}, {"STALL", "ENABLE"}}
    EpIntValues = {}
    MaskValues = {}
    FifoStarts = {3}
    FifoSizes = {1, 5}
    UsbOps = {"control", "transfer", "fifos", "reset"}
INVARIANTS UsbTypeOK SizeAccounts 
CHECK_DEADLOCK FALSE
