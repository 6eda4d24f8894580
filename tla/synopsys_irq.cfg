\* Interrupts: endpoint events against every order of mask, clock and status
\* writes.  Transfers move nothing.
SPECIFICATION UsbSpec
CONSTANTS
    USB_NUM_ENDPOINTS = 1
    USB_NUM_FIFOS = 1
    FifoUnit = 1
    MaxXfer = 0
    AddrSpace = 1
    Controls = {{"ENABLE"}, {"SETNAK", "DISABLE"}}
    EpIntValues = {{"XferCompl", "SetUp"}, {"EPDisbld", "NakEff"}}
    MaskValues = {{"INEP", "OEP", "ENUMDONE"}}
    FifoStarts = {}
    FifoSizes = {}
    UsbOps = {"control", "masks", "device"}
INVARIANTS LineExact TransferShown SummaryHasCause
CHECK_DEADLOCK FALSE
