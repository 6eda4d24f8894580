SPECIFICATION Spec
CONSTANTS
    VIC_N = 2
    INT_SOURCES = 2
    PRIO_LEVELS = 2
    Addr = {"a"}
    Addr0 = "a"
    Masks = {{0}, {1}}
    Ops = {"line", "intenable", "intselect"}
    PollAt = {}
    MaxNest = 1
INVARIANT FiqPropagated
CHECK_DEADLOCK FALSE
