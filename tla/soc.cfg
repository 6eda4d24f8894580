\* Deadlines within the interval's width, at it and beyond it.
SPECIFICATION SocSpec
CONSTANTS
    VIC_N = 2
    INT_SOURCES = 2
    PRIO_LEVELS = 2
    Addr = {"timer", "i2c", "dma"}
    Addr0 = "timer"
    Masks = {}
    Ops = {"line", "intenable", "intenclear"}
    PollAt = {}
    MaxNest = 1
    Wrap = 3
    Default = 1
    Deadlines = {1, 3, 5}
INVARIANTS TimerLive ServiceMatches
PROPERTIES SleepEnds TransferServed
