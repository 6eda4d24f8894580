\* One controller on its own: reset, migration, FIQ selection, level masks,
\* a guest that nests and polls.
SPECIFICATION Spec
CONSTANTS
    VIC_N = 1
    INT_SOURCES = 2
    PRIO_LEVELS = 2
    Addr = {"a"}
    Addr0 = "a"
    Masks = {{0, 1}, {1}}
    Ops = {"line", "intselect", "intenable", "intenclear", "swprioritymask", "vectpriority", "reset", "migrate"}
    PollAt = {0}
    MaxNest = 2
INVARIANTS TypeOK StackTop FiqLineExact
CHECK_DEADLOCK FALSE
