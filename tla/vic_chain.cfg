\* A chain of two: the guest nests, moves handlers and acknowledges
\* controller 0 only.
SPECIFICATION Spec
CONSTANTS
    VIC_N = 2
    INT_SOURCES = 2
    PRIO_LEVELS = 2
    Addr = {"a", "b"}
    Addr0 = "a"
    Masks = {{0}}
    Ops = {"softint", "softintclear", "intenable", "intselect", "prioritydaisy", "vectaddr"}
    PollAt = {}
    MaxNest = 2
INVARIANTS StacksBalanced NeverAborts NoLostInterrupt IdleCpuSeesPending NoIrqWithoutCause NoFiqWithoutCause VectorOfWinner
CHECK_DEADLOCK FALSE
