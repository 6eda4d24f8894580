\* One controller and one chip with two pages, whose addresses differ in both
\* halves.
SPECIFICATION Spec
CONSTANTS
    FMIS = {0}
    Chips = {"c0"}
    Half = 2
    PageUnits = 2
    MetaUnits = 1
    IdUnits = 1
    EccStages = 2
    WordUnits = 2
    Channels = {5, 6}
    Keys = {"nandkey", "appkey"}
    JobAddrs = {1, 2}
    Splits = {1, 2}
INVARIANTS PageDelivered  DmaLineExact 
CHECK_DEADLOCK FALSE
