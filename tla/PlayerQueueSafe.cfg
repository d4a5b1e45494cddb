SPECIFICATION FairSpec
CONSTANTS
    Producer = {"layout", "region"}
    Keys = "keys"
    Count = 2
    Failing <- RegionFails
    MaxDepth = 7
INVARIANT TypeOK
INVARIANT Exclusive
INVARIANT NoneStranded
INVARIANT InOrder
PROPERTY AllRun
CHECK_DEADLOCK FALSE
