SPECIFICATION FairSpec
CONSTANTS
    NumMedia = 3
    Unloadable = {}
    OutTrans = {1, 2}
    InTrans = {1, 3}
    SamePlugin = TRUE
    Disposers = {"key", "switch"}
INVARIANT Alone
INVARIANT AtMostOneLate
PROPERTY FullTime
PROPERTY TransitionFirst
PROPERTY LeavesMedia
CHECK_DEADLOCK FALSE
