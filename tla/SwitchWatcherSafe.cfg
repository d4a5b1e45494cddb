SPECIFICATION FairSpec
CONSTANTS
    NumLifts = 3
    Trigger = 2
    TagOf <- Tags
    DefaultTag = "default"
    SchedulerTag = "scheduler"
    NoTag = "none"
    Exits = {"handsOver", "raises", "silent"}
    MaxFlips = 6
INVARIANT TagIsUp
PROPERTY Follows
CHECK_DEADLOCK FALSE
