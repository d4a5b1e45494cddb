SPECIFICATION FairSpec
CONSTANTS
    Layout = {"a", "b", "p", "d", "z"}
    Default = "d"
    Entries <- AllEntries
    TagsOf <- AllTags
    LiftEnabled = TRUE
    ManualUpdate = FALSE
    Alien = {"z"}
    Caller = {"nextLayout"}
    Changing = {"z"}
    MaxVersion = 3
    MaxEvents = 2
    MaxTime = 3
INVARIANT MathsRight
INVARIANT NoStarvation
INVARIANT OverlookedOnShift
CHECK_DEADLOCK FALSE
PROPERTY InForce
