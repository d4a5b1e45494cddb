SPECIFICATION FairSpec
CONSTANTS
    NumRegions = 2
    Invalid = {}
    Empty = {}
    Single = {1}
    ExitTransition = {2}
    DisposeRaises = {}
    NumExternal = 1
    Splash = TRUE
    NoColour = FALSE
    Mistaken = TRUE
    RunRaises = FALSE
    BuiltFirst = TRUE
    OutsideLater = TRUE
INVARIANT TypeOK
INVARIANT ExpiredWhole
PROPERTY LifeSpec
PROPERTY HandsOver
CHECK_DEADLOCK FALSE
