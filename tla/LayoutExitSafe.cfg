SPECIFICATION Spec
CONSTANTS
    NumRegions = 2
    Invalid = {2}
    Empty = {1}
    Single = {}
    ExitTransition = {1}
    DisposeRaises = {2}
    NumExternal = 1
    Splash = TRUE
    NoColour = TRUE
    Mistaken = TRUE
    RunRaises = TRUE
    BuiltFirst = FALSE
    OutsideLater = FALSE
INVARIANT HandoverOnce
INVARIANT HoldRespected
INVARIANT TransitionOnce
CHECK_DEADLOCK FALSE
