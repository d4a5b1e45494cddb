SPECIFICATION FairSpec
CONSTANTS
    NumFrames = 2
    NumSounds = 1
    QueueLength = 1
    AudioQueue = 2
    MaxSkip = 1
    HoldsBack = TRUE
    MaxOps = 3
INVARIANT SeekDoneAwaited
PROPERTY Closes
PROPERTY PlaysToEnd
CHECK_DEADLOCK FALSE
