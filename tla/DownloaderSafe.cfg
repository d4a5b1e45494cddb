SPECIFICATION FairSpec
CONSTANTS
    File = {"1.xlf", "2.mpg"}
    LayoutFile = {"1.xlf"}
    Version = {"A", "B", "C"}
    SizeOf <- Sizes
    First = "A"
    MaxDownloads = 3
    MaxTries = 2
    MaxEvents = 2
INVARIANT ValidIsWhole
PROPERTY Complete
PROPERTY SparesFiles
CHECK_DEADLOCK FALSE
