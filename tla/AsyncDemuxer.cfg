SPECIFICATION Spec
CONSTANTS
    StreamIndexes <- MCStreams
    File <- MCFile
    Positions <- MCPositions
    QueueLength = 2
    MaxSeeks = 2
INVARIANT MarksMatch
PROPERTY PacketSpec
PROPERTY CallsReturn
CHECK_DEADLOCK FALSE
