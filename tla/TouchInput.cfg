SPECIFICATION FairTouchSpec
CONSTANTS
    TUIOIDs = {1, 2}
    Nodes = {n1}
    MaxTouches = 2
    MaxListeners = 2
INVARIANT TouchesInOrder
INVARIANT Paired
PROPERTY CallsConnected
PROPERTY TouchesEnd
