SPECIFICATION FairSpec
CONSTANTS
    x = x
    y = y
    None = None
    Packets = {x, y}
    MaxTunnels = 2
    Capacity = 2
INVARIANT AnswerIsOwn
PROPERTIES PendingReclaimed CloseEnds
CHECK_DEADLOCK FALSE
