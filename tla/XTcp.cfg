CONSTANTS
    v1 = v1
    v2 = v2
    None = None
    Visitors = {v1, v2}
    Paths = {"vo", "ov"}
    Relay = TRUE
    Lossy = TRUE
    Slow = TRUE
SPECIFICATION FairSpec
INVARIANTS PeerIsOwn PendingIsAnswered
 
CHECK_DEADLOCK FALSE
