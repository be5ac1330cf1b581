SPECIFICATION FairSpec
CONSTANTS
    r1 = r1  r2 = r2  r3 = r3  p = p  q = q
    Requests = {r1, r2, r3}
    Conns = {c1, c2}
    Proxies = {p, q}
    ProxyOf <- TwoProxies
    Unavailable = {q}
    Faults = {"linkdown", "supersede", "connfail", "startfail"}
    ChanCap = 2
    NetCap = 1
    MaxSpawned = 1
    PoolCount = 1
    None = None
INVARIANTS TypeOK ConnOwnedOnce WaitingIsTracked PendingIsCovered
PROPERTIES OnlyOwnRequestDropped ImplementsRendezvous RequestEnds ControlReleased
