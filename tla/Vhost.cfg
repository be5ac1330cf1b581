SPECIFICATION Spec
CONSTANTS
    p1 = p1
    p2 = p2
    p3 = p3
    d1 = d1
    d2 = d2
    Proxies = {p1, p2, p3}
    Domains = {d1, d2}
    DomainsOf <- SharedDomain
    Threads = {"one", "many"}
    MaxPicks = 5
    MaxFailures = 1
INVARIANTS RoutesMatch SpreadEvenly ListenerServes
SYMMETRY Alike
CHECK_DEADLOCK FALSE
