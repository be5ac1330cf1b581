CONSTANTS
    p = p
    q = q
    k1 = k1
    k2 = k2
    k3 = k3
    None = None
    Configured <- TwoProxies
    Calls <- NoCalls
    MaxSessions = 1
    Capacity = 2
    MaxUsers = 1
    Faults = {}
SPECIFICATION Spec
INVARIANT ExitsOnlyWhenRefused
CHECK_DEADLOCK FALSE
