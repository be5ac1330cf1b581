CONSTANTS
    p = p
    q = q
    k1 = k1
    k2 = k2
    k3 = k3
    None = None
    Configured <- OneProxy
    Calls <- AdminCalls
    MaxSessions = 2
    Capacity = 2
    MaxUsers = 2
    Faults = {"unreachable", "config", "break", "silence", "refuse", "slow"}
SPECIFICATION FairSpec
INVARIANTS AnswerIsOwn ServerProxiesKnown
PROPERTIES SkippedOnlyAfterClose Reconnects CallsReturn
CHECK_DEADLOCK FALSE
