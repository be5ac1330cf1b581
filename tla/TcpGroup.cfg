SPECIFICATION GroupFairSpec
CONSTANTS
    m1 = m1
    m2 = m2
    m3 = m3
    Members = {m1, m2, m3}
    MaxInstances = 3
    Modes = {"calm", "churn"}
INVARIANTS SharedWhenCalm PortExact NoGhostBackends
PROPERTY PortComesBack
CHECK_DEADLOCK FALSE
