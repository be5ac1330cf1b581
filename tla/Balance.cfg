SPECIFICATION FairSpec
CONSTANTS
    steady = steady
    flaky = flaky
    Order <- TwoBackends
    Checked = {flaky}
    Users = {u1, u2}
    u1 = u1
    u2 = u2
    Pools = {0, 1}
    FailThreshold = 1
    MaxFailed = 2
    MaxFlips = 2
    MaxStale = 1
    None = None
PROPERTIES Recovers Detects
