CONSTANTS
    u1 = u1
    u2 = u2
    None = None
    Users = {u1, u2}
    MaxTunnels = 2
    MaxChunks = 1
SPECIFICATION Spec
INVARIANTS OneTunnel DownloadComplete StreamsCovered UserIsTold
SYMMETRY Symmetry
CHECK_DEADLOCK FALSE
