SPECIFICATION Spec
CONSTANTS
    r1 = r1
    r2 = r2
    r3 = r3
    c = c
    d = d
    a = a
    ab = ab
    Runs = {r1, r2}
    ClientOf <- TwoClients
    NoClient = NoClient
    Names = {a, ab}
    SuffixOf <- PlainNames
    Ids = {0, 1, 2}
    Scenes <- Reconnect
    None = None
PROPERTY TakeoverCompletes
CHECK_DEADLOCK FALSE
