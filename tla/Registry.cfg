SPECIFICATION Spec
CONSTANTS
    r1 = r1
    r2 = r2
    r3 = r3
    c = c
    d = d
    a = a
    ab = ab
    Runs = {r1, r2, r3}
    ClientOf <- TwoClients
    NoClient = NoClient
    Names = {a}
    SuffixOf <- PlainNames
    Ids = {0, 1, 2}
    Scenes <- AwaitsAndThreads
    None = None
INVARIANT PortsMatchListeners
INVARIANT NamesMatch
INVARIANT RecordsMatch
INVARIANT NothingLeaks
PROPERTY ShutdownSameClient
CHECK_DEADLOCK FALSE
