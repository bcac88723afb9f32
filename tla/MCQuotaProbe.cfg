SPECIFICATION Spec
CONSTANTS
    k1 = k1
    k2 = k2
    request = request
    admin = admin
    Loop = Loop
    NoFetch = NoFetch
    Task <- MCTask
    Fetch <- MCFetch
    Caller <- MCCaller
    MaxIssued = 2
SYMMETRY Symmetry
INVARIANTS AuthFileWhole MemoryHoldsNewest FileHoldsNewest OneFetchAtATime
PROPERTIES SnapshotKept

