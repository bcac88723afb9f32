SPECIFICATION Spec
SYMMETRY MCSymmetry
CONSTANTS
    k1 = k1
    k2 = k2
    t1 = t1
    t2 = t2
    r1 = r1
    r2 = r2
    p1 = p1
    Key = {k1, k2}
    Template = {p1}
    Task = {t1, t2}
    Request = {r1, r2}
    Quotas = {0, 1}
    Limits = {0, 1}
    MaxKeys = 2
    MaxEdits = 1
    MaxUsage = 1
    MaxBusy = 2
    NoImage = NoImage
    NoCache = NoCache
    NoKey = NoKey
    NoLimit = NoLimit
CONSTRAINT MCBusy
INVARIANTS ConfigInv MemoryReachesDisk UsageNotForgotten
INVARIANTS NoStaleGate  ClaimOverrunBounded
