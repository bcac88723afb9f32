CONSTANTS
    a1 = a1
    a2 = a2
    r1 = r1
    r2 = r2
    r3 = r3
    s1 = s1
    s2 = s2
    s3 = s3
    None = None
    Cancelled = Cancelled
    Accounts = {a1, a2}
    Requests = {r1, r2, r3}
    Sessions = {}
    MaxSessionBindings = 1
    SessionOf <- MCNoSessions
    InitialPool <- MCOneAccount
    MaxC = 2
    CounterPeriod = 2
    MaxQueue = 3
SYMMETRY Symmetry
SPECIFICATION Spec
INVARIANTS
    SlotAccounting
    NoIdleSlotWhileWaiting
    QueueMatchesWaiters
PROPERTIES
    NoBarging
