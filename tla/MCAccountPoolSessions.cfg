CONSTANTS
    a1 = a1
    a2 = a2
    r1 = r1
    r2 = r2
    r3 = r3
    s1 = s1
    s2 = s2
    s3 = s3
    None = None
    Cancelled = Cancelled
    Accounts = {a1, a2}
    Requests = {r1, r2}
    Sessions = {s1, s2, s3}
    MaxSessionBindings = 2
    SessionOf <- MCSessionOf
    InitialPool <- MCTwoAccounts
    MaxC = 1
    CounterPeriod = 2
    MaxQueue = 1
SPECIFICATION Spec
INVARIANTS
    BindingsConsistent
PROPERTIES
    ImplementsLedger
