CONSTANTS
    a1 = a1
    a2 = a2
    r1 = r1
    r2 = r2
    s1 = s1
    None = None
    Cancelled = Cancelled
    Accounts = {a1, a2}
    Requests = {r1, r2}
    Streams = {r1}
    Sessions = {s1}
    MaxSessionBindings = 1
    SessionOf <- MCStreamSession
    InitialPool <- MCTwoAccounts
    MaxC = 1
    CounterPeriod = 2
    MaxQueue = 2
    MaxRetries = 1
SPECIFICATION RetrySpec
INVARIANTS
    SlotsOwed
    CountedOnce
