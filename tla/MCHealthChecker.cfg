SPECIFICATION SpecHealth
CONSTANTS
    a1 = a1
    t1 = t1
    Accounts = {a1}
    Triggers = {t1}
    Threshold = 2
    MaxPatches = 1
    NoAccount = NoAccount
INVARIANTS SickHasFailed FailingIsMarked
PROPERTIES TokenlessGoesOff WorkingRecovers
CHECK_DEADLOCK FALSE
