SPECIFICATION Spec
CONSTANTS
    t1 = t1
    t2 = t2
    c1 = c1
    c2 = c2
    NoCall = NoCall
    Token = {t1, t2}
    Junk = {t2}
    Call = {c1, c2}
    MaxEvents = 8
    MaxRetries = 1
INVARIANT NonStreamCarriesOutput
SYMMETRY MCSymmetry
CHECK_DEADLOCK FALSE
