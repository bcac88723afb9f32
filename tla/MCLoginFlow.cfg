SPECIFICATION FairSpec
CONSTANTS
    s1 = s1
    a1 = a1
    a2 = a2
    Session = {s1}
    Actor = {a1, a2}
INVARIANTS OnlyLoggedInPooled PooledHasHome
PROPERTIES LoginEnds PlaceIsFreed
CHECK_DEADLOCK FALSE
