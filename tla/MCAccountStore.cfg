SPECIFICATION SpecStore
CONSTANTS
    a1 = a1  a2 = a2
    t1 = t1  t2 = t2
    Accounts = {a1, a2}
    Tasks = {t1, t2}
    MaxUses = 1
    NoList = NoList
    NotLoaded = NotLoaded
SYMMETRY Symmetry
INVARIANTS CacheIsFile NoUseCountedTwice EveryUseAccounted RemovalLasts PoolMatchesFile
PROPERTIES FileStaysReadable
CHECK_DEADLOCK FALSE
