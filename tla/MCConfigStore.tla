--------------------------- MODULE MCConfigStore ---------------------------
EXTENDS ConfigStore, TLC
CONSTANTS k1, k2, t1, t2, r1, r2, p1, MaxBusy
MCSymmetry == Permutations(Task) \cup Permutations(Request) \cup Permutations(Key)

\* How many routes and requests are under way at a time (bound).
MCBusy ==
    Cardinality({t \in Task : task[t] # Idle})
        + Cardinality({r \in Request : request[r] # NoKey}) <= MaxBusy
=============================================================================
