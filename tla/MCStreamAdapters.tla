-------------------------- MODULE MCStreamAdapters --------------------------
EXTENDS StreamAdapters, TLC
CONSTANTS t1, t2, c1, c2

\* No definition tells one call from another.
MCSymmetry == Permutations(Call)
=============================================================================
