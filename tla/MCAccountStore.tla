--------------------------- MODULE MCAccountStore ---------------------------
(* Model values and symmetry for the account store.                         *)
EXTENDS AccountStore, TLC

CONSTANTS a1, a2, t1, t2

Symmetry == Permutations(Accounts) \cup Permutations(Tasks)
=============================================================================
