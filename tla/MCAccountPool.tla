--------------------------- MODULE MCAccountPool ---------------------------
(* AccountPool for TLC.  MCNoSessions leaves the session table empty for   *)
(* the run about slots and the queue; MCSessionOf gives each of two requests *)
(* a session of its own.                                                   *)
EXTENDS AccountPool, TLC

CONSTANTS a1, a2, r1, r2, r3, s1, s2, s3

MCNoSessions == [r \in Requests |-> None]
MCSessionOf == [r \in Requests |-> IF r = r1 THEN s1 ELSE s2]
Symmetry == Permutations(Requests)
MCOneAccount == <<a1>>
MCTwoAccounts == <<a1, a2>>
=============================================================================
