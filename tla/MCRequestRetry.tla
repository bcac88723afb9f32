--------------------------- MODULE MCRequestRetry ---------------------------
(* RequestRetry for TLC: a streaming and a plain request of one session.   *)
EXTENDS RequestRetry, TLC

CONSTANTS a1, a2, r1, r2, s1

MCOneSession == [r \in Requests |-> s1]
MCStreamSession == [r \in Requests |-> IF r = r1 THEN s1 ELSE None]
MCOneAccount == <<a1>>
MCTwoAccounts == <<a1, a2>>
=============================================================================
