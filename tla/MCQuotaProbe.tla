---------------------------- MODULE MCQuotaProbe ----------------------------
(* QuotaProbe for TLC: two fetches and a proxied request share one         *)
(* TokenManager; a handler and the snapshot loop ask for the quota.        *)
EXTENDS QuotaProbe, TLC

CONSTANTS k1, k2, request, admin

MCTask == {k1, k2, request}
MCFetch == {k1, k2}
MCCaller == {admin, Loop}
Symmetry == Permutations(MCFetch)
=============================================================================
