----------------------------- MODULE QuotaProbe -----------------------------
(***************************************************************************)
(* The quota of one account (services/quota_probe.py): one fetch shared by *)
(* those who ask while it runs, a cache with a time to live, and the       *)
(* pool's public snapshot (services/pool_quota_snapshot.py), a loop that   *)
(* asks like everybody else.  A fetch gets its token from the TokenManager *)
(* it shares with the account's requests.  The usage service is external.  *)
(***************************************************************************)
EXTENDS TokenManager, FiniteSets

CONSTANTS
    Fetch,      \* the tasks of Task that run _fetch_quota; the others are proxied requests
    Caller,     \* handlers of the quota routes, and Loop
    Loop,       \* the pool quota refresh loop
    NoFetch

ASSUME QuotaAssumption == Fetch \subseteq Task /\ Loop \in Caller /\ NoFetch \notin Fetch

VARIABLES
    cached,     \* _cache holds an entry that has not expired
    inflight,   \* _inflight
    fetch,      \* what each fetch is doing, or came to
    probe,      \* the fetch each caller awaits, and whether it created it
    snapshot,   \* _snapshot: its status, and whether it has a snapshotAt
    displaced   \* history: a creator dropped the entry of somebody else's fetch

quotaVars == <<cached, inflight, fetch, probe, snapshot, displaced>>
vars == <<tokenVars, quotaVars>>

Running == {"token", "querying", "cancelling"}
Outcomes == {"quota", "nothing", "cancelled"}
NotAsking == [on |-> NoFetch, creator |-> FALSE]
Unavailable == [status |-> "unavailable", measured |-> FALSE]

QuotaInit ==
    /\ cached = FALSE
    /\ inflight = NoFetch
    /\ fetch = [k \in Fetch |-> "none"]
    /\ probe = [c \in Caller |-> NotAsking]
    /\ snapshot = Unavailable
    /\ displaced = FALSE

Init == TokenInit /\ QuotaInit

----------------------------------------------------------------------------
\* probe_quota and refresh_quota, without a valid entry in the cache

CreateFetch(c) ==
    \E k \in Fetch :
        /\ fetch[k] = "none" /\ call[k] = Idle
        /\ fetch' = [fetch EXCEPT ![k] = "token"]
        /\ inflight' = k
        /\ probe' = [probe EXCEPT ![c] = [on |-> k, creator |-> TRUE]]
        /\ GetAccessToken(k)

AskAlways(c) == CreateFetch(c)

Ask(c) ==
    IF inflight # NoFetch /\ fetch[inflight] \in Running
    THEN /\ probe' = [probe EXCEPT ![c] = [on |-> inflight, creator |-> FALSE]]
         /\ UNCHANGED <<fetch, inflight, tokenVars>>
    ELSE CreateFetch(c)

\* A quota route (forced: one of the refresh routes, which drop the cached entry first).
Probe(c) ==
    /\ probe[c] = NotAsking /\ c # Loop
    /\ \E forced \in BOOLEAN :
          /\ forced \/ ~cached
          /\ cached' = FALSE
    /\ Ask(c)
    /\ UNCHANGED <<snapshot, displaced>>

\* _fetch_quota

GetsToken(k) ==
    /\ fetch[k] = "token" /\ call[k].pc = "returned"
    /\ fetch' = [fetch EXCEPT ![k] = IF tm.access = 0 THEN "nothing" ELSE "querying"]
    /\ CallEnds(k)
    /\ UNCHANGED <<cached, inflight, probe, snapshot, displaced>>

\* The usage service answers; an error, another status or a bad body gives None.
Answered(k) ==
    /\ fetch[k] = "querying"
    /\ \/ fetch' = [fetch EXCEPT ![k] = "quota"] /\ cached' = TRUE
       \/ fetch' = [fetch EXCEPT ![k] = "nothing"] /\ UNCHANGED cached
    /\ UNCHANGED <<tokenVars, inflight, probe, snapshot, displaced>>

\* CancelledError reaches the fetch.
FetchCancelled(k) ==
    /\ fetch[k] = "cancelling"
    /\ fetch' = [fetch EXCEPT ![k] = "cancelled"]
    /\ IF call[k].pc = "idle" THEN UNCHANGED tokenVars ELSE CancelCall(k) \/ CallEnds(k)
    /\ UNCHANGED <<cached, inflight, probe, snapshot, displaced>>

CacheExpires ==
    /\ cached
    /\ cached' = FALSE
    /\ UNCHANGED <<tokenVars, inflight, fetch, probe, snapshot, displaced>>

----------------------------------------------------------------------------
\* A caller is resumed with the outcome of its fetch.  The creator drops the in-flight entry,
\* whosever it is by now.

Resume(c) ==
    LET k == probe[c].on
        last == \A d \in Caller \ {c} : probe[d].on # k IN
    /\ k # NoFetch /\ fetch[k] \in Outcomes
    /\ probe' = [probe EXCEPT ![c] = NotAsking]
    /\ fetch' = [fetch EXCEPT ![k] = IF last THEN "none" ELSE @]
    /\ IF probe[c].creator
       THEN /\ inflight' = NoFetch
            /\ displaced' = (displaced \/ inflight \notin {k, NoFetch})
       ELSE UNCHANGED <<inflight, displaced>>

Return(c) ==
    /\ c # Loop
    /\ Resume(c)
    /\ UNCHANGED <<tokenVars, cached, snapshot>>

\* The caller's own task is cancelled: so is the fetch it awaits, for everybody.
CancelCaller(c) ==
    LET k == probe[c].on IN
    /\ k # NoFetch /\ fetch[k] \in {"token", "querying"}
    /\ c # Loop
    /\ fetch' = [fetch EXCEPT ![k] = "cancelling"]
    /\ UNCHANGED <<tokenVars, cached, inflight, probe, snapshot, displaced>>

----------------------------------------------------------------------------
\* refresh_snapshot, for a pool of this account

\* Without an eligible account there is nothing to ask.
RefreshSnapshot ==
    /\ probe[Loop] = NotAsking
    /\ \/ /\ snapshot' = Unavailable
          /\ UNCHANGED <<tokenVars, cached, inflight, fetch, probe>>
       \/ /\ cached' = FALSE
          /\ Ask(Loop)
          /\ UNCHANGED snapshot
    /\ UNCHANGED displaced

MeasuredForgetting(outcome) ==
    CASE outcome = "quota" -> [status |-> "ok", measured |-> TRUE]
      [] outcome = "nothing" -> Unavailable
      [] OTHER -> snapshot

\* A fetch that somebody cancelled is an error of the refresh, which the loop logs.
Measured(outcome) ==
    CASE outcome = "quota" -> [status |-> "ok", measured |-> TRUE]
      [] outcome = "nothing" -> IF snapshot.measured THEN [snapshot EXCEPT !.status = "stale"]
                                ELSE Unavailable
      [] OTHER -> snapshot

TakeMeasurement ==
    /\ Resume(Loop)
    /\ snapshot' = Measured(fetch[probe[Loop].on])
    /\ UNCHANGED <<tokenVars, cached>>

----------------------------------------------------------------------------
\* The tasks' token calls; a proxied request asks for a token at any time and may be cancelled.
Token(k) ==
    /\ \/ CallStep(k) /\ (k \in Fetch => fetch[k] # "cancelling")
       \/ k \notin Fetch /\ (GetAccessToken(k) \/ CancelCall(k) \/ CallEnds(k))
    /\ UNCHANGED quotaVars

\* The process stops and starts again.
Crash ==
    /\ CrashTokens
    /\ cached' = FALSE /\ inflight' = NoFetch /\ displaced' = FALSE
    /\ fetch' = [k \in Fetch |-> "none"]
    /\ probe' = [c \in Caller |-> NotAsking]
    /\ snapshot' = Unavailable
Expire == TokensExpire /\ UNCHANGED quotaVars

Next ==
    \/ \E k \in Task : Token(k)
    \/ \E k \in Fetch : GetsToken(k) \/ Answered(k) \/ FetchCancelled(k)
    \/ \E c \in Caller : Probe(c) \/ Return(c) \/ CancelCaller(c)
    \/ CacheExpires \/ RefreshSnapshot \/ TakeMeasurement
    \/ Crash \/ Expire

Spec == Init /\ [][Next]_vars

----------------------------------------------------------------------------
\* One fetch of the account at a time ("deduplicates concurrent requests", probe_quota), for as
\* long as no creator has dropped the entry of a fetch begun after its own had ended: its
\* `finally` runs later than the end of the fetch and drops whatever it finds.
OneFetchAtATime ==
    displaced \/ Cardinality({k \in Fetch : fetch[k] \in Running}) <= 1

\* Once the quota has been measured the snapshot keeps a measurement, whatever the next ones
\* come to: a failed or cancelled fetch makes it stale at worst, not unavailable.
SnapshotKept ==
    [][probe[Loop].on # NoFetch /\ snapshot.measured => snapshot'.measured \/ Crash]_vars
=============================================================================
