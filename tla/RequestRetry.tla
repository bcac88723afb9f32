---------------------------- MODULE RequestRetry ----------------------------
(***************************************************************************)
(* with_retry and with_stream_retry (app/utils/retry.py): how one proxied  *)
(* request borrows entries of the AccountPool, attempt after attempt.      *)
(* Every action conjoins the action of AccountPool it performs, so this    *)
(* module is the pool with its real callers.                               *)
(*                                                                         *)
(* A step is what runs between two suspensions.  The suspensions are the   *)
(* acquire, the operation, the writes of metrics and log events, the probe *)
(* and the sleep; an emit below the log level does not suspend.            *)
(* These writes do not raise: LogStore.write catches every exception and   *)
(* returns -1 (log_store.py:163-167), and so does the flush of the metrics *)
(* collector.  Only a cancellation passes through them.                    *)
(*                                                                         *)
(* Each request is served once.  Only a streaming response is cancelled    *)
(* when its client goes away: it runs in the task group of the response.   *)
(***************************************************************************)
EXTENDS AccountPool

CONSTANTS
    Streams,      \* the requests served by with_stream_retry
    MaxRetries    \* MAX_RETRIES, 3 in the code

ASSUME RetryAssumption ==
    /\ Streams \subseteq Requests
    /\ MaxRetries \in Nat

VARIABLES
    phase,        \* where the retry loop of the request stands
    attempt,      \* the loop variable
    entry,        \* the local variable entry, by account id
    outcome,      \* how the latest attempt, or the acquire, ended
    sent,         \* the client was sent part of a response
    counted       \* increment_counters tasks started for the request

retryVars == <<phase, attempt, entry, outcome, sent, counted>>
allVars == <<poolVars, retryVars>>

Phases == {"acquiring",   \* in acquire_async
           "running",     \* the operation runs; entry is held
           "closing",     \* the operation is over, a write is awaited; entry is held
           "settling",    \* entry is released; the session is not yet updated
           "backoff",     \* probe and sleep before the next attempt
           "answered",
           "cancelled"}

RetryableErrors == {"quota", "transient"}
Errors == RetryableErrors \cup {"fatal"}
Outcomes == Errors \cup {"none", "ok", "noSlot"}

\* After release, with_retry updates the session in the same step; only the
\* drain loop started by the release comes between.
MidStep == \E q \in Requests \ Streams : phase[q] = "settling"

Goes(r, p) == phase' = [phase EXCEPT ![r] = p]

PoolUntouched == ~draining /\ UNCHANGED poolVars

-----------------------------------------------------------------------------
InitRetry ==
    /\ phase = [r \in Requests |-> "acquiring"]
    /\ attempt = [r \in Requests |-> 0]
    /\ entry = [r \in Requests |-> None]
    /\ outcome = [r \in Requests |-> "none"]
    /\ sent = [r \in Requests |-> FALSE]
    /\ counted = [r \in Requests |-> 0]

RetryInit == Init /\ InitRetry

\* acquire_async returns an entry, at once or after a wait.
BeginAttempt(r) ==
    /\ phase[r] = "acquiring"
    /\ AcquireBound(r) \/ AcquireLeastLoaded(r) \/ Resume(r)
    /\ Goes(r, "running")
    /\ entry' = [entry EXCEPT ![r] = slot'[r]]
    /\ UNCHANGED <<attempt, outcome, sent, counted>>

WaitForSlot(r) ==
    /\ phase[r] = "acquiring"
    /\ Enqueue(r)
    /\ UNCHANGED retryVars

\* Mutant of GiveUp: no timer, only the race is lost.
GiveUpOnRace(r) ==
    /\ phase[r] = "acquiring"
    /\ LoseGrant(r)
    /\ Goes(r, "answered")
    /\ outcome' = [outcome EXCEPT ![r] = "noSlot"]
    /\ UNCHANGED <<attempt, entry, sent, counted>>

\* acquire_async times out and the request is refused.
GiveUp(r) ==
    /\ phase[r] = "acquiring"
    /\ AbandonWait(r) \/ LoseGrant(r)
    /\ Goes(r, "answered")
    /\ outcome' = [outcome EXCEPT ![r] = "noSlot"]
    /\ UNCHANGED <<attempt, entry, sent, counted>>

\* A chunk of the upstream's response is passed on to the client.
SendChunk(r) ==
    /\ r \in Streams /\ phase[r] = "running" /\ ~sent[r]
    /\ PoolUntouched
    /\ sent' = [sent EXCEPT ![r] = TRUE]
    /\ UNCHANGED <<phase, attempt, entry, outcome, counted>>

\* The stream ended well: metrics are recorded before the release.
StreamDone(r) ==
    /\ r \in Streams /\ phase[r] = "running"
    /\ PoolUntouched
    /\ Goes(r, "closing")
    /\ outcome' = [outcome EXCEPT ![r] = "ok"]
    /\ UNCHANGED <<attempt, entry, sent, counted>>

\* with_retry: the operation starts the counters and returns, and the slot
\* is released at once.
CallDone(r) ==
    /\ r \notin Streams /\ phase[r] = "running"
    /\ Release(r)
    /\ Goes(r, "settling")
    /\ outcome' = [outcome EXCEPT ![r] = "ok"]
    /\ counted' = [counted EXCEPT ![r] = @ + 1]
    /\ UNCHANGED <<attempt, entry, sent>>

Retries(r, e) == attempt[r] < MaxRetries /\ e \in RetryableErrors

\* with_stream_retry releases the slot first, whatever the error is.
StreamFails(r, e) ==
    /\ r \in Streams /\ phase[r] = "running"
    /\ Release(r)
    /\ Goes(r, IF Retries(r, e) THEN "settling" ELSE "answered")
    /\ outcome' = [outcome EXCEPT ![r] = e]
    /\ UNCHANGED <<attempt, entry, sent, counted>>

\* with_retry logs an error it will retry before it releases the slot.
CallFailsRetryably(r, e) ==
    /\ r \notin Streams /\ phase[r] = "running" /\ Retries(r, e)
    /\ PoolUntouched
    /\ Goes(r, "closing")
    /\ outcome' = [outcome EXCEPT ![r] = e]
    /\ UNCHANGED <<attempt, entry, sent, counted>>

\* Mutant of CallFailsFinally: the slot is not given back.
CallFailsHolding(r, e) ==
    /\ r \notin Streams /\ phase[r] = "running" /\ ~Retries(r, e)
    /\ PoolUntouched
    /\ Goes(r, "answered")
    /\ outcome' = [outcome EXCEPT ![r] = e]
    /\ UNCHANGED <<attempt, entry, sent, counted>>

\* Any other error is raised as it is, the last retryable one included: the
\* code after the loop is not reached.
CallFailsFinally(r, e) ==
    /\ r \notin Streams /\ phase[r] = "running" /\ ~Retries(r, e)
    /\ Release(r)
    /\ Goes(r, "answered")
    /\ outcome' = [outcome EXCEPT ![r] = e]
    /\ UNCHANGED <<attempt, entry, sent, counted>>

\* Mutant of Close: failed attempts are counted, too.
CloseCountingAll(r) ==
    /\ phase[r] = "closing"
    /\ Release(r)
    /\ Goes(r, "settling")
    /\ counted' = [counted EXCEPT ![r] = @ + 1]
    /\ UNCHANGED <<attempt, entry, outcome, sent>>

\* The awaited write is done and the slot is released; a stream that ended
\* well starts its counters here.
Close(r) ==
    /\ phase[r] = "closing"
    /\ Release(r)
    /\ Goes(r, "settling")
    /\ counted' = IF r \in Streams THEN [counted EXCEPT ![r] = @ + 1] ELSE counted
    /\ UNCHANGED <<attempt, entry, outcome, sent>>

\* Mutant of UpdateSession: the slot is released a second time.
UpdateSessionReleasing(r) ==
    /\ ~draining
    /\ active' = [active EXCEPT ![entry[r]] = IF @ > 0 THEN @ - 1 ELSE 0]
    /\ UNCHANGED <<pool, maxConcurrency, healthy, retired, counter, waitQueue,
                   stage, slot, draining, leaked, raised, bindingVars>>

\* The session follows a success and is set free by an exhausted quota.
UpdateSession(r) ==
    CASE SessionOf[r] # None /\ outcome[r] = "ok"    -> Bind(SessionOf[r], entry[r])
      [] SessionOf[r] # None /\ outcome[r] = "quota" -> Unbind(SessionOf[r])
      [] OTHER -> PoolUntouched

Settle(r) ==
    /\ phase[r] = "settling"
    /\ UpdateSession(r)
    /\ Goes(r, IF outcome[r] = "ok" THEN "answered" ELSE "backoff")
    /\ UNCHANGED <<attempt, entry, outcome, sent, counted>>

Retry(r) ==
    /\ phase[r] = "backoff"
    /\ PoolUntouched
    /\ Goes(r, "acquiring")
    /\ attempt' = [attempt EXCEPT ![r] = @ + 1]
    /\ UNCHANGED <<entry, outcome, sent, counted>>

\* The client of a stream goes away: the task is cancelled where it is
\* suspended, and "except Exception" does not run.
Cancel(r) ==
    /\ r \in Streams
    /\ \/ phase[r] = "acquiring" /\ (AbandonWait(r) \/ LoseGrant(r))
       \/ phase[r] \in {"running", "closing"} /\ LoseHeld(r)
       \/ phase[r] \in {"settling", "backoff"} /\ PoolUntouched
    /\ Goes(r, "cancelled")
    /\ UNCHANGED <<attempt, entry, outcome, sent, counted>>

Proceed(r) ==
    \/ BeginAttempt(r) \/ WaitForSlot(r) \/ GiveUp(r) \/ SendChunk(r)
    \/ StreamDone(r) \/ CallDone(r) \/ Close(r) \/ Retry(r)
    \/ \E e \in Errors : \/ StreamFails(r, e)
                         \/ CallFailsRetryably(r, e)
                         \/ CallFailsFinally(r, e)

RetryNext ==
    \/ Drain /\ UNCHANGED retryVars
    \/ \E r \in Requests : Settle(r)
    \/ ~MidStep /\ \E r \in Requests : Proceed(r) \/ Cancel(r)
    \/ ~MidStep /\ Administer /\ UNCHANGED retryVars

RetrySpec == RetryInit /\ [][RetryNext]_allVars

\* The drain loop runs to its end, the upstream answers or fails within its
\* timeout, and timers, writes and woken tasks get their turn.
RetryFairness ==
    /\ WF_allVars(Drain /\ UNCHANGED retryVars)
    /\ \A r \in Requests : /\ SF_allVars(Settle(r))
                           /\ SF_allVars(~MidStep /\ Proceed(r))

FairRetrySpec == RetrySpec /\ RetryFairness

-----------------------------------------------------------------------------
\* Type invariant.
RetryTypeOK ==
    /\ phase \in [Requests -> Phases]
    /\ attempt \in [Requests -> 0..MaxRetries]
    /\ entry \in [Requests -> Accounts \cup {None}]
    /\ outcome \in [Requests -> Outcomes]
    /\ sent \in [Requests -> BOOLEAN]
    /\ counted \in [Requests -> Nat]

\* Whatever way an attempt ends - success, retryable or final error, lost
\* client - the retry loop owes the pool a release exactly while it has an
\* entry, owes it to the entry it was handed, and an answered request has
\* nothing left in the pool: not a slot, not a place in the queue.
SlotsOwed ==
    \A r \in Requests :
        /\ phase[r] \in {"running", "closing"} <=> stage[r] = "holding"
        /\ phase[r] # "acquiring" => stage[r] \in {"idle", "holding"}
        /\ stage[r] = "holding" => slot[r] = entry[r]

\* Usage is counted once for a request that was answered with a response
\* and never for one that was not, however many attempts it took ("to avoid
\* double-counting on retries").
CountedOnce ==
    \A r \in Requests :
        /\ counted[r] = 0 \/ (counted[r] = 1 /\ outcome[r] = "ok")
        /\ phase[r] = "answered" /\ outcome[r] = "ok" => counted[r] = 1

\* The callers use the pool as AccountPool describes: every step of a retry
\* loop is one call of the pool or none, so whatever holds of AccountPool
\* holds of the pool behind the proxy routes.
UsesPool == Spec

\* Every request ends, with an answer or with its client gone.
RequestEnds ==
    \A r \in Requests : <>(phase[r] \in {"answered", "cancelled"})

-----------------------------------------------------------------------------
\* The inductive invariant of the proofs in RequestRetryProofs.

\* What the local variables of one retry loop say at each of its stages:
\* the usage is counted only behind a success, an attempt that another one
\* follows failed, and entry names an account while it is needed.
Books(r) ==
    /\ phase[r] \in {"running", "closing", "settling"} => entry[r] \in Accounts
    /\ counted[r] \in {0, 1}
    /\ counted[r] = 1 => /\ outcome[r] = "ok"
                         /\ phase[r] \in {"settling", "answered", "cancelled"}
    /\ phase[r] \in {"settling", "answered"} /\ outcome[r] = "ok" => counted[r] = 1
    /\ phase[r] = "closing" =>
         IF r \in Streams THEN outcome[r] = "ok"
         ELSE outcome[r] \in RetryableErrors /\ attempt[r] < MaxRetries
    /\ phase[r] = "settling" /\ outcome[r] # "ok" => attempt[r] < MaxRetries
    /\ phase[r] = "backoff" => attempt[r] < MaxRetries /\ outcome[r] # "ok"
    /\ phase[r] \in {"acquiring", "running"} => outcome[r] # "ok"

RetryInv ==
    /\ PoolInv
    /\ RetryTypeOK
    /\ SlotsOwed
    /\ \A r \in Requests : Books(r)
=============================================================================
