------------------------- MODULE RequestRetryProofs -------------------------
(***************************************************************************)
(* The retry loops use the pool as AccountPool describes, so the theorems  *)
(* of AccountPoolProofs hold behind the proxy routes; and every way out of *)
(* an attempt settles its slot and its usage count exactly once.           *)
(***************************************************************************)
EXTENDS RequestRetry, AccountPoolProofs

-----------------------------------------------------------------------------
(* Every step of a retry loop is a step of the pool or leaves it alone.    *)

LEMMA ProceedUsesPool ==
    ASSUME NEW r \in Requests, Proceed(r)
    PROVE  [Next]_poolVars
<1>1. CASE BeginAttempt(r)
  BY <1>1 DEF BeginAttempt, Next, Acquire
<1>2. CASE WaitForSlot(r)
  BY <1>2 DEF WaitForSlot, Next, Acquire
<1>3. CASE GiveUp(r)
  BY <1>3 DEF GiveUp, Next
<1>4. CASE SendChunk(r) \/ StreamDone(r) \/ Retry(r)
  BY <1>4 DEF SendChunk, StreamDone, Retry, PoolUntouched
<1>5. CASE CallDone(r) \/ Close(r)
  BY <1>5 DEF CallDone, Close, Next
<1>6. ASSUME NEW e \in Errors, StreamFails(r, e) \/ CallFailsFinally(r, e)
      PROVE  [Next]_poolVars
  BY <1>6 DEF StreamFails, CallFailsFinally, Next
<1>7. ASSUME NEW e \in Errors, CallFailsRetryably(r, e)
      PROVE  [Next]_poolVars
  BY <1>7 DEF CallFailsRetryably, PoolUntouched
<1> QED
  BY <1>1, <1>2, <1>3, <1>4, <1>5, <1>6, <1>7 DEF Proceed

LEMMA CancelUsesPool ==
    ASSUME NEW r \in Requests, Cancel(r)
    PROVE  [Next]_poolVars
<1>1. CASE AbandonWait(r) \/ LoseGrant(r) \/ LoseHeld(r)
  BY <1>1 DEF Next
<1>2. CASE PoolUntouched
  BY <1>2 DEF PoolUntouched
<1> QED
  BY <1>1, <1>2 DEF Cancel

\* The account a settling request binds its session to is the one it was
\* handed, hence an account.
LEMMA SettleUsesPool ==
    ASSUME NEW r \in Requests, Settle(r), entry[r] \in Accounts
    PROVE  [Next]_poolVars
<1> DEFINE s == SessionOf[r]
<1>1. s \in Sessions \cup {None}
  BY PoolAssumption
<1>2. CASE s # None /\ outcome[r] = "ok"
  <2>1. Bind(s, entry[r])
    BY <1>2 DEF Settle, UpdateSession
  <2> QED
    BY <1>1, <1>2, <2>1 DEF Next
<1>3. CASE s # None /\ outcome[r] = "quota"
  <2>1. Unbind(s)
    BY <1>3 DEF Settle, UpdateSession
  <2> QED
    BY <1>1, <1>3, <2>1 DEF Next
<1>4. CASE s = None \/ outcome[r] \notin {"ok", "quota"}
  <2>1. PoolUntouched
    BY <1>4 DEF Settle, UpdateSession
  <2> QED
    BY <2>1 DEF PoolUntouched
<1> QED
  BY <1>2, <1>3, <1>4

-----------------------------------------------------------------------------
(* RetryInv holds initially, and every step keeps the pool's invariant.     *)

RetryStep == RetryNext \/ UNCHANGED allVars

LEMMA RetryStepUsesPool ==
    ASSUME RetryInv, RetryStep
    PROVE  [Next]_poolVars
<1>1. CASE Drain
  BY <1>1 DEF Next
<1>2. ASSUME NEW r \in Requests, Settle(r)
      PROVE  [Next]_poolVars
  <2>1. entry[r] \in Accounts
    BY <1>2 DEF RetryInv, Books, Settle
  <2> QED
    BY <1>2, <2>1, SettleUsesPool
<1>3. ASSUME NEW r \in Requests, Proceed(r) \/ Cancel(r)
      PROVE  [Next]_poolVars
  BY <1>3, ProceedUsesPool, CancelUsesPool
<1>4. CASE Administer
  BY <1>4 DEF Next
<1>5. CASE UNCHANGED allVars
  BY <1>5 DEF allVars
<1> QED
  BY <1>1, <1>2, <1>3, <1>4, <1>5 DEF RetryStep, RetryNext

LEMMA RetryInitInv == RetryInit => RetryInv
<1> SUFFICES ASSUME RetryInit
             PROVE  RetryInv
  OBVIOUS
<1>1. PoolInv
  BY InitInv DEF RetryInit
<1>2. RetryTypeOK
  BY RetryAssumption DEF RetryInit, InitRetry, RetryTypeOK, Phases, Outcomes, Errors
<1>3. SlotsOwed
  BY DEF RetryInit, InitRetry, Init, InitPoolState, SlotsOwed
<1> QED
  BY <1>1, <1>2, <1>3 DEF RetryInv, Books, RetryInit, InitRetry

-----------------------------------------------------------------------------
(* What the calls of the pool do to the request that makes them.           *)

\* A step moves the stage and the slot of r at most, and to these values.
Moves(r, st, sl) ==
    /\ stage' = [stage EXCEPT ![r] = st]
    /\ slot' = [slot EXCEPT ![r] = sl]

LEMMA AcquireMoves ==
    ASSUME TypeOK, SlotMatchesStage, NEW r \in Requests,
           AcquireBound(r) \/ AcquireLeastLoaded(r) \/ Resume(r)
    PROVE  \E a \in Accounts : Moves(r, "holding", a)
<1>1. Pooled \subseteq Accounts
  BY PooledAccounts
<1>2. CASE AcquireBound(r)
  BY <1>1, <1>2 DEF AcquireBound, BoundEntry, HandOver, Moves
<1>3. CASE AcquireLeastLoaded(r)
  BY <1>1, <1>3, SelectedHasRoom DEF AcquireLeastLoaded, HandOver, Moves
<1>4. CASE Resume(r)
  <2>1. slot[r] \in Accounts
    BY <1>4 DEF Resume, TypeOK, SlotMatchesStage
  <2>2. slot' = [slot EXCEPT ![r] = slot[r]]
    BY <1>4 DEF Resume, TypeOK
  <2> QED
    BY <1>4, <2>1, <2>2 DEF Resume, Moves
<1> QED
  BY <1>2, <1>3, <1>4

LEMMA LeaveMoves ==
    ASSUME TypeOK, SlotMatchesStage, NEW r \in Requests,
           \/ AbandonWait(r) \/ LoseGrant(r) \/ LoseHeld(r) \/ Release(r)
    PROVE  Moves(r, "idle", None)
<1>1. CASE AbandonWait(r)
  <2>1. slot[r] = None
    BY <1>1 DEF AbandonWait, SlotMatchesStage
  <2>2. slot' = [slot EXCEPT ![r] = None]
    BY <1>1, <2>1 DEF AbandonWait, TypeOK
  <2> QED
    BY <1>1, <2>2 DEF AbandonWait, Moves
<1>2. CASE LoseGrant(r) \/ LoseHeld(r)
  BY <1>2 DEF LoseGrant, LoseHeld, Forget, Moves
<1>3. CASE Release(r)
  BY <1>3 DEF Release, Moves
<1> QED
  BY <1>1, <1>2, <1>3

LEMMA UntouchedMoves ==
    ASSUME TypeOK, NEW r \in Requests, UNCHANGED <<stage, slot>>
    PROVE  Moves(r, stage[r], slot[r])
BY DEF TypeOK, Moves

-----------------------------------------------------------------------------
(* Each step keeps the books of the loop and the slots it owes.            *)

\* What RetryInv says beyond the pool.
LoopsInv == RetryTypeOK /\ SlotsOwed /\ \A r \in Requests : Books(r)

LEMMA BeginKeepsLoops ==
    ASSUME RetryInv, NEW r \in Requests, BeginAttempt(r)
    PROVE  LoopsInv'
<1>1. PICK a \in Accounts : Moves(r, "holding", a)
  BY AcquireMoves DEF BeginAttempt, RetryInv, PoolInv
<1>2. entry' = [entry EXCEPT ![r] = a]
  BY <1>1 DEF BeginAttempt, Moves, RetryInv, PoolInv, TypeOK
<1> USE <1>1, <1>2 DEF BeginAttempt, Goes, Moves
<1>3. RetryTypeOK'
  BY DEF RetryInv, RetryTypeOK, Phases
<1>4. SlotsOwed'
  BY DEF RetryInv, RetryTypeOK, SlotsOwed, PoolInv, TypeOK
<1>5. \A q \in Requests : Books(q)'
  BY DEF RetryInv, RetryTypeOK, Books
<1> QED
  BY <1>3, <1>4, <1>5 DEF LoopsInv

LEMMA WaitKeepsLoops ==
    ASSUME RetryInv, NEW r \in Requests, WaitForSlot(r)
    PROVE  LoopsInv'
<1>1. Moves(r, "waiting", slot[r])
  BY DEF WaitForSlot, Enqueue, RetryInv, PoolInv, TypeOK, Moves
<1> USE <1>1 DEF WaitForSlot, Moves, retryVars
<1>2. RetryTypeOK'
  BY DEF RetryInv, RetryTypeOK
<1>3. SlotsOwed'
  BY DEF RetryInv, RetryTypeOK, SlotsOwed, PoolInv, TypeOK
<1>4. \A q \in Requests : Books(q)'
  BY DEF RetryInv, RetryTypeOK, Books
<1> QED
  BY <1>2, <1>3, <1>4 DEF LoopsInv

\* Leaving the pool's hands for good: refused, or the client is gone.
LEMMA LeaveKeepsLoops ==
    ASSUME RetryInv, NEW r \in Requests, GiveUp(r) \/ Cancel(r)
    PROVE  LoopsInv'
<1> USE DEF RetryInv, PoolInv
<1>1. Moves(r, "idle", None)
  <2>1. CASE AbandonWait(r) \/ LoseGrant(r) \/ LoseHeld(r)
    BY <2>1, LeaveMoves
  <2>2. CASE phase[r] \in {"settling", "backoff"} /\ PoolUntouched
    <3>1. stage[r] = "idle"
      BY <2>2 DEF SlotsOwed
    <3>2. slot[r] = None
      BY <3>1 DEF SlotMatchesStage
    <3> QED
      BY <2>2, <3>1, <3>2 DEF Moves, TypeOK, PoolUntouched, poolVars
  <2> QED
    BY <2>1, <2>2 DEF GiveUp, Cancel
<1>2. /\ phase' = [phase EXCEPT ![r] = phase'[r]]
      /\ phase'[r] \in {"answered", "cancelled"}
      /\ outcome' = [outcome EXCEPT ![r] = outcome'[r]]
      /\ outcome'[r] \in Outcomes
      /\ outcome'[r] = outcome[r] \/ (phase[r] = "acquiring" /\ outcome'[r] = "noSlot")
      /\ phase'[r] = "answered" => outcome'[r] = "noSlot"
      /\ UNCHANGED <<attempt, entry, sent, counted>>
  BY DEF GiveUp, Cancel, Goes, RetryTypeOK, Outcomes
<1> USE <1>1, <1>2 DEF Moves
<1>3. RetryTypeOK'
  BY DEF RetryTypeOK, Phases
<1>4. SlotsOwed'
  BY DEF RetryTypeOK, SlotsOwed, TypeOK
<1>5. \A q \in Requests : Books(q)'
  BY DEF RetryTypeOK, Books
<1> QED
  BY <1>3, <1>4, <1>5 DEF LoopsInv

\* The slot stays where it is.
LEMMA StayKeepsLoops ==
    ASSUME RetryInv, NEW r \in Requests,
           \/ SendChunk(r) \/ StreamDone(r) \/ Retry(r)
           \/ \E e \in Errors : CallFailsRetryably(r, e)
    PROVE  LoopsInv'
<1> USE DEF RetryInv, PoolInv
<1>1. UNCHANGED <<stage, slot>>
  BY DEF SendChunk, StreamDone, Retry, CallFailsRetryably, PoolUntouched, poolVars
<1>2. CASE SendChunk(r)
  BY <1>1, <1>2 DEF SendChunk, LoopsInv, RetryTypeOK, SlotsOwed, Books
<1>3. CASE StreamDone(r)
  <2> USE <1>1, <1>3 DEF StreamDone, Goes
  <2>1. RetryTypeOK' /\ SlotsOwed'
    BY DEF RetryTypeOK, SlotsOwed, Phases, Outcomes
  <2>2. \A q \in Requests : Books(q)'
    BY DEF RetryTypeOK, Books
  <2> QED
    BY <2>1, <2>2 DEF LoopsInv
<1>4. CASE Retry(r)
  <2> USE <1>1, <1>4 DEF Retry, Goes
  <2>1. attempt[r] < MaxRetries
    BY DEF Books
  <2>2. RetryTypeOK' /\ SlotsOwed'
    BY <2>1, RetryAssumption DEF RetryTypeOK, SlotsOwed, Phases
  <2>3. \A q \in Requests : Books(q)'
    BY <2>1 DEF RetryTypeOK, Books
  <2> QED
    BY <2>2, <2>3 DEF LoopsInv
<1>5. ASSUME NEW e \in Errors, CallFailsRetryably(r, e)
      PROVE  LoopsInv'
  <2> USE <1>1, <1>5 DEF CallFailsRetryably, Goes, Retries
  <2>1. RetryTypeOK' /\ SlotsOwed'
    BY DEF RetryTypeOK, SlotsOwed, Phases, Outcomes
  <2>2. \A q \in Requests : Books(q)'
    BY DEF RetryTypeOK, Books, RetryableErrors
  <2> QED
    BY <2>1, <2>2 DEF LoopsInv
<1> QED
  BY <1>2, <1>3, <1>4, <1>5

\* The slot is released: by a call that is done, by an error, or after the
\* awaited write.
LEMMA ReleaseKeepsLoops ==
    ASSUME RetryInv, NEW r \in Requests,
           \/ CallDone(r) \/ Close(r)
           \/ \E e \in Errors : StreamFails(r, e) \/ CallFailsFinally(r, e)
    PROVE  LoopsInv'
<1> USE DEF RetryInv, PoolInv
<1>1. Moves(r, "idle", None)
  BY LeaveMoves DEF CallDone, Close, StreamFails, CallFailsFinally
<1> USE <1>1 DEF Moves, Goes
<1>2. CASE CallDone(r)
  <2> USE <1>2 DEF CallDone
  <2>1. RetryTypeOK' /\ SlotsOwed'
    BY DEF RetryTypeOK, SlotsOwed, Phases, Outcomes, TypeOK
  <2>2. \A q \in Requests : Books(q)'
    BY DEF RetryTypeOK, Books
  <2> QED
    BY <2>1, <2>2 DEF LoopsInv
<1>3. CASE Close(r)
  <2> USE <1>3 DEF Close
  <2>1. RetryTypeOK' /\ SlotsOwed'
    BY DEF RetryTypeOK, SlotsOwed, Phases, TypeOK
  <2>2. \A q \in Requests : Books(q)'
    BY DEF RetryTypeOK, Books, RetryableErrors
  <2> QED
    BY <2>1, <2>2 DEF LoopsInv
<1>4. ASSUME NEW e \in Errors, StreamFails(r, e)
      PROVE  LoopsInv'
  <2> USE <1>4 DEF StreamFails, Retries
  <2>1. RetryTypeOK' /\ SlotsOwed'
    BY DEF RetryTypeOK, SlotsOwed, Phases, Outcomes, TypeOK
  <2>2. \A q \in Requests : Books(q)'
    BY DEF RetryTypeOK, Books, Errors, RetryableErrors
  <2> QED
    BY <2>1, <2>2 DEF LoopsInv
<1>5. ASSUME NEW e \in Errors, CallFailsFinally(r, e)
      PROVE  LoopsInv'
  <2> USE <1>5 DEF CallFailsFinally
  <2>1. RetryTypeOK' /\ SlotsOwed'
    BY DEF RetryTypeOK, SlotsOwed, Phases, Outcomes, TypeOK
  <2>2. \A q \in Requests : Books(q)'
    BY DEF RetryTypeOK, Books, Errors, RetryableErrors
  <2> QED
    BY <2>1, <2>2 DEF LoopsInv
<1> QED
  BY <1>2, <1>3, <1>4, <1>5

LEMMA SettleKeepsLoops ==
    ASSUME RetryInv, NEW r \in Requests, Settle(r)
    PROVE  LoopsInv'
<1> USE DEF RetryInv, PoolInv, Settle, Goes
<1>1. UNCHANGED <<stage, slot>>
  BY DEF UpdateSession, Bind, Unbind, PoolUntouched, poolVars
<1>2. RetryTypeOK' /\ SlotsOwed'
  BY <1>1 DEF RetryTypeOK, SlotsOwed, Phases
<1>3. \A q \in Requests : Books(q)'
  BY DEF RetryTypeOK, Books
<1> QED
  BY <1>2, <1>3 DEF LoopsInv

\* The drain loop and the administrator touch no loop; a drain hands an
\* entry to a request that waits in acquire_async.
LEMMA PoolKeepsLoops ==
    ASSUME RetryInv, Drain \/ Administer, UNCHANGED retryVars
    PROVE  LoopsInv'
<1> USE DEF RetryInv, PoolInv, retryVars
<1>1. CASE UNCHANGED <<stage, slot>>
  BY <1>1 DEF LoopsInv, RetryTypeOK, SlotsOwed, Books
<1>2. CASE DrainGrant
  <2> DEFINE h == Head(waitQueue)
  <2>1. 1 \in DOMAIN waitQueue /\ h = waitQueue[1]
    BY <1>2 DEF DrainGrant, TypeOK
  <2>2. h \in Waiting
    BY <1>2, <2>1 DEF DrainGrant, QueueMatchesWaiters
  <2>3. phase[h] = "acquiring"
    BY <2>2 DEF Waiting, SlotsOwed, RetryTypeOK, Phases
  <2>4. PICK a \in Accounts : Moves(h, "granted", a)
    BY <1>2, SelectedHasRoom DEF DrainGrant, HandOver, Moves
  <2> HIDE DEF h
  <2>5. SlotsOwed'
    BY <2>2, <2>3, <2>4 DEF Moves, Waiting, SlotsOwed, TypeOK
  <2>6. RetryTypeOK' /\ \A q \in Requests : Books(q)'
    BY DEF RetryTypeOK, Books
  <2> QED
    BY <2>5, <2>6 DEF LoopsInv
<1> QED
  BY <1>1, <1>2 DEF Drain, DrainSkip, DrainStop, Administer, AddEntry, UpdateHealth,
     UpdateMaxConcurrency, RemoveEntry, UnknownEntry, poolVars

LEMMA RetryStepKeepsInv ==
    ASSUME RetryInv, RetryStep
    PROVE  RetryInv'
<1>1. PoolInv'
  BY RetryStepUsesPool, NextInv DEF RetryInv
<1>2. LoopsInv'
  <2>1. CASE UNCHANGED allVars
    BY <2>1 DEF allVars, retryVars, poolVars, RetryInv, LoopsInv, RetryTypeOK,
       SlotsOwed, Books
  <2>2. CASE RetryNext
    BY <2>2, BeginKeepsLoops, WaitKeepsLoops, LeaveKeepsLoops, StayKeepsLoops,
       ReleaseKeepsLoops, SettleKeepsLoops, PoolKeepsLoops
       DEF RetryNext, Proceed
  <2> QED
    BY <2>1, <2>2 DEF RetryStep
<1> QED
  BY <1>1, <1>2 DEF RetryInv, LoopsInv

-----------------------------------------------------------------------------
(* The theorems.                                                           *)

THEOREM RetryInvariant == RetrySpec => []RetryInv
<1>1. RetryInv /\ [RetryNext]_allVars => RetryInv'
  BY RetryStepKeepsInv DEF RetryStep
<1> QED
  BY <1>1, RetryInitInv, PTL DEF RetrySpec

\* The retry loops call the pool only as AccountPool allows; with it every
\* theorem of AccountPoolProofs holds of the pool behind the routes.
THEOREM RetryUsesPool == RetrySpec => UsesPool
<1>1. RetryInv /\ [RetryNext]_allVars => [Next]_poolVars
  BY RetryStepUsesPool DEF RetryStep
<1>2. RetryInit => Init
  BY DEF RetryInit
<1> QED
  BY <1>1, <1>2, RetryInvariant, PTL DEF RetrySpec, Spec, UsesPool

\* An attempt owes a release exactly while it holds an entry, whatever way
\* it ends.
THEOREM RetrySettlesSlots == RetrySpec => []SlotsOwed
<1>1. RetryInv => SlotsOwed
  BY DEF RetryInv
<1> QED
  BY <1>1, RetryInvariant, PTL

\* Usage is counted once for a success and never for a failure.
THEOREM RetryCountsOnce == RetrySpec => []CountedOnce
<1>1. RetryInv => CountedOnce
  BY DEF RetryInv, Books, CountedOnce
<1> QED
  BY <1>1, RetryInvariant, PTL

\* Behind the routes, too, no entry is handed out beyond its limit.
THEOREM RetryNeverOverCommits == RetrySpec => NeverOverCommit
  BY RetryUsesPool, PoolNeverOverCommits, PTL DEF UsesPool
=============================================================================
