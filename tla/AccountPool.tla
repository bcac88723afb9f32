---------------------------- MODULE AccountPool ----------------------------
(***************************************************************************)
(* AccountPool (app/services/account_pool.py): the concurrency slots of    *)
(* the pooled accounts, the queue of waiting requests and the session      *)
(* table, as the requests, the administrator and the health checker use    *)
(* them on the one event loop of the server.                               *)
(*                                                                         *)
(* Every method but acquire_async is synchronous and runs without giving   *)
(* up the event loop.  release() ends in the loop _drain_queue(): release  *)
(* sets draining, each iteration of the loop is one Drain step, and no     *)
(* other action is enabled until the loop is left.                         *)
(*                                                                         *)
(* An account id is a fresh uuid, so a removed account never returns.      *)
(***************************************************************************)
EXTENDS SessionBindings, Sequences

CONSTANTS
    Requests,        \* requests served at the same time
    SessionOf,       \* the session_id a request passes, or None
    InitialPool,     \* accounts enabled in the store at start-up, in order
    MaxC,            \* bound: the largest max_concurrency in use
    CounterPeriod,   \* bound: _counter is kept modulo this
    MaxQueue,        \* bound: length of _wait_queue, unbounded in the code
    Cancelled        \* a future in _wait_queue that is already done

ASSUME PoolAssumption ==
    /\ IsFiniteSet(Requests) /\ IsFiniteSet(Accounts)
    /\ SessionOf \in [Requests -> Sessions \cup {None}]
    /\ InitialPool \in Seq(Accounts)
    /\ \A i, j \in DOMAIN InitialPool :
         i # j => InitialPool[i] # InitialPool[j]
    /\ MaxC \in Nat \ {0} /\ MaxQueue \in Nat /\ CounterPeriod \in Nat \ {0}
    /\ \A k \in 1..Cardinality(Accounts) : CounterPeriod % k = 0
    /\ Cancelled \notin Requests
    /\ None \notin Sessions

VARIABLES
    pool,            \* _pool, the list of entries, as account ids
    active,          \* PoolEntry.active_count
    maxConcurrency,  \* PoolEntry.max_concurrency
    healthy,         \* PoolEntry.healthy
    counter,         \* _counter
    waitQueue,       \* _wait_queue: the futures, by the request they belong to
    stage,           \* where each request stands with the pool
    slot,            \* the entry a request was handed, by its account id
    draining,        \* the event loop is inside _drain_queue
    retired,         \* ids that were in the pool and are not any more
    leaked,          \* history: slots whose holder is gone without a release
    raised           \* history: capacity was added with no drain since

entryVars == <<pool, active, maxConcurrency, healthy, retired>>
poolVars == <<pool, active, maxConcurrency, healthy, counter, waitQueue,
              stage, slot, draining, retired, leaked, raised,
              sessionBindings, insertedBefore, accountSessions>>

Stages == {"idle",      \* not in the pool's hands
           "waiting",   \* suspended in wait_for, its future pending
           "granted",   \* its future holds an entry, the task has not run yet
           "holding"}   \* has the entry, owes a release

Pooled == {pool[i] : i \in DOMAIN pool}

Waiting == {r \in Requests : stage[r] = "waiting"}

-----------------------------------------------------------------------------
(* acquire(): which entry a request is given.                              *)

HasRoom(a) == healthy[a] /\ active[a] < maxConcurrency[a]

\* Mutant of BoundEntry: affinity goes before capacity.
BoundEntryAtAnyLoad(r) ==
    {a \in Pooled : SessionOf[r] # None /\ sessionBindings[SessionOf[r]] = a}

\* The entry the session is bound to, if it is pooled and has room.
BoundEntry(r) ==
    {a \in Pooled : /\ SessionOf[r] # None
                    /\ sessionBindings[SessionOf[r]] = a
                    /\ HasRoom(a)}

Available == {i \in DOMAIN pool : HasRoom(pool[i])}

LeastLoaded ==
    {i \in Available : \A j \in Available : active[pool[i]] <= active[pool[j]]}

\* candidates[_counter % len(candidates)]: the pool's order breaks ties.
Selected ==
    {i \in LeastLoaded :
        Cardinality({j \in LeastLoaded : j < i})
            = counter % Cardinality(LeastLoaded)}

Advance == counter' = (counter + 1) % CounterPeriod

-----------------------------------------------------------------------------
InitPoolState ==
    /\ pool = InitialPool
    /\ active = [a \in Accounts |-> 0]
    /\ maxConcurrency \in [Accounts -> 1..MaxC]
    /\ healthy \in [Accounts -> BOOLEAN]
    /\ counter = 0
    /\ waitQueue = <<>>
    /\ stage = [r \in Requests |-> "idle"]
    /\ slot = [r \in Requests |-> None]
    /\ draining = FALSE
    /\ retired = {}
    /\ leaked = [a \in Accounts |-> 0]
    /\ raised = FALSE

Init == InitPoolState /\ InitBindings

\* r leaves with an entry of account a, counted on the entry.
HandOver(r, a, newStage) ==
    /\ active' = [active EXCEPT ![a] = @ + 1]
    /\ slot' = [slot EXCEPT ![r] = a]
    /\ stage' = [stage EXCEPT ![r] = newStage]

\* acquire(session_id), session affinity: the round-robin counter stays.
AcquireBound(r) ==
    /\ ~draining /\ stage[r] = "idle"
    /\ \E a \in BoundEntry(r) : HandOver(r, a, "holding")
    /\ UNCHANGED <<pool, maxConcurrency, healthy, retired, counter, waitQueue,
                   draining, leaked, raised, bindingVars>>

\* acquire(session_id), fall back to the least-loaded entry.
AcquireLeastLoaded(r) ==
    /\ ~draining /\ stage[r] = "idle"
    /\ BoundEntry(r) = {}
    /\ \E i \in Selected : HandOver(r, pool[i], "holding")
    /\ Advance
    /\ UNCHANGED <<pool, maxConcurrency, healthy, retired, waitQueue,
                   draining, leaked, raised, bindingVars>>

\* acquire_async with nothing available: queue a future and wait for it.
Enqueue(r) ==
    /\ ~draining /\ stage[r] = "idle"
    /\ BoundEntry(r) = {} /\ Available = {}
    /\ Len(waitQueue) < MaxQueue
    /\ waitQueue' = Append(waitQueue, r)
    /\ stage' = [stage EXCEPT ![r] = "waiting"]
    /\ raised' = FALSE
    /\ UNCHANGED <<entryVars, counter, slot, draining, leaked, bindingVars>>

\* Mutant of AbandonWait: the future is left pending in the queue.
AbandonWaitPending(r) ==
    /\ ~draining /\ stage[r] = "waiting"
    /\ stage' = [stage EXCEPT ![r] = "idle"]
    /\ UNCHANGED <<entryVars, counter, waitQueue, slot, draining, leaked, raised, bindingVars>>

\* Mutant of AbandonWait: only the first in the queue watches the clock.
AbandonWaitAtHead(r) ==
    /\ ~draining /\ stage[r] = "waiting" /\ Head(waitQueue) = r
    /\ waitQueue' = [waitQueue EXCEPT ![1] = Cancelled]
    /\ stage' = [stage EXCEPT ![r] = "idle"]
    /\ UNCHANGED <<entryVars, counter, slot, draining, leaked, raised, bindingVars>>

\* The timer of wait_for fires, or the waiting task is cancelled: the future
\* is cancelled but stays in the queue until a drain reaches it.
AbandonWait(r) ==
    /\ ~draining /\ stage[r] = "waiting"
    /\ waitQueue' = [i \in DOMAIN waitQueue |->
                        IF waitQueue[i] = r THEN Cancelled ELSE waitQueue[i]]
    /\ stage' = [stage EXCEPT ![r] = "idle"]
    /\ UNCHANGED <<entryVars, counter, slot, draining, leaked, raised, bindingVars>>

\* The task of a granted request runs again and acquire_async returns.
Resume(r) ==
    /\ ~draining /\ stage[r] = "granted"
    /\ stage' = [stage EXCEPT ![r] = "holding"]
    /\ UNCHANGED <<entryVars, counter, waitQueue, slot, draining, leaked,
                   raised, bindingVars>>

\* The request is gone and will never release its slot.
Forget(r) ==
    /\ leaked' = IF slot[r] \in Pooled
                 THEN [leaked EXCEPT ![slot[r]] = @ + 1] ELSE leaked
    /\ slot' = [slot EXCEPT ![r] = None]
    /\ stage' = [stage EXCEPT ![r] = "idle"]
    /\ UNCHANGED <<entryVars, counter, waitQueue, draining, raised, bindingVars>>

\* The timer fires, or the task is cancelled, after the future was given an
\* entry and before the task ran: nobody learns of the entry.  (wait_for of
\* Python 3.12 raises here; 3.10 and 3.11 return the entry, which is Resume.)
LoseGrant(r) == ~draining /\ stage[r] = "granted" /\ Forget(r)

\* The task is cancelled while it holds a slot (the client of a stream went
\* away): "except Exception" does not see CancelledError and no release runs.
LoseHeld(r) == ~draining /\ stage[r] = "holding" /\ Forget(r)

\* Mutant of Release: the queue is not drained.
ReleaseWithoutDrain(r) ==
    /\ ~draining /\ stage[r] = "holding"
    /\ active' = IF slot[r] \in Pooled
                 THEN [active EXCEPT ![slot[r]] = IF @ > 0 THEN @ - 1 ELSE 0]
                 ELSE active
    /\ slot' = [slot EXCEPT ![r] = None]
    /\ stage' = [stage EXCEPT ![r] = "idle"]
    /\ UNCHANGED <<pool, maxConcurrency, healthy, retired, counter, waitQueue,
                   draining, leaked, raised, bindingVars>>

\* release(account_id); _drain_queue starts even if the entry is gone.
Release(r) ==
    /\ ~draining /\ stage[r] = "holding"
    /\ active' = IF slot[r] \in Pooled
                 THEN [active EXCEPT ![slot[r]] = IF @ > 0 THEN @ - 1 ELSE 0]
                 ELSE active
    /\ slot' = [slot EXCEPT ![r] = None]
    /\ stage' = [stage EXCEPT ![r] = "idle"]
    /\ draining' = TRUE
    /\ UNCHANGED <<pool, maxConcurrency, healthy, retired, counter, waitQueue,
                   leaked, raised, bindingVars>>

\* _drain_queue, one iteration: the head of the queue gets an entry ...
DrainGrant ==
    /\ draining /\ waitQueue # <<>>
    /\ Head(waitQueue) # Cancelled
    /\ \E i \in Selected : HandOver(Head(waitQueue), pool[i], "granted")
    /\ Advance
    /\ waitQueue' = Tail(waitQueue)
    /\ UNCHANGED <<pool, maxConcurrency, healthy, retired, draining, leaked,
                   raised, bindingVars>>

\* Mutant of DrainSkip: the entry acquired for a done future is kept.
DrainSkipKeeping ==
    /\ draining /\ waitQueue # <<>>
    /\ Head(waitQueue) = Cancelled
    /\ \E i \in Selected : active' = [active EXCEPT ![pool[i]] = @ + 1]
    /\ Advance
    /\ waitQueue' = Tail(waitQueue)
    /\ UNCHANGED <<pool, maxConcurrency, healthy, retired, stage, slot, draining,
                   leaked, raised, bindingVars>>

\* ... or, being done already, is dropped, and the entry acquired for it is
\* given back.  The round-robin counter has moved on.
DrainSkip ==
    /\ draining /\ waitQueue # <<>>
    /\ Head(waitQueue) = Cancelled
    /\ Selected # {}
    /\ Advance
    /\ waitQueue' = Tail(waitQueue)
    /\ UNCHANGED <<entryVars, stage, slot, draining, leaked, raised, bindingVars>>

\* Mutant of DrainStop: one waiter is served and the rest are forgotten.
DrainStopAnytime ==
    /\ draining
    /\ draining' = FALSE
    /\ raised' = FALSE
    /\ UNCHANGED <<entryVars, counter, waitQueue, stage, slot, leaked, bindingVars>>

\* The loop ends: the queue is empty or no entry has room.
DrainStop ==
    /\ draining
    /\ waitQueue = <<>> \/ Available = {}
    /\ draining' = FALSE
    /\ raised' = FALSE
    /\ UNCHANGED <<entryVars, counter, waitQueue, stage, slot, leaked, bindingVars>>

Drain == DrainGrant \/ DrainSkip \/ DrainStop

\* add_entry, for an account just added to the store.  No drain.
AddEntry(a) ==
    /\ ~draining /\ a \notin Pooled \cup retired
    /\ pool' = Append(pool, a)
    /\ active' = [active EXCEPT ![a] = 0]
    /\ \E m \in 1..MaxC : maxConcurrency' = [maxConcurrency EXCEPT ![a] = m]
    /\ healthy' = [healthy EXCEPT ![a] = TRUE]
    /\ raised' = TRUE
    /\ UNCHANGED <<counter, waitQueue, stage, slot, draining, retired, leaked,
                   bindingVars>>

\* update_entry(healthy=h), by the health checker or an admin.  No drain.
UpdateHealth(a, h) ==
    /\ ~draining /\ a \in Pooled
    /\ healthy' = [healthy EXCEPT ![a] = h]
    /\ raised' = (raised \/ h)
    /\ UNCHANGED <<pool, active, maxConcurrency, retired, counter, waitQueue,
                   stage, slot, draining, leaked, bindingVars>>

\* update_entry(max_concurrency=m), by an admin: any integer, and possibly
\* less than the slots in use.  No drain.
UpdateMaxConcurrency(a, m) ==
    /\ ~draining /\ a \in Pooled
    /\ maxConcurrency' = [maxConcurrency EXCEPT ![a] = m]
    /\ raised' = (raised \/ m > maxConcurrency[a])
    /\ UNCHANGED <<pool, active, healthy, retired, counter, waitQueue,
                   stage, slot, draining, leaked, bindingVars>>

PoolWithout(a) ==
    LET at == CHOOSE i \in DOMAIN pool : pool[i] = a
    IN  [i \in 1..(Len(pool) - 1) |-> pool[IF i < at THEN i ELSE i + 1]]

\* remove_entry.  Requests that hold a slot of the entry keep their work;
\* the entry's counts go with it.
RemoveEntry(a) ==
    /\ ~draining /\ a \in Pooled
    /\ pool' = PoolWithout(a)
    /\ retired' = retired \cup {a}
    /\ active' = [active EXCEPT ![a] = 0]
    /\ leaked' = [leaked EXCEPT ![a] = 0]
    /\ DropAccountSessions(a)
    /\ UNCHANGED <<maxConcurrency, healthy, counter, waitQueue, stage, slot,
                   draining, raised>>

\* update_entry and remove_entry of an id the pool does not know (a probe or
\* an admin call that arrives after a removal) return without a change.
UnknownEntry(a) ==
    /\ ~draining /\ a \notin Pooled
    /\ UNCHANGED poolVars

\* bind_session and unbind_session as calls of their own; nothing checks
\* that the account is still pooled.
Bind(s, a) ==
    /\ ~draining
    /\ BindSession(s, a)
    /\ UNCHANGED <<entryVars, counter, waitQueue, stage, slot, draining, leaked, raised>>

Unbind(s) ==
    /\ ~draining
    /\ UnbindSession(s)
    /\ UNCHANGED <<entryVars, counter, waitQueue, stage, slot, draining, leaked, raised>>

Acquire(r) == AcquireBound(r) \/ AcquireLeastLoaded(r) \/ Enqueue(r)

Administer ==
    \E a \in Accounts :
        \/ AddEntry(a)
        \/ \E h \in BOOLEAN : UpdateHealth(a, h)
        \/ \E m \in 0..MaxC : UpdateMaxConcurrency(a, m)
        \/ RemoveEntry(a)
        \/ UnknownEntry(a)

Next ==
    \/ \E r \in Requests : \/ Acquire(r) \/ AbandonWait(r) \/ Resume(r)
                           \/ LoseGrant(r) \/ LoseHeld(r) \/ Release(r)
    \/ Drain
    \/ Administer
    \/ \E s \in Sessions : Unbind(s) \/ \E a \in Accounts : Bind(s, a)

Spec == Init /\ [][Next]_poolVars

-----------------------------------------------------------------------------
Holders(a) == {r \in Requests : slot[r] = a}

\* Type invariant.
TypeOK ==
    /\ TypeOKBindings
    /\ pool \in Seq(Accounts)
    /\ active \in [Accounts -> Nat]
    /\ maxConcurrency \in [Accounts -> 0..MaxC]
    /\ healthy \in [Accounts -> BOOLEAN]
    /\ counter \in 0..(CounterPeriod - 1)
    /\ waitQueue \in Seq(Requests \cup {Cancelled})
    /\ stage \in [Requests -> Stages]
    /\ slot \in [Requests -> Accounts \cup {None}]
    /\ draining \in BOOLEAN
    /\ retired \in SUBSET Accounts
    /\ leaked \in [Accounts -> Nat]
    /\ raised \in BOOLEAN

\* active_count is exact: on every pooled entry it counts the requests that
\* were handed the entry and have not released it, granted ones that have
\* not woken up included, plus the slots lost to cancelled holders.  So a
\* release never underflows, a drained grant is never counted twice, and a
\* late release of a removed account is not charged to another.
SlotAccounting ==
    \A a \in Pooled : active[a] = Cardinality(Holders(a)) + leaked[a]

\* Between two turns of the event loop no request waits while an entry has
\* room, unless capacity was added (add_entry, a recovery, a larger
\* max_concurrency) and no release has drained the queue since.
NoIdleSlotWhileWaiting ==
    ~draining /\ ~raised /\ Waiting # {} => Available = {}

\* A pending future is in the queue exactly once, every live future in the
\* queue belongs to a request that waits: no waiter is lost or served twice.
QueueMatchesWaiters ==
    /\ \A r \in Waiting : \E i \in DOMAIN waitQueue : waitQueue[i] = r
    /\ \A i \in DOMAIN waitQueue :
         waitQueue[i] # Cancelled =>
            /\ waitQueue[i] \in Waiting
            /\ \A j \in DOMAIN waitQueue \ {i} : waitQueue[j] # waitQueue[i]

\* An entry is only handed out while it is pooled, healthy and below its
\* limit at that moment, by the affinity path, the least-loaded path and the
\* drain alike, even after an admin lowered the limit below the load.
CommitWithinLimit ==
    \A a \in Accounts : active'[a] > active[a] =>
        /\ a \in Pooled
        /\ healthy[a]
        /\ active'[a] <= maxConcurrency[a]

NeverOverCommit == [][CommitWithinLimit]_poolVars

\* A request that arrives never overtakes one that waits, unless capacity
\* was added without a drain (first come, first served).
ServeWaitersFirst ==
    \A r \in Requests :
        stage[r] = "idle" /\ stage'[r] = "holding" /\ ~raised => Waiting = {}

NoBarging == [][ServeWaitersFirst]_poolVars

\* Every wait in the queue ends, with an entry or with a timeout.
WaitEnds ==
    \A r \in Requests :
        stage[r] \in {"waiting", "granted"} ~> stage[r] \in {"idle", "holding"}

-----------------------------------------------------------------------------
\* The abstract ledger, with the entry a request was handed as the slot it
\* owns and a limit of zero for an entry that is unhealthy or not pooled.
ServiceLimit ==
    [a \in Accounts |->
        IF a \in Pooled /\ healthy[a] THEN maxConcurrency[a] ELSE 0]

Ledger == INSTANCE SlotLedger WITH
    owner <- slot, capacity <- ServiceLimit, lost <- leaked, gone <- retired

\* The pool implements the ledger: its counters, queue, drain loop, timeouts
\* and session affinity never hand out, return or lose a slot that the
\* ledger would not.
ImplementsLedger == Ledger!Spec

-----------------------------------------------------------------------------
\* The inductive invariant of the proofs in AccountPoolProofs.

\* Ids occur once in the list, removed ids not at all, and an id that was
\* never pooled has no holders.
PoolIdsUnique ==
    /\ \A i, j \in DOMAIN pool : i # j => pool[i] # pool[j]
    /\ Pooled \cap retired = {}
    /\ \A a \in Accounts \ (Pooled \cup retired) :
         Holders(a) = {} /\ leaked[a] = 0

\* A request has an entry exactly when it was granted one or holds one.
SlotMatchesStage ==
    \A r \in Requests : slot[r] = None <=> stage[r] \in {"idle", "waiting"}

PoolInv ==
    /\ TypeOK
    /\ BindingsConsistent
    /\ PoolIdsUnique
    /\ SlotMatchesStage
    /\ SlotAccounting
    /\ QueueMatchesWaiters
    /\ NoIdleSlotWhileWaiting
=============================================================================
