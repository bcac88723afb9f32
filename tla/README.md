# nexus-codex in TLA+

nexus-codex is a FastAPI proxy. It offers the OpenAI Chat Completions, OpenAI Responses and Anthropic
Messages protocols on top of a pool of ChatGPT accounts: a request borrows a concurrency slot of
some account, is sent to the ChatGPT backend with the account's token, and fails over to another
account when that goes wrong. Around this core stand a store of accounts, a health checker, API keys
with limits, self-service claims and contributions, and an administration interface.

Everything runs as coroutines on one asyncio event loop of one process. So a piece of code between
two `await`s is atomic, and what can go wrong goes wrong across an `await`: state read before and used
after it, two coroutines in the same routine, a cancellation or a timeout at the `await`, a failure or
a crash between two steps. The modules are cut accordingly: **an action is what runs between two
suspensions**.

## 1. Inventory

Paths are under `src/app/`.

| Component | State | Operations | What makes it correct |
|---|---|---|---|
| Account pool: slots, queue (`services/account_pool.py`) | list of entries with `active_count`, `max_concurrency`, `healthy`; `_counter`; `_wait_queue` of futures | `acquire`, `acquire_async`, `release`, `_drain_queue`, `add_entry`, `update_entry`, `remove_entry` | counts are exact; nobody gets a slot over the limit; no waiter is lost, served twice or overtaken; no slot idles while one waits; every wait ends |
| Account pool: session affinity (same file) | `_session_bindings` (ordered), `_account_sessions` | `bind_session` with eviction, `unbind_session`, clean-up in `remove_entry` | the two dictionaries are inverse, bounded and ordered |
| Request retry (`utils/retry.py`) | local variables of one request | `with_retry`, `with_stream_retry` | every way out settles the slot once and counts the use once; a request ends |
| Proxy routes, ChatGPT client (`routes/*.py`, `services/chatgpt_client.py`) | none of their own | parse, call the retry loop, pass chunks on | see retry; no replay after the first chunk |
| Account store (`services/account_store.py`) | `accounts.json`, its temporary file, the cache, pending usage increments | load, add, update, remove, import (merge, replace), increment, flush | the file is always complete; no edit and no use is lost or counted twice; store and pool agree |
| Health checker (`services/health_check.py`) | failure count per account; the flag in the pool entry | local loop, remote loop, triggered probe | the flag follows the probes: off after the threshold and not before, on again after a success |
| Token manager (`services/token_manager.py`) | tokens of one account, `auth.json` | load, refresh under a lock, save | a rotated refresh token is kept, in memory and in the file, through errors, cancellations and crashes; the file is whole |
| Config store and API keys (`services/config_store.py`, `middleware/auth.py`) | `config.json`, the configuration in memory, the cached key set, the dirty flag | key, template, invite and claim operations, monthly usage with a delayed flush | memory and file agree after the last save; no use is taken for saved that is not; removed keys are refused at once; overruns of limits are bounded |
| Account bootstrap (`services/account_bootstrap.py`) | login sessions with a process, a monitor and a timeout killer | start, confirm, cancel, finalize | one terminal status per session, whoever wins |
| Public contribution and review (`services/public_contribution.py`, `routes/public.py`, `routes/admin/contributions.py`) | contribution records, invite counters, watchers | start, watch, review | an approved contribution becomes one account; limits hold |
| Quota probe, pool snapshot (`services/quota_probe.py`, `services/pool_quota_snapshot.py`) | cache, in-flight fetches, the last snapshot | probe, refresh, snapshot | one fetch at a time; a measurement is not lost to a failed refresh |
| Protocol adapters (`adapters/anthropic_adapter.py`, `services/chatgpt_adapter.py`) | the stream state of one response | convert an event, an answer, a history | content blocks open and close in order; one end; the stream adds up to the answer |
| Rate limit, IP ban (`middleware/`, `services/ip_ban_store.py`) | request windows, failure counts, bans | allow, record, ban, expire | the window limit; a ban lasts as long as it says |
| Metrics and logs | SQLite, a write buffer | record, flush, query | buffered entries are written once |
| Admin sessions and events (`services/session_manager.py`, `services/admin_emitter.py`) | sessions, bounded queues | login, emit, subscribe | a slow subscriber blocks nobody |
| Start and shutdown (`main.py`) | wiring | start-up, shutdown | counters are flushed |
| Admin front end (`admin-fe/`) | React state | — | — |

How they interact. A route calls a retry loop; the loop calls `acquire_async`, `release`,
`bind_session` and `unbind_session` of the pool, starts the counters (account store, config
store) as background tasks and triggers health probes. The health checker sets `healthy` in the pool
and in the store. Admin routes and the review of contributions change the store first and the pool when
that call returns. Start-up fills the pool from the store.

Hard behaviours, and where they are listed: the hazards in `PROJECT.json`, each at its line;
two of them have no property, with the reason.

## 2. Modules

| Module | Models | State and actions |
|---|---|---|
| `SessionBindings` | the session table of the pool | `sessionBindings`, `accountSessions`, and the insertion order of the `OrderedDict` as the relation `insertedBefore`; `BindSession`, `UnbindSession`, `DropAccountSessions` |
| `AccountPool` (extends it) | the pool and its queue | one action per method; a request is `idle`, `waiting` (its future is pending), `granted` (the future has an entry and the task has not run yet) or `holding` |
| `SlotLedger` | what the pool promises: who owns a slot of what | abstract; `AccountPool` implements it by the mapping `Ledger` |
| `RequestRetry` (extends `AccountPool`) | both retry loops over the pool | a phase per request; each action conjoins the pool's action it calls |
| `AccountStore` | store, file, cache, usage counters and the pool's membership | tasks inside the store, each at one of its `await`s |
| `HealthChecker` | probers, failure counts, health flag | local loop, remote loop and triggered probes, each at one of its `await`s |
| `ConfigStore` | `config.json`, keys, templates, claims, usage, the key check | `mem` and `disk`; `saves` is the queue of `_save_lock`, whose head holds it; what a coroutine does when its save ends is part of the end of the save (`GoOn`) |
| `LoginFlow` | bootstrap sessions, public contributions and their review | a record `flow[s]` per login (process, monitor, killer, registry, directory, record, watcher, pool) and an `actor` per administrator or visitor, each at one of its `await`s |
| `TokenManager` | the tokens of one account and `auth.json` | a program counter per task in `get_access_token`; `server` is the token service, `past` what went wrong |
| `QuotaProbe` (extends it) | quota cache, shared fetches, pool snapshot | the fetches are tasks of the token manager; a caller awaits a fetch |
| `StreamAdapters` | the three protocols' view of one backend response | backend events one by one, converted by the adapter of the route and folded into what the client has (`got`) |
| `…Proofs` | theorems | see section 5 |
| `MC…` | instances for TLC | model values only |

Points of the translation that a reader of the code should know:

* **The drain loop.** `release()` ends in `while not self._wait_queue.empty()`. It is a loop without
  `await`, so `release` sets `draining`, each iteration is one `Drain` step, and no other action is enabled
  before the loop is left (in `RequestRetry` also not before the code after `release`, `MidStep`).
* **A future that is done stays in the queue.** `wait_for` cancels it on a timeout; the model
  replaces it by `Cancelled`, and a drain that meets it gives the entry back, as the code does.
* **Grant and timeout at once.** A future may be given its entry and the waiting task be cancelled or timed out before
  it runs. `LoseGrant` is that race. `wait_for` of Python 3.12 and later is built on `asyncio.timeout`: it raises, and the entry is lost;
  that of 3.10 and 3.11 returns the result of the future that is done (`Resume`). The model keeps both outcomes.
* **What does not raise.** Between an error and its release the retry loops await `emit("upstream_error")`, a suspension of its own (phase `closing`) that a
  cancellation may end. It does not raise: `emit` hands plain strings and numbers to `LogStore.write`, whose work is inside
  a `try` that catches every exception and returns -1 (log_store.py:163-167). The same holds for the log writes of the health checker.
* **Lost slots.** When the client of a stream goes away, `with_stream_retry` is closed by
  `CancelledError` or `GeneratorExit`, which `except Exception` does not catch: the slot is never released. `LoseHeld`
  is that step and `leaked` counts it, so that `SlotAccounting` stays an exact equation.
* **Integers.** `_counter` only matters modulo the number of candidates: it is kept modulo `CounterPeriod`, which every
  possible number of candidates divides. Failure counts are only compared with the threshold: those above it are one value.
* **The store.** With a warm cache `load_accounts` does not suspend, so a call copies the list, edits it and queues for
  `_write_lock` in one step (`Continue`). Saves therefore happen in the order of the copies, but a copy may be older than
  the save before it. `enabled` stands for all fields `update_account` may set. What the caller does with the pool after
  the call (`TellPool`) is part of `FinishSave`, as there is no `await` between. `add_account` is modelled with its caller's
  `add_entry`; the `load_accounts` in the import route finds the cache the import has just set. A read may fail at any time, at start-up too: `load_accounts`
  then answers with an empty list that it does not cache (`ReadNothing`, `Restart`), and what is saved on top of that counts as based on a list that was not the file's (`outdated`).
* **Credentials.** In `HealthChecker`, `get_access_token` returns whatever token string it has, also when a refresh failed; it returns nothing
  only when `auth.json` gave no token or could not be read, and it never reads the file again. Hence the three values of `cred`, and `none` is for good.
* **The configuration.** An edit changes memory, and `_save_config` then queues for its lock and takes the configuration
  under it (`Dump`), so that unlike the account store no save writes an older state. A mutation and its call of `_save_config` are
  one step, and so are the end of a save and the next mutation of the same coroutine (`MintKey`, `CountClaim`). Templates are modelled
  as requiring a code; the quota of a key and the limit of a code are data of the entry, which an
  administrator may change at any time, `NoLimit` included (`UpdateKey`, `UpdateTemplate`), and `over` remembers by how much the last edit put an entry under its count. Whether the window per address lets an attempt through is left open. The month is the unit
  of usage: `MonthBegins` sets counts to 0 where the code compares `monthly_reset_at`.
* **Logins.** `SpawnFails` and the failing saves leave a flow `broken`, as the code cleans nothing up. The killer looks at the status once and
  writes `timeout` after its wait, whatever was written meanwhile; a monitor that raises sets `failed` and leaves the process running.
  The watcher marks a login even when its `auth.json` cannot be read, as the token manager only logs that. `contested` marks a directory that was removed
  while somebody else was taking the login over, or an approval that failed halfway; `dropped` one that was removed while its record waited for a review.
* **Tokens.** Access and refresh tokens are numbered as the service issues them. `_load_auth_json` takes no lock, and two tasks may load at once;
  `TakeAuthJson` is where a late load overwrites what a refresh has set (`past.late`). An error while reading is logged
  and the manager counts as loaded all the same, without tokens (`past.unread`). A cancellation during `os.replace` leaves it to the
  thread whether the file is replaced. A second manager on the same directory, with the same `auth.tmp`, is not modelled.
* **Quota.** `asyncio.gather` and `await task` pass a cancellation on to the awaited fetch, so that cancelling one caller ends the fetch for all
  (`CancelCaller`). `Resume` runs the creator's `finally`, which drops the account's entry whosever it is (`displaced`).
* **Streams.** A text or argument is a sequence of tokens. The backend sends its items one after the other and may break off, fail (`response.failed`, `response.incomplete`) or complete
  after any event; it may leave out the "done" event of an item (`overtaken` when that leaves a block open under the next item) and send events of other types that carry text (`extra`); with calls in
  parallel the arguments of two items do not mix. `Junk` are the tokens with which the arguments of a call are not JSON. A retried stream goes on with
  the same client and the same `StreamState` (`run.disturbed`). What the client has is computed as the protocols define it: blocks by index, calls by index.
* **History variables** (`past`, `displaced`, `contested`, `dropped`, `disturbed`, `overtaken`, `extra`, `over`, `failed`, `leaked`, `raised`, `used`, `lost`, `removed`, `outdated`, `staleCache`, `overwritten`, `offAtStart`,
  `replacedAll`, `overruled`, `excused`) record what happened; no guard reads them, apart from the bound on `used`
  and the choice of ids that may still be reported as used.

## 3. Runs

TLC checks each run exhaustively, with 2 workers, in a few minutes at most.

| Run | Instance | What it shows |
|---|---|---|
| `pool_queue` | 3 symmetric requests, 2 accounts (one added later), limits 0–2, no sessions | slots and queue under acquire, timeout, lost grants, cancellation, drain and every administrative change: `SlotAccounting`, `NoIdleSlotWhileWaiting`, `QueueMatchesWaiters`, `NoBarging` |
| `pool_sessions` | 2 requests, 2 accounts, 3 sessions, room for 2 bindings | the session table (`BindingsConsistent`) and the refinement `ImplementsLedger`, which includes that no slot is taken beyond a limit |
| `retry` | a stream and a plain request, 2 accounts, one retry | `SlotsOwed` and `CountedOnce` at each exit of both loops |
| `retry_fair` | the same on one account | `UsesPool` (the loops use the pool as `AccountPool` says), `RequestEnds`, `WaitEnds` |
| `account_store` | 2 symmetric accounts, 2 symmetric tasks, one use | store, file, cache, counters, restarts: see below |
| `health` | 1 account, both loops, one triggered probe, threshold 2, one PATCH | flag and count, detection and recovery |
| `config` | 2 coroutines, 2 requests (at most two of the four under way at a time, `MaxBusy`), 2 keys (all symmetric), 1 template, quota and claim limit 0 or 1, one edit | `MemoryReachesDisk`, `UsageNotForgotten`, `NoStaleGate`, `QuotaOverrunBounded`, `ClaimOverrunBounded`, and `ConfigInv` for the queue and the flush task |
| `login_flow` | 1 login, 2 handlers | `OnlyLoggedInPooled`, `PooledHasHome`, and by fairness `LoginEnds` and `PlaceIsFreed` |
| `streams` | 8 events, 2 tokens (one of them junk), 2 symmetric calls, one retry, each protocol with and without streaming | `BlocksWellNested`, `EndsOnce`, `StreamMatchesAnswer`, `HistoryKept` |
| `tokens` | 2 symmetric fetches, a proxied request, a handler and the snapshot loop, 2 issued tokens | the token manager under the quota probe: `AuthFileWhole`, `MemoryHoldsNewest`, `FileHoldsNewest`; fetches and snapshot: `OneFetchAtATime`, `SnapshotKept` |
| `store_flush`, `non_stream` | small | expected violations, section 4 |

The properties of the store hold in this form: the file is complete at every moment
(`FileStaysReadable`) and no use is counted twice (`NoUseCountedTwice`) whatever happens. Uses are all accounted for, removals last, and pool
and file agree (`EveryUseAccounted`, `RemovalLasts`, `PoolMatchesFile`) **as long as no save was based on a list that was not the file's**: older, or
empty after a failed read. When one was, an edit is lost, and nothing in the code prevents it (finding `store_flush` is one such case). After a start-up that could not read the
file nothing is pooled until the next start (`offAtStart`). Two further
differences are visible in `PoolMatchesFile`: an import in replace mode leaves the accounts it dropped in the pool until
the next start, though the import dialog (`admin-fe/src/components/ImportAccountsModal.tsx`) says it deletes them; and a PATCH
of `enabled` does not touch the pool, so that only `offAtStart` excuses a listed account that is not pooled.

The properties of the health checker: `SickHasFailed` (off only with a threshold of failures in a row) and
`FailingIsMarked` (that many failures have a verdict behind them or under way) are inverse to each other. Exceptions are
named by `excused`: a flag that was stored or patched, and a verdict that a success overtook during the log write. `TokenlessGoesOff` and `WorkingRecovers` show that these exceptions heal: what matters in
the end is what the probes say, even with the remote loop dead. (Recovery relies on a threshold of at least 2, the default: with 1, a
remote success whose save raises counts as a failure and takes the account off again.)

The configuration has no lost update, since every save takes the state under the lock; what memory and file differ in
is about to be written or the last save failed (`MemoryReachesDisk`). Such a failed save is not undone in memory and, except by
`flush_usage`, not repeated. Limits are checked before an `await` and counted after it, so they are overrun; the two bounds say by how much: one
less than the requests, or claims, that can be under way. An edit that lowers a limit takes back nothing, neither what was counted nor what is under way: what the
last edit found beyond that bound is added (`over`), and nothing more comes on top of it. Once used up, a limit that is lowered admits nobody.

In a login flow each of user, process, monitor, killer, watcher and handlers may come first. `OnlyLoggedInPooled` is what an administrator relies on in the
pool. `PooledHasHome` names two exceptions, which the code does not exclude. `contested`: a cancellation or a rejection that crosses a confirmation, an approval or the watcher, or
a rejection after the last save of an approval failed, removes the directory of an account that is pooled. `dropped`: a cancellation removes the directory of a contribution that waits for its
review and leaves the record as it is, so that it may be approved afterwards; no two handlers need to cross for that. `LoginEnds` names the other: a monitor that broke.

`StreamMatchesAnswer` compares two conversions of the same response, one event by event and one as a whole, and `HistoryKept` closes the
circle: the answer sent back as history becomes the items it came from. Where the code itself makes a difference the properties name it. On the Messages route:
a block that another item overtakes, as a call that begins does not close the block before it (only `completed` closes what is open), and
arguments that are not JSON, streamed as they come and `{}` in the answer without streaming. On the Chat route: several calls, since all chunks
carry index 0 and a client merges them; text of events of other types (refusals, reasoning summaries), which the stream passes on as content; and, for `HistoryKept`, the text
beside a call, which the adapter drops. `BlocksWellNested` excuses overtaken blocks and a stream cut inside a block, where the route's fallback `message_stop` leaves the block open.
`EndsOnce` says that a streamed Responses answer that failed ends exactly twice, first with the failure and then with a made-up `response.completed`, and everything else once.

`MemoryHoldsNewest` and `FileHoldsNewest` say that a rotated refresh token is not lost, except for named reasons: the answer was lost or the
process or task stopped between rotation and save (`lost`), a load was late (`late`), a save failed or was cancelled (`unsaved`). `MemoryHoldsNewest` has one more: after a read that failed (`unread`) a manager may hold no tokens at all.

**Bounds, and why they are enough.** `MaxC = 2` has the values below, at and above one slot in use, and 0 stands for an administrator's
zero or negative limit. `MaxQueue` is the number of requests in
`pool_queue` and the retry runs, so that waiters and done futures of earlier waits mix in every order (at the bound `Enqueue` is
disabled), and 1 in `pool_sessions`, which is not about the queue. Three requests give a holder, a waiter and an overtaker. `MaxRetries = 1` has an
attempt that may be retried and a last one that may not, and the code makes no other distinction between attempts. Two tasks in
the store are enough for one overtaking the other, and one reported use (`MaxUses = 1`) for a double count and for a loss;
`NoUseTwice` is proved for any number of either. The health checker's accounts share nothing but the order of a loop's pass, so one is enough for
TLC; its proofs hold for any number. `MaxPatches = 1` lets a patch hit every state; liveness needs the patches to end.
In `config` two requests are enough for an overrun by one of a quota and two coroutines for an overrun by one of a claim limit; with the flush and the shutdown they
fill the queue of saves in every order; with limits 0 and 1, one edit removes, disables or re-adds a key, lowers a limit below what is used or raises it. More edits multiply the states without a new kind of crossing. Logins share nothing
in the model (the limits over all logins are left out), so one is enough, and the theorems hold for any number; two handlers are enough for two that cross.
Eight events make room for a text between two calls or a call between two texts; `MaxRetries = 1` as above. `MaxIssued = 2`
has one rotation, two of which never overlap because of the lock; its theorems hold for any number of tasks and tokens.

**Fairness.** `AccountPool`, `AccountStore` and the session table are checked for safety only and have none. `RetryFairness`: the drain loop
is weakly fair (it does not suspend); the other steps of a request are strongly fair, since they are
disabled while another request is in the drain loop: the timer of a waiting request always fires
(30 s), a woken task always runs, the upstream answers or times out (the client sets timeouts), sleeps and
writes end. Cancellation and administrative actions are never required. `FairHealth`: each prober goes on (timers fire, the
HTTP calls have timeouts, threads end; weak fairness is enough, since nothing disables the next step of a prober but a step of its own). Triggered probes, patches and changes of token or backend are not required.
`LoginFairness`: the start of the subprocess and each save end, the killer's timers fire, a process that has ended is noticed
by its monitor, the watcher polls, handlers finish. Nothing is asked of the user, of the process (it may run for ever unless killed) or of the
administrators. `ConfigStore`, `StreamAdapters`, `TokenManager` and `QuotaProbe` are checked for safety only.

`CHECK_DEADLOCK FALSE` stands in the configurations of the account store, the health checker, the login flow and the streams: with every
id used up, the account removed, the login over or the response sent they have nothing left to do.

**Mutants.** Each property of a passing run has a mutant in `PROJECT.json`: a definition is replaced by
one with a plausible bug (a drain that keeps the entry of a dead future, a release without drain, a save without the lock, a flush that
does not clear, a threshold that is off by one), and TLC finds the property violated.

## 4. Where code and documentation disagree

Two are runs that TLC must find violated.

1. `store_flush`. `flush_usage_counters` is "Safe to call at any time"; a flush that copied the list before a removal was saved
   writes the removed account back, and the next start pools it.
2. `non_stream`. A Chat Completions request without streaming is promised an answer in the usual format (docs/api-reference.md:186); the route asks the
   backend for a stream all the same and converts its last event as if it were the response. The output is one level deeper, under `response`, so the
   answer is empty: in the run the backend adds one function call and completes, and the client gets no call. (The other two routes take the last event in the same way.)

Noticed without a run of their own, in the code the modules translate:

* Pool and retry. `bind_session` says "LRU semantics: moving an existing binding to end" (account_pool.py:84), but assigning to an existing key of an
  `OrderedDict` leaves it in place: eviction is first-in, first-out. The retry module says it "acquires a different" account
  (retry.py:4-6); nothing excludes the one that failed. The streaming routes say "failover on initial connection errors"; a stream that
  breaks after its first chunks is started again on the same response (retry.py:261). Capacity that is added does not trigger a drain
  (`raised` in `NoIdleSlotWhileWaiting` and `NoBarging`): waiters sleep until the next release or their timeout. The code after the
  retry loops' `for` is unreachable. A stream may bind its session to an account that was removed meanwhile.
* Accounts and health. A failing flush loses its increments. README.md:14 of the repository promises that failing token checks and connectivity probes mark
  an account unhealthy; the local probe accepts an expired token and resets the count the remote loop raises (health_check.py:82), so an
  account may stay healthy although all its requests fail. A patched `healthy=false` is undone by the next successful probe.
* Configuration. A save that fails leaves the change in memory without a retry. A flush at shutdown does nothing while another one is
  being written (config_store.py:635), and whatever fails then is lost. Wrong claim codes are not counted as attempts, as the code is checked first
  (routes/public.py:89), though `record_claim_attempt` and docs/api-reference.md:63 say they are.
* Logins. The killer may replace `success` by `timeout` (account_bootstrap.py:163). A monitor that breaks leaves the process running. Two
  approvals of one record that overlap pool the account twice. A flow that was cancelled while the watcher took the login over may still end in the pool, and so may one that was
  cancelled before its review.
* Streams. Parallel calls in a Chat stream all have index 0. A Chat stream that is cut has no `finish_reason`. Any event with
  a `delta`, a `text` or a `content` is taken for text there. A Responses stream that failed is followed by a `response.completed` with no output.
* Reads. A failed read of `accounts.json` is taken for an empty list (account_store.py:64-66), one of `auth.json` for a missing file (token_manager.py:172); neither is tried again
  before the next start or, for the store, the next call.
* Tokens and quota. Loading takes no lock, so a late load may put old tokens over new ones. Cancelling one caller cancels the fetch of all;
  in the snapshot loop the `CancelledError` comes back as a result and raises a `TypeError`, which the loop logs.

## 5. Proofs

All theorems hold for every value of the constants that satisfies the named assumptions
(`BindingsAssumption`, `PoolAssumption`, `RetryAssumption`, `StoreAssumption`, `HealthAssumption`, `TokenAssumption`, `QuotaAssumption`, `ConfigAssumption`;
`LoginFlow` and `StreamAdapters` need none): finite sets, distinct sentinels, positive thresholds. The proof modules mirror the modules: one lemma per action or shape of
action, then the induction step, then the theorem by PTL. Inductive invariants and type invariants are proved and not run again by TLC where
the run's own properties follow from them.

* `AccountPoolProofs`, for the session table and the pool. `SessionTableConsistent` is inductive by itself; `SessionTableBounded` needs it, because
  eviction counts keys of one dictionary and deletes in both. `PoolInv` is inductive (`PoolInvariant`). Exact counts need `SlotMatchesStage` (a request has an entry exactly when it
  was granted one or holds one) and `PoolIdsUnique` (ids are distinct and a removed one never returns), since a release
  finds its entry by id; that no slot idles needs the exactness of the queue. From it follow the separate invariants, the
  action properties `NeverOverCommit` and `NoBarging`, and the refinement `PoolImplementsLedger`.
* `RequestRetryProofs`: `RetryUsesPool` shows that each step is a step of `AccountPool` or a stutter, so its theorems carry
  over (`RetryNeverOverCommits`); `RetryInv` adds what the local variables say in each phase (`Books`) and gives
  `RetrySettlesSlots` and `RetryCountsOnce`.
* `AccountStoreProofs`: `StoreInv` is inductive. `WriterIsHead` (who writes is at the head of the lock's queue) makes the writer unique;
  `WriterFiles` then says what the two files contain, which gives `FileReadable`; `ReadsAreRecent` covers the cold cache
  (`CacheFollowsFile`); `OneFlush` and `ListsWithinUses` bound every list in the system by the uses reported (`NoUseTwice`).
  What holds until a save is based on an old list needs two more invariants (`StoreCurrent`). `IdInv`: an account that is being added is unknown to
  the pool and to every list but its task's, and nobody removes it, so that no other save can drop or revive it. `CurrentInv`: a list about to be saved is the *present* file with
  the task's edit, unless it is marked `outdated` (older, or read from nothing); between rename and cache update the cache lacks the new accounts at most; the pool is what the file says, once the
  waiting task has told it; and for each listed account file, increments and losses add up. From it follow `UsesAllAccounted`, `RemovalsLast` and `PoolAgreesWithFile`.
  TLC checked both on the instance of `account_store` (2 482 610 states) before they were proved.
* `ConfigStoreProofs`: five inductive invariants, each on top of the first. `QueueInv` (typing; nobody waits twice for the save lock; a coroutine waits
  exactly while its call is under way; `ConfigQueueFits`, `GateNeverStale`). `DiskInv`: the image under way, or the next one to be taken, catches up with memory (`ConfigReachesDisk`).
  `UsageInv` follows one count of one key: it is in the file, or the image that is being written has it, or it is marked dirty, or a flush that will take an image waits
  (`ConfigForgetsNoUse`); it speaks of entries, not of positions, because keys come and go. `ClaimsInv` and `QuotaInv` bound, per template and key, what is counted plus
  who may still count, for each version of the configuration, since a key may be edited, removed and added again
  (`ConfigClaimsBounded`, `ConfigQuotaBounded`); `OverrunKept` is the counting argument they share, and `ExcessIs` says that an edit, whatever limit it sets, starts within its bound. `Without`, which removes keys, is a recursive function:
  `Induct`, the induction principle stated for a set of numbers instead of a predicate, shows what it computes for every list.
* `HealthCheckerProofs`: `HealthInv` is inductive. `CountsStand` (a count read before the log write is still reached, unless a
  success came in between) connects a verdict with the counts at the time it is used; `ProbedWerePooled` is needed for new accounts.
* `QuotaProbeProofs`, for both modules. `TokenInv` is inductive: `OneHolder` (at most one task is inside the refresh lock) makes the writer of `auth.tmp` unique and
  `TmpComplete` says that it is complete before it replaces the file (`TokensFileWhole`). `NewestInv` says what file, memory, and a task inside the lock know of each other and of the service, in four parts: before there is a file (`FileFirst`), with no tokens in
  memory, be it before a load or after a failed one (`BeforeLoad`), with tokens in memory (`AfterLoad`), and while an answer is saved (`SavingCatchesUp`). It
  gives `TokensMemoryNewest` and `TokensFileNewest`. Every step of the probe is a `TokenNext` step or leaves the manager alone (`ProbeImplementsTokens`), so the
  manager's theorems carry over; `ProbeInv` says that a running fetch is in the in-flight entry unless it was displaced (`ProbeOneFetch`); `ProbeKeepsSnapshot` is the
  action property of the snapshot.
* `LoginFlowProofs`: `LoginInv` is inductive. It is a conjunction over the sessions, and an action touches one: a frame lemma settles the others, and one lemma per group
  of actions its own session. `SuccessIsLogin` carries "the process ended well and the user logged in" from the verdict through
  watcher, record and review to the pool; `HomeIsGuarded` says who may still remove the directory: whoever finds the session in the
  registry, which a confirmation or an ended approval has taken it out of.
* `StreamAdaptersProofs`, for a response of any length, any number of calls and any number of retries. The first half says what the recursive functions of the module do when a
  sequence grows by one (`KeptAppend`, `JoinedLast`, `AssembledSome`), by `Induct` again. `AnswerInv` is inductive (`AnswerInvariant`): while the stream runs, adapter and
  client are a function of the items the backend has sent (`MessagesView`, `ChatView`, `ResponsesView`), and afterwards the client has the
  whole of them if the response was completed (`Whole`). The views have to say it exactly, open block and empty items included (a message without text is no block), since the
  properties compare contents. The views weaken where the properties do: after a block was overtaken all that is known of a Messages client is how often its answer
  has ended (`OvertakenView`), a Chat client is known but for its text after an event of another type and for its calls when there are several, and a Responses client has the failure.
  An answer that was started again (`run.disturbed`) is excepted altogether. `WellNested`, `OneEnd` and `StreamIsAnswer` follow;
  `HistoryIsKept` also needs that the items made and the texts that wait are the blocks read so far (`Covers`).

Only model-checked: liveness (`RequestEnds`, `WaitEnds`, `TokenlessGoesOff`, `WorkingRecovers`, `LoginEnds`, `PlaceIsFreed`), as it needs
fairness, which is out of the provers' reach.

## 6. Plan, and what is not modelled

Done: the pool, its sessions and retry loops, the account store, the health checker, the configuration with claims and usage, the login flow with
contributions, token manager and quota probe, and the protocol adapters. What would come next:

1. The limits over all logins (global, per address, per invite) in `LoginFlow`: they are checked before the `await` of the
   subprocess and registered after the record is saved, so that starts that overlap pass them together (public_contribution.py:70).
2. A composition of `HealthChecker` and `AccountStore` for the saved health flag, which is only read at the next start.

Not modelled:

* Rate limit and IP ban: sliding windows and expiry by the clock, without an `await` between check and record.
* Admin sessions and live events: expiry by the clock; a full queue drops its subscriber in one step.
* Metrics and logs: SQL behind a buffer; what a cancelled flush loses is measurements (metrics_collector.py:50).
* Of the configuration: default models, the invite list, banned addresses and settings, which use the save that is modelled; the expiry and
  addresses of a key; the window of claims per address.
* Of the protocols: tools, usage figures, images, reasoning and the wording of errors (data without state).
* The front end, listing and export routes, static files, and start-up wiring. `AccountPool.close` and a save of the account store that is cancelled at
  shutdown are left out; `Restart` and `Crash` cover a process that stops at any step.
