---------------------------- MODULE AccountStore ----------------------------
(***************************************************************************)
(* AccountStore (app/services/account_store.py): the list of accounts in   *)
(* data/accounts.json, its in-memory cache, the write-behind usage         *)
(* counters, and what the callers do with the pool when a call returns.    *)
(*                                                                         *)
(* A task is a coroutine with a call to the store under way.  It runs from *)
(* one await to the next in one step: with a loaded cache it takes its     *)
(* copy, edits it and asks for _write_lock at once, so saves happen in the *)
(* order in which the copies were taken, but a copy may be old by then.    *)
(*                                                                         *)
(* Of an account the model keeps its id, its enabled flag (which stands    *)
(* for every field update_account can set) and its usage count.            *)
(***************************************************************************)
EXTENDS Integers, Sequences, FiniteSets

CONSTANTS
    Accounts,     \* account ids, fresh uuids: none is created twice
    Tasks,        \* coroutines that may be inside the store together
    MaxUses,      \* bound: uses of one account after which none is reported
    NoList,       \* content of a file that is missing or does not parse
    NotLoaded     \* _accounts_cache is None

Lists == [ids : SUBSET Accounts, on : SUBSET Accounts, uses : [Accounts -> Nat]]

ASSUME StoreAssumption ==
    /\ IsFiniteSet(Accounts) /\ IsFiniteSet(Tasks)
    /\ MaxUses \in Nat
    /\ NoList \notin Lists /\ NotLoaded \notin Lists

VARIABLES
    disk,         \* accounts.json
    tmp,          \* accounts.tmp
    cache,        \* _accounts_cache
    pending,      \* _pending_increments
    flushing,     \* the increments a flush took and has not yet written
    pc,           \* where each task stands
    job,          \* the call each task serves
    list,         \* the accounts a task read, and edited once it is queued
    saveQueue,    \* _write_lock: its holder and then those who wait for it
    pooled,       \* ids in the pool
    created,      \* ids that were given out
    used,         \* history: uses reported to increment_usage_count
    lost,         \* history: uses lost with a failed flush or a crash
    removed,      \* history: ids whose removal was confirmed
    outdated,     \* history: tasks whose list is not the file's: it is older,
                  \*   or empty after a read that failed
    staleCache,   \* history: the cache was filled from such a list
    overwritten,  \* history: such a list was saved or cached
    offAtStart,   \* history: ids the pool left out when the process started
    replacedAll   \* history: ids an import in replace mode took out

fileVars == <<disk, tmp, cache>>
countVars == <<pending, flushing, used, lost>>
poolVars == <<pooled, removed, offAtStart, replacedAll>>
ghostVars == <<outdated, staleCache, overwritten>>
storeVars == <<fileVars, countVars, pc, job, list, saveQueue, pooled, created,
               removed, ghostVars, offAtStart, replacedAll>>

Zero == [a \in Accounts |-> 0]
Sum2(f, g) == [a \in Accounts |-> f[a] + g[a]]
EmptyList == [ids |-> {}, on |-> {}, uses |-> Zero]
NoJob == [op |-> "none", ids |-> {}, on |-> {}]

Busy == {"reading",   \* cold cache: looking for the file
         "read",      \* cold cache: has the file's content, not cached yet
         "queued",    \* wants or has _write_lock, nothing written
         "writing",   \* accounts.tmp is truncated
         "written",   \* accounts.tmp is complete
         "replaced"}  \* accounts.tmp was renamed to accounts.json

\* _flush_lock is held by the flush that took the increments.
FlushLocked == \E t \in Tasks : job[t].op = "flush" /\ pc[t] \in Busy

Fresh == Accounts \ created

\* The accounts in the file.
Listed == IF disk = NoList THEN {} ELSE disk.ids

-----------------------------------------------------------------------------
InitStore ==
    /\ disk \in {NoList} \cup
         [ids : SUBSET Accounts, on : SUBSET Accounts, uses : {Zero}]
    /\ disk # NoList => disk.on \subseteq disk.ids
    /\ tmp = NoList
    /\ \E read \in {disk, NoList} :
         /\ cache = IF read = NoList THEN NotLoaded ELSE read
         /\ pooled = IF read = NoList THEN {} ELSE read.on
    /\ pending = Zero /\ flushing = Zero /\ used = Zero /\ lost = Zero
    /\ pc = [t \in Tasks |-> "idle"]
    /\ job = [t \in Tasks |-> NoJob]
    /\ list = [t \in Tasks |-> EmptyList]
    /\ saveQueue = <<>>
    /\ created = Listed
    /\ removed = {} /\ outdated = {} /\ replacedAll = {}
    /\ staleCache = FALSE /\ overwritten = FALSE
    /\ offAtStart = Listed \ pooled

-----------------------------------------------------------------------------
(* What a call makes of the list it read.                                  *)

\* The list without the accounts in S.
Without(l, S) == [ids |-> l.ids \ S, on |-> l.on \ S,
                  uses |-> [a \in Accounts |-> IF a \in S THEN 0 ELSE l.uses[a]]]

\* The flush loop: increments of accounts that are not listed are dropped.
WithUses(l, inc) ==
    [l EXCEPT !.uses = [a \in Accounts |-> IF a \in l.ids THEN @[a] + inc[a]
                                           ELSE @[a]]]

\* Mutant of Edited: an update builds the account anew.
EditedFromScratch(j, l, inc) ==
    CASE j.op = "add" -> [l EXCEPT !.ids = @ \cup j.ids, !.on = @ \cup j.on]
      [] j.op = "replace" -> [ids |-> j.ids, on |-> j.on, uses |-> Zero]
      [] j.op = "update" ->
           [Without(l, j.ids) EXCEPT !.ids = l.ids, !.on = @ \cup j.on]
      [] j.op = "remove" -> Without(l, j.ids)
      [] j.op = "flush" -> WithUses(l, inc)
      [] OTHER -> l

Edited(j, l, inc) ==
    CASE j.op = "add" -> [l EXCEPT !.ids = @ \cup j.ids, !.on = @ \cup j.on]
      [] j.op = "replace" -> [ids |-> j.ids, on |-> j.on, uses |-> Zero]
      [] j.op = "update" -> [l EXCEPT !.on = (@ \ j.ids) \cup j.on]
      [] j.op = "remove" -> Without(l, j.ids)
      [] j.op = "flush" -> WithUses(l, inc)
      [] OTHER -> l

\* Does the call save at all, or return early?
Saves(j, l, inc) ==
    \/ j.op \in {"add", "replace"}
    \/ j.op \in {"update", "remove"} /\ j.ids \subseteq l.ids
    \/ j.op = "flush" /\ \E a \in l.ids : inc[a] > 0

\* Task t has read list l for job j; old says that l is not what the file has.
Continue(t, j, l, inc, old) ==
    IF Saves(j, l, inc)
    THEN /\ pc' = [pc EXCEPT ![t] = "queued"]
         /\ job' = [job EXCEPT ![t] = j]
         /\ list' = [list EXCEPT ![t] = Edited(j, l, inc)]
         /\ saveQueue' = Append(saveQueue, t)
         /\ outdated' = IF old THEN outdated \cup {t} ELSE outdated \ {t}
         /\ flushing' = IF j.op = "flush" THEN inc ELSE flushing
    ELSE /\ pc' = [pc EXCEPT ![t] = "idle"]
         /\ job' = [job EXCEPT ![t] = NoJob]
         /\ list' = [list EXCEPT ![t] = EmptyList]
         /\ outdated' = outdated \ {t}
         /\ flushing' = IF j.op = "flush" THEN Zero ELSE flushing
         /\ UNCHANGED saveQueue

CacheBehind == staleCache \/ \E t \in Tasks : pc[t] = "replaced"

\* The start of every call but an import in replace mode: load_accounts
\* copies the cache, or goes to the disk if there is none.
Load(t, j, inc) ==
    \/ cache # NotLoaded /\ Continue(t, j, cache, inc, CacheBehind)
    \/ /\ cache = NotLoaded
       /\ pc' = [pc EXCEPT ![t] = "reading"]
       /\ job' = [job EXCEPT ![t] = j]
       /\ flushing' = IF j.op = "flush" THEN inc ELSE flushing
       /\ UNCHANGED <<list, saveQueue, outdated>>

Job(op, ids, on) == [op |-> op, ids |-> ids, on |-> on]

\* add_account, by the admin or for a confirmed contribution or bootstrap.
AddAccount(t) ==
    /\ pc[t] = "idle"
    /\ \E a \in Fresh :
         /\ created' = created \cup {a}
         /\ Load(t, Job("add", {a}, {a}), Zero)
    /\ UNCHANGED <<fileVars, pending, used, lost, poolVars, staleCache, overwritten>>

\* bulk_import_accounts in merge mode.  Items whose codex_home is listed are
\* skipped, so any number may be left; disabled ones are imported as well.
ImportMerge(t) ==
    /\ pc[t] = "idle"
    /\ \E F \in SUBSET Fresh : \E on \in SUBSET F :
         /\ created' = created \cup F
         /\ Load(t, Job("add", F, on), Zero)
    /\ UNCHANGED <<fileVars, pending, used, lost, poolVars, staleCache, overwritten>>

\* bulk_import_accounts in replace mode: nothing is read.
ImportReplace(t) ==
    /\ pc[t] = "idle"
    /\ \E F \in SUBSET Fresh : \E on \in SUBSET F :
         /\ created' = created \cup F
         /\ Continue(t, Job("replace", F, on), EmptyList, Zero, FALSE)
    /\ UNCHANGED <<fileVars, pending, used, lost, poolVars, staleCache, overwritten>>

\* update_account, by the admin or the health checker.
UpdateAccount(t) ==
    /\ pc[t] = "idle"
    /\ \E a \in created : \E on \in SUBSET {a} : Load(t, Job("update", {a}, on), Zero)
    /\ UNCHANGED <<fileVars, pending, used, lost, poolVars, created, staleCache,
                   overwritten>>

RemoveAccount(t) ==
    /\ pc[t] = "idle"
    /\ \E a \in created : Load(t, Job("remove", {a}, {}), Zero)
    /\ UNCHANGED <<fileVars, pending, used, lost, poolVars, created, staleCache,
                   overwritten>>

\* load_accounts for a page or a probe: matters only while nothing is cached.
ListAccounts(t) ==
    /\ pc[t] = "idle" /\ cache = NotLoaded
    /\ Load(t, Job("list", {}, {}), Zero)
    /\ UNCHANGED <<fileVars, pending, used, lost, poolVars, created, staleCache,
                   overwritten>>

\* increment_usage_count.  Whether FLUSH_INTERVAL_SEC has passed is free; a
\* use may be reported after the account was removed.
IncrementUsage(t) ==
    /\ pc[t] = "idle"
    /\ \E a \in pooled \cup removed :
         /\ \A b \in Accounts : used[b] < MaxUses
         /\ pending' = [pending EXCEPT ![a] = @ + 1]
         /\ used' = [used EXCEPT ![a] = @ + 1]
    /\ pc' \in {pc, [pc EXCEPT ![t] = "flushWait"]}
    /\ UNCHANGED <<fileVars, flushing, lost, job, list, saveQueue, poolVars,
                   created, ghostVars>>

\* Shutdown calls flush_usage_counters as well.
CallFlush(t) ==
    /\ pc[t] = "idle" /\ pending # Zero
    /\ pc' = [pc EXCEPT ![t] = "flushWait"]
    /\ UNCHANGED <<fileVars, countVars, job, list, saveQueue, poolVars, created,
                   ghostVars>>

\* Mutant of Flush: the counters are not cleared.
FlushKeepingPending(t) ==
    /\ pc[t] = "flushWait" /\ ~FlushLocked
    /\ Load(t, Job("flush", {}, {}), pending)
    /\ UNCHANGED <<fileVars, pending, used, lost, poolVars, created, staleCache,
                   overwritten>>

\* flush_usage_counters once it has _flush_lock; with nothing pending
\* Continue returns at once.
Flush(t) ==
    /\ pc[t] = "flushWait" /\ ~FlushLocked
    /\ pending' = Zero
    /\ IF pending = Zero
       THEN Continue(t, Job("flush", {}, {}), EmptyList, Zero, FALSE)
       ELSE Load(t, Job("flush", {}, {}), pending)
    /\ UNCHANGED <<fileVars, used, lost, poolVars, created, staleCache, overwritten>>

-----------------------------------------------------------------------------
(* load_accounts on a cold cache.                                          *)

ReadFile(t) ==
    /\ pc[t] = "reading" /\ disk # NoList
    /\ pc' = [pc EXCEPT ![t] = "read"]
    /\ list' = [list EXCEPT ![t] = disk]
    /\ outdated' = outdated \ {t}
    /\ UNCHANGED <<fileVars, countVars, job, saveQueue, poolVars, created, staleCache,
                   overwritten>>

\* A file that is missing, broken or cannot be read just now counts as no
\* accounts and is not cached: the call goes on with an empty list.
ReadNothing(t) ==
    /\ pc[t] = "reading"
    /\ Continue(t, job[t], EmptyList, flushing, disk # NoList)
    /\ lost' = IF job[t].op = "flush" THEN Sum2(lost, flushing) ELSE lost
    /\ UNCHANGED <<fileVars, pending, used, poolVars, created, staleCache,
                   overwritten>>

\* The file is closed and parsed: whatever is cached by now is replaced.
CacheFile(t) ==
    /\ pc[t] = "read"
    /\ cache' = list[t]
    /\ staleCache' = (t \in outdated)
    /\ overwritten' = (overwritten \/ t \in outdated)
    /\ Continue(t, job[t], list[t], flushing, t \in outdated)
    /\ UNCHANGED <<disk, tmp, pending, used, lost, poolVars, created>>

-----------------------------------------------------------------------------
(* _save_accounts.                                                         *)

\* _write_lock is first come, first served.
HasLock(t) == saveQueue # <<>> /\ Head(saveQueue) = t

\* Mutant of OpenTmp: nobody waits for _write_lock.
OpenTmpUnlocked(t) ==
    /\ pc[t] = "queued"
    /\ tmp' = NoList
    /\ pc' = [pc EXCEPT ![t] = "writing"]
    /\ UNCHANGED <<disk, cache, countVars, job, list, saveQueue, poolVars,
                   created, ghostVars>>

\* The lock is taken and accounts.tmp opened.
OpenTmp(t) ==
    /\ pc[t] = "queued" /\ HasLock(t)
    /\ tmp' = NoList
    /\ pc' = [pc EXCEPT ![t] = "writing"]
    /\ UNCHANGED <<disk, cache, countVars, job, list, saveQueue, poolVars,
                   created, ghostVars>>

WriteTmp(t) ==
    /\ pc[t] = "writing"
    /\ tmp' = list[t]
    /\ pc' = [pc EXCEPT ![t] = "written"]
    /\ UNCHANGED <<disk, cache, countVars, job, list, saveQueue, poolVars,
                   created, ghostVars>>

\* Tasks that hold a list read before this save.
Overtaken == {u \in Tasks : pc[u] \in {"read", "queued"} /\ job[u].op # "replace"}

\* os.replace: accounts.tmp takes the place of accounts.json.
ReplaceDisk(t) ==
    /\ pc[t] = "written"
    /\ disk' = tmp /\ tmp' = NoList
    /\ pc' = [pc EXCEPT ![t] = "replaced"]
    /\ flushing' = IF job[t].op = "flush" THEN Zero ELSE flushing
    /\ overwritten' = (overwritten \/ t \in outdated)
    /\ outdated' = (outdated \ {t}) \cup Overtaken
    /\ UNCHANGED <<cache, pending, used, lost, job, list, saveQueue, poolVars,
                   created, staleCache>>

\* Mutant of TellPool: the entry of a removed account stays.
TellPoolOfNewOnes(j) ==
    /\ pooled' = IF j.op \in {"add", "replace"} THEN pooled \cup j.ids ELSE pooled
    /\ removed' = IF j.op = "remove" THEN removed \cup j.ids ELSE removed

\* Mutant of TellPool: a new account waits for the next start.
TellPoolOfRemoval(j) ==
    /\ pooled' = IF j.op = "remove" THEN pooled \ j.ids ELSE pooled
    /\ removed' = IF j.op = "remove" THEN removed \cup j.ids ELSE removed

\* What the caller does before it gives up the event loop again: the routes
\* add the new accounts to the pool or take the removed one out.
TellPool(j) ==
    /\ pooled' = CASE j.op \in {"add", "replace"} -> pooled \cup j.ids
                   [] j.op = "remove" -> pooled \ j.ids
                   [] OTHER -> pooled
    /\ removed' = IF j.op = "remove" THEN removed \cup j.ids ELSE removed

\* The head of the queue gives up the lock and is done.
Leave(t) ==
    /\ pc' = [pc EXCEPT ![t] = "idle"]
    /\ job' = [job EXCEPT ![t] = NoJob]
    /\ list' = [list EXCEPT ![t] = EmptyList]
    /\ saveQueue' = Tail(saveQueue)

\* Mutant of FinishSave: the cache keeps the list it had.
FinishSaveUncached(t) ==
    /\ pc[t] = "replaced"
    /\ TellPool(job[t])
    /\ replacedAll' = IF job[t].op = "replace"
                      THEN replacedAll \cup (pooled \ job[t].ids) ELSE replacedAll
    /\ Leave(t)
    /\ UNCHANGED <<fileVars, countVars, created, ghostVars, offAtStart>>

\* The cache is set, the lock released, and the call returns.
FinishSave(t) ==
    /\ pc[t] = "replaced"
    /\ cache' = list[t]
    /\ staleCache' = FALSE
    /\ TellPool(job[t])
    /\ replacedAll' = IF job[t].op = "replace"
                      THEN replacedAll \cup (pooled \ job[t].ids) ELSE replacedAll
    /\ Leave(t)
    /\ UNCHANGED <<disk, tmp, countVars, created, outdated, overwritten, offAtStart>>

\* Creating, writing or renaming the file raises: the call raises as well,
\* and what a flush had taken is gone.
SaveFails(t) ==
    /\ pc[t] \in {"queued", "writing", "written"} /\ HasLock(t)
    /\ lost' = IF job[t].op = "flush" THEN Sum2(lost, flushing) ELSE lost
    /\ flushing' = IF job[t].op = "flush" THEN Zero ELSE flushing
    /\ outdated' = outdated \ {t}
    /\ tmp' = NoList
    /\ Leave(t)
    /\ UNCHANGED <<disk, cache, pending, used, poolVars, created, staleCache,
                   overwritten>>

\* The process dies and starts again: start-up loads the list and pools the
\* accounts that are enabled, none if the file cannot be read just then.
Restart ==
    /\ \E read \in {disk, NoList} :
         /\ cache' = IF read = NoList THEN NotLoaded ELSE read
         /\ pooled' = IF read = NoList THEN {} ELSE read.on
    /\ offAtStart' = Listed \ pooled'
    /\ lost' = Sum2(lost, Sum2(pending, flushing))
    /\ pending' = Zero /\ flushing' = Zero
    /\ pc' = [t \in Tasks |-> "idle"]
    /\ job' = [t \in Tasks |-> NoJob]
    /\ list' = [t \in Tasks |-> EmptyList]
    /\ saveQueue' = <<>>
    /\ outdated' = {} /\ staleCache' = FALSE /\ replacedAll' = {}
    /\ tmp' = NoList
    /\ UNCHANGED <<disk, used, created, removed, overwritten>>

NextStore ==
    \/ \E t \in Tasks :
         \/ AddAccount(t) \/ ImportMerge(t) \/ ImportReplace(t)
         \/ UpdateAccount(t) \/ RemoveAccount(t) \/ ListAccounts(t)
         \/ IncrementUsage(t) \/ CallFlush(t) \/ Flush(t)
         \/ ReadFile(t) \/ ReadNothing(t) \/ CacheFile(t)
         \/ OpenTmp(t) \/ WriteTmp(t) \/ ReplaceDisk(t)
         \/ FinishSave(t) \/ SaveFails(t)
    \/ Restart

SpecStore == InitStore /\ [][NextStore]_storeVars
-----------------------------------------------------------------------------
\* Type invariant.
TypeOKStore ==
    /\ disk \in Lists \cup {NoList} /\ tmp \in Lists \cup {NoList}
    /\ cache \in Lists \cup {NotLoaded}
    /\ pending \in [Accounts -> Nat] /\ flushing \in [Accounts -> Nat]
    /\ used \in [Accounts -> Nat] /\ lost \in [Accounts -> Nat]
    /\ pc \in [Tasks -> Busy \cup {"idle", "flushWait"}]
    /\ job \in [Tasks -> [op : {"none", "add", "replace", "update", "remove",
                                "list", "flush"},
                          ids : SUBSET Accounts, on : SUBSET Accounts]]
    /\ list \in [Tasks -> Lists]
    /\ saveQueue \in Seq(Tasks)
    /\ pooled \in SUBSET Accounts /\ created \in SUBSET Accounts
    /\ removed \in SUBSET Accounts /\ outdated \in SUBSET Tasks
    /\ offAtStart \in SUBSET Accounts /\ replacedAll \in SUBSET Accounts
    /\ staleCache \in BOOLEAN /\ overwritten \in BOOLEAN

\* Once a list was saved, accounts.json is a complete list at every moment a
\* crash may choose: two saves never share accounts.tmp, and no rename moves
\* a half-written file.
FileStaysReadable == [][disk # NoList => disk' # NoList]_storeVars

\* While no rename is waiting for its cache update, the cache is the file,
\* unless a cold read that a save overtook has filled it.
CacheIsFile ==
    (\A t \in Tasks : pc[t] # "replaced") /\ ~staleCache
        => cache \in {NotLoaded, disk}

\* Overlapping flushes, failing saves, crashes and concurrent edits never
\* count a use twice.
NoUseCountedTwice ==
    \A a \in Listed : disk.uses[a] + pending[a] + flushing[a] <= used[a]

\* As long as no save was based on a list that was not the file's (older, or
\* empty because the file could not be read), every use of a listed account is
\* in the file, in memory, or was lost with a failed flush or a crash.
EveryUseAccounted ==
    ~overwritten =>
        \A a \in Listed :
            disk.uses[a] + pending[a] + flushing[a] + lost[a] = used[a]

\* A confirmed removal takes the account out of the pool while the process
\* lives, and, if no save was based on a list that was not the file's, out of
\* the file and of the pool of every later process.
RemovalLasts ==
    ~overwritten => removed \cap (Listed \cup pooled) = {}

\* The pool and the file agree whenever no rename is waiting for its cache
\* update: what is pooled is listed, and what is listed is pooled unless it was
\* disabled when the process started, or start-up could not read the file and
\* pooled nothing.  Accounts that an import in replace mode took out of the file
\* stay in the pool.  A save that is based on a list that was not the file's ends
\* this: older than a save in between, or empty after a failed read, which is not
\* told apart from a list without accounts.
PoolMatchesFile ==
    (\A t \in Tasks : pc[t] # "replaced") /\ ~overwritten =>
        /\ pooled \ replacedAll \subseteq Listed
        /\ Listed \ pooled \subseteq offAtStart

\* The docstring of flush_usage_counters: "Safe to call at any time."  A flush
\* never brings back an account whose removal was confirmed.
FlushKeepsRemovals ==
    [][\A t \in Tasks : pc[t] = "written" /\ pc'[t] = "replaced" /\ job[t].op = "flush"
         => removed \cap disk'.ids \subseteq Listed]_storeVars
-----------------------------------------------------------------------------
\* The inductive invariant of the proofs in AccountStoreProofs.

\* The task that writes is the head of the queue, so there is only one.
Saving == {"writing", "written", "replaced"}

WriterIsHead == \A t \in Tasks : pc[t] \in Saving => HasLock(t)

\* What the writer has made of the two files.
WriterFiles ==
    \A t \in Tasks : /\ pc[t] = "written" => tmp = list[t]
                     /\ pc[t] = "replaced" => disk = list[t]

\* A list read from the file is the file's, unless a save came in between.
ReadsAreRecent ==
    \A t \in Tasks :
        /\ pc[t] \in {"reading", "read"} => job[t].op # "replace"
        /\ pc[t] = "read" /\ t \notin outdated => list[t] = disk

\* Only one flush is under way; increments it took are in flushing until
\* they are written.
OneFlush ==
    /\ \A t, u \in Tasks :
         /\ job[t].op = "flush" /\ pc[t] \in Busy
         /\ job[u].op = "flush" /\ pc[u] \in Busy
         => t = u
    /\ \A t \in Tasks : job[t].op = "flush" /\ pc[t] = "replaced" => flushing = Zero
    /\ ~FlushLocked => flushing = Zero

\* The increments in flushing are part of this task's list already.
Merged(t) == job[t].op = "flush" /\ pc[t] \in {"queued"} \cup Saving

WithinUses(l) == \A a \in Accounts : l.uses[a] + pending[a] + flushing[a] <= used[a]

\* No list anywhere counts more than was reported.
ListsWithinUses ==
    /\ WithinUses(EmptyList)
    /\ disk # NoList => WithinUses(disk)
    /\ cache # NotLoaded => WithinUses(cache)
    /\ \A t \in Tasks :
         IF Merged(t)
         THEN \A a \in Accounts : list[t].uses[a] + pending[a] <= used[a]
         ELSE WithinUses(list[t])

StoreInv ==
    /\ TypeOKStore
    /\ WriterIsHead
    /\ WriterFiles
    /\ ReadsAreRecent
    /\ CacheIsFile
    /\ OneFlush
    /\ ListsWithinUses
=============================================================================
