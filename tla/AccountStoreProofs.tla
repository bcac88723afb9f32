------------------------- MODULE AccountStoreProofs -------------------------
(***************************************************************************)
(* The account store, for any accounts and any number of callers: the file *)
(* stays a readable list whatever overlaps, fails or crashes, the cache is *)
(* the file between two saves, and no use is counted twice.  And until a   *)
(* save is based on a list that was not the file's: every use is accounted *)
(* for, what was removed stays away, and the pool follows the file.        *)
(***************************************************************************)
EXTENDS AccountStore, SequenceTheorems, TLAPS

Ops == {"none", "add", "replace", "update", "remove", "list", "flush"}
Jobs == [op : Ops, ids : SUBSET Accounts, on : SUBSET Accounts]
Counts == [Accounts -> Nat]

-----------------------------------------------------------------------------
(* Types.                                                                  *)

LEMMA BasicTypes ==
    /\ Zero \in Counts
    /\ EmptyList \in Lists
    /\ NoJob \in Jobs
BY DEF Zero, EmptyList, Lists, NoJob, Jobs, Counts, Ops

LEMMA SumTyped ==
    ASSUME NEW f \in Counts, NEW g \in Counts
    PROVE  Sum2(f, g) \in Counts
BY DEF Sum2, Counts

LEMMA WithoutTyped ==
    ASSUME NEW l \in Lists, NEW S \in SUBSET Accounts
    PROVE  Without(l, S) \in Lists
BY DEF Without, Lists

LEMMA WithUsesTyped ==
    ASSUME NEW l \in Lists, NEW inc \in Counts
    PROVE  WithUses(l, inc) \in Lists
<1>1. [a \in Accounts |-> IF a \in l.ids THEN l.uses[a] + inc[a]
                          ELSE l.uses[a]] \in [Accounts -> Nat]
  BY DEF Lists, Counts
<1> QED
  BY <1>1 DEF WithUses, Lists

\* Whatever a call does to a list, the result is a list.
LEMMA EditedTyped ==
    ASSUME NEW j \in Jobs, NEW l \in Lists, NEW inc \in Counts
    PROVE  Edited(j, l, inc) \in Lists
<1>1. CASE j.op = "add"
  BY <1>1 DEF Edited, Lists, Jobs
<1>2. CASE j.op = "replace"
  BY <1>2, BasicTypes DEF Edited, Lists, Jobs, Counts
<1>3. CASE j.op = "update"
  BY <1>3 DEF Edited, Lists, Jobs
<1>4. CASE j.op = "remove"
  <2>1. Edited(j, l, inc) = Without(l, j.ids)
    BY <1>4 DEF Edited
  <2> QED
    BY <2>1, WithoutTyped DEF Jobs
<1>5. CASE j.op = "flush"
  <2>1. Edited(j, l, inc) = WithUses(l, inc)
    BY <1>5 DEF Edited
  <2> QED
    BY <2>1, WithUsesTyped
<1>6. CASE j.op \in {"none", "list"}
  BY <1>6 DEF Edited
<1> QED
  BY <1>1, <1>2, <1>3, <1>4, <1>5, <1>6 DEF Jobs, Ops

TaskTypes ==
    /\ pc \in [Tasks -> Busy \cup {"idle", "flushWait"}]
    /\ job \in [Tasks -> Jobs]
    /\ list \in [Tasks -> Lists]
    /\ saveQueue \in Seq(Tasks)
    /\ outdated \in SUBSET Tasks
    /\ flushing \in Counts

LEMMA ContinueTyped ==
    ASSUME NEW t \in Tasks, NEW j \in Jobs, NEW l \in Lists, NEW inc \in Counts,
           NEW old \in BOOLEAN, TaskTypes, Continue(t, j, l, inc, old)
    PROVE  TaskTypes'
<1>1. CASE Saves(j, l, inc)
  <2>1. Edited(j, l, inc) \in Lists
    BY EditedTyped
  <2>2. Append(saveQueue, t) \in Seq(Tasks)
    BY AppendProperties DEF TaskTypes
  <2> QED
    BY <1>1, <2>1, <2>2 DEF Continue, TaskTypes, Busy
<1>2. CASE ~Saves(j, l, inc)
  BY <1>2, BasicTypes DEF Continue, TaskTypes, Busy
<1> QED
  BY <1>1, <1>2

LEMMA LoadTyped ==
    ASSUME NEW t \in Tasks, NEW j \in Jobs, NEW inc \in Counts,
           TaskTypes, cache \in Lists \cup {NotLoaded}, Load(t, j, inc),
           staleCache \in BOOLEAN
    PROVE  TaskTypes'
<1>1. CASE cache # NotLoaded /\ Continue(t, j, cache, inc, CacheBehind)
  <2>1. CacheBehind \in BOOLEAN
    BY DEF CacheBehind
  <2> QED
    BY <1>1, <2>1, ContinueTyped
<1>2. CASE cache = NotLoaded /\ ~(cache # NotLoaded)
  BY <1>2, BasicTypes DEF Load, TaskTypes, Busy
<1> QED
  BY <1>1, <1>2 DEF Load
-----------------------------------------------------------------------------
(* The shapes of the steps.                                                *)

\* A call that starts: it reads the cache, or goes to look for the file.
Starts(t) ==
    /\ pc[t] = "idle"
    /\ \E j \in Jobs : j.op \notin {"replace", "flush"} /\ Load(t, j, Zero)
    /\ UNCHANGED <<fileVars, pending, used, lost, staleCache>>

LEMMA CallStarts ==
    ASSUME NEW t \in Tasks, created \in SUBSET Accounts,
           \/ AddAccount(t) \/ ImportMerge(t) \/ UpdateAccount(t)
           \/ RemoveAccount(t) \/ ListAccounts(t)
    PROVE  Starts(t) /\ UNCHANGED <<poolVars, overwritten>>
           /\ created' \in SUBSET Accounts
<1>1. CASE AddAccount(t)
  <2>1. PICK a \in Fresh : created' = created \cup {a}
                           /\ Load(t, Job("add", {a}, {a}), Zero)
    BY <1>1 DEF AddAccount
  <2>2. Job("add", {a}, {a}) \in Jobs /\ Job("add", {a}, {a}).op = "add"
    BY DEF Job, Jobs, Ops, Fresh
  <2> QED
    BY <1>1, <2>1, <2>2 DEF AddAccount, Starts, poolVars, Fresh
<1>2. CASE ImportMerge(t)
  <2>1. PICK F \in SUBSET Fresh, on \in SUBSET Accounts :
          created' = created \cup F /\ Load(t, Job("add", F, on), Zero)
    BY <1>2 DEF ImportMerge, Fresh
  <2>2. Job("add", F, on) \in Jobs /\ Job("add", F, on).op = "add"
    BY DEF Job, Jobs, Ops, Fresh
  <2> QED
    BY <1>2, <2>1, <2>2 DEF ImportMerge, Starts, poolVars, Fresh
<1>3. CASE UpdateAccount(t)
  <2>1. PICK a \in created, on \in SUBSET Accounts :
          Load(t, Job("update", {a}, on), Zero)
    BY <1>3 DEF UpdateAccount
  <2>2. Job("update", {a}, on) \in Jobs /\ Job("update", {a}, on).op = "update"
    BY DEF Job, Jobs, Ops
  <2> QED
    BY <1>3, <2>1, <2>2 DEF UpdateAccount, Starts, poolVars
<1>4. CASE RemoveAccount(t)
  <2>1. PICK a \in created : Load(t, Job("remove", {a}, {}), Zero)
    BY <1>4 DEF RemoveAccount
  <2>2. Job("remove", {a}, {}) \in Jobs /\ Job("remove", {a}, {}).op = "remove"
    BY DEF Job, Jobs, Ops
  <2> QED
    BY <1>4, <2>1, <2>2 DEF RemoveAccount, Starts, poolVars
<1>5. CASE ListAccounts(t)
  <2>1. Job("list", {}, {}) \in Jobs /\ Job("list", {}, {}).op = "list"
    BY DEF Job, Jobs, Ops
  <2> QED
    BY <1>5, <2>1 DEF ListAccounts, Starts, poolVars
<1> QED
  BY <1>1, <1>2, <1>3, <1>4, <1>5

LEMMA ReplaceStarts ==
    ASSUME NEW t \in Tasks, ImportReplace(t)
    PROVE  \E F \in SUBSET Accounts, on \in SUBSET Accounts :
             /\ created' = created \cup F
             /\ Job("replace", F, on) \in Jobs
             /\ Continue(t, Job("replace", F, on), EmptyList, Zero, FALSE)
<1>1. PICK F \in SUBSET Fresh, on \in SUBSET Accounts :
        created' = created \cup F
        /\ Continue(t, Job("replace", F, on), EmptyList, Zero, FALSE)
  BY DEF ImportReplace, Fresh
<1>2. Job("replace", F, on) \in Jobs /\ F \in SUBSET Accounts /\ on \in SUBSET Accounts
  BY DEF Job, Jobs, Ops, Fresh
<1> QED
  BY <1>1, <1>2

FlushJob == Job("flush", {}, {})

LEMMA FlushJobTyped == FlushJob \in Jobs /\ FlushJob.op = "flush"
BY DEF FlushJob, Job, Jobs, Ops

-----------------------------------------------------------------------------
(* Type correctness.                                                       *)

LEMMA TypesSplit ==
    TypeOKStore <=>
      /\ TaskTypes
      /\ disk \in Lists \cup {NoList} /\ tmp \in Lists \cup {NoList}
      /\ cache \in Lists \cup {NotLoaded}
      /\ pending \in Counts /\ used \in Counts /\ lost \in Counts
      /\ pooled \in SUBSET Accounts /\ created \in SUBSET Accounts
      /\ removed \in SUBSET Accounts
      /\ offAtStart \in SUBSET Accounts /\ replacedAll \in SUBSET Accounts
      /\ staleCache \in BOOLEAN /\ overwritten \in BOOLEAN
BY DEF TypeOKStore, TaskTypes, Jobs, Ops, Counts

LEMMA InitTyped == InitStore => TypeOKStore
<1> SUFFICES ASSUME InitStore PROVE TypeOKStore
  OBVIOUS
<1>1. disk \in Lists \cup {NoList}
  <2>1. CASE disk = NoList
    BY <2>1
  <2>2. CASE disk \in [ids : SUBSET Accounts, on : SUBSET Accounts, uses : {Zero}]
    BY <2>2, BasicTypes DEF Lists, Counts
  <2> QED
    BY <2>1, <2>2 DEF InitStore
<1>2. disk # NoList => disk.ids \in SUBSET Accounts /\ disk.on \in SUBSET Accounts
  BY <1>1 DEF Lists
<1>3. TaskTypes
  <2>1. <<>> \in Seq(Tasks)
    OBVIOUS
  <2> QED
    BY <2>1, BasicTypes DEF InitStore, TaskTypes, Busy
<1>4. /\ cache \in Lists \cup {NotLoaded} /\ tmp \in Lists \cup {NoList}
      /\ pooled \in SUBSET Accounts /\ created \in SUBSET Accounts
      /\ offAtStart \in SUBSET Accounts
  BY <1>1, <1>2 DEF InitStore, Listed
<1> QED
  BY <1>1, <1>3, <1>4, BasicTypes, TypesSplit DEF InitStore

LEMMA LeaveTyped ==
    ASSUME NEW t \in Tasks, TaskTypes, Leave(t), saveQueue # <<>>
    PROVE  /\ pc' \in [Tasks -> Busy \cup {"idle", "flushWait"}]
           /\ job' \in [Tasks -> Jobs]
           /\ list' \in [Tasks -> Lists]
           /\ saveQueue' \in Seq(Tasks)
<1>1. Tail(saveQueue) \in Seq(Tasks)
  BY HeadTailProperties DEF TaskTypes
<1> QED
  BY <1>1, BasicTypes DEF Leave, TaskTypes, Busy
LEMMA TypesPreserved ==
    ASSUME StoreInv, [NextStore]_storeVars
    PROVE  TypeOKStore'
<1> USE DEF poolVars, fileVars, ghostVars, countVars
<1>0. /\ TaskTypes
      /\ disk \in Lists \cup {NoList} /\ tmp \in Lists \cup {NoList}
      /\ cache \in Lists \cup {NotLoaded}
      /\ pending \in Counts /\ used \in Counts /\ lost \in Counts
      /\ pooled \in SUBSET Accounts /\ created \in SUBSET Accounts
      /\ removed \in SUBSET Accounts
      /\ offAtStart \in SUBSET Accounts /\ replacedAll \in SUBSET Accounts
      /\ staleCache \in BOOLEAN /\ overwritten \in BOOLEAN
  BY TypesSplit DEF StoreInv
<1>1. ASSUME NEW t \in Tasks, Starts(t) /\ UNCHANGED <<poolVars, overwritten>>,
             created' \in SUBSET Accounts
      PROVE  TypeOKStore'
  <2>1. TaskTypes'
    BY <1>0, <1>1, LoadTyped, BasicTypes DEF Starts
  <2> QED
    BY <1>0, <1>1, <2>1 DEF Starts, TypeOKStore, TaskTypes, Jobs, Ops, Counts
<1>2. ASSUME NEW t \in Tasks, ImportReplace(t)
      PROVE  TypeOKStore'
  <2>1. TaskTypes' /\ created' \in SUBSET Accounts
    BY <1>0, <1>2, ReplaceStarts, ContinueTyped, BasicTypes
  <2> QED
    BY <1>0, <1>2, <2>1 DEF ImportReplace, TypeOKStore, TaskTypes, Jobs, Ops, Counts
<1>3. ASSUME NEW t \in Tasks, IncrementUsage(t)
      PROVE  TypeOKStore'
  <2>1. pending' \in Counts /\ used' \in Counts
    BY <1>0, <1>3 DEF IncrementUsage, Counts
  <2>2. TaskTypes'
    BY <1>0, <1>3 DEF IncrementUsage, TaskTypes, Busy
  <2> QED
    BY <1>0, <1>3, <2>1, <2>2 DEF IncrementUsage, TypeOKStore, TaskTypes, Jobs, Ops, Counts
<1>4. ASSUME NEW t \in Tasks, CallFlush(t)
      PROVE  TypeOKStore'
  <2>1. TaskTypes'
    BY <1>0, <1>4 DEF CallFlush, TaskTypes, Busy
  <2> QED
    BY <1>0, <1>4, <2>1 DEF CallFlush, TypeOKStore, TaskTypes, Jobs, Ops, Counts
<1>5. ASSUME NEW t \in Tasks, Flush(t)
      PROVE  TypeOKStore'
  <2>1. Continue(t, FlushJob, EmptyList, Zero, FALSE) \/ Load(t, FlushJob, pending)
    BY <1>5 DEF Flush, FlushJob
  <2>2. TaskTypes'
    BY <1>0, <2>1, FlushJobTyped, ContinueTyped, LoadTyped, BasicTypes
  <2> QED
    BY <1>0, <1>5, <2>2, BasicTypes DEF Flush, TypeOKStore, TaskTypes, Jobs, Ops, Counts
<1>6. ASSUME NEW t \in Tasks, ReadFile(t)
      PROVE  TypeOKStore'
  <2>1. TaskTypes'
    BY <1>0, <1>6 DEF ReadFile, TaskTypes, Busy
  <2> QED
    BY <1>0, <1>6, <2>1 DEF ReadFile, TypeOKStore, TaskTypes, Jobs, Ops, Counts
<1>7. ASSUME NEW t \in Tasks, CacheFile(t)
      PROVE  TypeOKStore'
  <2>1. /\ list[t] \in Lists /\ job[t] \in Jobs /\ flushing \in Counts
        /\ (t \in outdated) \in BOOLEAN
    BY <1>0 DEF TaskTypes
  <2>2. Continue(t, job[t], list[t], flushing, t \in outdated)
    BY <1>7 DEF CacheFile
  <2>3. TaskTypes'
    BY <1>0, <2>1, <2>2, ContinueTyped
  <2> QED
    BY <1>0, <1>7, <2>1, <2>3 DEF CacheFile, TypeOKStore, TaskTypes, Jobs, Ops, Counts
<1>8. ASSUME NEW t \in Tasks, OpenTmp(t) \/ WriteTmp(t)
      PROVE  TypeOKStore'
  <2>1. TaskTypes' /\ tmp' \in Lists \cup {NoList}
    BY <1>0, <1>8 DEF OpenTmp, WriteTmp, TaskTypes, Busy
  <2> QED
    BY <1>0, <1>8, <2>1 DEF OpenTmp, WriteTmp, TypeOKStore, TaskTypes, Jobs, Ops, Counts
<1>9. ASSUME NEW t \in Tasks, ReplaceDisk(t)
      PROVE  TypeOKStore'
  <2>1. TaskTypes'
    BY <1>0, <1>9, BasicTypes DEF ReplaceDisk, TaskTypes, Busy, Overtaken
  <2> QED
    BY <1>0, <1>9, <2>1 DEF ReplaceDisk, TypeOKStore, TaskTypes, Jobs, Ops, Counts
<1>10. ASSUME NEW t \in Tasks, FinishSave(t)
       PROVE  TypeOKStore'
  <2>1. saveQueue # <<>>
    BY <1>10 DEF FinishSave, StoreInv, WriterIsHead, Saving, HasLock
  <2>2. TaskTypes'
    BY <1>0, <1>10, <2>1, LeaveTyped DEF FinishSave, TaskTypes
  <2>3. list[t] \in Lists /\ job[t].ids \in SUBSET Accounts
    BY <1>0 DEF TaskTypes, Jobs
  <2>4. pooled' \in SUBSET Accounts /\ removed' \in SUBSET Accounts
    BY <1>0, <1>10, <2>3 DEF FinishSave, TellPool
  <2>5. replacedAll' \in SUBSET Accounts
    BY <1>0, <1>10 DEF FinishSave
  <2> QED
    BY <1>0, <1>10, <2>2, <2>3, <2>4, <2>5 DEF FinishSave, TypeOKStore, TaskTypes, Jobs, Ops, Counts
<1>11. ASSUME NEW t \in Tasks, SaveFails(t)
       PROVE  TypeOKStore'
  <2>1. TaskTypes' /\ lost' \in Counts
    BY <1>0, <1>11, LeaveTyped, SumTyped, BasicTypes DEF SaveFails, TaskTypes, HasLock
  <2> QED
    BY <1>0, <1>11, <2>1 DEF SaveFails, TypeOKStore, TaskTypes, Jobs, Ops, Counts
<1>12. ASSUME Restart
       PROVE  TypeOKStore'
  <2>1. TaskTypes'
    <3>1. <<>> \in Seq(Tasks)
      OBVIOUS
    <3> QED
      BY <1>0, <1>12, <3>1, BasicTypes DEF Restart, TaskTypes, Busy
  <2>2. lost' \in Counts
    BY <1>0, <1>12, SumTyped DEF Restart, TaskTypes
  <2>3. /\ cache' \in Lists \cup {NotLoaded}
        /\ pooled' \in SUBSET Accounts /\ offAtStart' \in SUBSET Accounts
    BY <1>0, <1>12 DEF Restart, Lists, Listed
  <2> QED
    BY <1>0, <1>12, <2>1, <2>2, <2>3, BasicTypes DEF Restart, TypeOKStore, TaskTypes, Jobs, Ops, Counts
<1>13. CASE UNCHANGED storeVars
  BY <1>13 DEF storeVars, StoreInv, TypeOKStore
<1>14. ASSUME NEW t \in Tasks, ReadNothing(t)
       PROVE  TypeOKStore'
  <2> DEFINE old == disk # NoList
  <2>1. old \in BOOLEAN /\ Continue(t, job[t], EmptyList, flushing, old)
    BY <1>14 DEF ReadNothing
  <2> HIDE DEF old
  <2>2. TaskTypes'
    BY <1>0, <2>1, ContinueTyped, BasicTypes DEF TaskTypes
  <2>3. lost' \in Counts
    BY <1>0, <1>14, SumTyped DEF ReadNothing, TaskTypes
  <2> QED
    BY <1>0, <1>14, <2>2, <2>3 DEF ReadNothing, TypeOKStore, TaskTypes, Jobs, Ops, Counts
<1> QED
  BY <1>0, <1>1, <1>2, <1>3, <1>4, <1>5, <1>6, <1>7, <1>8, <1>9, <1>10, <1>11,
     <1>12, <1>13, <1>14, CallStarts DEF NextStore
-----------------------------------------------------------------------------
(* The lock, the two files and the cache.                                  *)

\* A step in which t alone moves, and does not write.
Local(t) ==
    /\ pc[t] \notin Saving
    /\ pc'[t] \in {"idle", "flushWait", "reading", "queued"}
    /\ pc'[t] = "reading" => job'[t].op # "replace"
    /\ \A u \in Tasks \ {t} :
         /\ pc'[u] = pc[u] /\ job'[u] = job[u] /\ list'[u] = list[u]
         /\ u \in outdated' <=> u \in outdated
    /\ saveQueue' \in {saveQueue, Append(saveQueue, t)}
    /\ disk' = disk /\ tmp' = tmp

LEMMA ContinueLocal ==
    ASSUME NEW t \in Tasks, NEW j, NEW l, NEW inc, NEW old, TaskTypes,
           pc[t] \notin Saving, disk' = disk, tmp' = tmp,
           Continue(t, j, l, inc, old)
    PROVE  Local(t)
BY DEF Continue, Local, TaskTypes

LEMMA LoadLocal ==
    ASSUME NEW t \in Tasks, NEW j, NEW inc, TaskTypes, j.op # "replace",
           pc[t] \notin Saving, disk' = disk, tmp' = tmp, Load(t, j, inc)
    PROVE  Local(t)
<1>1. CASE Continue(t, j, cache, inc, CacheBehind)
  BY <1>1, ContinueLocal
<1>2. CASE ~Continue(t, j, cache, inc, CacheBehind)
  BY <1>2 DEF Load, Local, TaskTypes
<1> QED
  BY <1>1, <1>2

LEMMA LocalKeepsFiles ==
    ASSUME NEW t \in Tasks, TaskTypes, Local(t),
           WriterIsHead, WriterFiles, ReadsAreRecent
    PROVE  /\ WriterIsHead' /\ WriterFiles' /\ ReadsAreRecent'
           /\ \A u \in Tasks : pc'[u] = "replaced" <=> pc[u] = "replaced"
<1>1. pc'[t] \notin Saving /\ pc'[t] # "read"
  BY DEF Local, Saving
<1>2. WriterIsHead'
  <2> SUFFICES ASSUME NEW u \in Tasks, pc'[u] \in Saving
               PROVE  HasLock(u)'
    BY DEF WriterIsHead
  <2>1. u # t /\ pc[u] \in Saving
    BY <1>1 DEF Local
  <2>2. saveQueue # <<>> /\ Head(saveQueue) = u /\ saveQueue \in Seq(Tasks)
    BY <2>1 DEF WriterIsHead, HasLock, TaskTypes
  <2>3. /\ Append(saveQueue, t) # <<>>
        /\ Head(Append(saveQueue, t)) = Head(saveQueue)
    BY <2>2
  <2> QED
    BY <2>2, <2>3 DEF Local, HasLock
<1>3. WriterFiles'
  BY <1>1 DEF WriterFiles, Local, Saving
<1>4. ReadsAreRecent'
  BY <1>1 DEF ReadsAreRecent, Local
<1>5. \A u \in Tasks : pc'[u] = "replaced" <=> pc[u] = "replaced"
  BY <1>1 DEF Local, Saving
<1> QED
  BY <1>2, <1>3, <1>4, <1>5

\* The steps of NextStore that are local.
LocalStep(t) ==
    \/ Starts(t) \/ ImportReplace(t) \/ IncrementUsage(t) \/ CallFlush(t)
    \/ Flush(t) \/ ReadNothing(t) \/ CacheFile(t)

LEMMA LocalSteps ==
    ASSUME NEW t \in Tasks, TaskTypes, LocalStep(t)
    PROVE  Local(t)
<1> USE DEF fileVars, Saving
<1>1. CASE Starts(t)
  BY <1>1, LoadLocal DEF Starts
<1>2. CASE ImportReplace(t)
  BY <1>2, ReplaceStarts, ContinueLocal DEF ImportReplace
<1>3. CASE IncrementUsage(t) \/ CallFlush(t)
  BY <1>3 DEF IncrementUsage, CallFlush, Local, TaskTypes, ghostVars
<1>4. CASE Flush(t)
  <2>1. CASE pending = Zero
    BY <1>4, <2>1, ContinueLocal DEF Flush
  <2>2. CASE pending # Zero
    BY <1>4, <2>2, LoadLocal, FlushJobTyped DEF Flush, FlushJob
  <2> QED
    BY <2>1, <2>2
<1>5. CASE ReadNothing(t)
  BY <1>5, ContinueLocal DEF ReadNothing
<1>6. CASE CacheFile(t)
  BY <1>6, ContinueLocal DEF CacheFile
<1> QED
  BY <1>1, <1>2, <1>3, <1>4, <1>5, <1>6 DEF LocalStep
FilesInv == WriterIsHead /\ WriterFiles /\ ReadsAreRecent /\ CacheIsFile

LEMMA LocalStepKeepsFiles ==
    ASSUME NEW t \in Tasks, TaskTypes, FilesInv, LocalStep(t)
    PROVE  FilesInv'
<1>1. Local(t)
  BY LocalSteps
<1>2. /\ WriterIsHead' /\ WriterFiles' /\ ReadsAreRecent'
      /\ \A u \in Tasks : pc'[u] = "replaced" <=> pc[u] = "replaced"
  BY <1>1, LocalKeepsFiles DEF FilesInv
<1>3. CASE UNCHANGED <<cache, staleCache>>
  BY <1>1, <1>2, <1>3 DEF FilesInv, CacheIsFile, Local
<1>4. CASE CacheFile(t)
  <2>1. /\ cache' = list[t] /\ staleCache' = (t \in outdated)
        /\ pc[t] = "read" /\ disk' = disk
    BY <1>4 DEF CacheFile
  <2>2. t \notin outdated => list[t] = disk
    BY <2>1 DEF FilesInv, ReadsAreRecent
  <2> QED
    BY <1>2, <2>1, <2>2 DEF FilesInv, CacheIsFile
<1> QED
  BY <1>3, <1>4 DEF LocalStep, Starts, ImportReplace, IncrementUsage, CallFlush,
     Flush, ReadNothing, fileVars, ghostVars

LEMMA OneWriter ==
    ASSUME NEW t \in Tasks, NEW u \in Tasks, WriterIsHead, HasLock(t),
           pc[u] \in Saving
    PROVE  u = t
BY DEF WriterIsHead, HasLock

LEMMA FilesPreserved ==
    ASSUME StoreInv, [NextStore]_storeVars
    PROVE  FilesInv'
<1> USE DEF fileVars, ghostVars, countVars
<1>0. TaskTypes /\ FilesInv
  BY TypesSplit DEF StoreInv, FilesInv
<1>1. ASSUME NEW t \in Tasks, LocalStep(t)
      PROVE  FilesInv'
  BY <1>0, <1>1, LocalStepKeepsFiles
<1>2. ASSUME NEW t \in Tasks, ReadFile(t)
      PROVE  FilesInv'
  <2>1. WriterIsHead' /\ WriterFiles'
    BY <1>0, <1>2 DEF ReadFile, TaskTypes, FilesInv, WriterIsHead, WriterFiles,
       HasLock, Saving
  <2>2. ReadsAreRecent'
    BY <1>0, <1>2 DEF ReadFile, TaskTypes, FilesInv, ReadsAreRecent
  <2>3. CacheIsFile'
    BY <1>0, <1>2 DEF ReadFile, TaskTypes, FilesInv, CacheIsFile
  <2> QED
    BY <2>1, <2>2, <2>3 DEF FilesInv
<1>3. ASSUME NEW t \in Tasks, OpenTmp(t) \/ WriteTmp(t)
      PROVE  FilesInv'
  <2>1. HasLock(t) /\ pc[t] # "replaced"
    BY <1>0, <1>3 DEF OpenTmp, WriteTmp, FilesInv, WriterIsHead, Saving
  <2>2. \A u \in Tasks \ {t} : pc'[u] = pc[u] /\ pc[u] \notin Saving
    BY <1>0, <1>3, <2>1, OneWriter DEF OpenTmp, WriteTmp, TaskTypes, FilesInv
  <2>3. pc'[t] = "writing" \/ (pc'[t] = "written" /\ tmp' = list[t])
    BY <1>0, <1>3 DEF OpenTmp, WriteTmp, TaskTypes
  <2>4. UNCHANGED <<disk, cache, list, saveQueue, job, outdated, staleCache>>
    BY <1>3 DEF OpenTmp, WriteTmp
  <2>5. WriterIsHead'
    BY <2>1, <2>2, <2>4 DEF WriterIsHead, HasLock
  <2>6. WriterFiles' /\ ReadsAreRecent'
    BY <1>0, <2>2, <2>3, <2>4 DEF FilesInv, WriterFiles, ReadsAreRecent, Saving
  <2>7. CacheIsFile'
    BY <1>0, <2>1, <2>2, <2>4 DEF FilesInv, CacheIsFile, Saving
  <2> QED
    BY <2>5, <2>6, <2>7 DEF FilesInv
<1>4. ASSUME NEW t \in Tasks, ReplaceDisk(t)
      PROVE  FilesInv'
  <2>1. HasLock(t)
    BY <1>0, <1>4 DEF ReplaceDisk, FilesInv, WriterIsHead, Saving
  <2>2. \A u \in Tasks \ {t} : pc'[u] = pc[u] /\ pc[u] \notin Saving
    BY <1>0, <1>4, <2>1, OneWriter DEF ReplaceDisk, TaskTypes, FilesInv
  <2>3. pc'[t] = "replaced" /\ disk' = list[t]
    BY <1>0, <1>4 DEF ReplaceDisk, TaskTypes, FilesInv, WriterFiles
  <2>4. UNCHANGED <<list, saveQueue, job>>
    BY <1>4 DEF ReplaceDisk
  <2>5. WriterIsHead'
    BY <2>1, <2>2, <2>4 DEF WriterIsHead, HasLock
  <2>6. WriterFiles'
    BY <2>2, <2>3, <2>4 DEF WriterFiles, Saving
  <2>7. ReadsAreRecent'
    BY <1>0, <1>4, <2>2, <2>3, <2>4
       DEF ReplaceDisk, Overtaken, FilesInv, ReadsAreRecent
  <2> QED
    BY <2>3, <2>5, <2>6, <2>7 DEF FilesInv, CacheIsFile
<1>5. ASSUME NEW t \in Tasks, FinishSave(t) \/ SaveFails(t)
      PROVE  FilesInv'
  <2>1. HasLock(t)
    BY <1>0, <1>5 DEF FinishSave, SaveFails, FilesInv, WriterIsHead, Saving
  <2>2. /\ pc'[t] = "idle" /\ disk' = disk
        /\ \A u \in Tasks \ {t} :
             /\ pc'[u] = pc[u] /\ pc[u] \notin Saving
             /\ list'[u] = list[u] /\ job'[u] = job[u]
             /\ u \in outdated' <=> u \in outdated
    BY <1>0, <1>5, <2>1, OneWriter
       DEF FinishSave, SaveFails, Leave, TaskTypes, FilesInv
  <2>3. WriterIsHead' /\ WriterFiles' /\ ReadsAreRecent'
    BY <1>0, <2>2 DEF WriterIsHead, WriterFiles, FilesInv, ReadsAreRecent, Saving
  <2>4. CASE FinishSave(t)
    <3>1. cache' = disk'
      BY <1>0, <2>2, <2>4 DEF FinishSave, FilesInv, WriterFiles
    <3> QED
      BY <2>3, <3>1 DEF FilesInv, CacheIsFile
  <2>5. CASE SaveFails(t)
    <3>1. CacheIsFile'
      BY <1>0, <2>2, <2>5 DEF SaveFails, FilesInv, CacheIsFile, Saving
    <3> QED
      BY <2>3, <3>1 DEF FilesInv
  <2> QED
    BY <1>5, <2>4, <2>5
<1>6. ASSUME Restart
      PROVE  FilesInv'
  BY <1>6 DEF Restart, FilesInv, WriterIsHead, WriterFiles, ReadsAreRecent,
     CacheIsFile, Saving
<1>7. CASE UNCHANGED storeVars
  BY <1>0, <1>7 DEF storeVars, FilesInv, WriterIsHead, WriterFiles, ReadsAreRecent,
     CacheIsFile, HasLock
<1>8. ASSUME NEW t \in Tasks, \/ AddAccount(t) \/ ImportMerge(t) \/ UpdateAccount(t)
                              \/ RemoveAccount(t) \/ ListAccounts(t)
      PROVE  FilesInv'
  <2>1. created \in SUBSET Accounts
    BY TypesSplit DEF StoreInv
  <2> QED
    BY <1>1, <1>8, <2>1, CallStarts DEF LocalStep
<1> QED
  BY <1>1, <1>2, <1>3, <1>4, <1>5, <1>6, <1>7, <1>8 DEF NextStore, LocalStep
-----------------------------------------------------------------------------
(* One flush at a time.                                                    *)

Flusher(t) == job[t].op = "flush" /\ pc[t] \in Busy

\* A step that neither starts nor ends a flush and leaves flushing alone.
LEMMA SameFlush ==
    ASSUME OneFlush, flushing' = flushing,
           \A u \in Tasks : /\ Flusher(u)' <=> Flusher(u)
                            /\ Flusher(u) /\ pc'[u] = "replaced" => pc[u] = "replaced"
    PROVE  OneFlush'
BY DEF OneFlush, Flusher, FlushLocked, Busy

\* A step that ends the flush of t, if it had one.
LEMMA FlushEnds ==
    ASSUME OneFlush, NEW t \in Tasks, ~Flusher(t)',
           \A u \in Tasks \ {t} : /\ Flusher(u)' <=> Flusher(u)
                                  /\ pc'[u] = pc[u],
           IF job[t].op = "flush" THEN Flusher(t) /\ flushing' = Zero
           ELSE flushing' = flushing
    PROVE  OneFlush'
BY DEF OneFlush, Flusher, FlushLocked, Busy

\* A step of a call that took the flush lock before or takes it now.
LEMMA FlushGoesOn ==
    ASSUME NEW t \in Tasks, \A u \in Tasks \ {t} : ~Flusher(u)',
           pc'[t] # "replaced" \/ flushing' = Zero,
           Flusher(t)' \/ flushing' = Zero
    PROVE  OneFlush'
BY DEF OneFlush, Flusher, FlushLocked, Busy

LEMMA OneFlushPreserved ==
    ASSUME StoreInv, [NextStore]_storeVars
    PROVE  OneFlush'
<1> USE DEF ghostVars, countVars
<1>0. TaskTypes /\ OneFlush /\ created \in SUBSET Accounts
  BY TypesSplit DEF StoreInv
<1>1. ASSUME NEW t \in Tasks, Starts(t)
      PROVE  OneFlush'
  <2>1. flushing' = flushing
    BY <1>1 DEF Starts, Load, Continue
  <2>2. ~Flusher(t) /\ ~Flusher(t)' /\ pc'[t] # "replaced"
    BY <1>0, <1>1 DEF Starts, Load, Continue, Flusher, Busy, TaskTypes, NoJob
  <2>3. \A u \in Tasks \ {t} : pc'[u] = pc[u] /\ job'[u] = job[u]
    BY <1>0, <1>1 DEF Starts, Load, Continue, TaskTypes
  <2> QED
    BY <1>0, <2>1, <2>2, <2>3, SameFlush DEF Flusher
<1>2. ASSUME NEW t \in Tasks, ImportReplace(t)
      PROVE  OneFlush'
  <2>1. PICK j \in Jobs : j.op = "replace" /\ Continue(t, j, EmptyList, Zero, FALSE)
    BY <1>2, ReplaceStarts DEF Job
  <2>2. flushing' = flushing
    BY <2>1 DEF Continue
  <2>3. ~Flusher(t) /\ ~Flusher(t)' /\ pc'[t] # "replaced"
    BY <1>0, <1>2, <2>1 DEF ImportReplace, Continue, Flusher, Busy, TaskTypes, NoJob
  <2>4. \A u \in Tasks \ {t} : pc'[u] = pc[u] /\ job'[u] = job[u]
    BY <1>0, <2>1 DEF Continue, TaskTypes
  <2> QED
    BY <1>0, <2>2, <2>3, <2>4, SameFlush DEF Flusher
<1>3. ASSUME NEW t \in Tasks, IncrementUsage(t) \/ CallFlush(t)
      PROVE  OneFlush'
  <2>1. \A u \in Tasks : /\ Flusher(u)' <=> Flusher(u)
                         /\ pc'[u] = "replaced" => pc[u] = "replaced"
    BY <1>0, <1>3 DEF IncrementUsage, CallFlush, Flusher, Busy, TaskTypes
  <2> QED
    BY <1>0, <1>3, <2>1, SameFlush DEF IncrementUsage, CallFlush
<1>4. ASSUME NEW t \in Tasks, Flush(t)
      PROVE  OneFlush'
  <2>1. \A u \in Tasks \ {t} : ~Flusher(u)'
    BY <1>0, <1>4, LocalSteps DEF LocalStep, Local, Flush, FlushLocked, Flusher
  <2>2. pc'[t] # "replaced"
    BY <1>0, <1>4, LocalSteps DEF LocalStep, Local
  <2>3. Flusher(t)' \/ flushing' = Zero
    <3>1. Continue(t, FlushJob, EmptyList, Zero, FALSE)
          \/ Continue(t, FlushJob, cache, pending, CacheBehind)
          \/ (pc' = [pc EXCEPT ![t] = "reading"] /\ job' = [job EXCEPT ![t] = FlushJob])
      BY <1>4 DEF Flush, Load, FlushJob
    <3> QED
      BY <1>0, <3>1, FlushJobTyped DEF Continue, Flusher, Busy, TaskTypes
  <2> QED
    BY <2>1, <2>2, <2>3, FlushGoesOn
<1>5. ASSUME NEW t \in Tasks, ReadFile(t) \/ ReadNothing(t) \/ CacheFile(t)
      PROVE  OneFlush'
  <2>1. \A u \in Tasks \ {t} : pc'[u] = pc[u] /\ job'[u] = job[u]
    BY <1>0, <1>5 DEF ReadFile, ReadNothing, CacheFile, Continue, TaskTypes
  <2>2. pc'[t] # "replaced" /\ pc[t] \in Busy
    BY <1>0, <1>5 DEF ReadFile, ReadNothing, CacheFile, Continue, TaskTypes, Busy
  <2>3. \/ job'[t] = job[t] /\ pc'[t] \in Busy
           /\ (job[t].op # "flush" => flushing' = flushing)
        \/ job'[t].op # "flush"
           /\ flushing' = IF job[t].op = "flush" THEN Zero ELSE flushing
    BY <1>0, <1>5 DEF ReadFile, ReadNothing, CacheFile, Continue, TaskTypes, Busy, NoJob
  <2>4. CASE job[t].op = "flush"
    <3>1. \A u \in Tasks \ {t} : ~Flusher(u)'
      BY <1>0, <2>1, <2>2, <2>4 DEF OneFlush, Flusher
    <3> QED
      BY <2>2, <2>3, <2>4, <3>1, FlushGoesOn DEF Flusher
  <2>5. CASE job[t].op # "flush"
    BY <1>0, <2>1, <2>2, <2>3, <2>5, SameFlush DEF Flusher
  <2> QED
    BY <2>4, <2>5
<1>6. ASSUME NEW t \in Tasks, OpenTmp(t) \/ WriteTmp(t)
      PROVE  OneFlush'
  <2>1. \A u \in Tasks : /\ Flusher(u)' <=> Flusher(u)
                         /\ pc'[u] = "replaced" => pc[u] = "replaced"
    BY <1>0, <1>6 DEF OpenTmp, WriteTmp, Flusher, Busy, TaskTypes
  <2> QED
    BY <1>0, <1>6, <2>1, SameFlush DEF OpenTmp, WriteTmp
<1>7. ASSUME NEW t \in Tasks, ReplaceDisk(t)
      PROVE  OneFlush'
  <2>1. \A u \in Tasks : Flusher(u)' <=> Flusher(u)
    BY <1>0, <1>7 DEF ReplaceDisk, Flusher, Busy, TaskTypes
  <2>2. \A u \in Tasks \ {t} : pc'[u] = pc[u]
    BY <1>0, <1>7 DEF ReplaceDisk, TaskTypes
  <2>3. CASE job[t].op = "flush"
    <3>1. Flusher(t) /\ flushing' = Zero
      BY <1>7, <2>3 DEF ReplaceDisk, Flusher, Busy
    <3>2. \A u \in Tasks \ {t} : ~Flusher(u)'
      BY <1>0, <2>1, <3>1 DEF OneFlush, Flusher
    <3> QED
      BY <3>1, <3>2, FlushGoesOn
  <2>4. CASE job[t].op # "flush"
    BY <1>0, <1>7, <2>1, <2>2, <2>4, SameFlush DEF ReplaceDisk, Flusher
  <2> QED
    BY <2>3, <2>4
<1>8. ASSUME NEW t \in Tasks, FinishSave(t) \/ SaveFails(t)
      PROVE  OneFlush'
  <2>1. ~Flusher(t)'
    BY <1>0, <1>8 DEF FinishSave, SaveFails, Leave, Flusher, Busy, TaskTypes
  <2>2. \A u \in Tasks \ {t} : pc'[u] = pc[u] /\ job'[u] = job[u]
    BY <1>0, <1>8 DEF FinishSave, SaveFails, Leave, TaskTypes
  <2>3. job[t].op = "flush" => Flusher(t) /\ flushing' = Zero
    BY <1>0, <1>8 DEF FinishSave, SaveFails, Flusher, Busy, OneFlush
  <2>4. job[t].op # "flush" => flushing' = flushing
    BY <1>8 DEF FinishSave, SaveFails
  <2> QED
    BY <1>0, <2>1, <2>2, <2>3, <2>4, FlushEnds DEF Flusher
<1>9. ASSUME Restart
      PROVE  OneFlush'
  BY <1>9 DEF Restart, OneFlush, FlushLocked, Busy
<1>10. CASE UNCHANGED storeVars
  BY <1>0, <1>10 DEF storeVars, OneFlush, FlushLocked
<1> QED
  BY <1>0, <1>1, <1>2, <1>3, <1>4, <1>5, <1>6, <1>7, <1>8, <1>9, <1>10, CallStarts
  DEF NextStore
-----------------------------------------------------------------------------
(* No list counts more uses than were reported.                            *)

\* What a call makes of a list counts at most what the list and, for a flush,
\* the increments count.
LEMMA EditedWithin ==
    ASSUME NEW j \in Jobs, NEW l \in Lists, NEW inc \in Counts,
           NEW a \in Accounts, NEW b \in Nat,
           l.uses[a] + (IF j.op = "flush" THEN inc[a] ELSE 0) <= b
    PROVE  Edited(j, l, inc).uses[a] <= b
<1>0. /\ l.uses[a] \in Nat /\ inc[a] \in Nat /\ l.uses \in [Accounts -> Nat]
      /\ Edited(j, l, inc).uses[a] \in Nat
  BY EditedTyped DEF Lists, Counts
<1>1. CASE j.op \in {"none", "add", "update", "list"}
  <2>1. Edited(j, l, inc).uses = l.uses
    BY <1>1 DEF Edited, Lists
  <2> QED
    BY <1>0, <1>1, <2>1
<1>2. CASE j.op = "replace"
  <2>1. Edited(j, l, inc).uses[a] = 0
    BY <1>2 DEF Edited, Zero
  <2> QED
    BY <2>1
<1>3. CASE j.op = "remove"
  <2>1. Edited(j, l, inc) = Without(l, j.ids)
    BY <1>3 DEF Edited
  <2>2. Without(l, j.ids).uses[a] <= l.uses[a]
    BY <1>0 DEF Without
  <2> QED
    BY <1>0, <1>3, <2>1, <2>2
<1>4. CASE j.op = "flush"
  <2>1. Edited(j, l, inc) = WithUses(l, inc)
    BY <1>4 DEF Edited
  <2>2. WithUses(l, inc).uses[a] <= l.uses[a] + inc[a]
    BY <1>0 DEF WithUses, Lists
  <2> QED
    BY <1>0, <1>4, <2>1, <2>2
<1> QED
  BY <1>1, <1>2, <1>3, <1>4 DEF Jobs, Ops

\* The conjunct of ListsWithinUses about one task.
ListOK(t) ==
    IF Merged(t) THEN \A a \in Accounts : list[t].uses[a] + pending[a] <= used[a]
    ELSE WithinUses(list[t])

LEMMA ContinueWithin ==
    ASSUME NEW t \in Tasks, NEW j \in Jobs, NEW l \in Lists, NEW inc \in Counts,
           NEW old, TaskTypes, TaskTypes', pending' \in Counts, used' \in Counts,
           Continue(t, j, l, inc, old), WithinUses(EmptyList)',
           \A a \in Accounts :
             IF j.op = "flush" THEN l.uses[a] + inc[a] + pending'[a] <= used'[a]
             ELSE l.uses[a] + pending'[a] + flushing'[a] <= used'[a]
    PROVE  ListOK(t)'
<1>0. \A a \in Accounts : /\ l.uses[a] \in Nat /\ inc[a] \in Nat
                          /\ pending'[a] \in Nat /\ used'[a] \in Nat
                          /\ flushing'[a] \in Nat
  BY DEF Lists, Counts, TaskTypes
<1>1. CASE Saves(j, l, inc)
  <2>1. /\ list'[t] = Edited(j, l, inc) /\ job'[t] = j /\ pc'[t] = "queued"
    BY <1>1 DEF Continue, TaskTypes
  <2>2. Merged(t)' <=> j.op = "flush"
    BY <2>1 DEF Merged
  <2>3. \A a \in Accounts : Edited(j, l, inc).uses[a] \in Nat
    BY EditedTyped DEF Lists
  <2>4. CASE j.op = "flush"
    <3>1. ASSUME NEW a \in Accounts
          PROVE  Edited(j, l, inc).uses[a] + pending'[a] <= used'[a]
      <4>1. /\ used'[a] - pending'[a] \in Nat
            /\ l.uses[a] + inc[a] <= used'[a] - pending'[a]
        BY <1>0, <2>4
      <4>2. Edited(j, l, inc).uses[a] <= used'[a] - pending'[a]
        BY <2>4, <4>1, EditedWithin
      <4> QED
        BY <1>0, <2>3, <4>2
    <3> QED
      BY <2>1, <2>2, <2>4, <3>1 DEF ListOK
  <2>5. CASE j.op # "flush"
    <3>1. ASSUME NEW a \in Accounts
          PROVE  Edited(j, l, inc).uses[a] + pending'[a] + flushing'[a] <= used'[a]
      <4> DEFINE b == used'[a] - pending'[a] - flushing'[a]
      <4>1. b \in Nat /\ l.uses[a] + 0 <= b
        BY <1>0, <2>5
      <4> HIDE DEF b
      <4>2. Edited(j, l, inc).uses[a] <= b
        BY <2>5, <4>1, EditedWithin
      <4> QED
        BY <1>0, <2>3, <4>2 DEF b
    <3> QED
      BY <2>1, <2>2, <2>5, <3>1 DEF ListOK, WithinUses
  <2> QED
    BY <2>4, <2>5
<1>2. CASE ~Saves(j, l, inc)
  <2>1. list'[t] = EmptyList /\ ~Merged(t)'
    BY <1>2 DEF Continue, TaskTypes, Merged, NoJob
  <2> QED
    BY <2>1 DEF ListOK, WithinUses, EmptyList
<1> QED
  BY <1>1, <1>2
\* A step that leaves the lists of all tasks but t alone, and in which no
\* bound gets tighter, keeps what is known of them.
LEMMA OthersStay ==
    ASSUME NEW u \in Tasks, TaskTypes, ListOK(u),
           pending \in Counts, used \in Counts, pending' \in Counts,
           used' \in Counts, flushing' \in Counts,
           list'[u] = list[u], Merged(u)' <=> Merged(u),
           \A a \in Accounts :
             /\ pending'[a] + used[a] <= pending[a] + used'[a]
             /\ pending'[a] + flushing'[a] + used[a]
                  <= pending[a] + flushing[a] + used'[a]
    PROVE  ListOK(u)'
<1>1. \A a \in Accounts : /\ list[u].uses[a] \in Nat
                          /\ pending[a] \in Nat /\ used[a] \in Nat
                          /\ flushing[a] \in Nat /\ flushing'[a] \in Nat
                          /\ pending'[a] \in Nat /\ used'[a] \in Nat
  BY DEF TaskTypes, Lists, Counts
<1>2. CASE Merged(u)
  BY <1>1, <1>2 DEF ListOK
<1>3. CASE ~Merged(u)
  BY <1>1, <1>3 DEF ListOK, WithinUses
<1> QED
  BY <1>2, <1>3

\* The same for the empty list, the file and the cache.
FilesWithin ==
    /\ WithinUses(EmptyList)
    /\ disk # NoList => WithinUses(disk)
    /\ cache # NotLoaded => WithinUses(cache)

LEMMA ListsSplit == ListsWithinUses <=> FilesWithin /\ \A t \in Tasks : ListOK(t)
BY DEF ListsWithinUses, FilesWithin, ListOK

LEMMA WithinStays ==
    ASSUME NEW l \in Lists, WithinUses(l), TaskTypes,
           pending \in Counts, used \in Counts, pending' \in Counts,
           used' \in Counts, flushing' \in Counts,
           \A a \in Accounts : pending'[a] + flushing'[a] + used[a]
                                 <= pending[a] + flushing[a] + used'[a]
    PROVE  \A a \in Accounts : l.uses[a] + pending'[a] + flushing'[a] <= used'[a]
<1>1. \A a \in Accounts : /\ l.uses[a] \in Nat
                          /\ pending[a] \in Nat /\ used[a] \in Nat
                          /\ flushing[a] \in Nat /\ flushing'[a] \in Nat
                          /\ pending'[a] \in Nat /\ used'[a] \in Nat
  BY DEF TaskTypes, Lists, Counts
<1> QED
  BY <1>1 DEF WithinUses
NoTighter ==
    \A a \in Accounts :
      /\ pending'[a] + used[a] <= pending[a] + used'[a]
      /\ pending'[a] + flushing'[a] + used[a]
           <= pending[a] + flushing[a] + used'[a]

CountTypes ==
    /\ TaskTypes /\ TaskTypes'
    /\ disk \in Lists \cup {NoList} /\ cache \in Lists \cup {NotLoaded}
    /\ pending \in Counts /\ pending' \in Counts
    /\ used \in Counts /\ used' \in Counts

LEMMA FilesStay ==
    ASSUME CountTypes, NoTighter, FilesWithin,
           disk' = disk, cache' = cache
    PROVE  FilesWithin'
<1>1. flushing' \in Counts
  BY DEF CountTypes, TaskTypes
<1>2. \A a \in Accounts : EmptyList.uses[a] + pending'[a] + flushing'[a] <= used'[a]
  BY <1>1, BasicTypes, WithinStays DEF CountTypes, NoTighter, FilesWithin
<1>3. disk # NoList =>
        \A a \in Accounts : disk.uses[a] + pending'[a] + flushing'[a] <= used'[a]
  BY <1>1, WithinStays DEF CountTypes, NoTighter, FilesWithin
<1>4. cache # NotLoaded =>
        \A a \in Accounts : cache.uses[a] + pending'[a] + flushing'[a] <= used'[a]
  BY <1>1, WithinStays DEF CountTypes, NoTighter, FilesWithin
<1> QED
  BY <1>2, <1>3, <1>4 DEF FilesWithin, WithinUses, EmptyList

LEMMA OthersKept ==
    ASSUME NEW t \in Tasks, CountTypes, NoTighter, \A u \in Tasks : ListOK(u),
           \A u \in Tasks \ {t} : list'[u] = list[u] /\ (Merged(u)' <=> Merged(u))
    PROVE  \A u \in Tasks \ {t} : ListOK(u)'
<1>1. flushing' \in Counts
  BY DEF CountTypes, TaskTypes
<1> QED
  BY <1>1, OthersStay DEF CountTypes, NoTighter

\* A call of task t that is not a flush goes on with list l.
LEMMA CallWithin ==
    ASSUME NEW t \in Tasks, NEW j \in Jobs, NEW l \in Lists, NEW inc \in Counts,
           NEW old, CountTypes, FilesWithin, \A u \in Tasks : ListOK(u),
           WithinUses(l), j.op # "flush",
           Continue(t, j, l, inc, old), pending' = pending, used' = used
    PROVE  NoTighter /\ \A u \in Tasks : ListOK(u)'
<1>1. flushing' = flushing
  BY DEF Continue
<1>2. NoTighter
  <2>1. \A a \in Accounts : pending[a] \in Nat /\ used[a] \in Nat /\ flushing[a] \in Nat
    BY DEF CountTypes, TaskTypes, Counts
  <2> QED
    BY <1>1, <2>1 DEF NoTighter
<1>3. \A u \in Tasks \ {t} : ListOK(u)'
  <2>1. \A u \in Tasks \ {t} : list'[u] = list[u] /\ pc'[u] = pc[u] /\ job'[u] = job[u]
    BY DEF Continue, CountTypes, TaskTypes
  <2> QED
    BY <1>2, <2>1, OthersKept DEF Merged
<1>4. ListOK(t)'
  <2>1. \A a \in Accounts : l.uses[a] + pending'[a] + flushing'[a] <= used'[a]
    BY <1>1 DEF WithinUses
  <2>2. WithinUses(EmptyList)'
    BY <1>1 DEF FilesWithin, WithinUses, EmptyList
  <2> QED
    BY <2>1, <2>2, ContinueWithin DEF CountTypes
<1> QED
  BY <1>2, <1>3, <1>4

\* A flush of task t goes on with list l; inc is what it took.
LEMMA FlushWithin ==
    ASSUME NEW t \in Tasks, NEW j \in Jobs, NEW l \in Lists, NEW inc \in Counts,
           NEW old, CountTypes, FilesWithin, \A u \in Tasks : ListOK(u),
           j.op = "flush", Continue(t, j, l, inc, old), used' = used,
           \A a \in Accounts :
             /\ pending'[a] <= pending[a]
             /\ pending'[a] + inc[a] <= pending[a] + flushing[a]
             /\ l.uses[a] + inc[a] + pending'[a] <= used[a]
    PROVE  NoTighter /\ \A u \in Tasks : ListOK(u)'
<1>0. \A a \in Accounts : /\ pending[a] \in Nat /\ used[a] \in Nat
                          /\ flushing[a] \in Nat /\ pending'[a] \in Nat
                          /\ inc[a] \in Nat
  BY DEF CountTypes, TaskTypes, Counts
<1>1. flushing' = inc \/ flushing' = Zero
  BY DEF Continue
<1>2. NoTighter
  BY <1>0, <1>1 DEF NoTighter, Zero
<1>3. \A u \in Tasks \ {t} : ListOK(u)'
  <2>1. \A u \in Tasks \ {t} : list'[u] = list[u] /\ pc'[u] = pc[u] /\ job'[u] = job[u]
    BY DEF Continue, CountTypes, TaskTypes
  <2> QED
    BY <1>2, <2>1, OthersKept DEF Merged
<1>4. ListOK(t)'
  <2>1. WithinUses(EmptyList)'
    <3>1. \A a \in Accounts :
            EmptyList.uses[a] + pending'[a] + flushing'[a] <= used'[a]
      BY <1>2, BasicTypes, WithinStays DEF CountTypes, NoTighter, FilesWithin, TaskTypes
    <3> QED
      BY <3>1 DEF WithinUses, EmptyList
  <2> QED
    BY <2>1, ContinueWithin DEF CountTypes
<1> QED
  BY <1>2, <1>3, <1>4
LEMMA ListsPreserved ==
    ASSUME StoreInv, [NextStore]_storeVars
    PROVE  ListsWithinUses'
<1> USE DEF ghostVars, countVars, fileVars
<1>0. /\ TaskTypes /\ CountTypes /\ created \in SUBSET Accounts
      /\ tmp \in Lists \cup {NoList}
      /\ WriterIsHead /\ WriterFiles /\ OneFlush
      /\ FilesWithin /\ \A t \in Tasks : ListOK(t)
  <2>1. TypeOKStore'
    BY TypesPreserved
  <2>2. TaskTypes' /\ pending' \in Counts /\ used' \in Counts
    BY <2>1 DEF TypeOKStore, TaskTypes, Jobs, Ops, Counts
  <2> QED
    BY <2>2, TypesSplit, ListsSplit DEF StoreInv, CountTypes
<1>n. \A a \in Accounts : /\ pending[a] \in Nat /\ used[a] \in Nat
                          /\ flushing[a] \in Nat
  BY <1>0 DEF TaskTypes, CountTypes, Counts
<1> SUFFICES FilesWithin' /\ \A u \in Tasks : ListOK(u)'
  BY DEF ListsWithinUses, FilesWithin, ListOK
<1>1. ASSUME NEW t \in Tasks, Starts(t)
      PROVE  FilesWithin' /\ \A u \in Tasks : ListOK(u)'
  <2>1. PICK j \in Jobs : j.op \notin {"replace", "flush"} /\ Load(t, j, Zero)
    BY <1>1 DEF Starts
  <2>2. flushing' = flushing
    BY <2>1 DEF Load, Continue
  <2>3. NoTighter
    BY <1>1, <1>n, <2>2 DEF Starts, NoTighter
  <2>4. FilesWithin'
    BY <1>0, <1>1, <2>3, FilesStay DEF Starts
  <2>5. CASE cache # NotLoaded /\ Continue(t, j, cache, Zero, CacheBehind)
    BY <1>0, <1>1, <2>1, <2>4, <2>5, CallWithin, BasicTypes
       DEF Starts, FilesWithin, CountTypes
  <2>6. CASE ~(cache # NotLoaded /\ Continue(t, j, cache, Zero, CacheBehind))
    <3>1. \A u \in Tasks : list'[u] = list[u] /\ (Merged(u)' <=> Merged(u))
      BY <1>0, <1>1, <2>1, <2>6 DEF Load, Starts, Merged, Saving, TaskTypes
    <3>2. flushing' \in Counts
      BY <1>0 DEF CountTypes, TaskTypes
    <3> QED
      BY <1>0, <2>3, <2>4, <3>1, <3>2, OthersStay DEF CountTypes, NoTighter
  <2> QED
    BY <2>5, <2>6
<1>2. ASSUME NEW t \in Tasks, ImportReplace(t)
      PROVE  FilesWithin' /\ \A u \in Tasks : ListOK(u)'
  <2>1. PICK j \in Jobs : j.op = "replace" /\ Continue(t, j, EmptyList, Zero, FALSE)
    BY <1>2, ReplaceStarts DEF Job
  <2>2. NoTighter /\ \A u \in Tasks : ListOK(u)'
    BY <1>0, <1>2, <2>1, CallWithin, BasicTypes DEF ImportReplace, FilesWithin
  <2> QED
    BY <1>0, <1>2, <2>2, FilesStay DEF ImportReplace
<1>3. ASSUME NEW t \in Tasks, IncrementUsage(t) \/ CallFlush(t)
      PROVE  FilesWithin' /\ \A u \in Tasks : ListOK(u)'
  <2>1. flushing' = flushing
    BY <1>3 DEF IncrementUsage, CallFlush
  <2>2. NoTighter
    BY <1>0, <1>n, <1>3, <2>1 DEF IncrementUsage, CallFlush, NoTighter, CountTypes, Counts
  <2>3. FilesWithin'
    BY <1>0, <1>3, <2>2, FilesStay DEF IncrementUsage, CallFlush
  <2>4. \A u \in Tasks : list'[u] = list[u] /\ (Merged(u)' <=> Merged(u))
    BY <1>0, <1>3 DEF IncrementUsage, CallFlush, Merged, Saving, TaskTypes
  <2>5. flushing' \in Counts
    BY <1>0 DEF CountTypes, TaskTypes
  <2> QED
    BY <1>0, <2>2, <2>3, <2>4, <2>5, OthersStay DEF CountTypes, NoTighter
<1>4. ASSUME NEW t \in Tasks, Flush(t)
      PROVE  FilesWithin' /\ \A u \in Tasks : ListOK(u)'
  <2>1. flushing = Zero /\ pending' = Zero /\ used' = used
        /\ disk' = disk /\ cache' = cache
    BY <1>0, <1>4 DEF Flush, OneFlush
  <2>2. CASE pending = Zero
    <3>1. Continue(t, FlushJob, EmptyList, Zero, FALSE)
      BY <1>4, <2>2 DEF Flush, FlushJob
    <3>2. \A a \in Accounts : /\ pending'[a] <= pending[a]
                              /\ pending'[a] + Zero[a] <= pending[a] + flushing[a]
                              /\ EmptyList.uses[a] + Zero[a] + pending'[a] <= used[a]
      BY <1>n, <2>1 DEF Zero, EmptyList
    <3>3. NoTighter /\ \A u \in Tasks : ListOK(u)'
      BY <1>0, <2>1, <3>1, <3>2, FlushJobTyped, BasicTypes, FlushWithin
    <3> QED
      BY <1>0, <2>1, <3>3, FilesStay
  <2>3. CASE pending # Zero /\ cache # NotLoaded
             /\ Continue(t, FlushJob, cache, pending, CacheBehind)
    <3>1. \A a \in Accounts : cache.uses[a] + pending[a] <= used[a]
      BY <1>0, <1>n, <2>1, <2>3 DEF FilesWithin, WithinUses, Zero, CountTypes, Lists
    <3>2. \A a \in Accounts : /\ pending'[a] <= pending[a]
                              /\ pending'[a] + pending[a] <= pending[a] + flushing[a]
                              /\ cache.uses[a] + pending[a] + pending'[a] <= used[a]
      BY <1>0, <1>n, <2>1, <2>3, <3>1 DEF Zero, CountTypes, Lists
    <3>3. NoTighter /\ \A u \in Tasks : ListOK(u)'
      BY <1>0, <2>1, <2>3, <3>2, FlushJobTyped, FlushWithin DEF CountTypes
    <3> QED
      BY <1>0, <2>1, <3>3, FilesStay
  <2>4. CASE pending # Zero
             /\ ~(cache # NotLoaded /\ Continue(t, FlushJob, cache, pending, CacheBehind))
    <3>1. /\ flushing' = pending /\ list' = list
          /\ \A u \in Tasks : Merged(u)' <=> Merged(u)
      BY <1>0, <1>4, <2>4, FlushJobTyped
         DEF Flush, Load, FlushJob, Merged, Saving, TaskTypes
    <3>2. NoTighter
      BY <1>n, <2>1, <3>1 DEF NoTighter, Zero
    <3>3. flushing' \in Counts
      BY <1>0 DEF CountTypes, TaskTypes
    <3> QED
      BY <1>0, <2>1, <3>1, <3>2, <3>3, FilesStay, OthersStay
         DEF CountTypes, NoTighter
  <2> QED
    BY <1>4, <2>2, <2>3, <2>4 DEF Flush, Load, FlushJob
<1>5. ASSUME NEW t \in Tasks, ReadNothing(t)
      PROVE  FilesWithin' /\ \A u \in Tasks : ListOK(u)'
  <2> DEFINE old == disk # NoList
  <2>1. /\ Continue(t, job[t], EmptyList, flushing, old)
        /\ pending' = pending /\ used' = used /\ disk' = disk /\ cache' = cache
        /\ job[t] \in Jobs /\ flushing \in Counts
    BY <1>0, <1>5 DEF ReadNothing, TaskTypes
  <2> HIDE DEF old
  <2>2. CASE job[t].op = "flush"
    <3>1. \A a \in Accounts :
            /\ pending'[a] <= pending[a]
            /\ pending'[a] + flushing[a] <= pending[a] + flushing[a]
            /\ EmptyList.uses[a] + flushing[a] + pending'[a] <= used[a]
      BY <1>0, <1>n, <2>1 DEF FilesWithin, WithinUses, EmptyList, Zero
    <3>2. NoTighter /\ \A u \in Tasks : ListOK(u)'
      BY <1>0, <2>1, <2>2, <3>1, BasicTypes, FlushWithin
    <3> QED
      BY <1>0, <2>1, <3>2, FilesStay
  <2>3. CASE job[t].op # "flush"
    <3>1. NoTighter /\ \A u \in Tasks : ListOK(u)'
      BY <1>0, <2>1, <2>3, BasicTypes, CallWithin DEF FilesWithin
    <3> QED
      BY <1>0, <2>1, <3>1, FilesStay
  <2> QED
    BY <2>2, <2>3
<1>6. ASSUME NEW t \in Tasks, ReadFile(t)
      PROVE  FilesWithin' /\ \A u \in Tasks : ListOK(u)'
  <2>1. /\ UNCHANGED <<pending, used, flushing, disk, cache>>
        /\ list' = [list EXCEPT ![t] = disk]
        /\ \A u \in Tasks : Merged(u)' <=> Merged(u)
        /\ ~Merged(t)
    BY <1>0, <1>6 DEF ReadFile, Merged, Saving, TaskTypes, countVars
  <2>2. NoTighter
    BY <1>n, <2>1 DEF NoTighter
  <2>3. ListOK(t)'
    BY <1>0, <1>6, <2>1 DEF ReadFile, ListOK, FilesWithin, WithinUses, TaskTypes
  <2>4. \A u \in Tasks \ {t} : ListOK(u)'
    BY <1>0, <2>1, <2>2, OthersKept DEF TaskTypes
  <2> QED
    BY <1>0, <2>1, <2>2, <2>3, <2>4, FilesStay
<1>7. ASSUME NEW t \in Tasks, CacheFile(t)
      PROVE  FilesWithin' /\ \A u \in Tasks : ListOK(u)'
  <2>1. /\ Continue(t, job[t], list[t], flushing, t \in outdated)
        /\ pending' = pending /\ used' = used /\ disk' = disk /\ cache' = list[t]
        /\ job[t] \in Jobs /\ flushing \in Counts /\ list[t] \in Lists
    BY <1>0, <1>7 DEF CacheFile, TaskTypes
  <2>2. WithinUses(list[t])
    BY <1>0, <1>7 DEF CacheFile, ListOK, Merged, Saving
  <2>3. NoTighter /\ \A u \in Tasks : ListOK(u)'
    <3>1. CASE job[t].op = "flush"
      <4>1. \A a \in Accounts : list[t].uses[a] + flushing[a] + pending[a] <= used[a]
        BY <1>n, <2>1, <2>2 DEF WithinUses, Lists
      <4> QED
        BY <1>0, <1>n, <2>1, <3>1, <4>1, FlushWithin
    <3>2. CASE job[t].op # "flush"
      BY <1>0, <2>1, <2>2, <3>2, CallWithin
    <3> QED
      BY <3>1, <3>2
  <2>4. flushing' \in Counts
    BY <1>0 DEF CountTypes, TaskTypes
  <2>5. \A a \in Accounts : list[t].uses[a] + pending'[a] + flushing'[a] <= used'[a]
    BY <1>0, <2>1, <2>2, <2>3, <2>4, WithinStays DEF CountTypes, NoTighter
  <2>6. \A a \in Accounts : EmptyList.uses[a] + pending'[a] + flushing'[a] <= used'[a]
    BY <1>0, <2>3, <2>4, BasicTypes, WithinStays DEF CountTypes, NoTighter, FilesWithin
  <2>7. disk # NoList =>
          \A a \in Accounts : disk.uses[a] + pending'[a] + flushing'[a] <= used'[a]
    BY <1>0, <2>3, <2>4, WithinStays DEF CountTypes, NoTighter, FilesWithin
  <2>8. FilesWithin'
    BY <2>1, <2>5, <2>6, <2>7 DEF FilesWithin, WithinUses, EmptyList
  <2> QED
    BY <2>3, <2>8
<1>8. ASSUME NEW t \in Tasks, OpenTmp(t) \/ WriteTmp(t)
      PROVE  FilesWithin' /\ \A u \in Tasks : ListOK(u)'
  <2>1. /\ UNCHANGED <<pending, used, flushing, disk, cache, list>>
        /\ \A u \in Tasks : Merged(u)' <=> Merged(u)
    BY <1>0, <1>8 DEF OpenTmp, WriteTmp, Merged, Saving, TaskTypes
  <2>2. NoTighter
    BY <1>n, <2>1 DEF NoTighter
  <2> QED
    BY <1>0, <2>1, <2>2, FilesStay, OthersStay DEF CountTypes, NoTighter, TaskTypes
<1>9. ASSUME NEW t \in Tasks, ReplaceDisk(t)
      PROVE  FilesWithin' /\ \A u \in Tasks : ListOK(u)'
  <2>1. /\ UNCHANGED <<pending, used, cache, list>> /\ disk' = list[t]
        /\ \A u \in Tasks : Merged(u)' <=> Merged(u)
        /\ flushing' = IF job[t].op = "flush" THEN Zero ELSE flushing
        /\ job[t].op = "flush" <=> Merged(t)
        /\ list[t] \in Lists
    BY <1>0, <1>9 DEF ReplaceDisk, Merged, Saving, TaskTypes, WriterFiles
  <2>2. NoTighter
    BY <1>n, <2>1 DEF NoTighter, Zero
  <2>3. flushing' \in Counts
    BY <1>0 DEF CountTypes, TaskTypes
  <2>4. \A u \in Tasks : ListOK(u)'
    BY <1>0, <2>1, <2>2, <2>3, OthersStay DEF CountTypes, NoTighter
  <2>5. \A a \in Accounts : list[t].uses[a] + pending'[a] + flushing'[a] <= used'[a]
    <3>1. CASE Merged(t)
      BY <1>0, <1>n, <2>1, <3>1 DEF ListOK, Zero, Lists
    <3>2. CASE ~Merged(t)
      BY <1>0, <2>1, <3>2 DEF ListOK, WithinUses
    <3> QED
      BY <3>1, <3>2
  <2>6. \A a \in Accounts : EmptyList.uses[a] + pending'[a] + flushing'[a] <= used'[a]
    BY <1>0, <2>2, <2>3, BasicTypes, WithinStays DEF CountTypes, NoTighter, FilesWithin
  <2>7. cache # NotLoaded =>
          \A a \in Accounts : cache.uses[a] + pending'[a] + flushing'[a] <= used'[a]
    BY <1>0, <2>2, <2>3, WithinStays DEF CountTypes, NoTighter, FilesWithin
  <2>8. FilesWithin'
    BY <2>1, <2>5, <2>6, <2>7 DEF FilesWithin, WithinUses, EmptyList
  <2> QED
    BY <2>4, <2>8
<1>10. ASSUME NEW t \in Tasks, FinishSave(t)
       PROVE  FilesWithin' /\ \A u \in Tasks : ListOK(u)'
  <2>1. /\ UNCHANGED <<pending, used, flushing, disk>> /\ cache' = list[t]
        /\ list'[t] = EmptyList /\ ~Merged(t)' /\ pc[t] = "replaced"
        /\ \A u \in Tasks \ {t} : list'[u] = list[u] /\ (Merged(u)' <=> Merged(u))
    BY <1>0, <1>10 DEF FinishSave, Leave, Merged, Saving, TaskTypes
  <2>2. NoTighter
    BY <1>n, <2>1 DEF NoTighter
  <2>3. \A a \in Accounts : list[t].uses[a] + pending[a] + flushing[a] <= used[a]
    <3>1. CASE Merged(t)
      <4>1. flushing = Zero
        BY <1>0, <2>1, <3>1 DEF OneFlush, Merged
      <4>2. \A a \in Accounts : list[t].uses[a] \in Nat
        BY <1>0 DEF TaskTypes, Lists
      <4> QED
        BY <1>0, <1>n, <3>1, <4>1, <4>2 DEF ListOK, Zero
    <3>2. CASE ~Merged(t)
      BY <1>0, <3>2 DEF ListOK, WithinUses
    <3> QED
      BY <3>1, <3>2
  <2>4. FilesWithin'
    BY <1>0, <2>1, <2>3 DEF FilesWithin, WithinUses, EmptyList
  <2>5. ListOK(t)'
    BY <2>1, <2>4 DEF ListOK, FilesWithin, WithinUses, EmptyList
  <2>6. \A u \in Tasks \ {t} : ListOK(u)'
    BY <1>0, <2>1, <2>2, OthersKept
  <2> QED
    BY <2>4, <2>5, <2>6
<1>11. ASSUME NEW t \in Tasks, SaveFails(t)
       PROVE  FilesWithin' /\ \A u \in Tasks : ListOK(u)'
  <2>1. /\ UNCHANGED <<pending, used, disk, cache>>
        /\ flushing' = IF job[t].op = "flush" THEN Zero ELSE flushing
        /\ list'[t] = EmptyList /\ ~Merged(t)'
        /\ \A u \in Tasks \ {t} : list'[u] = list[u] /\ (Merged(u)' <=> Merged(u))
    BY <1>0, <1>11 DEF SaveFails, Leave, Merged, Saving, TaskTypes
  <2>2. NoTighter
    BY <1>n, <2>1 DEF NoTighter, Zero
  <2>3. FilesWithin'
    BY <1>0, <2>1, <2>2, FilesStay
  <2>4. ListOK(t)'
    BY <2>1, <2>3 DEF ListOK, FilesWithin, WithinUses, EmptyList
  <2>5. \A u \in Tasks \ {t} : ListOK(u)'
    BY <1>0, <2>1, <2>2, OthersKept
  <2> QED
    BY <2>3, <2>4, <2>5
<1>12. ASSUME Restart
       PROVE  FilesWithin' /\ \A u \in Tasks : ListOK(u)'
  <2>1. /\ pending' = Zero /\ flushing' = Zero /\ used' = used /\ disk' = disk
        /\ cache' = NotLoaded \/ (cache' = disk /\ disk # NoList)
        /\ \A u \in Tasks : list'[u] = EmptyList /\ ~Merged(u)'
    BY <1>12 DEF Restart, Merged, Saving
  <2>2. NoTighter /\ flushing' \in Counts
    BY <1>0, <1>n, <2>1 DEF NoTighter, Zero, CountTypes, TaskTypes
  <2>3. \A a \in Accounts : EmptyList.uses[a] + pending'[a] + flushing'[a] <= used'[a]
    BY <1>0, <2>2, BasicTypes, WithinStays DEF CountTypes, NoTighter, FilesWithin
  <2>4. disk # NoList =>
          \A a \in Accounts : disk.uses[a] + pending'[a] + flushing'[a] <= used'[a]
    BY <1>0, <2>2, WithinStays DEF CountTypes, NoTighter, FilesWithin
  <2>5. FilesWithin'
    BY <2>1, <2>3, <2>4 DEF FilesWithin, WithinUses, EmptyList
  <2>6. \A u \in Tasks : ListOK(u)'
    BY <2>1, <2>5 DEF ListOK, FilesWithin, WithinUses, EmptyList
  <2> QED
    BY <2>5, <2>6
<1>13. CASE UNCHANGED storeVars
  BY <1>0, <1>13 DEF storeVars, FilesWithin, WithinUses, ListOK, Merged, EmptyList
<1> QED
  BY <1>0, <1>1, <1>2, <1>3, <1>4, <1>5, <1>6, <1>7, <1>8, <1>9, <1>10, <1>11,
     <1>12, <1>13, CallStarts DEF NextStore

-----------------------------------------------------------------------------
(* The theorems.                                                           *)

LEMMA InitInvariant == InitStore => StoreInv
<1> SUFFICES ASSUME InitStore PROVE StoreInv
  OBVIOUS
<1>1. TypeOKStore
  BY InitTyped
<1>2. WriterIsHead /\ WriterFiles /\ ReadsAreRecent /\ CacheIsFile
  BY DEF InitStore, WriterIsHead, WriterFiles, ReadsAreRecent, CacheIsFile, Saving
<1>3. OneFlush
  BY DEF InitStore, OneFlush, FlushLocked, Busy
<1>4. \A a \in Accounts : Zero[a] = 0
  BY DEF Zero
<1>5. /\ pending = Zero /\ flushing = Zero /\ used = Zero
      /\ disk # NoList => disk.uses = Zero
      /\ cache # NotLoaded => cache.uses = Zero
      /\ \A t \in Tasks : list[t] = EmptyList /\ ~Merged(t)
  BY DEF InitStore, Merged, Saving
<1>6. ListsWithinUses
  BY <1>4, <1>5 DEF ListsWithinUses, WithinUses, EmptyList
<1> QED
  BY <1>1, <1>2, <1>3, <1>6 DEF StoreInv

LEMMA NextInvariant == StoreInv /\ [NextStore]_storeVars => StoreInv'
BY TypesPreserved, FilesPreserved, OneFlushPreserved, ListsPreserved
DEF StoreInv, FilesInv

\* The invariant of the store, for any accounts and any number of callers.
THEOREM StoreInvariant == SpecStore => []StoreInv
BY InitInvariant, NextInvariant, PTL DEF SpecStore

\* The cache never lags behind accounts.json, nor runs ahead of it, except
\* while a save is between the rename and its cache update, or after a cold
\* read that a save overtook.
THEOREM CacheFollowsFile == SpecStore => []CacheIsFile
BY StoreInvariant, PTL DEF StoreInv

\* No interleaving of increments, flushes, edits, failures and crashes makes
\* the usage counts exceed what was reported.
THEOREM NoUseTwice == SpecStore => []NoUseCountedTwice
<1>1. StoreInv => NoUseCountedTwice
  BY DEF StoreInv, ListsWithinUses, WithinUses, NoUseCountedTwice, Listed,
     TypeOKStore, Lists
<1> QED
  BY <1>1, StoreInvariant, PTL

\* Whatever is under way when the process dies, accounts.json is a complete
\* list once one was saved.
THEOREM FileReadable == SpecStore => FileStaysReadable
<1>1. StoreInv /\ [NextStore]_storeVars => [disk # NoList => disk' # NoList]_storeVars
  <2> SUFFICES ASSUME StoreInv, NextStore, disk # NoList PROVE disk' # NoList
    OBVIOUS
  <2>1. ASSUME NEW t \in Tasks, ReplaceDisk(t) PROVE disk' # NoList
    <3>1. disk' = list[t] /\ list[t] \in Lists
      BY <2>1, TypesSplit DEF StoreInv, ReplaceDisk, WriterFiles, TaskTypes
    <3> QED
      BY <3>1, StoreAssumption
  <2>2. (\A t \in Tasks : ~ReplaceDisk(t)) => disk' = disk
    BY DEF NextStore, AddAccount, ImportMerge, ImportReplace, UpdateAccount,
       RemoveAccount, ListAccounts, IncrementUsage, CallFlush, Flush, ReadFile,
       ReadNothing, CacheFile, OpenTmp, WriteTmp, FinishSave, SaveFails, Restart, fileVars
  <2> QED
    BY <2>1, <2>2
<1> QED
  BY <1>1, StoreInvariant, PTL DEF SpecStore, FileStaysReadable

-----------------------------------------------------------------------------
(* What else holds as long as no save was based on a list that was not the *)
(* file's, for it was old or could not be read.  Two                       *)
(* invariants: what the lists, the pool and the counts know of an account, *)
(* which holds always, and what file, cache and pool agree in, which holds *)
(* until a list is overwritten with an older one.                          *)

\* The tasks that bring new accounts, and those of them that have not written them yet.
Adding(t) == job[t].op \in {"add", "replace"} /\ pc[t] \in Busy
Coming(t) == Adding(t) /\ pc[t] # "replaced"

Removing(t) == job[t].op = "remove" /\ pc[t] \in {"queued"} \cup Saving

\* The list as a new process would read it.
FileList == IF disk = NoList THEN EmptyList ELSE disk

\* Enabled accounts are listed, listed ones were created, and only these have a count.
WellFormed(l) ==
    /\ l.on \subseteq l.ids /\ l.ids \subseteq created
    /\ \A a \in Accounts : a \notin l.ids => l.uses[a] = 0

ListsWellFormed ==
    /\ WellFormed(FileList)
    /\ cache # NotLoaded => WellFormed(cache)
    /\ \A t \in Tasks : WellFormed(list[t])
    /\ \A t \in Tasks : job[t].on \subseteq job[t].ids /\ job[t].ids \subseteq created
    /\ pooled \subseteq created /\ removed \subseteq created

\* What a removal has queued lacks the account.
RemovalsQueued == \A t \in Tasks : Removing(t) => list[t].ids \cap job[t].ids = {}

\* An account that was not created, or is being added, was never used.
NewcomersUnused ==
    /\ \A a \in Accounts : a \notin created => used[a] = 0
    /\ \A t \in Tasks : Adding(t) =>
         /\ job[t].ids \cap pooled = {} /\ job[t].ids \cap removed = {}
         /\ \A a \in job[t].ids : used[a] = 0
         /\ \A u \in Tasks : Adding(u) /\ u # t => job[t].ids \cap job[u].ids = {}

\* Until its task has written it, it is in no list but the task's, and nobody removes it.
NewcomersUnlisted ==
    \A t \in Tasks : Coming(t) =>
        /\ job[t].ids \cap FileList.ids = {}
        /\ cache # NotLoaded => job[t].ids \cap cache.ids = {}
        /\ \A u \in Tasks : u # t \/ pc[t] = "read" => job[t].ids \cap list[u].ids = {}
        /\ \A u \in Tasks : Removing(u) => job[t].ids \cap job[u].ids = {}

IdInv == ListsWellFormed /\ RemovalsQueued /\ NewcomersUnused /\ NewcomersUnlisted

CountsWithinUsed == \A a \in Accounts : pending[a] + flushing[a] + lost[a] <= used[a]

\* A list that is not old is the file's with the edit of its task.
EditsOfFile ==
    \A t \in Tasks : t \notin outdated /\ pc[t] \in {"queued", "writing", "written"} =>
        list[t] = Edited(job[t], FileList, flushing)

\* While a rename waits for its cache update the cache lacks the new accounts at most.
CacheAlmostFile ==
    \A t \in Tasks : pc[t] = "replaced" /\ cache # NotLoaded =>
        \A a \in FileList.ids : a \in cache.ids \/ (Adding(t) /\ a \in job[t].ids)

\* The pool, and the accounts an import took out, once task t has told the pool.
PoolAfter(t) ==
    IF job[t].op \in {"add", "replace"} THEN pooled \cup job[t].ids
    ELSE IF job[t].op = "remove" THEN pooled \ job[t].ids ELSE pooled
ReplacedAfter(t) ==
    IF job[t].op = "replace" THEN replacedAll \cup (pooled \ job[t].ids) ELSE replacedAll

Agree(p, r) == p \ r \subseteq FileList.ids /\ FileList.ids \ p \subseteq offAtStart

PoolFollowsFile ==
    /\ (\A t \in Tasks : pc[t] # "replaced") => Agree(pooled, replacedAll)
    /\ \A t \in Tasks : pc[t] = "replaced" => Agree(PoolAfter(t), ReplacedAfter(t))

RemovedAreGone == removed \cap FileList.ids = {} /\ removed \cap pooled = {}

UsesAccounted ==
    \A a \in FileList.ids : FileList.uses[a] + pending[a] + flushing[a] + lost[a] = used[a]

CurrentInv ==
    /\ CountsWithinUsed
    /\ staleCache => overwritten
    /\ ~overwritten => /\ EditsOfFile /\ CacheAlmostFile /\ PoolFollowsFile
                       /\ RemovedAreGone /\ UsesAccounted
-----------------------------------------------------------------------------
(* The shape of the steps in which a call reads a list.                    *)

\* Task t alone moves: with list l it queues the edit of job j or returns; or it goes to
\* look for the file, or has read it.
Moves(t, j, l) ==
    /\ \A u \in Tasks : u # t => /\ pc'[u] = pc[u] /\ job'[u] = job[u] /\ list'[u] = list[u]
                                 /\ u \in outdated' <=> u \in outdated
    /\ \/ /\ pc'[t] = "queued" /\ job'[t] = j /\ list'[t] = Edited(j, l, flushing')
          /\ j.op \in {"update", "remove"} => j.ids \subseteq l.ids
       \/ pc'[t] = "idle" /\ job'[t] = NoJob /\ list'[t] = EmptyList
       \/ pc'[t] = "reading" /\ job'[t] = j /\ list'[t] = list[t]
       \/ pc'[t] = "read" /\ job'[t] = j /\ list'[t] = l /\ l = FileList

\* Unless a list was overwritten, what the task read is the file, or it is marked as old.
Recent(t, j, l) ==
    ~overwritten' /\ pc'[t] = "queued" =>
        t \in outdated' \/ j.op = "replace" \/ l = FileList

\* The job is a new call, or the one the task was on.
GoodJob(t, j) ==
    /\ j.on \subseteq j.ids /\ j.ids \subseteq created'
    /\ \/ pc[t] \in {"reading", "read"} /\ j = job[t]
       \/ /\ pc[t] \in {"idle", "flushWait"}
          /\ j.op \in {"add", "replace"} => j.ids \cap created = {}

\* The list is the cache, the file, what the task read of it, or no list.
GoodList(t, l) ==
    \/ l = EmptyList \/ l = FileList
    \/ cache # NotLoaded /\ l = cache
    \/ pc[t] = "read" /\ l = list[t]

Reads(t, j, l) ==
    /\ Moves(t, j, l) /\ Recent(t, j, l) /\ GoodJob(t, j) /\ GoodList(t, l)
    /\ created \subseteq created'
    /\ \/ cache' = cache
       \/ /\ pc[t] = "read" /\ l = list[t] /\ cache' = l
          /\ ~overwritten' => l = FileList
    /\ overwritten => overwritten'
    /\ UNCHANGED <<disk, used, poolVars>>

LEMMA EditIgnores ==
    ASSUME NEW j, NEW l, NEW inc, NEW inc2, j.op # "flush"
    PROVE  Edited(j, l, inc) = Edited(j, l, inc2)
BY DEF Edited

LEMMA ContinueMoves ==
    ASSUME NEW t \in Tasks, NEW j \in Jobs, NEW l \in Lists, NEW inc \in Counts,
           NEW old \in BOOLEAN, TaskTypes, Continue(t, j, l, inc, old)
    PROVE  Moves(t, j, l) /\ (pc'[t] = "queued" /\ old => t \in outdated')
<1>1. \A u \in Tasks : u # t => /\ pc'[u] = pc[u] /\ job'[u] = job[u] /\ list'[u] = list[u]
                                /\ u \in outdated' <=> u \in outdated
  BY DEF Continue, TaskTypes
<1>2. CASE Saves(j, l, inc)
  <2>1. /\ pc'[t] = "queued" /\ job'[t] = j /\ list'[t] = Edited(j, l, inc)
        /\ old => t \in outdated'
        /\ j.op = "flush" => flushing' = inc
    BY <1>2 DEF Continue, TaskTypes
  <2>2. Edited(j, l, inc) = Edited(j, l, flushing')
    BY <2>1, EditIgnores
  <2>3. j.op \in {"update", "remove"} => j.ids \subseteq l.ids
    BY <1>2 DEF Saves
  <2> QED
    BY <1>1, <2>1, <2>2, <2>3 DEF Moves
<1>3. CASE ~Saves(j, l, inc)
  <2>1. pc'[t] = "idle" /\ job'[t] = NoJob /\ list'[t] = EmptyList
    BY <1>3 DEF Continue, TaskTypes
  <2> QED
    BY <1>1, <2>1 DEF Moves
<1> QED
  BY <1>2, <1>3

LEMMA LoadMoves ==
    ASSUME NEW t \in Tasks, NEW j \in Jobs, NEW inc \in Counts, StoreInv,
           staleCache => overwritten, Load(t, j, inc), UNCHANGED overwritten
    PROVE  \E l \in Lists : Moves(t, j, l) /\ Recent(t, j, l) /\ GoodList(t, l)
<1>0. TaskTypes /\ CacheIsFile /\ cache \in Lists \cup {NotLoaded} /\ staleCache \in BOOLEAN
  BY TypesSplit DEF StoreInv
<1>1. CASE cache # NotLoaded /\ Continue(t, j, cache, inc, CacheBehind)
  <2>1. CacheBehind \in BOOLEAN /\ cache \in Lists
    BY <1>0, <1>1 DEF CacheBehind
  <2>2. Moves(t, j, cache) /\ (pc'[t] = "queued" /\ CacheBehind => t \in outdated')
    BY <1>0, <1>1, <2>1, ContinueMoves
  <2>3. ~overwritten /\ ~CacheBehind => cache = FileList
    BY <1>0, <1>1, <2>1, StoreAssumption DEF CacheBehind, CacheIsFile, FileList
  <2>4. Recent(t, j, cache)
    BY <2>2, <2>3 DEF Recent
  <2> QED
    BY <1>1, <2>1, <2>2, <2>4 DEF GoodList
<1>2. CASE ~(cache # NotLoaded /\ Continue(t, j, cache, inc, CacheBehind))
  <2>1. /\ pc' = [pc EXCEPT ![t] = "reading"] /\ job' = [job EXCEPT ![t] = j]
        /\ list' = list /\ outdated' = outdated
    BY <1>2 DEF Load
  <2>2. Moves(t, j, EmptyList) /\ Recent(t, j, EmptyList)
    BY <1>0, <2>1 DEF Moves, Recent, TaskTypes
  <2> QED
    BY <2>2, BasicTypes DEF GoodList
<1> QED
  BY <1>1, <1>2

LEMMA NewCall ==
    ASSUME NEW t \in Tasks, created \in SUBSET Accounts,
           \/ AddAccount(t) \/ ImportMerge(t) \/ UpdateAccount(t)
           \/ RemoveAccount(t) \/ ListAccounts(t)
    PROVE  \E j \in Jobs :
             /\ Load(t, j, Zero) /\ GoodJob(t, j) /\ created \subseteq created'
             /\ j.op \notin {"replace", "flush"}
             /\ UNCHANGED <<fileVars, pending, used, lost, poolVars, staleCache, overwritten>>
<1> USE DEF Job, Jobs, Ops, GoodJob
<1>1. CASE AddAccount(t)
  <2>1. PICK a \in Fresh : created' = created \cup {a}
                           /\ Load(t, Job("add", {a}, {a}), Zero)
    BY <1>1 DEF AddAccount
  <2> QED
    BY <1>1, <2>1 DEF AddAccount, Fresh
<1>2. CASE ImportMerge(t)
  <2>1. PICK F \in SUBSET Fresh : \E on \in SUBSET F :
          created' = created \cup F /\ Load(t, Job("add", F, on), Zero)
    BY <1>2 DEF ImportMerge
  <2>2. PICK on \in SUBSET F :
          created' = created \cup F /\ Load(t, Job("add", F, on), Zero)
    BY <2>1
  <2>3. F \cap created = {} /\ F \in SUBSET Accounts /\ on \in SUBSET Accounts
    BY DEF Fresh
  <2> QED
    BY <1>2, <2>2, <2>3 DEF ImportMerge
<1>3. CASE UpdateAccount(t)
  <2>1. PICK a \in created : \E on \in SUBSET {a} : Load(t, Job("update", {a}, on), Zero)
    BY <1>3 DEF UpdateAccount
  <2>2. PICK on \in SUBSET {a} : Load(t, Job("update", {a}, on), Zero)
    BY <2>1
  <2> QED
    BY <1>3, <2>1, <2>2 DEF UpdateAccount
<1>4. CASE RemoveAccount(t)
  <2>1. PICK a \in created : Load(t, Job("remove", {a}, {}), Zero)
    BY <1>4 DEF RemoveAccount
  <2> QED
    BY <1>4, <2>1 DEF RemoveAccount
<1>5. CASE ListAccounts(t)
  BY <1>5 DEF ListAccounts
<1> QED
  BY <1>1, <1>2, <1>3, <1>4, <1>5

ReadStep(t) ==
    \/ AddAccount(t) \/ ImportMerge(t) \/ UpdateAccount(t) \/ RemoveAccount(t)
    \/ ListAccounts(t) \/ ImportReplace(t) \/ Flush(t) \/ ReadFile(t) \/ ReadNothing(t)
    \/ CacheFile(t)

LEMMA StepReads ==
    ASSUME NEW t \in Tasks, StoreInv, ListsWellFormed, staleCache => overwritten, ReadStep(t)
    PROVE  \E j \in Jobs, l \in Lists : Reads(t, j, l)
<1> USE DEF fileVars, poolVars
<1>0. /\ TaskTypes /\ created \in SUBSET Accounts /\ pending \in Counts
      /\ disk \in Lists \cup {NoList} /\ ReadsAreRecent
      /\ job[t] \in Jobs /\ list[t] \in Lists /\ flushing \in Counts
      /\ job[t].on \subseteq job[t].ids /\ job[t].ids \subseteq created
  BY TypesSplit DEF StoreInv, TaskTypes, ListsWellFormed
<1>1. CASE AddAccount(t) \/ ImportMerge(t) \/ UpdateAccount(t) \/ RemoveAccount(t)
           \/ ListAccounts(t)
  <2>1. PICK j \in Jobs :
             /\ Load(t, j, Zero) /\ GoodJob(t, j) /\ created \subseteq created'
             /\ UNCHANGED <<fileVars, pending, used, lost, poolVars, staleCache, overwritten>>
    BY <1>0, <1>1, NewCall
  <2>2. PICK l \in Lists : Moves(t, j, l) /\ Recent(t, j, l) /\ GoodList(t, l)
    BY <2>1, LoadMoves, BasicTypes
  <2> QED
    BY <2>1, <2>2 DEF Reads
<1>2. CASE ImportReplace(t)
  <2>1. PICK F \in SUBSET Fresh : \E on \in SUBSET F :
          /\ created' = created \cup F
          /\ Continue(t, Job("replace", F, on), EmptyList, Zero, FALSE)
    BY <1>2 DEF ImportReplace
  <2>2. PICK on \in SUBSET F :
          /\ created' = created \cup F
          /\ Continue(t, Job("replace", F, on), EmptyList, Zero, FALSE)
    BY <2>1
  <2> DEFINE j == Job("replace", F, on)
  <2>3. j \in Jobs /\ j.op = "replace" /\ GoodJob(t, j)
    BY <1>2, <2>2 DEF Job, Jobs, Ops, GoodJob, Fresh, ImportReplace
  <2> HIDE DEF j
  <2>4. Moves(t, j, EmptyList)
    BY <1>0, <2>2, <2>3, BasicTypes, ContinueMoves DEF j
  <2> QED
    BY <1>2, <2>2, <2>3, <2>4, BasicTypes DEF ImportReplace, Reads, Recent, GoodList
<1>3. CASE Flush(t)
  <2>1. GoodJob(t, FlushJob)
    BY <1>3 DEF Flush, GoodJob, FlushJob, Job
  <2>2. CASE pending = Zero
    <3>1. Continue(t, FlushJob, EmptyList, Zero, FALSE)
      BY <1>3, <2>2 DEF Flush, FlushJob
    <3>2. Moves(t, FlushJob, EmptyList)
      BY <1>0, <3>1, BasicTypes, FlushJobTyped, ContinueMoves
    <3>3. ~Saves(FlushJob, EmptyList, Zero)
      BY FlushJobTyped DEF Saves, EmptyList
    <3>4. pc'[t] = "idle"
      BY <1>0, <3>1, <3>3 DEF Continue, TaskTypes
    <3> QED
      BY <1>3, <2>1, <3>2, <3>4, BasicTypes, FlushJobTyped DEF Flush, Reads, Recent, GoodList
  <2>3. CASE pending # Zero
    <3>1. Load(t, FlushJob, pending)
      BY <1>3, <2>3 DEF Flush, FlushJob
    <3>2. PICK l \in Lists : Moves(t, FlushJob, l) /\ Recent(t, FlushJob, l) /\ GoodList(t, l)
      BY <1>0, <1>3, <3>1, FlushJobTyped, LoadMoves DEF Flush
    <3> QED
      BY <1>3, <2>1, <3>2, FlushJobTyped DEF Flush, Reads
  <2> QED
    BY <2>2, <2>3
<1>4. CASE ReadNothing(t)
  <2> DEFINE old == disk # NoList
  <2>1. /\ old \in BOOLEAN /\ Continue(t, job[t], EmptyList, flushing, old)
        /\ ~old => FileList = EmptyList
    BY <1>4 DEF ReadNothing, FileList
  <2> HIDE DEF old
  <2>2. Moves(t, job[t], EmptyList) /\ (pc'[t] = "queued" /\ old => t \in outdated')
    BY <1>0, <2>1, BasicTypes, ContinueMoves
  <2>3. Recent(t, job[t], EmptyList)
    BY <2>1, <2>2 DEF Recent
  <2>4. /\ pc[t] = "reading" /\ UNCHANGED <<disk, cache, used, poolVars, created, overwritten>>
    BY <1>4 DEF ReadNothing
  <2> QED
    BY <1>0, <2>2, <2>3, <2>4, BasicTypes DEF Reads, GoodList, GoodJob
<1>5. CASE ReadFile(t)
  <2>1. /\ pc' = [pc EXCEPT ![t] = "read"] /\ list' = [list EXCEPT ![t] = disk]
        /\ outdated' = outdated \ {t} /\ job' = job /\ FileList = disk /\ disk \in Lists
    BY <1>0, <1>5 DEF ReadFile, FileList
  <2>2. Moves(t, job[t], FileList) /\ Recent(t, job[t], FileList)
    BY <1>0, <2>1 DEF Moves, Recent, TaskTypes
  <2> QED
    BY <1>0, <1>5, <2>1, <2>2 DEF ReadFile, Reads, GoodList, GoodJob, countVars
<1>6. CASE CacheFile(t)
  <2>1. Continue(t, job[t], list[t], flushing, t \in outdated) /\ pc[t] = "read"
    BY <1>6 DEF CacheFile
  <2>2. (t \in outdated) \in BOOLEAN
    OBVIOUS
  <2>3. Moves(t, job[t], list[t]) /\ (pc'[t] = "queued" /\ t \in outdated => t \in outdated')
    BY <1>0, <2>1, <2>2, ContinueMoves
  <2>4. t \notin outdated => list[t] = FileList
    BY <1>0, <2>1, StoreAssumption DEF ReadsAreRecent, FileList
  <2>5. /\ overwritten' = (overwritten \/ t \in outdated) /\ cache' = list[t]
        /\ UNCHANGED <<disk, used, lost, poolVars, created>>
    BY <1>6 DEF CacheFile
  <2>6. Recent(t, job[t], list[t])
    BY <2>3, <2>4, <2>5 DEF Recent
  <2> QED
    BY <1>0, <2>1, <2>3, <2>4, <2>5, <2>6 DEF Reads, GoodList, GoodJob
<1> QED
  BY <1>1, <1>2, <1>3, <1>4, <1>5, <1>6 DEF ReadStep
-----------------------------------------------------------------------------
(* What lists, pool and counts know of an account.                         *)

LEMMA EditedWellFormed ==
    ASSUME NEW j \in Jobs, NEW l \in Lists, NEW inc \in Counts,
           l.on \subseteq l.ids, \A a \in Accounts : a \notin l.ids => l.uses[a] = 0,
           j.on \subseteq j.ids,
           j.op \in {"update", "remove"} => j.ids \subseteq l.ids
    PROVE  LET e == Edited(j, l, inc)
           IN  /\ e.on \subseteq e.ids
               /\ \A a \in Accounts : a \notin e.ids => e.uses[a] = 0
               /\ \A a \in e.ids : a \in l.ids \/ (j.op \in {"add", "replace"} /\ a \in j.ids)
               /\ j.op = "remove" => e.ids \cap j.ids = {}
<1> DEFINE e == Edited(j, l, inc)
<1>1. CASE j.op = "add"
  BY <1>1 DEF Edited, Lists, Jobs
<1>2. CASE j.op = "replace"
  BY <1>2 DEF Edited, Zero
<1>3. CASE j.op = "update"
  BY <1>3 DEF Edited, Lists, Jobs
<1>4. CASE j.op = "remove"
  <2>1. e = Without(l, j.ids)
    BY <1>4 DEF Edited
  <2> QED
    BY <1>4, <2>1 DEF Without
<1>5. CASE j.op = "flush"
  <2>1. e = WithUses(l, inc)
    BY <1>5 DEF Edited
  <2>2. e.ids = l.ids /\ e.on = l.on
    BY <2>1 DEF WithUses, Lists
  <2>3. \A a \in Accounts : a \notin l.ids => e.uses[a] = l.uses[a]
    BY <2>1 DEF WithUses, Lists
  <2> QED
    BY <1>5, <2>2, <2>3
<1>6. CASE j.op \in {"none", "list"}
  BY <1>6 DEF Edited
<1> QED
  BY <1>1, <1>2, <1>3, <1>4, <1>5, <1>6 DEF Jobs, Ops

LEMMA EmptyWellFormed == WellFormed(EmptyList) /\ WellFormed(EmptyList)'
BY DEF WellFormed, EmptyList, Zero

\* The list a task goes on with, and the lists of all tasks after that.
LEMMA ReadsWellFormed ==
    ASSUME NEW t \in Tasks, NEW j \in Jobs, NEW l \in Lists, TaskTypes, flushing' \in Counts,
           ListsWellFormed, Reads(t, j, l)
    PROVE  /\ WellFormed(l) /\ ListsWellFormed'
           /\ pc'[t] = "queued" =>
                /\ \A a \in list'[t].ids :
                     a \in l.ids \/ (j.op \in {"add", "replace"} /\ a \in j.ids)
                /\ j.op = "remove" => list'[t].ids \cap j.ids = {}
<1>1. WellFormed(l)
  BY EmptyWellFormed DEF Reads, GoodList, ListsWellFormed
<1>2. WellFormed(l)'
  BY <1>1 DEF WellFormed, Reads
<1>3. FileList' = FileList
  BY DEF Reads, FileList
<1>4. ASSUME pc'[t] = "queued"
      PROVE  /\ WellFormed(list[t])'
             /\ \A a \in list'[t].ids :
                  a \in l.ids \/ (j.op \in {"add", "replace"} /\ a \in j.ids)
             /\ j.op = "remove" => list'[t].ids \cap j.ids = {}
  <2>1. /\ list'[t] = Edited(j, l, flushing') /\ job'[t] = j
        /\ j.op \in {"update", "remove"} => j.ids \subseteq l.ids
    BY <1>4 DEF Reads, Moves
  <2>2. j.on \subseteq j.ids /\ j.ids \subseteq created'
    BY DEF Reads, GoodJob
  <2>3. l.on \subseteq l.ids /\ l.ids \subseteq created'
        /\ \A a \in Accounts : a \notin l.ids => l.uses[a] = 0
    BY <1>2 DEF WellFormed
  <2>4. /\ list'[t].on \subseteq list'[t].ids /\ list'[t].ids \subseteq created'
        /\ \A a \in Accounts : a \notin list'[t].ids => list'[t].uses[a] = 0
        /\ \A a \in list'[t].ids : a \in l.ids \/ (j.op \in {"add", "replace"} /\ a \in j.ids)
        /\ j.op = "remove" => list'[t].ids \cap j.ids = {}
    <3> DEFINE e == Edited(j, l, flushing')
    <3>1. /\ e.on \subseteq e.ids
          /\ \A a \in Accounts : a \notin e.ids => e.uses[a] = 0
          /\ \A a \in e.ids : a \in l.ids \/ (j.op \in {"add", "replace"} /\ a \in j.ids)
          /\ j.op = "remove" => e.ids \cap j.ids = {}
      BY <2>1, <2>2, <2>3, EditedWellFormed
    <3>2. e = list'[t]
      BY <2>1
    <3> HIDE DEF e
    <3> QED
      BY <2>2, <2>3, <3>1, <3>2
  <2> QED
    BY <2>4 DEF WellFormed
<1>5. WellFormed(list[t])' /\ job'[t].on \subseteq job'[t].ids /\ job'[t].ids \subseteq created'
  <2>1. CASE pc'[t] = "queued"
    <3>1. job'[t] = j
      BY <2>1 DEF Reads, Moves
    <3> QED
      BY <1>4, <2>1, <3>1 DEF Reads, GoodJob
  <2>2. CASE pc'[t] = "idle" /\ job'[t] = NoJob /\ list'[t] = EmptyList
    BY <2>2, EmptyWellFormed DEF NoJob, WellFormed
  <2>3. CASE pc'[t] = "reading" /\ job'[t] = j /\ list'[t] = list[t]
    BY <2>3 DEF Reads, GoodJob, ListsWellFormed, WellFormed
  <2>4. CASE pc'[t] = "read" /\ job'[t] = j /\ list'[t] = l
    BY <1>2, <2>4 DEF Reads, GoodJob, WellFormed
  <2> QED
    BY <2>1, <2>2, <2>3, <2>4 DEF Reads, Moves
<1>6. \A u \in Tasks : u # t => /\ WellFormed(list[u])' /\ job'[u].on \subseteq job'[u].ids
                                /\ job'[u].ids \subseteq created'
  BY DEF Reads, Moves, ListsWellFormed, WellFormed
<1>7. WellFormed(FileList)' /\ (cache' # NotLoaded => WellFormed(cache)')
  BY <1>2, <1>3 DEF Reads, ListsWellFormed, WellFormed
<1>8. pooled' \subseteq created' /\ removed' \subseteq created'
  BY DEF Reads, ListsWellFormed, poolVars
<1>9. ListsWellFormed'
  BY <1>5, <1>6, <1>7, <1>8 DEF ListsWellFormed
<1> QED
  BY <1>1, <1>4, <1>9 DEF Reads, Moves

LEMMA ReadsKeepIds ==
    ASSUME NEW t \in Tasks, NEW j \in Jobs, NEW l \in Lists, TaskTypes, flushing' \in Counts,
           IdInv, Reads(t, j, l)
    PROVE  IdInv'
<1> USE DEF Reads, Moves, poolVars
<1>1. /\ WellFormed(l) /\ ListsWellFormed' /\ FileList' = FileList
      /\ pc'[t] = "queued" =>
           /\ \A a \in list'[t].ids :
                a \in l.ids \/ (j.op \in {"add", "replace"} /\ a \in j.ids)
           /\ j.op = "remove" => list'[t].ids \cap j.ids = {}
  BY ReadsWellFormed DEF IdInv, FileList
<1>2. \A u \in Tasks : u # t => /\ Adding(u)' <=> Adding(u)
                                /\ Coming(u)' <=> Coming(u)
                                /\ Removing(u)' <=> Removing(u)
  BY DEF Adding, Coming, Removing
<1>3. Adding(t)' => /\ job'[t] = j /\ j.op \in {"add", "replace"} /\ Coming(t)'
                    /\ (Adding(t) /\ Coming(t) /\ j = job[t]) \/ j.ids \cap created = {}
  BY DEF Adding, Coming, GoodJob, NoJob, Busy
<1>4. Removing(t)' => pc'[t] = "queued" /\ job'[t] = j /\ j.op = "remove" /\ j.ids \subseteq l.ids
  BY DEF Removing, Saving, NoJob
<1>5. RemovalsQueued'
  BY <1>1, <1>2, <1>4 DEF IdInv, RemovalsQueued
<1>6. NewcomersUnused'
  <2>1. \A a \in Accounts : a \notin created' => used'[a] = 0
    BY DEF IdInv, NewcomersUnused
  <2>2. Adding(t)' => /\ job'[t].ids \cap pooled' = {} /\ job'[t].ids \cap removed' = {}
                      /\ \A a \in job'[t].ids : used'[a] = 0
    BY <1>3 DEF IdInv, NewcomersUnused, ListsWellFormed, Jobs
  <2>3. \A u \in Tasks : Adding(t)' /\ Adding(u)' /\ u # t => job'[t].ids \cap job'[u].ids = {}
    BY <1>2, <1>3 DEF IdInv, NewcomersUnused, ListsWellFormed
  <2>4. \A u \in Tasks : u # t /\ Adding(u)' =>
          /\ job'[u].ids \cap pooled' = {} /\ job'[u].ids \cap removed' = {}
          /\ \A a \in job'[u].ids : used'[a] = 0
    BY <1>2 DEF IdInv, NewcomersUnused
  <2>5. \A u, v \in Tasks : u # t /\ v # t /\ v # u /\ Adding(u)' /\ Adding(v)' =>
          job'[u].ids \cap job'[v].ids = {}
    BY <1>2 DEF IdInv, NewcomersUnused
  <2> QED
    BY <2>1, <2>2, <2>3, <2>4, <2>5 DEF NewcomersUnused
<1>7. NewcomersUnlisted'
  <2>1. ASSUME NEW u \in Tasks, u # t, Coming(u)'
        PROVE  /\ job'[u].ids \cap FileList'.ids = {}
               /\ cache' # NotLoaded => job'[u].ids \cap cache'.ids = {}
               /\ \A v \in Tasks : v # u \/ pc'[u] = "read" => job'[u].ids \cap list'[v].ids = {}
               /\ \A v \in Tasks : Removing(v)' => job'[u].ids \cap job'[v].ids = {}
    <3>1. Coming(u) /\ Adding(u) /\ Adding(u)' /\ job'[u] = job[u] /\ pc'[u] = pc[u]
      BY <1>2, <2>1 DEF Coming
    <3>2. job[u].ids \cap l.ids = {}
      BY <2>1, <3>1 DEF GoodList, IdInv, NewcomersUnlisted, EmptyList
    <3>3. cache' # NotLoaded => job'[u].ids \cap cache'.ids = {}
      BY <3>1, <3>2 DEF IdInv, NewcomersUnlisted
    <3>4. job[u].ids \cap list'[t].ids = {}
      <4>1. CASE pc'[t] = "queued"
        <5>1. j.op \in {"add", "replace"} => job[u].ids \cap j.ids = {}
          <6>1. j.op \in {"add", "replace"} => Adding(t)' /\ job'[t] = j
            BY <4>1 DEF Adding, Busy, Jobs
          <6> QED
            BY <1>6, <2>1, <3>1, <6>1 DEF NewcomersUnused
        <5> QED
          BY <1>1, <3>2, <4>1, <5>1
      <4>2. CASE pc'[t] # "queued"
        BY <2>1, <3>1, <3>2, <4>2 DEF EmptyList, IdInv, NewcomersUnlisted
      <4> QED
        BY <4>1, <4>2
    <3>5. Removing(t)' => job[u].ids \cap job'[t].ids = {}
      BY <1>4, <3>2
    <3>6. \A v \in Tasks : v # t => /\ v # u \/ pc[u] = "read" => job[u].ids \cap list'[v].ids = {}
                                    /\ Removing(v)' => job[u].ids \cap job'[v].ids = {}
      BY <1>2, <3>1 DEF IdInv, NewcomersUnlisted
    <3>7. job[u].ids \cap FileList'.ids = {}
      BY <1>1, <3>1 DEF IdInv, NewcomersUnlisted
    <3> QED
      BY <3>1, <3>3, <3>4, <3>5, <3>6, <3>7
  <2>2. ASSUME Coming(t)'
        PROVE  /\ job'[t].ids \cap FileList'.ids = {}
               /\ cache' # NotLoaded => job'[t].ids \cap cache'.ids = {}
               /\ \A v \in Tasks : v # t \/ pc'[t] = "read" => job'[t].ids \cap list'[v].ids = {}
               /\ \A v \in Tasks : Removing(v)' => job'[t].ids \cap job'[v].ids = {}
    <3>1. /\ job'[t] = j /\ j.op \in {"add", "replace"}
          /\ (Coming(t) /\ j = job[t]) \/ j.ids \cap created = {}
      BY <1>3, <2>2 DEF Coming
    <3>2. j.ids \cap FileList.ids = {} /\ (cache # NotLoaded => j.ids \cap cache.ids = {})
      BY <3>1 DEF IdInv, NewcomersUnlisted, ListsWellFormed, WellFormed
    <3>3. pc[t] = "read" => j.ids \cap list[t].ids = {}
      BY <3>1 DEF IdInv, NewcomersUnlisted, ListsWellFormed, WellFormed
    <3>4. \A v \in Tasks : v # t => /\ j.ids \cap list'[v].ids = {}
                                    /\ Removing(v)' => j.ids \cap job'[v].ids = {}
      BY <1>2, <3>1 DEF IdInv, NewcomersUnlisted, ListsWellFormed, WellFormed
    <3>5. ~Removing(t)' /\ (pc'[t] = "read" => list'[t] = FileList)
      BY <3>1 DEF Removing
    <3> QED
      BY <1>1, <3>1, <3>2, <3>3, <3>4, <3>5
  <2> HIDE DEF Reads, Moves
  <2> QED
    BY <2>1, <2>2 DEF NewcomersUnlisted
<1> QED
  BY <1>1, <1>5, <1>6, <1>7 DEF IdInv
\* Steps that move tasks on without a new list or job.
LEMMA SameIds ==
    ASSUME TaskTypes, IdInv, UNCHANGED <<disk, cache, list, job, created, poolVars>>,
           \A t \in Tasks : /\ Adding(t)' <=> Adding(t)
                            /\ Coming(t)' => Coming(t)
                            /\ Removing(t)' => Removing(t)
                            /\ pc'[t] = "read" => pc[t] = "read",
           \A a \in Accounts : used'[a] = used[a] \/ a \in pooled \/ a \in removed
    PROVE  IdInv'
<1> USE DEF poolVars
<1>1. FileList' = FileList
  BY DEF FileList
<1>2. ListsWellFormed'
  BY <1>1 DEF IdInv, ListsWellFormed, WellFormed
<1>3. RemovalsQueued'
  BY DEF IdInv, RemovalsQueued
<1>4. NewcomersUnused'
  <2>1. \A t \in Tasks : job[t].ids \subseteq Accounts
    BY DEF TaskTypes, Jobs
  <2> QED
    BY <2>1 DEF IdInv, NewcomersUnused, ListsWellFormed
<1>5. NewcomersUnlisted'
  BY <1>1 DEF IdInv, NewcomersUnlisted
<1> QED
  BY <1>2, <1>3, <1>4, <1>5 DEF IdInv

LEMMA ReplaceKeepsIds ==
    ASSUME NEW t \in Tasks, StoreInv, IdInv, ReplaceDisk(t)
    PROVE  IdInv'
<1> USE DEF poolVars
<1>0. TaskTypes /\ WriterFiles
  BY TypesSplit DEF StoreInv
<1>1. /\ pc[t] = "written" /\ pc'[t] = "replaced"
      /\ \A u \in Tasks : u # t => pc'[u] = pc[u]
      /\ disk' = list[t] /\ list[t] \in Lists /\ FileList' = list[t]
      /\ UNCHANGED <<cache, list, job, created, used, poolVars>>
  BY <1>0, StoreAssumption DEF ReplaceDisk, TaskTypes, WriterFiles, FileList
<1>2. \A u \in Tasks : /\ Adding(u)' <=> Adding(u)
                       /\ Coming(u)' => Coming(u) /\ u # t
                       /\ Removing(u)' => Removing(u)
                       /\ pc'[u] = "read" => pc[u] = "read"
  BY <1>1 DEF Adding, Coming, Removing, Saving, Busy
<1>3. ListsWellFormed'
  BY <1>1 DEF IdInv, ListsWellFormed, WellFormed
<1>4. RemovalsQueued' /\ NewcomersUnused'
  BY <1>1, <1>2 DEF IdInv, RemovalsQueued, NewcomersUnused
<1>5. NewcomersUnlisted'
  BY <1>1, <1>2 DEF IdInv, NewcomersUnlisted
<1> QED
  BY <1>3, <1>4, <1>5 DEF IdInv

LEMMA LeaveKeepsIds ==
    ASSUME NEW t \in Tasks, StoreInv, IdInv, FinishSave(t) \/ SaveFails(t)
    PROVE  IdInv'
<1> USE DEF poolVars
<1>0. TaskTypes /\ WriterIsHead
  BY TypesSplit DEF StoreInv
<1>1. /\ pc'[t] = "idle" /\ job'[t] = NoJob /\ list'[t] = EmptyList
      /\ \A u \in Tasks : u # t => pc'[u] = pc[u] /\ job'[u] = job[u] /\ list'[u] = list[u]
      /\ cache' = cache \/ cache' = list[t]
      /\ UNCHANGED <<disk, created, used>>
  BY <1>0 DEF FinishSave, SaveFails, Leave, TaskTypes, fileVars, countVars
<1>2. /\ FileList' = FileList /\ ~Adding(t)' /\ ~Removing(t)'
      /\ \A u \in Tasks : u # t => /\ Adding(u)' <=> Adding(u)
                                   /\ Coming(u)' <=> Coming(u)
                                   /\ Removing(u)' <=> Removing(u)
  BY <1>1 DEF FileList, Adding, Coming, Removing, Saving, NoJob, Busy
<1>3. \A u \in Tasks : u # t /\ Adding(u) => Coming(u) \/ UNCHANGED poolVars
  <2>1. SUFFICES ASSUME NEW u \in Tasks, u # t, pc[u] = "replaced", FinishSave(t) PROVE FALSE
    BY DEF SaveFails, Coming, Adding
  <2> QED
    BY <1>0, <2>1, OneWriter DEF FinishSave, WriterIsHead, Saving
<1>4. /\ pooled' \subseteq pooled \cup job[t].ids
      /\ \A a \in pooled' : a \in pooled \/ (Adding(t) /\ a \in job[t].ids)
      /\ \A a \in removed' : a \in removed \/ (Removing(t) /\ a \in job[t].ids)
  BY DEF FinishSave, SaveFails, TellPool, Adding, Removing, Saving, Busy
<1>5. ListsWellFormed'
  BY <1>1, <1>2, <1>4, EmptyWellFormed DEF IdInv, ListsWellFormed, WellFormed, NoJob
<1>6. RemovalsQueued'
  BY <1>1, <1>2 DEF IdInv, RemovalsQueued
<1>7. NewcomersUnused'
  <2>1. ASSUME NEW u \in Tasks, Adding(u)'
        PROVE  job'[u].ids \cap pooled' = {} /\ job'[u].ids \cap removed' = {}
    <3>1. u # t /\ Adding(u) /\ job'[u] = job[u]
      BY <1>1, <1>2, <2>1
    <3>2. Adding(t) => job[u].ids \cap job[t].ids = {}
      BY <3>1 DEF IdInv, NewcomersUnused
    <3>3. Removing(t) => job[u].ids \cap job[t].ids = {} \/ UNCHANGED poolVars
      BY <1>3, <3>1 DEF IdInv, NewcomersUnlisted
    <3> QED
      BY <1>4, <3>1, <3>2, <3>3 DEF IdInv, NewcomersUnused
  <2> QED
    BY <1>1, <1>2, <2>1 DEF IdInv, NewcomersUnused
<1>8. NewcomersUnlisted'
  <2>1. SUFFICES ASSUME NEW u \in Tasks, Coming(u)'
        PROVE  /\ job'[u].ids \cap FileList'.ids = {}
               /\ cache' # NotLoaded => job'[u].ids \cap cache'.ids = {}
               /\ \A v \in Tasks : v # u \/ pc'[u] = "read" => job'[u].ids \cap list'[v].ids = {}
               /\ \A v \in Tasks : Removing(v)' => job'[u].ids \cap job'[v].ids = {}
    BY DEF NewcomersUnlisted
  <2>2. u # t /\ Coming(u) /\ job'[u] = job[u] /\ pc'[u] = pc[u]
    BY <1>1, <1>2, <2>1 DEF Coming
  <2>3. cache' # NotLoaded => job'[u].ids \cap cache'.ids = {}
    BY <1>1, <2>2 DEF IdInv, NewcomersUnlisted
  <2> QED
    BY <1>1, <1>2, <2>2, <2>3 DEF IdInv, NewcomersUnlisted, EmptyList
<1> QED
  BY <1>5, <1>6, <1>7, <1>8 DEF IdInv

LEMMA RestartKeepsIds ==
    ASSUME StoreInv, IdInv, Restart
    PROVE  IdInv'
<1>1. \A t \in Tasks : /\ job'[t] = NoJob /\ list'[t] = EmptyList
                       /\ ~Adding(t)' /\ ~Coming(t)' /\ ~Removing(t)'
  BY DEF Restart, Adding, Coming, Removing, Busy, Saving
<1>2. FileList' = FileList /\ created' = created /\ used' = used
  BY DEF Restart, FileList
<1>3. WellFormed(FileList)' /\ (cache' # NotLoaded => WellFormed(cache)')
  BY <1>2 DEF Restart, IdInv, ListsWellFormed, WellFormed, FileList
<1>4. ListsWellFormed'
  BY <1>1, <1>3, EmptyWellFormed
     DEF Restart, IdInv, ListsWellFormed, WellFormed, FileList, NoJob
<1> QED
  BY <1>1, <1>2, <1>4 DEF IdInv, RemovalsQueued, NewcomersUnused, NewcomersUnlisted

LEMMA IdsPreserved ==
    ASSUME StoreInv, IdInv, staleCache => overwritten, [NextStore]_storeVars
    PROVE  IdInv'
<1> USE DEF ghostVars, countVars, fileVars, poolVars
<1>0. TaskTypes /\ TaskTypes' /\ used \in Counts
  <2>1. TypeOKStore'
    BY TypesPreserved
  <2> QED
    BY <2>1, TypesSplit DEF StoreInv, TypeOKStore, TaskTypes, Jobs, Ops, Counts
<1>1. ASSUME NEW t \in Tasks, ReadStep(t) PROVE IdInv'
  <2>1. flushing' \in Counts
    BY <1>0 DEF TaskTypes
  <2>2. PICK j \in Jobs, l \in Lists : Reads(t, j, l)
    BY <1>1, StepReads DEF IdInv
  <2> QED
    BY <1>0, <2>1, <2>2, ReadsKeepIds
<1>2. ASSUME NEW t \in Tasks, IncrementUsage(t) \/ CallFlush(t) PROVE IdInv'
  <2>1. UNCHANGED <<disk, cache, list, job, created, poolVars>>
    BY <1>2 DEF IncrementUsage, CallFlush
  <2>2. \A u \in Tasks : pc'[u] = pc[u] \/ (pc[u] = "idle" /\ pc'[u] = "flushWait")
    BY <1>0, <1>2 DEF IncrementUsage, CallFlush, TaskTypes
  <2>3. \A a \in Accounts : used'[a] = used[a] \/ a \in pooled \/ a \in removed
    BY <1>0, <1>2 DEF IncrementUsage, CallFlush, Counts
  <2>4. \A u \in Tasks : /\ Adding(u)' <=> Adding(u)
                         /\ Coming(u)' => Coming(u)
                         /\ Removing(u)' => Removing(u)
                         /\ pc'[u] = "read" => pc[u] = "read"
    BY <2>1, <2>2 DEF Adding, Coming, Removing, Busy, Saving
  <2> QED
    BY <1>0, <2>1, <2>3, <2>4, SameIds
<1>3. ASSUME NEW t \in Tasks, OpenTmp(t) \/ WriteTmp(t) PROVE IdInv'
  <2>1. UNCHANGED <<disk, cache, list, job, created, used, poolVars>>
    BY <1>3 DEF OpenTmp, WriteTmp
  <2>2. \A u \in Tasks : pc'[u] = pc[u] \/ (pc[u] \in {"queued", "writing"}
                                             /\ pc'[u] \in {"writing", "written"})
    BY <1>0, <1>3 DEF OpenTmp, WriteTmp, TaskTypes
  <2>3. \A u \in Tasks : /\ Adding(u)' <=> Adding(u)
                         /\ Coming(u)' => Coming(u)
                         /\ Removing(u)' => Removing(u)
                         /\ pc'[u] = "read" => pc[u] = "read"
    BY <2>1, <2>2 DEF Adding, Coming, Removing, Busy, Saving
  <2> QED
    BY <1>0, <2>1, <2>3, SameIds
<1>4. ASSUME NEW t \in Tasks, ReplaceDisk(t) PROVE IdInv'
  BY <1>4, ReplaceKeepsIds
<1>5. ASSUME NEW t \in Tasks, FinishSave(t) \/ SaveFails(t) PROVE IdInv'
  BY <1>5, LeaveKeepsIds
<1>6. CASE Restart
  BY <1>6, RestartKeepsIds
<1>7. CASE UNCHANGED storeVars
  <2>1. UNCHANGED <<disk, cache, list, job, created, used, poolVars, pc>>
    BY <1>7 DEF storeVars
  <2> QED
    BY <1>0, <2>1, SameIds DEF Adding, Coming, Removing
<1> QED
  BY <1>1, <1>2, <1>3, <1>4, <1>5, <1>6, <1>7 DEF NextStore, ReadStep
-----------------------------------------------------------------------------
(* What file, cache, pool and counts agree in.                             *)

\* The ids and counts an edit leaves in a list.
LEMMA EditedIds ==
    ASSUME NEW j \in Jobs, NEW l \in Lists, NEW inc \in Counts
    PROVE  LET e == Edited(j, l, inc)
           IN  /\ j.op = "add" => e.ids = l.ids \cup j.ids
               /\ j.op = "replace" => e.ids = j.ids
               /\ j.op = "remove" => e.ids = l.ids \ j.ids
               /\ j.op \notin {"add", "replace", "remove"} => e.ids = l.ids
<1>1. CASE j.op = "flush"
  BY <1>1 DEF Edited, WithUses, Lists
<1>2. CASE j.op \in {"add", "update"}
  BY <1>2 DEF Edited, Lists
<1>3. CASE j.op \in {"replace", "remove"}
  BY <1>3 DEF Edited, Without
<1>4. CASE j.op \in {"none", "list"}
  BY <1>4 DEF Edited
<1> QED
  BY <1>1, <1>2, <1>3, <1>4 DEF Jobs, Ops

LEMMA EditedUses ==
    ASSUME NEW j \in Jobs, NEW l \in Lists, NEW inc \in Counts, NEW a \in Accounts,
           a \in Edited(j, l, inc).ids
    PROVE  Edited(j, l, inc).uses[a] = IF j.op = "replace" THEN 0
                                       ELSE IF j.op = "flush" THEN l.uses[a] + inc[a]
                                       ELSE l.uses[a]
<1>1. CASE j.op = "flush"
  <2>1. Edited(j, l, inc) = WithUses(l, inc)
    BY <1>1 DEF Edited
  <2>2. a \in l.ids
    BY <2>1 DEF WithUses, Lists
  <2> QED
    BY <1>1, <2>1, <2>2 DEF WithUses, Lists
<1>2. CASE j.op \in {"add", "update"}
  BY <1>2 DEF Edited, Lists
<1>3. CASE j.op = "replace"
  BY <1>3 DEF Edited, Zero
<1>4. CASE j.op = "remove"
  <2>1. Edited(j, l, inc) = Without(l, j.ids)
    BY <1>4 DEF Edited
  <2>2. a \notin j.ids
    BY <2>1 DEF Without
  <2> QED
    BY <1>4, <2>1, <2>2 DEF Without
<1>5. CASE j.op \in {"none", "list"}
  BY <1>5 DEF Edited
<1> QED
  BY <1>1, <1>2, <1>3, <1>4, <1>5 DEF Jobs, Ops

\* An import in replace mode makes the same of any list.
LEMMA ReplaceIgnores ==
    ASSUME NEW j, NEW l, NEW m, NEW inc, NEW inc2, j.op = "replace"
    PROVE  Edited(j, l, inc) = Edited(j, m, inc2)
BY DEF Edited

\* The types the proofs below use.
Types ==
    /\ TaskTypes /\ TaskTypes'
    /\ disk \in Lists \cup {NoList} /\ cache \in Lists \cup {NotLoaded}
    /\ FileList \in Lists
    /\ pending \in Counts /\ pending' \in Counts /\ used \in Counts /\ used' \in Counts
    /\ lost \in Counts /\ lost' \in Counts /\ flushing \in Counts /\ flushing' \in Counts
    /\ staleCache \in BOOLEAN /\ overwritten \in BOOLEAN /\ overwritten' \in BOOLEAN

LEMMA TypesHold ==
    ASSUME StoreInv, [NextStore]_storeVars
    PROVE  Types
<1>1. TypeOKStore /\ TypeOKStore'
  BY TypesPreserved DEF StoreInv
<1>2. FileList \in Lists
  BY <1>1, BasicTypes DEF TypeOKStore, FileList
<1> QED
  BY <1>1, <1>2 DEF Types, TypeOKStore, TaskTypes, Jobs, Ops, Counts

\* A step of task t does not touch the increments of a flush of another task.
LEMMA OthersFlush ==
    ASSUME NEW t \in Tasks, StoreInv, NEW u \in Tasks, u # t, Flusher(u),
           ReadStep(t) \/ SaveFails(t) \/ FinishSave(t)
    PROVE  flushing' = flushing
<1> USE DEF countVars
<1>0. OneFlush /\ created \in SUBSET Accounts
  BY TypesSplit DEF StoreInv
<1>1. ~(job[t].op = "flush" /\ pc[t] \in Busy) /\ FlushLocked
  BY <1>0 DEF OneFlush, Flusher, FlushLocked
<1>2. CASE AddAccount(t) \/ ImportMerge(t) \/ UpdateAccount(t) \/ RemoveAccount(t)
           \/ ListAccounts(t)
  <2>1. PICK j \in Jobs : Load(t, j, Zero) /\ j.op # "flush"
    BY <1>0, <1>2, NewCall
  <2> QED
    BY <2>1 DEF Load, Continue
<1>3. CASE ImportReplace(t)
  <2>1. PICK F \in SUBSET Accounts, on \in SUBSET Accounts :
          Continue(t, Job("replace", F, on), EmptyList, Zero, FALSE)
    BY <1>3, ReplaceStarts
  <2> QED
    BY <2>1 DEF Continue, Job
<1>4. CASE ReadFile(t) \/ ReadNothing(t) \/ CacheFile(t)
  BY <1>1, <1>4 DEF ReadFile, ReadNothing, CacheFile, Continue, Busy
<1>5. CASE SaveFails(t) \/ FinishSave(t)
  BY <1>1, <1>5 DEF SaveFails, FinishSave, Busy
<1> QED
  BY <1>1, <1>2, <1>3, <1>4, <1>5 DEF ReadStep, Flush

\* What is known of the edits of the tasks but t.
LEMMA OthersEdits ==
    ASSUME NEW t \in Tasks, StoreInv, EditsOfFile, NEW u \in Tasks, u # t,
           ReadStep(t) \/ SaveFails(t) \/ FinishSave(t),
           pc'[u] = pc[u], job'[u] = job[u], list'[u] = list[u], FileList' = FileList,
           u \notin outdated, pc[u] \in {"queued", "writing", "written"}
    PROVE  list'[u] = Edited(job'[u], FileList', flushing')
<1>1. list[u] = Edited(job[u], FileList, flushing)
  BY DEF EditsOfFile
<1>2. job[u].op = "flush" => flushing' = flushing
  BY OthersFlush DEF Flusher, Busy
<1>3. Edited(job[u], FileList, flushing) = Edited(job[u], FileList, flushing')
  BY <1>2, EditIgnores
<1> QED
  BY <1>1, <1>3

\* Accounts in the file that the list of a flush lacks were never used.
LEMMA UnlistedUnused ==
    ASSUME StoreInv, IdInv, CurrentInv, ~overwritten, cache # NotLoaded,
           NEW a \in FileList.ids, a \notin cache.ids
    PROVE  used[a] = 0
<1>1. ~staleCache
  BY DEF CurrentInv
<1>2. PICK r \in Tasks : pc[r] = "replaced"
  <2>1. SUFFICES ASSUME \A r \in Tasks : pc[r] # "replaced" PROVE cache = FileList
    OBVIOUS
  <2>2. cache = disk /\ cache \in Lists
    BY <1>1, <2>1 DEF StoreInv, TypeOKStore, CacheIsFile
  <2> QED
    BY <2>2, StoreAssumption DEF FileList
<1>3. Adding(r) /\ a \in job[r].ids
  BY <1>2 DEF CurrentInv, CacheAlmostFile
<1> QED
  BY <1>3 DEF IdInv, NewcomersUnused

\* A flush that goes on with list l drops increments only of accounts l lacks; any other
\* call leaves the increments alone.
LEMMA ContinueCounts ==
    ASSUME NEW t \in Tasks, NEW j \in Jobs, NEW l \in Lists, NEW inc \in Counts, NEW old,
           Continue(t, j, l, inc, old)
    PROVE  /\ j.op # "flush" => flushing' = flushing
           /\ j.op = "flush" => \/ flushing' = inc
                                \/ flushing' = Zero /\ \A a \in l.ids : inc[a] = 0
<1>1. j.op # "flush" => flushing' = flushing
  BY DEF Continue
<1>2. CASE j.op = "flush" /\ Saves(j, l, inc)
  BY <1>2 DEF Continue
<1>3. CASE j.op = "flush" /\ ~Saves(j, l, inc)
  <2>1. flushing' = Zero
    BY <1>3 DEF Continue
  <2>2. \A a \in l.ids : ~(inc[a] > 0) /\ inc[a] \in Nat
    BY <1>3 DEF Saves, Counts, Lists
  <2>3. \A a \in l.ids : inc[a] = 0
    BY <2>2
  <2> QED
    BY <1>3, <2>1, <2>3
<1> QED
  BY <1>1, <1>2, <1>3

\* The uses of a that are not in the file.
Held(a) == pending[a] + flushing[a] + lost[a]

LEMMA ReadCounts ==
    ASSUME NEW t \in Tasks, StoreInv, IdInv, CurrentInv, Types, ReadStep(t)
    PROVE  /\ used' = used
           /\ \A a \in Accounts : Held(a)' <= Held(a)
           /\ ~overwritten' => \A a \in FileList.ids : Held(a)' = Held(a)
<1> USE DEF Held, countVars, fileVars
<1>0. /\ \A a \in Accounts : /\ pending[a] \in Nat /\ flushing[a] \in Nat
                             /\ lost[a] \in Nat /\ used[a] \in Nat
                             /\ pending[a] + flushing[a] + lost[a] <= used[a]
      /\ created \in SUBSET Accounts /\ job[t] \in Jobs /\ list[t] \in Lists
      /\ FileList.ids \in SUBSET Accounts /\ OneFlush /\ ReadsAreRecent
  BY TypesSplit DEF Types, Counts, CurrentInv, CountsWithinUsed, StoreInv, TaskTypes, Lists
<1>1. ASSUME UNCHANGED <<pending, flushing, used, lost>>
      PROVE  /\ used' = used
             /\ \A a \in Accounts : Held(a)' <= Held(a)
             /\ \A a \in FileList.ids : Held(a)' = Held(a)
  BY <1>0, <1>1
<1>2. CASE AddAccount(t) \/ ImportMerge(t) \/ UpdateAccount(t) \/ RemoveAccount(t)
           \/ ListAccounts(t)
  <2>1. PICK j \in Jobs : /\ Load(t, j, Zero) /\ j.op # "flush"
                          /\ UNCHANGED <<pending, used, lost>>
    BY <1>0, <1>2, NewCall
  <2>2. flushing' = flushing
    BY <2>1 DEF Load, Continue
  <2> QED
    BY <1>1, <2>1, <2>2
<1>3. CASE ImportReplace(t)
  <2>1. PICK F \in SUBSET Accounts, on \in SUBSET Accounts :
          Continue(t, Job("replace", F, on), EmptyList, Zero, FALSE)
    BY <1>3, ReplaceStarts
  <2>2. flushing' = flushing
    BY <2>1 DEF Continue, Job
  <2> QED
    BY <1>1, <1>3, <2>2 DEF ImportReplace
<1>4. CASE Flush(t)
  <2>1. flushing = Zero /\ pending' = Zero /\ UNCHANGED <<used, lost, overwritten>>
    BY <1>0, <1>4 DEF Flush, OneFlush
  <2>2. \A a \in Accounts : flushing[a] = 0 /\ pending'[a] = 0
    BY <2>1 DEF Zero
  <2>3. CASE pending = Zero
    <3>1. Continue(t, FlushJob, EmptyList, Zero, FALSE)
      BY <1>4, <2>3 DEF Flush, FlushJob
    <3>2. flushing' = Zero
      BY <3>1, ContinueCounts, BasicTypes, FlushJobTyped
    <3> QED
      BY <1>1, <2>1, <2>3, <3>2
  <2>4. CASE flushing' = pending
    BY <1>0, <2>1, <2>2, <2>4
  <2>5. CASE /\ flushing' = Zero /\ cache # NotLoaded
             /\ \A a \in cache.ids : pending[a] = 0
    <3>1. \A a \in Accounts : Held(a)' = lost[a]
      BY <1>0, <2>1, <2>2, <2>5 DEF Zero
    <3>2. ASSUME ~overwritten', NEW a \in FileList.ids PROVE Held(a) = lost[a]
      <4>1. CASE a \in cache.ids
        BY <1>0, <2>2, <2>5, <4>1
      <4>2. CASE a \notin cache.ids
        <5>1. used[a] = 0
          BY <2>1, <2>5, <3>2, <4>2, UnlistedUnused
        <5> QED
          BY <1>0, <5>1
      <4> QED
        BY <4>1, <4>2
    <3> QED
      BY <1>0, <2>1, <3>1, <3>2
  <2>6. pending = Zero \/ flushing' = pending
        \/ (flushing' = Zero /\ cache # NotLoaded /\ \A a \in cache.ids : pending[a] = 0)
    <3>1. SUFFICES ASSUME Load(t, FlushJob, pending)
                   PROVE  flushing' = pending
                          \/ (flushing' = Zero /\ cache # NotLoaded
                              /\ \A a \in cache.ids : pending[a] = 0)
      BY <1>4 DEF Flush, FlushJob
    <3>2. CASE cache # NotLoaded /\ Continue(t, FlushJob, cache, pending, CacheBehind)
      BY <3>2, ContinueCounts, FlushJobTyped DEF Types
    <3>3. CASE ~(cache # NotLoaded /\ Continue(t, FlushJob, cache, pending, CacheBehind))
      BY <3>1, <3>3, FlushJobTyped DEF Load
    <3> QED
      BY <3>2, <3>3
  <2> QED
    BY <2>3, <2>4, <2>5, <2>6
<1>5. CASE ReadNothing(t)
  <2> DEFINE old == disk # NoList
  <2>1. /\ Continue(t, job[t], EmptyList, flushing, old)
        /\ UNCHANGED <<pending, used>>
        /\ lost' = IF job[t].op = "flush" THEN Sum2(lost, flushing) ELSE lost
    BY <1>5 DEF ReadNothing
  <2> HIDE DEF old
  <2>2. CASE job[t].op = "flush"
    <3>1. ~Saves(job[t], EmptyList, flushing)
      BY <2>2 DEF Saves, EmptyList
    <3>2. flushing' = Zero
      BY <2>1, <2>2, <3>1 DEF Continue
    <3>3. \A a \in Accounts : /\ pending'[a] = pending[a] /\ flushing'[a] = 0
                              /\ lost'[a] = lost[a] + flushing[a]
      BY <2>1, <2>2, <3>2 DEF Zero, Sum2
    <3> QED
      BY <1>0, <2>1, <3>3
  <2>3. CASE job[t].op # "flush"
    <3>1. flushing' = flushing
      BY <2>1, <2>3 DEF Continue
    <3> QED
      BY <1>1, <2>1, <2>3, <3>1
  <2> QED
    BY <2>2, <2>3
<1>6. CASE ReadFile(t)
  BY <1>1, <1>6 DEF ReadFile
<1>7. CASE CacheFile(t)
  <2>1. /\ Continue(t, job[t], list[t], flushing, t \in outdated) /\ pc[t] = "read"
        /\ UNCHANGED <<pending, used, lost>>
        /\ overwritten' = (overwritten \/ t \in outdated)
    BY <1>7 DEF CacheFile
  <2>2. ~overwritten' => list[t] = FileList
    BY <1>0, <2>1, StoreAssumption DEF ReadsAreRecent, FileList
  <2>3. \/ flushing' = flushing
        \/ flushing' = Zero /\ \A a \in list[t].ids : flushing[a] = 0
    BY <1>0, <2>1, ContinueCounts DEF Types
  <2> QED
    BY <1>0, <1>1, <2>1, <2>2, <2>3 DEF Zero
<1> QED
  BY <1>2, <1>3, <1>4, <1>5, <1>6, <1>7 DEF ReadStep

\* The two parts of CurrentInv that hold whatever was overwritten.
Bounded == CountsWithinUsed /\ (staleCache => overwritten)

\* And those that hold until then.
Matching == EditsOfFile /\ CacheAlmostFile /\ PoolFollowsFile /\ RemovedAreGone /\ UsesAccounted

LEMMA CurrentSplit == CurrentInv <=> Bounded /\ (~overwritten => Matching)
BY DEF CurrentInv, Bounded, Matching

\* What a step may do to the counts.
LEMMA CountsStay ==
    ASSUME Types, CurrentInv, used' = used,
           \A a \in Accounts : Held(a)' <= Held(a),
           staleCache' => overwritten'
    PROVE  Bounded'
<1>1. \A a \in Accounts : /\ pending[a] \in Nat /\ flushing[a] \in Nat
                          /\ pending'[a] \in Nat /\ flushing'[a] \in Nat
                          /\ lost[a] \in Nat /\ lost'[a] \in Nat /\ used[a] \in Nat
                          /\ pending[a] + flushing[a] + lost[a] <= used[a]
  BY DEF Types, Counts, CurrentInv, CountsWithinUsed
<1> QED
  BY <1>1 DEF Bounded, CountsWithinUsed, Held

LEMMA UsesStay ==
    ASSUME Types, UsesAccounted, used' = used, FileList' = FileList,
           \A a \in FileList.ids : Held(a)' = Held(a)
    PROVE  UsesAccounted'
<1>1. \A a \in FileList.ids : /\ pending[a] \in Nat /\ flushing[a] \in Nat
                              /\ pending'[a] \in Nat /\ flushing'[a] \in Nat
                              /\ lost[a] \in Nat /\ lost'[a] \in Nat
                              /\ used[a] \in Nat /\ FileList.uses[a] \in Nat
  BY DEF Types, Counts, Lists
<1>2. SUFFICES ASSUME NEW a \in FileList.ids
               PROVE  FileList.uses[a] + pending'[a] + flushing'[a] + lost'[a] = used[a]
  BY DEF UsesAccounted
<1>3. FileList.uses[a] + pending[a] + flushing[a] + lost[a] = used[a]
  BY DEF UsesAccounted
<1> QED
  BY <1>1, <1>3 DEF Held

\* Nobody else writes while t does.
LEMMA NobodyReplaced ==
    ASSUME NEW t \in Tasks, StoreInv, pc[t] \in Saving \/ HasLock(t),
           NEW u \in Tasks, u # t
    PROVE  pc[u] \notin Saving
BY OneWriter DEF StoreInv, WriterIsHead

LEMMA ReadsKeepCurrent ==
    ASSUME NEW t \in Tasks, StoreInv, IdInv, CurrentInv, Types, ReadStep(t)
    PROVE  CurrentInv'
<1> USE DEF poolVars
<1>1. PICK j \in Jobs, l \in Lists : Reads(t, j, l)
  BY StepReads DEF IdInv, CurrentInv
<1>2. FileList' = FileList
  BY <1>1 DEF Reads, FileList
<1>3. staleCache' => overwritten'
  BY DEF ReadStep, AddAccount, ImportMerge, ImportReplace, UpdateAccount, RemoveAccount,
     ListAccounts, Flush, ReadFile, ReadNothing, CacheFile, CurrentInv
<1>4. Bounded'
  BY <1>3, ReadCounts, CountsStay
<1>5. ASSUME ~overwritten' PROVE Matching'
  <2>0. ~overwritten /\ Matching
    BY <1>1, <1>5, CurrentSplit DEF Reads
  <2>1. /\ \A u \in Tasks : u # t => /\ pc'[u] = pc[u] /\ job'[u] = job[u] /\ list'[u] = list[u]
                                     /\ u \in outdated' <=> u \in outdated
        /\ pc[t] # "replaced" /\ pc'[t] \notin {"writing", "written", "replaced"}
        /\ UNCHANGED <<pooled, removed, replacedAll, offAtStart>>
        /\ cache' = cache \/ cache' = FileList
    BY <1>1, <1>5 DEF Reads, Moves, GoodJob
  <2>2. EditsOfFile'
    <3>1. ASSUME NEW u \in Tasks, u # t, u \notin outdated', pc'[u] \in {"queued", "writing", "written"}
          PROVE  list'[u] = Edited(job'[u], FileList', flushing')
      BY <1>2, <2>0, <2>1, <3>1, OthersEdits DEF Matching
    <3>2. ASSUME t \notin outdated', pc'[t] = "queued"
          PROVE  list'[t] = Edited(job'[t], FileList', flushing')
      <4>1. list'[t] = Edited(j, l, flushing') /\ job'[t] = j
        BY <1>1, <3>2 DEF Reads, Moves
      <4>2. j.op = "replace" \/ l = FileList
        BY <1>1, <1>5, <3>2 DEF Reads, Recent
      <4>3. Edited(j, l, flushing') = Edited(j, FileList, flushing')
        BY <4>2, ReplaceIgnores
      <4> QED
        BY <1>2, <4>1, <4>3
    <3> QED
      BY <2>1, <3>1, <3>2 DEF EditsOfFile
  <2>3. CacheAlmostFile'
    BY <1>2, <2>0, <2>1 DEF Matching, CacheAlmostFile, Adding
  <2>4. PoolFollowsFile'
    <3>1. \A u \in Tasks : /\ pc'[u] = "replaced" <=> pc[u] = "replaced"
                           /\ pc[u] = "replaced" => job'[u] = job[u]
      BY <2>1
    <3> QED
      BY <1>2, <2>0, <2>1, <3>1
         DEF Matching, PoolFollowsFile, Agree, PoolAfter, ReplacedAfter
  <2>5. RemovedAreGone'
    BY <1>2, <2>0, <2>1 DEF Matching, RemovedAreGone
  <2>6. UsesAccounted'
    BY <1>2, <1>5, <2>0, ReadCounts, UsesStay DEF Matching
  <2> QED
    BY <2>2, <2>3, <2>4, <2>5, <2>6 DEF Matching
<1> QED
  BY <1>4, <1>5, CurrentSplit DEF CurrentInv, Bounded, Matching

\* The list in the file changes to an edit of what it was.
LEMMA ReplaceKeepsCurrent ==
    ASSUME NEW t \in Tasks, StoreInv, IdInv, CurrentInv, Types, ReplaceDisk(t)
    PROVE  CurrentInv'
<1> USE DEF Held
<1>0. /\ TaskTypes /\ WriterFiles /\ CacheIsFile /\ job[t] \in Jobs /\ list[t] \in Lists
      /\ cache \in Lists \cup {NotLoaded} /\ FileList \in Lists /\ flushing \in Counts
  BY TypesSplit DEF StoreInv, Types, TaskTypes
<1>1. /\ pc[t] = "written" /\ pc'[t] = "replaced"
      /\ \A u \in Tasks : u # t => pc'[u] = pc[u]
      /\ disk' = list[t] /\ FileList' = list[t]
      /\ flushing' = IF job[t].op = "flush" THEN Zero ELSE flushing
      /\ overwritten' = (overwritten \/ t \in outdated)
      /\ outdated' = (outdated \ {t}) \cup Overtaken
      /\ UNCHANGED <<cache, pending, used, lost, list, job, staleCache, poolVars>>
  BY <1>0, StoreAssumption DEF ReplaceDisk, TaskTypes, WriterFiles, FileList
<1>2. \A u \in Tasks : u # t => pc[u] \notin Saving
  BY <1>1, NobodyReplaced DEF Saving
<1>n. \A a \in Accounts : /\ pending[a] \in Nat /\ flushing[a] \in Nat
                          /\ lost[a] \in Nat /\ used[a] \in Nat
                          /\ pending[a] + flushing[a] + lost[a] <= used[a]
  BY DEF Types, Counts, CurrentInv, CountsWithinUsed
<1>3. Bounded'
  <2>1. \A a \in Accounts : Held(a)' <= Held(a)
    BY <1>1, <1>n DEF Zero
  <2>2. staleCache' => overwritten'
    BY <1>1 DEF CurrentInv
  <2> QED
    BY <1>1, <2>1, <2>2, CountsStay
<1>4. ASSUME ~overwritten' PROVE Matching'
  <2> DEFINE j == job[t]
             e == list[t]
  <2>0. ~overwritten /\ Matching /\ ~staleCache /\ t \notin outdated
    BY <1>1, <1>4, CurrentSplit DEF Bounded
  <2>1. e = Edited(j, FileList, flushing)
    BY <1>1, <2>0 DEF Matching, EditsOfFile
  <2>2. /\ j.op = "add" => e.ids = FileList.ids \cup j.ids
        /\ j.op = "replace" => e.ids = j.ids
        /\ j.op = "remove" => e.ids = FileList.ids \ j.ids
        /\ j.op \notin {"add", "replace", "remove"} => e.ids = FileList.ids
    BY <1>0, <2>1, EditedIds
  <2>3. Adding(t) <=> j.op \in {"add", "replace"}
    BY <1>1 DEF Adding, Busy
  <2>4. cache # NotLoaded => cache = FileList
    <3>1. cache \in {NotLoaded, disk}
      BY <1>0, <1>1, <1>2, <2>0 DEF CacheIsFile, Saving
    <3> QED
      BY <1>0, <3>1, StoreAssumption DEF FileList
  <2>5. EditsOfFile'
    <3>1. SUFFICES ASSUME NEW u \in Tasks, u \notin outdated', pc'[u] \in {"queued", "writing", "written"}
                   PROVE  list'[u] = Edited(job'[u], FileList', flushing')
      BY DEF EditsOfFile
    <3>2. u # t /\ pc[u] = "queued"
      BY <1>1, <1>2, <3>1 DEF Saving
    <3>3. u \notin outdated /\ job[u].op = "replace"
      BY <1>1, <3>1, <3>2 DEF Overtaken
    <3>4. list[u] = Edited(job[u], FileList, flushing)
      BY <2>0, <3>2, <3>3 DEF Matching, EditsOfFile
    <3> QED
      BY <1>1, <3>3, <3>4, ReplaceIgnores
  <2>6. CacheAlmostFile'
    <3>1. \A a \in e.ids : a \in FileList.ids \/ (Adding(t) /\ a \in j.ids)
      BY <2>2, <2>3
    <3>2. Adding(t) <=> Adding(t)'
      BY <1>1 DEF Adding, Busy
    <3> QED
      BY <1>1, <1>2, <2>4, <3>1, <3>2 DEF CacheAlmostFile, Saving
  <2>7. PoolFollowsFile'
    <3>1. Agree(pooled, replacedAll)
      BY <1>1, <1>2, <2>0 DEF Matching, PoolFollowsFile, Saving
    <3>2. \A u \in Tasks : pc'[u] = "replaced" <=> u = t
      BY <1>1, <1>2 DEF Saving
    <3>3. Agree(PoolAfter(t), ReplacedAfter(t))'
      BY <1>1, <2>2, <3>1 DEF Agree, PoolAfter, ReplacedAfter, poolVars
    <3> QED
      BY <3>2, <3>3 DEF PoolFollowsFile
  <2>8. RemovedAreGone'
    <3>1. Adding(t) => removed \cap j.ids = {}
      BY DEF IdInv, NewcomersUnused
    <3> QED
      BY <1>1, <2>0, <2>2, <2>3, <3>1 DEF Matching, RemovedAreGone, poolVars
  <2>9. UsesAccounted'
    <3>1. SUFFICES ASSUME NEW a \in e.ids
                   PROVE  e.uses[a] + pending[a] + flushing'[a] + lost[a] = used[a]
      BY <1>1 DEF UsesAccounted
    <3>2. a \in Accounts /\ FileList.uses[a] \in Nat
      BY <1>0 DEF Lists
    <3>3. e.uses[a] = IF j.op = "replace" THEN 0
                      ELSE IF j.op = "flush" THEN FileList.uses[a] + flushing[a]
                      ELSE FileList.uses[a]
      BY <1>0, <2>1, <3>2, EditedUses
    <3>4. CASE a \in FileList.ids /\ j.op # "replace"
      <4>1. FileList.uses[a] + pending[a] + flushing[a] + lost[a] = used[a]
        BY <2>0, <3>4 DEF Matching, UsesAccounted
      <4>2. CASE j.op = "flush"
        BY <1>1, <1>n, <3>2, <3>3, <4>1, <4>2 DEF Zero
      <4>3. CASE j.op # "flush"
        BY <1>1, <3>3, <3>4, <4>1, <4>3
      <4> QED
        BY <4>2, <4>3
    <3>5. CASE a \notin FileList.ids \/ j.op = "replace"
      <4>1. Adding(t) /\ a \in j.ids
        BY <2>2, <2>3, <3>5
      <4>2. used[a] = 0 /\ j.op # "flush"
        BY <2>3, <4>1 DEF IdInv, NewcomersUnused
      <4>3. a \notin FileList.ids => FileList.uses[a] = 0
        BY <3>2 DEF IdInv, ListsWellFormed, WellFormed
      <4>4. e.uses[a] = 0
        BY <3>3, <3>5, <4>2, <4>3
      <4>5. flushing'[a] = flushing[a]
        BY <1>1, <4>2
      <4> QED
        BY <1>n, <3>2, <4>2, <4>4, <4>5
    <3> QED
      BY <3>4, <3>5
  <2> QED
    BY <2>5, <2>6, <2>7, <2>8, <2>9 DEF Matching
<1> QED
  BY <1>3, <1>4 DEF CurrentInv, Bounded, Matching

LEMMA FinishKeepsCurrent ==
    ASSUME NEW t \in Tasks, StoreInv, IdInv, CurrentInv, Types, FinishSave(t)
    PROVE  CurrentInv'
<1>0. TaskTypes /\ WriterFiles /\ list[t] \in Lists
  BY TypesSplit DEF StoreInv, TaskTypes
<1>1. /\ pc[t] = "replaced" /\ pc'[t] = "idle"
      /\ \A u \in Tasks : u # t => pc'[u] = pc[u] /\ job'[u] = job[u] /\ list'[u] = list[u]
      /\ cache' = list[t] /\ staleCache' = FALSE
      /\ pooled' = PoolAfter(t) /\ replacedAll' = ReplacedAfter(t)
      /\ removed' = IF job[t].op = "remove" THEN removed \cup job[t].ids ELSE removed
      /\ UNCHANGED <<disk, pending, flushing, used, lost, outdated, overwritten, offAtStart>>
  BY <1>0 DEF FinishSave, Leave, TaskTypes, TellPool, PoolAfter, ReplacedAfter, countVars
<1>2. \A u \in Tasks : u # t => pc[u] \notin Saving
  BY <1>1, NobodyReplaced DEF Saving
<1>3. FileList' = FileList /\ FileList = list[t]
  BY <1>0, <1>1, StoreAssumption DEF FileList, WriterFiles
<1>4. Bounded'
  BY <1>1 DEF Bounded, CurrentInv, CountsWithinUsed
<1>5. ASSUME ~overwritten' PROVE Matching'
  <2>0. ~overwritten /\ Matching
    BY <1>1, <1>5, CurrentSplit
  <2>1. EditsOfFile'
    <3>1. SUFFICES ASSUME NEW u \in Tasks, u \notin outdated', pc'[u] \in {"queued", "writing", "written"}
                   PROVE  list'[u] = Edited(job'[u], FileList', flushing')
      BY DEF EditsOfFile
    <3> QED
      BY <1>1, <1>3, <2>0, <3>1, OthersEdits DEF Matching
  <2>2. \A u \in Tasks : pc'[u] # "replaced"
    BY <1>1, <1>2 DEF Saving
  <2>3. CacheAlmostFile'
    BY <2>2 DEF CacheAlmostFile
  <2>4. PoolFollowsFile'
    <3>1. Agree(PoolAfter(t), ReplacedAfter(t))
      BY <1>1, <2>0 DEF Matching, PoolFollowsFile
    <3>2. Agree(pooled, replacedAll)'
      BY <1>1, <1>3, <3>1 DEF Agree
    <3> QED
      BY <2>2, <3>2 DEF PoolFollowsFile
  <2>5. RemovedAreGone'
    <3>1. CASE job[t].op = "remove"
      <4>1. FileList.ids \cap job[t].ids = {}
        BY <1>1, <1>3, <3>1 DEF IdInv, RemovalsQueued, Removing, Saving
      <4> QED
        BY <1>1, <1>3, <2>0, <3>1, <4>1 DEF Matching, RemovedAreGone, PoolAfter
    <3>2. CASE job[t].op \in {"add", "replace"}
      <4>1. job[t].ids \cap removed = {}
        BY <1>1, <3>2 DEF IdInv, NewcomersUnused, Adding, Busy
      <4> QED
        BY <1>1, <1>3, <2>0, <3>2, <4>1 DEF Matching, RemovedAreGone, PoolAfter
    <3>3. CASE job[t].op \notin {"add", "replace", "remove"}
      BY <1>1, <1>3, <2>0, <3>3 DEF Matching, RemovedAreGone, PoolAfter
    <3> QED
      BY <3>1, <3>2, <3>3
  <2>6. UsesAccounted'
    BY <1>1, <1>3, <2>0 DEF Matching, UsesAccounted
  <2> QED
    BY <2>1, <2>3, <2>4, <2>5, <2>6 DEF Matching
<1> QED
  BY <1>4, <1>5 DEF CurrentInv, Bounded, Matching

LEMMA FailKeepsCurrent ==
    ASSUME NEW t \in Tasks, StoreInv, IdInv, CurrentInv, Types, SaveFails(t)
    PROVE  CurrentInv'
<1> USE DEF poolVars
<1>1. /\ pc[t] # "replaced" /\ pc'[t] = "idle" /\ HasLock(t)
      /\ \A u \in Tasks : u # t => pc'[u] = pc[u] /\ job'[u] = job[u] /\ list'[u] = list[u]
      /\ outdated' = outdated \ {t}
      /\ UNCHANGED <<disk, cache, pending, used, staleCache, overwritten, poolVars>>
  BY DEF SaveFails, Leave, Types, TaskTypes
<1>2. FileList' = FileList
  BY <1>1 DEF FileList
<1>3. \A a \in Accounts : /\ pending[a] \in Nat /\ flushing[a] \in Nat
                          /\ lost[a] \in Nat /\ used[a] \in Nat
                          /\ flushing'[a] + lost'[a] = flushing[a] + lost[a]
                          /\ flushing'[a] \in Nat /\ lost'[a] \in Nat
  <2>1. \A a \in Accounts : pending[a] \in Nat /\ flushing[a] \in Nat
                            /\ lost[a] \in Nat /\ used[a] \in Nat
    BY DEF Types, Counts
  <2>2. CASE job[t].op = "flush"
    BY <2>1, <2>2 DEF SaveFails, Sum2, Zero
  <2>3. CASE job[t].op # "flush"
    BY <2>1, <2>3 DEF SaveFails
  <2> QED
    BY <2>2, <2>3
<1>4. Bounded'
  BY <1>1, <1>3 DEF Bounded, CurrentInv, CountsWithinUsed
<1>5. ASSUME ~overwritten' PROVE Matching'
  <2>0. ~overwritten /\ Matching
    BY <1>1, <1>5, CurrentSplit
  <2>1. EditsOfFile'
    <3>1. SUFFICES ASSUME NEW u \in Tasks, u \notin outdated', pc'[u] \in {"queued", "writing", "written"}
                   PROVE  list'[u] = Edited(job'[u], FileList', flushing')
      BY DEF EditsOfFile
    <3> QED
      BY <1>1, <1>2, <2>0, <3>1, OthersEdits DEF Matching
  <2>2. \A u \in Tasks : /\ pc'[u] = "replaced" <=> pc[u] = "replaced"
                         /\ pc[u] = "replaced" => job'[u] = job[u]
    BY <1>1
  <2>3. CacheAlmostFile'
    BY <1>1, <1>2, <2>0, <2>2 DEF Matching, CacheAlmostFile, Adding
  <2>4. PoolFollowsFile'
    BY <1>1, <1>2, <2>0, <2>2 DEF Matching, PoolFollowsFile, Agree, PoolAfter, ReplacedAfter
  <2>5. RemovedAreGone'
    BY <1>1, <1>2, <2>0 DEF Matching, RemovedAreGone
  <2>6. UsesAccounted'
    <3>1. SUFFICES ASSUME NEW a \in FileList.ids
                   PROVE  FileList.uses[a] + pending[a] + flushing'[a] + lost'[a] = used[a]
      BY <1>1, <1>2 DEF UsesAccounted
    <3>2. a \in Accounts /\ FileList.uses[a] \in Nat
      BY DEF Types, Lists
    <3>3. FileList.uses[a] + pending[a] + flushing[a] + lost[a] = used[a]
      BY <2>0 DEF Matching, UsesAccounted
    <3>4. /\ pending[a] \in Nat /\ flushing[a] \in Nat /\ lost[a] \in Nat /\ used[a] \in Nat
          /\ flushing'[a] \in Nat /\ lost'[a] \in Nat
          /\ flushing'[a] + lost'[a] = flushing[a] + lost[a]
      BY <1>3, <3>2
    <3> QED
      BY ONLY <3>2, <3>3, <3>4, SMT
  <2> QED
    BY <2>1, <2>3, <2>4, <2>5, <2>6 DEF Matching
<1> QED
  BY <1>4, <1>5 DEF CurrentInv, Bounded, Matching

LEMMA RestartKeepsCurrent ==
    ASSUME StoreInv, IdInv, CurrentInv, Types, Restart
    PROVE  CurrentInv'
<1>1. /\ \A t \in Tasks : pc'[t] = "idle"
      /\ pooled' \in {{}, FileList.on} /\ offAtStart' = FileList.ids \ pooled'
      /\ replacedAll' = {} /\ staleCache' = FALSE /\ FileList' = FileList
      /\ UNCHANGED <<used, removed, overwritten>>
  BY DEF Restart, FileList, EmptyList, Listed
<1>2. \A a \in Accounts : /\ pending[a] \in Nat /\ flushing[a] \in Nat
                          /\ lost[a] \in Nat /\ used[a] \in Nat
                          /\ pending'[a] = 0 /\ flushing'[a] = 0
                          /\ lost'[a] = lost[a] + pending[a] + flushing[a]
  <2>1. \A a \in Accounts : pending[a] \in Nat /\ flushing[a] \in Nat
                            /\ lost[a] \in Nat /\ used[a] \in Nat
    BY DEF Types, Counts
  <2> QED
    BY <2>1 DEF Restart, Sum2, Zero
<1>3. Bounded'
  BY <1>1, <1>2 DEF Bounded, CurrentInv, CountsWithinUsed
<1>4. ASSUME ~overwritten' PROVE Matching'
  <2>0. ~overwritten /\ Matching
    BY <1>1, <1>4, CurrentSplit
  <2>1. EditsOfFile' /\ CacheAlmostFile'
    BY <1>1 DEF EditsOfFile, CacheAlmostFile
  <2>2. PoolFollowsFile'
    BY <1>1 DEF PoolFollowsFile, Agree, IdInv, ListsWellFormed, WellFormed
  <2>3. RemovedAreGone'
    BY <1>1, <2>0 DEF Matching, RemovedAreGone, IdInv, ListsWellFormed, WellFormed
  <2>4. UsesAccounted'
    <3>1. SUFFICES ASSUME NEW a \in FileList.ids
                   PROVE  FileList.uses[a] + pending'[a] + flushing'[a] + lost'[a] = used[a]
      BY <1>1 DEF UsesAccounted
    <3>2. a \in Accounts /\ FileList.uses[a] \in Nat
      BY DEF Types, Lists
    <3>3. FileList.uses[a] + pending[a] + flushing[a] + lost[a] = used[a]
      BY <2>0 DEF Matching, UsesAccounted
    <3> QED
      BY <1>2, <3>2, <3>3
  <2> QED
    BY <2>1, <2>2, <2>3, <2>4 DEF Matching
<1> QED
  BY <1>3, <1>4 DEF CurrentInv, Bounded, Matching

\* Steps that touch neither lists nor jobs.
LEMMA SameCurrent ==
    ASSUME StoreInv, CurrentInv, Types,
           UNCHANGED <<disk, cache, flushing, lost, list, job, outdated, staleCache, overwritten, poolVars>>,
           \A t \in Tasks : /\ pc'[t] = "replaced" <=> pc[t] = "replaced"
                            /\ pc'[t] \in {"queued", "writing", "written"}
                                 => pc[t] \in {"queued", "writing", "written"},
           \A a \in Accounts : pending'[a] + used[a] = pending[a] + used'[a]
    PROVE  CurrentInv'
<1> USE DEF poolVars
<1>1. \A a \in Accounts : /\ pending[a] \in Nat /\ flushing[a] \in Nat
                          /\ pending'[a] \in Nat /\ used'[a] \in Nat
                          /\ lost[a] \in Nat /\ used[a] \in Nat
  BY DEF Types, Counts
<1>2. FileList' = FileList
  BY DEF FileList
<1>3. Bounded'
  BY <1>1 DEF Bounded, CurrentInv, CountsWithinUsed
<1>4. ASSUME ~overwritten' PROVE Matching'
  <2>0. Matching
    BY <1>4, CurrentSplit
  <2>1. EditsOfFile' /\ RemovedAreGone'
    BY <1>2, <2>0 DEF Matching, EditsOfFile, RemovedAreGone
  <2>2. CacheAlmostFile'
    BY <1>2, <2>0 DEF Matching, CacheAlmostFile, Adding, Busy
  <2>3. PoolFollowsFile'
    BY <1>2, <2>0 DEF Matching, PoolFollowsFile, Agree, PoolAfter, ReplacedAfter
  <2>4. UsesAccounted'
    <3>1. SUFFICES ASSUME NEW a \in FileList.ids
                   PROVE  FileList.uses[a] + pending'[a] + flushing[a] + lost[a] = used'[a]
      BY <1>2 DEF UsesAccounted
    <3>2. a \in Accounts /\ FileList.uses[a] \in Nat
      BY DEF Types, Lists
    <3>3. FileList.uses[a] + pending[a] + flushing[a] + lost[a] = used[a]
      BY <2>0 DEF Matching, UsesAccounted
    <3>4. /\ pending[a] \in Nat /\ flushing[a] \in Nat /\ lost[a] \in Nat /\ used[a] \in Nat
          /\ pending'[a] \in Nat /\ used'[a] \in Nat
          /\ pending'[a] + used[a] = pending[a] + used'[a]
      BY <1>1, <3>2
    <3> QED
      BY ONLY <3>2, <3>3, <3>4, SMT
  <2> QED
    BY <2>1, <2>2, <2>3, <2>4 DEF Matching
<1> QED
  BY <1>3, <1>4 DEF CurrentInv, Bounded, Matching

LEMMA CurrentPreserved ==
    ASSUME StoreInv, IdInv, CurrentInv, [NextStore]_storeVars
    PROVE  CurrentInv'
<1> USE DEF ghostVars, countVars, fileVars, poolVars
<1>0. Types
  BY TypesHold
<1>1. ASSUME NEW t \in Tasks, ReadStep(t) PROVE CurrentInv'
  BY <1>0, <1>1, ReadsKeepCurrent
<1>2. ASSUME NEW t \in Tasks, IncrementUsage(t) \/ CallFlush(t) PROVE CurrentInv'
  <2>1. UNCHANGED <<disk, cache, flushing, lost, list, job, outdated, staleCache, overwritten, poolVars>>
    BY <1>2 DEF IncrementUsage, CallFlush
  <2>2. \A u \in Tasks : pc'[u] = pc[u] \/ (pc[u] = "idle" /\ pc'[u] = "flushWait")
    BY <1>0, <1>2 DEF IncrementUsage, CallFlush, Types, TaskTypes
  <2>3. \A a \in Accounts : pending'[a] + used[a] = pending[a] + used'[a]
    <3>1. CASE CallFlush(t)
      BY <3>1 DEF CallFlush
    <3>2. CASE IncrementUsage(t)
      BY <1>0, <3>2 DEF IncrementUsage, Types, Counts
    <3> QED
      BY <1>2, <3>1, <3>2
  <2> QED
    BY <1>0, <2>1, <2>2, <2>3, SameCurrent
<1>3. ASSUME NEW t \in Tasks, OpenTmp(t) \/ WriteTmp(t) PROVE CurrentInv'
  <2>1. UNCHANGED <<disk, cache, pending, flushing, used, lost, list, job, outdated, staleCache,
                    overwritten, poolVars>>
    BY <1>3 DEF OpenTmp, WriteTmp
  <2>2. \A u \in Tasks : pc'[u] = pc[u] \/ (pc[u] \in {"queued", "writing"}
                                             /\ pc'[u] \in {"writing", "written"})
    BY <1>0, <1>3 DEF OpenTmp, WriteTmp, Types, TaskTypes
  <2> QED
    BY <1>0, <2>1, <2>2, SameCurrent
<1>4. ASSUME NEW t \in Tasks, ReplaceDisk(t) PROVE CurrentInv'
  BY <1>0, <1>4, ReplaceKeepsCurrent
<1>5. ASSUME NEW t \in Tasks, FinishSave(t) PROVE CurrentInv'
  BY <1>0, <1>5, FinishKeepsCurrent
<1>6. ASSUME NEW t \in Tasks, SaveFails(t) PROVE CurrentInv'
  BY <1>0, <1>6, FailKeepsCurrent
<1>7. CASE Restart
  BY <1>0, <1>7, RestartKeepsCurrent
<1>8. CASE UNCHANGED storeVars
  <2>1. UNCHANGED <<disk, cache, pending, flushing, used, lost, list, job, outdated, staleCache,
                    overwritten, poolVars, pc>>
    BY <1>8 DEF storeVars
  <2> QED
    BY <1>0, <2>1, SameCurrent
<1> QED
  BY <1>1, <1>2, <1>3, <1>4, <1>5, <1>6, <1>7, <1>8 DEF NextStore, ReadStep

LEMMA InitCurrent == InitStore => IdInv /\ CurrentInv
<1> SUFFICES ASSUME InitStore PROVE IdInv /\ CurrentInv
  OBVIOUS
<1>1. /\ \A t \in Tasks : pc[t] = "idle" /\ job[t] = NoJob /\ list[t] = EmptyList
      /\ \A t \in Tasks : ~Adding(t) /\ ~Removing(t)
  BY DEF InitStore, NoJob, Adding, Removing
<1>2. /\ FileList.on \subseteq FileList.ids
      /\ FileList.ids \subseteq Accounts
      /\ \A a \in Accounts : FileList.uses[a] = 0
      /\ cache # NotLoaded => cache = FileList
      /\ Listed = FileList.ids
  BY DEF InitStore, FileList, EmptyList, Zero, Listed
<1>3. /\ created = FileList.ids /\ pooled \in {{}, FileList.on}
      /\ offAtStart = FileList.ids \ pooled
  BY <1>2 DEF InitStore, FileList, EmptyList
<1>4. IdInv
  <2>1. ListsWellFormed
    BY <1>1, <1>2, <1>3 DEF InitStore, ListsWellFormed, WellFormed, EmptyList, NoJob, Zero
  <2>2. RemovalsQueued /\ NewcomersUnlisted
    BY <1>1 DEF RemovalsQueued, NewcomersUnlisted, Coming
  <2>3. NewcomersUnused
    BY <1>1 DEF InitStore, NewcomersUnused, Zero
  <2> QED
    BY <2>1, <2>2, <2>3 DEF IdInv
<1>5. Bounded
  BY DEF InitStore, Bounded, CountsWithinUsed, Zero
<1>6. Matching
  <2>1. EditsOfFile /\ CacheAlmostFile
    BY <1>1 DEF EditsOfFile, CacheAlmostFile
  <2>2. PoolFollowsFile
    BY <1>1, <1>2, <1>3 DEF InitStore, PoolFollowsFile, Agree
  <2>3. RemovedAreGone /\ UsesAccounted
    BY <1>2 DEF InitStore, RemovedAreGone, UsesAccounted, Zero
  <2> QED
    BY <2>1, <2>2, <2>3 DEF Matching
<1> QED
  BY <1>4, <1>5, <1>6, CurrentSplit

\* What lists, pool and counts know of an account, and what file, cache and
\* pool agree in until a list is overwritten with an older one.
THEOREM StoreCurrent == SpecStore => [](IdInv /\ CurrentInv)
<1>1. StoreInv /\ IdInv /\ CurrentInv /\ [NextStore]_storeVars => (IdInv /\ CurrentInv)'
  BY IdsPreserved, CurrentPreserved DEF CurrentInv
<1> QED
  BY <1>1, InitCurrent, StoreInvariant, PTL DEF SpecStore

\* The lists of the invariants are those of the properties.
LEMMA ListedIds ==
    /\ Listed = FileList.ids
    /\ disk # NoList => FileList = disk
BY DEF Listed, FileList, EmptyList

\* Until a save is based on a list that was not the file's, every use of a listed account is in
\* accounts.json, in one of the two increments in memory, or was lost with a
\* failed flush, a flush that could not read the list, or a crash: merges, edits and restarts drop none.
THEOREM UsesAllAccounted == SpecStore => []EveryUseAccounted
<1>1. CurrentInv => EveryUseAccounted
  BY CurrentSplit, ListedIds DEF Matching, UsesAccounted, EveryUseAccounted, Listed
<1> QED
  BY <1>1, StoreCurrent, PTL

\* Until a save is based on a list that was not the file's, an account whose removal was
\* confirmed stays out of accounts.json and out of the pool of this process
\* and of every later one.
THEOREM RemovalsLast == SpecStore => []RemovalLasts
<1>1. CurrentInv => RemovalLasts
  BY CurrentSplit, ListedIds DEF Matching, RemovedAreGone, RemovalLasts
<1> QED
  BY <1>1, StoreCurrent, PTL

\* Until a save is based on a list that was not the file's, the pool holds
\* listed accounts only, but for those an import took out of the file, and lacks
\* no listed one but those that start-up left out: disabled ones, or all of them
\* if it could not read the file.
THEOREM PoolAgreesWithFile == SpecStore => []PoolMatchesFile
<1>1. CurrentInv => PoolMatchesFile
  BY CurrentSplit, ListedIds DEF Matching, PoolFollowsFile, Agree, PoolMatchesFile
<1> QED
  BY <1>1, StoreCurrent, PTL
=============================================================================
