---------------------------- MODULE ConfigStore ----------------------------
(***************************************************************************)
(* config.json and what hangs on it (services/config_store.py): API keys   *)
(* with their monthly usage, the templates from which visitors claim keys, *)
(* the claims per address, and the three users of the store: the admin     *)
(* routes, the claim route and the requests that pass the key check.       *)
(*                                                                         *)
(* Every mutation changes the configuration in memory first and then calls *)
(* _save_config, which queues for a lock and writes what the configuration *)
(* is by THEN.  "saves" is that queue; its head holds the lock.  An action *)
(* is what runs between two suspensions, so the end of a save is one step  *)
(* with what its caller does next.                                         *)
(***************************************************************************)
EXTENDS Naturals, Sequences, FiniteSets

CONSTANTS
    Key, Template,   \* key strings; ids of claim templates
    Task,            \* coroutines of admin and claim routes
    Request,         \* proxied requests admitted and not yet counted
    Quotas,          \* values of monthly_quota, NoLimit for null
    Limits,          \* values of claim_code_max_usage, NoLimit where claims are not counted
    MaxKeys,         \* bound on the length of api_keys
    MaxEdits,        \* bound on the edits of keys and templates
    MaxUsage,        \* bound on the uses of a key in a month
    NoImage, NoCache, NoKey, NoLimit

ASSUME ConfigAssumption ==
    /\ Quotas \cup Limits \subseteq Nat \cup {NoLimit}
    /\ {MaxKeys, MaxEdits, MaxUsage} \subseteq Nat
    /\ NoKey \notin Key
    /\ {"flush", "shutdown"} \cap Task = {}
    /\ IsFiniteSet(Task) /\ IsFiniteSet(Request) /\ {} \notin {Task, Request}

VARIABLES
    mem,       \* _config
    disk,      \* config.json
    saves,     \* who is in _save_config, in the order of the lock; the head holds it
    image,     \* the JSON the head of saves has taken, NoImage before that
    task,      \* what each coroutine does once its save has ended
    request,   \* the key of each admitted request that is not counted yet
    keySet,    \* _api_key_set_cache
    dirty,     \* _usage_dirty
    flushTask, \* _usage_flush_task: none (or done), sleeping, saving
    stage,     \* the process: up, stopping (in _shutdown), down
    edits,     \* edits begun (bound)
    failed     \* history: a save has failed and none has succeeded since

configVars == <<mem, disk, saves, image, task, request, keySet, dirty, flushTask,
                stage, edits, failed>>

Savers == Task \cup {"flush", "shutdown"}
Entries == [key: Key, enabled: BOOLEAN, quota: Nat \cup {NoLimit}, usage: Nat, over: Nat]
Claimable == [status: {"new", "on", "off", "gone"}, limit: Nat \cup {NoLimit}, used: Nat,
              over: Nat]
Configs == [keys: Seq(Entries), templates: [Template -> Claimable]]
Jobs == [op: {"idle", "attempt", "mint", "count", "edit"},
         template: Template \cup {NoKey}]

Idle == [op |-> "idle", template |-> NoKey]
KeysOf(c) == {c.keys[i].key : i \in DOMAIN c.keys}

\* _key_index maps a key to its last entry (a dict comprehension over the list),
\* update_api_key changes the first one.
PositionsOf(c, k) == {i \in DOMAIN c.keys : c.keys[i].key = k}
FirstOf(c, k) == CHOOSE i \in PositionsOf(c, k) : \A j \in PositionsOf(c, k) : i <= j
LastOf(c, k) == CHOOSE i \in PositionsOf(c, k) : \A j \in PositionsOf(c, k) : j <= i
Indexed(c, k) == c.keys[LastOf(c, k)]

\* Who has passed the check of a limit and is not counted yet.
Admitted(k) == {r \in Request : request[r] = k}
Claimants(p) == {t \in Task : task[t].template = p /\ task[t].op \in {"attempt", "mint"}}

\* By how much n uses, counted or under way among the actors of S, are more than come about
\* under that limit.  The field "over" of a key or template is a history: it keeps what its
\* last edit found, as one that lowers the limit does not take back what was allowed before.
Excess(n, limit, S) ==
    IF limit = NoLimit \/ n < limit + Cardinality(S) THEN 0
    ELSE n + 1 - (limit + Cardinality(S))

Entry(k, enabled, quota, usage) ==
    [key |-> k, enabled |-> enabled, quota |-> quota, usage |-> usage,
     over |-> Excess(usage + Cardinality(Admitted(k)), quota, Request)]

Claims(p, status, limit, used) ==
    [status |-> status, limit |-> limit, used |-> used,
     over |-> Excess(used + Cardinality(Claimants(p)), limit, Task)]

Start ==
    /\ saves = <<>> /\ image = NoImage
    /\ task = [t \in Task |-> Idle]
    /\ request = [r \in Request |-> NoKey]
    /\ keySet = NoCache /\ dirty = FALSE /\ flushTask = "none"
    /\ stage = "up" /\ failed = FALSE

Init ==
    /\ \E on \in [Template -> {"new", "on"}], limit \in [Template -> Limits] :
          mem = [keys |-> <<>>,
                 templates |-> [p \in Template |-> [status |-> on[p], limit |-> limit[p],
                                                   used |-> 0, over |-> 0]]]
    /\ disk = mem
    /\ edits = 0
    /\ Start

----------------------------------------------------------------------------
\* Callers.  A mutation is followed by _save_config in the same step.

\* Mutant: a call that finds a save running leaves the file to it.
SaveUnlessBusy(s) == saves' = IF saves = <<>> THEN <<s>> ELSE saves
Save(s) == saves' = Append(saves, s)
WithKey(c, k, quota) == [c EXCEPT !.keys = Append(@, Entry(k, TRUE, quota, 0))]

\* The entries of the list s that are not of key k, in their order.
Without(s, k) ==
    LET kept[n \in 0..Len(s)] ==
            IF n = 0 THEN <<>>
            ELSE IF s[n].key = k THEN kept[n - 1] ELSE Append(kept[n - 1], s[n])
    IN  kept[Len(s)]

\* Mutant: the cached set of keys is dropped by the end of the save only.
EditKeysKeepingSet(t, c) ==
    /\ task[t] = Idle /\ stage = "up" /\ edits < MaxEdits
    /\ mem' = c
    /\ task' = [task EXCEPT ![t] = [Idle EXCEPT !.op = "edit"]]
    /\ edits' = edits + 1
    /\ Save(t)
    /\ UNCHANGED <<disk, image, request, keySet, dirty, flushTask, stage, failed>>

\* Every edit of the list of keys drops the cached set with _invalidate_api_key_cache.
EditKeys(t, c) ==
    /\ task[t] = Idle /\ stage = "up" /\ edits < MaxEdits
    /\ mem' = c
    /\ keySet' = NoCache
    /\ task' = [task EXCEPT ![t] = [Idle EXCEPT !.op = "edit"]]
    /\ edits' = edits + 1
    /\ Save(t)
    /\ UNCHANGED <<disk, image, request, dirty, flushTask, stage, failed>>

\* The admin may choose the key string, also one that is in the list already.
AddKey(t, k, quota) ==
    /\ Len(mem.keys) < MaxKeys
    /\ EditKeys(t, WithKey(mem, k, quota))

\* The quota may be set to less than what is used, or be lifted.
UpdateKey(t, k, enabled, quota) ==
    /\ k \in KeysOf(mem)
    /\ EditKeys(t, [mem EXCEPT !.keys[FirstOf(mem, k)] = Entry(@.key, enabled, quota, @.usage)])

RemoveKey(t, k) ==
    /\ k \in KeysOf(mem)
    /\ EditKeys(t, [mem EXCEPT !.keys = Without(@, k)])

KeyRoutes(t) ==
    \E k \in Key :
        \/ RemoveKey(t, k)
        \/ \E quota \in Quotas :
              \/ AddKey(t, k, quota)
              \/ \E enabled \in BOOLEAN : UpdateKey(t, k, enabled, quota)

EditTemplate(t, p, from, to, limit, used) ==
    /\ task[t] = Idle /\ stage = "up" /\ edits < MaxEdits
    /\ mem.templates[p].status \in from
    /\ mem' = [mem EXCEPT !.templates[p] = Claims(p, to, limit, used)]
    /\ task' = [task EXCEPT ![t] = [Idle EXCEPT !.op = "edit"]]
    /\ edits' = edits + 1
    /\ Save(t)
    /\ UNCHANGED <<disk, image, request, keySet, dirty, flushTask, stage, failed>>

AddTemplate(t, p) ==
    \E on \in {"on", "off"}, limit \in Limits : EditTemplate(t, p, {"new"}, on, limit, 0)

\* The limit, too, may be set to less than what is used, or be lifted.
UpdateTemplate(t, p) ==
    \E on \in {"on", "off"}, limit \in Limits :
        EditTemplate(t, p, {"on", "off"}, on, limit, mem.templates[p].used)

RemoveTemplate(t, p) ==
    EditTemplate(t, p, {"on", "off"}, "gone", mem.templates[p].limit, mem.templates[p].used)

ResetClaimCodeUsage(t, p) ==
    EditTemplate(t, p, {mem.templates[p].status} \cap {"on", "off"}, mem.templates[p].status,
                 mem.templates[p].limit, 0)

TemplateRoutes(t) ==
    \E p \in Template :
        \/ AddTemplate(t, p)
        \/ UpdateTemplate(t, p)
        \/ RemoveTemplate(t, p)
        \/ ResetClaimCodeUsage(t, p)

\* The claim route up to its first await: the checks, then record_claim_attempt, which
\* refuses or saves the attempt (its window of attempts per address is left out: either verdict
\* may come).
MayClaimOnceMore(p) ==  \* mutant
    /\ mem.templates[p].status = "on"
    /\ mem.templates[p].limit # NoLimit => mem.templates[p].used <= mem.templates[p].limit

MayClaim(p) ==
    /\ mem.templates[p].status = "on"
    /\ mem.templates[p].limit # NoLimit => mem.templates[p].used < mem.templates[p].limit

ClaimKey(t, p) ==
    /\ task[t] = Idle /\ stage = "up"
    /\ MayClaim(p)
    /\ task' = [task EXCEPT ![t] = [op |-> "attempt", template |-> p]]
    /\ Save(t)
    /\ UNCHANGED <<mem, disk, image, request, keySet, dirty, flushTask, stage, edits,
                   failed>>

----------------------------------------------------------------------------
\* _save_config, from lock to lock.

\* json.dumps of what the configuration is now; the file is still the old one.
Dump ==
    /\ saves # <<>> /\ image = NoImage /\ stage # "down"
    /\ image' = mem
    /\ UNCHANGED <<mem, disk, saves, task, request, keySet, dirty, flushTask, stage,
                   edits, failed>>

\* What the caller does when its save has returned, in the same step.
Answer(t) ==
    /\ task' = [task EXCEPT ![t] = Idle]
    /\ saves' = Tail(saves)
    /\ UNCHANGED mem

\* The new key has the quota that its template gives now.
MintKey(t) ==
    /\ task[t].op = "attempt"
    /\ \/ \E k \in Key \ KeysOf(mem), quota \in Quotas :
             /\ Len(mem.keys) < MaxKeys
             /\ mem' = WithKey(mem, k, quota)
             /\ task' = [task EXCEPT ![t].op = "mint"]
             /\ saves' = Append(Tail(saves), t)
       \/ /\ Len(mem.keys) >= MaxKeys \/ Key \subseteq KeysOf(mem)  \* the bound ends the claim
          /\ Answer(t)

\* A claim is counted if the template is there and has a limit by now.
CountClaim(t) ==
    /\ task[t].op = "mint"
    /\ LET p == task[t].template IN
       IF mem.templates[p].status \in {"on", "off"} /\ mem.templates[p].limit # NoLimit
       THEN /\ mem' = [mem EXCEPT !.templates[p].used = @ + 1]
            /\ task' = [task EXCEPT ![t].op = "count"]
            /\ saves' = Append(Tail(saves), t)
       ELSE Answer(t)

GoOn(t) ==
    \/ MintKey(t)
    \/ CountClaim(t)
    \/ task[t].op \in {"edit", "count"} /\ Answer(t)

Written ==
    /\ image # NoImage /\ stage # "down"
    /\ disk' = image
    /\ image' = NoImage
    /\ keySet' = NoCache

\* os.replace has put the new file in place.
EndSave ==
    /\ Written
    /\ \/ Head(saves) \in Task /\ GoOn(Head(saves)) /\ UNCHANGED <<flushTask, stage>>
       \/ /\ Head(saves) \notin Task
          /\ saves' = Tail(saves)
          /\ flushTask' = IF Head(saves) = "flush" THEN "none" ELSE flushTask
          /\ stage' = IF Head(saves) = "shutdown" THEN "down" ELSE stage
          /\ UNCHANGED <<mem, task>>
    /\ failed' = FALSE
    /\ UNCHANGED <<request, dirty, edits>>

\* Mutant: a flush that fails leaves the store marked clean.
FailSaveClean ==
    /\ saves # <<>> /\ stage # "down"
    /\ image' = NoImage
    /\ saves' = Tail(saves)
    /\ failed' = TRUE
    /\ task' = [t \in Task |-> IF t = Head(saves) THEN Idle ELSE task[t]]
    /\ flushTask' = IF Head(saves) = "flush" THEN "none" ELSE flushTask
    /\ stage' = IF Head(saves) = "shutdown" THEN "down" ELSE stage
    /\ UNCHANGED <<mem, disk, request, dirty, keySet, edits>>

\* mkdir, open, write or replace raises.  The caller gives up with what it has changed in
\* memory; only flush_usage notes that it has to be done again.
FailSave ==
    /\ saves # <<>> /\ stage # "down"
    /\ image' = NoImage
    /\ saves' = Tail(saves)
    /\ failed' = TRUE
    /\ IF Head(saves) \in Task
       THEN /\ task' = [task EXCEPT ![Head(saves)] = Idle]
            /\ UNCHANGED <<dirty, flushTask, stage>>
       ELSE /\ dirty' = TRUE
            /\ flushTask' = IF Head(saves) = "flush" THEN "none" ELSE flushTask
            /\ stage' = IF Head(saves) = "shutdown" THEN "down" ELSE stage
            /\ UNCHANGED task
    /\ UNCHANGED <<mem, disk, request, keySet, edits>>

----------------------------------------------------------------------------
\* Requests: the key check, and the count in the background some time later.

AcceptsAtQuota(k) ==  \* mutant
    /\ k \in (IF keySet = NoCache THEN KeysOf(mem) ELSE keySet)
    /\ k \in KeysOf(mem) => LET e == Indexed(mem, k) IN
          e.enabled /\ (e.quota # NoLimit => e.usage <= e.quota)

Accepts(k) ==
    /\ k \in (IF keySet = NoCache THEN KeysOf(mem) ELSE keySet)
    /\ k \in KeysOf(mem) => LET e == Indexed(mem, k) IN
          e.enabled /\ (e.quota # NoLimit => e.usage < e.quota)

\* The check fills the cached set, whatever its verdict.
Admit(r, k) ==
    /\ request[r] = NoKey /\ stage = "up"
    /\ request' = [request EXCEPT ![r] = IF Accepts(k) THEN k ELSE NoKey]
    /\ keySet' = IF keySet = NoCache THEN KeysOf(mem) ELSE keySet
    /\ UNCHANGED <<mem, disk, saves, image, task, dirty, flushTask, stage, edits, failed>>

\* A request that fails is not counted, nor one whose key has gone meanwhile.
Drop(r) ==
    /\ request[r] # NoKey /\ stage # "down"
    /\ request' = [request EXCEPT ![r] = NoKey]
    /\ UNCHANGED <<mem, disk, saves, image, task, keySet, dirty, flushTask, stage, edits,
                   failed>>

ScheduleAgain == flushTask' = "sleeping"  \* mutant: a flush that is saving is not pending
Schedule == flushTask' = IF flushTask = "none" THEN "sleeping" ELSE flushTask

IncrementUsage(r) ==
    /\ request[r] \in KeysOf(mem) /\ stage # "down"
    /\ Indexed(mem, request[r]).usage < MaxUsage
    /\ mem' = [mem EXCEPT !.keys[LastOf(mem, request[r])].usage = @ + 1]
    /\ dirty' = TRUE
    /\ Schedule
    /\ request' = [request EXCEPT ![r] = NoKey]
    /\ UNCHANGED <<disk, saves, image, task, keySet, stage, edits, failed>>

\* flush_usage up to its await, by the deferred task after its sleep or by _shutdown.
FlushUsage(who) ==
    /\ dirty
    /\ dirty' = FALSE
    /\ Save(who)

WakeFlush ==
    /\ flushTask = "sleeping" /\ stage # "down"
    /\ \/ FlushUsage("flush") /\ flushTask' = "saving"
       \/ ~dirty /\ flushTask' = "none" /\ UNCHANGED <<dirty, saves>>
    /\ UNCHANGED <<mem, disk, image, task, request, keySet, stage, edits, failed>>

\* The server has stopped taking requests and the open ones have been answered;
\* only background work may be left.
Shutdown ==
    /\ stage = "up" /\ \A t \in Task : task[t] = Idle
    /\ \/ FlushUsage("shutdown") /\ stage' = "stopping"
       \/ ~dirty /\ stage' = "down" /\ UNCHANGED <<dirty, saves>>
    /\ UNCHANGED <<mem, disk, image, task, request, keySet, flushTask, edits, failed>>

\* "usage" is the count of the running month: where monthly_reset_at has passed, the check
\* takes the count for 0 and the next use starts it again, in memory and in any saved copy.
Unused(c) ==
    [c EXCEPT !.keys =
        [i \in DOMAIN @ |-> Entry(@[i].key, @[i].enabled, @[i].quota, 0)]]

MonthBegins ==
    /\ mem' = Unused(mem)
    /\ disk' = Unused(disk)
    /\ image' = IF image = NoImage THEN NoImage ELSE Unused(image)
    /\ UNCHANGED <<saves, task, request, keySet, dirty, flushTask, stage, edits, failed>>

\* The process ends, in order or not, and starts again: load_config.
Restart ==
    /\ mem' = disk
    /\ saves' = <<>> /\ image' = NoImage
    /\ task' = [t \in Task |-> Idle]
    /\ request' = [r \in Request |-> NoKey]
    /\ keySet' = NoCache /\ dirty' = FALSE /\ flushTask' = "none"
    /\ stage' = "up" /\ failed' = FALSE
    /\ UNCHANGED <<disk, edits>>

ClaimRoute(t) == \E p \in Template : ClaimKey(t, p)
Proxied(r) == Drop(r) \/ IncrementUsage(r) \/ \E k \in Key : Admit(r, k)

Next ==
    \/ \E t \in Task : KeyRoutes(t) \/ TemplateRoutes(t) \/ ClaimRoute(t)
    \/ \E r \in Request : Proxied(r)
    \/ Dump \/ EndSave \/ FailSave
    \/ WakeFlush \/ Shutdown \/ MonthBegins \/ Restart

Spec == Init /\ [][Next]_configVars

----------------------------------------------------------------------------
\* Typing, and that the queue, the callers and the flush task fit together: everyone in the
\* queue waits there once, the flush task is in it exactly when it says so.
ConfigInv ==
    /\ {mem, disk} \subseteq Configs /\ image \in Configs \cup {NoImage}
    /\ saves \in Seq(Savers) /\ task \in [Task -> Jobs]
    /\ request \in [Request -> Key \cup {NoKey}]
    /\ keySet \in (SUBSET Key) \cup {NoCache} /\ {dirty, failed} \subseteq BOOLEAN
    /\ flushTask \in {"none", "sleeping", "saving"} /\ stage \in {"up", "stopping", "down"}
    /\ edits \in Nat
    /\ \A i, j \in DOMAIN saves : saves[i] = saves[j] => i = j
    /\ \A t \in Task : (\E i \in DOMAIN saves : saves[i] = t) <=> task[t] # Idle
    /\ (\E i \in DOMAIN saves : saves[i] = "flush") <=> flushTask = "saving"
    /\ (\E i \in DOMAIN saves : saves[i] = "shutdown") => stage = "stopping"
    /\ image # NoImage => saves # <<>>

\* Someone in the queue has yet to take the configuration.
SaveToCome == Len(saves) > (IF image = NoImage THEN 0 ELSE 1)

Durable(c) ==
    << [i \in DOMAIN c.keys |-> <<c.keys[i].key, c.keys[i].enabled, c.keys[i].quota>>],
       [p \in Template |->
          <<c.templates[p].status, c.templates[p].limit, c.templates[p].used>>] >>

\* Memory and file never part for long: whatever keys and templates differ, a save that will
\* write them is under way or queued, or the last one has failed.  (Unlike accounts.json, no
\* save can write an older state over a newer one: the state is taken under the lock.)
MemoryReachesDisk ==
    \/ Durable(mem) = Durable(disk)
    \/ failed
    \/ SaveToCome
    \/ image # NoImage /\ Durable(image) = Durable(mem)

Holds(c, e) == \E i \in DOMAIN c.keys :
    c.keys[i].key = e.key /\ c.keys[i].usage = e.usage

\* No use is taken for saved that is not: if the file lacks a usage count, the store is marked
\* dirty or a flush is in the queue that has not written an older count.
UsageNotForgotten ==
    \A i \in DOMAIN mem.keys : mem.keys[i].usage > 0 =>
        \/ Holds(disk, mem.keys[i])
        \/ dirty
        \/ \E j \in DOMAIN saves :
              /\ saves[j] \notin Task
              /\ j = 1 /\ image # NoImage => Holds(image, mem.keys[i])

\* The key check never answers from an old list: a key removed is refused at once, a key
\* added is accepted at once, also while their saves wait or after these have failed.
NoStaleGate == keySet \in {NoCache, KeysOf(mem)}

\* The quota is checked at admission and counted afterwards, so it may be overrun, but by no
\* more than the other requests that were admitted and not counted at that moment, and by what
\* it was overrun at the moment when an admin lowered it.
QuotaOverrunBounded ==
    \A k \in KeysOf(mem) : LET e == Indexed(mem, k) IN
        e.quota # NoLimit =>
            e.usage + Cardinality(Admitted(k)) < e.quota + e.over + Cardinality(Request)

\* The same for claims of one code: checked before two saves, counted after them.
ClaimOverrunBounded ==
    \A p \in Template : LET c == mem.templates[p] IN
        c.limit # NoLimit =>
            c.used + Cardinality(Claimants(p)) < c.limit + c.over + Cardinality(Task)
=============================================================================
