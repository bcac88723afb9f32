---------------------------- MODULE TokenManager ----------------------------
(***************************************************************************)
(* The OAuth tokens of one account (services/token_manager.py): one        *)
(* TokenManager, shared by the requests, probes and quota fetches of its   *)
(* pool entry, the file auth.json of its CODEX_HOME, and the server that   *)
(* issues tokens, which is external.  Tokens are numbered as issued; a     *)
(* refresh always issues a new access token and may rotate the refresh     *)
(* token, after which the old one is not accepted any more.  Which of the   *)
(* tasks that wait for the refresh lock gets it next is left open.         *)
(***************************************************************************)
EXTENDS Naturals

CONSTANTS
    Task,       \* asyncio tasks that call get_access_token
    MaxIssued   \* bound: access tokens issued

ASSUME TokenAssumption == MaxIssued \in Nat \ {0}

VARIABLES
    tm,         \* the manager: _loaded, _access_token, _refresh_token (0: None)
    disk,       \* auth.json
    tmp,        \* auth.tmp
    call,       \* what each task is doing
    server,     \* newest tokens, and the first access token not about to expire
    past        \* history: what can go wrong and did

tokenVars == <<tm, disk, tmp, call, server, past>>

Tokens == 0..MaxIssued
File(a, r) == [kind |-> "whole", access |-> a, refresh |-> r]
Missing == [kind |-> "missing", access |-> 0, refresh |-> 0]
Torn == [kind |-> "torn", access |-> 0, refresh |-> 0]
Files == [kind: {"whole", "missing", "torn"}, access: Tokens, refresh: Tokens]
Idle == [pc |-> "idle", saw |-> Missing]
NewManager == [loaded |-> FALSE, access |-> 0, refresh |-> 0]

TokenInit ==
    /\ tm = NewManager
    /\ disk \in {File(1, 1), Missing}
    /\ tmp = Missing
    /\ call = [k \in Task |-> Idle]
    /\ server \in [access: {1}, refresh: {1}, fresh: {1, 2}]
    /\ past = [lost |-> FALSE, late |-> FALSE, unsaved |-> FALSE, unread |-> FALSE]

Saw(k, pc, file) == call' = [call EXCEPT ![k] = [pc |-> pc, saw |-> file]]
Goto(k, pc) == Saw(k, pc, Missing)

Saving == {"saving", "writing", "flushing", "replacing"}
Locked == {"posting", "granted"} \cup Saving

\* _refresh_lock is free.
Unlocked == \A k \in Task : call[k].pc \notin Locked

\* _needs_refresh, of a manager with the tokens m
NeedsRefresh(m) == IF m.access = 0 THEN m.refresh # 0 ELSE m.access < server.fresh

----------------------------------------------------------------------------
\* get_access_token, once the file is loaded: refresh, or return the token as it is.
Proceed(k, m) ==
    Goto(k, IF m.access # 0 /\ NeedsRefresh(m) /\ m.refresh # 0 THEN "queued" ELSE "returned")

GetAccessToken(k) ==
    /\ call[k].pc = "idle"
    /\ IF tm.loaded THEN Proceed(k, tm) ELSE Goto(k, "loading")
    /\ UNCHANGED <<tm, disk, tmp, server, past>>

\* _load_auth_json: the file is read in a thread; later the task takes over what was read.
\* An error while reading is logged and leaves it as if there were no file.
ReadAuthJson(k) ==
    /\ call[k].pc = "loading"
    /\ \/ Saw(k, "read", disk) /\ UNCHANGED past
       \/ Saw(k, "read", Missing) /\ past' = [past EXCEPT !.unread = TRUE]
    /\ UNCHANGED <<tm, disk, tmp, server>>

Loaded(file, m) ==
    IF file.kind = "whole"
    THEN [loaded |-> TRUE, access |-> file.access, refresh |-> file.refresh]
    ELSE [m EXCEPT !.loaded = TRUE]

\* The manager counts as loaded, whether the file was read or not.
TakeAuthJson(k) ==
    LET m == Loaded(call[k].saw, tm) IN
    /\ call[k].pc = "read"
    /\ tm' = m
    /\ past' = [past EXCEPT !.late = @ \/ m.access < tm.access \/ m.refresh < tm.refresh]
    /\ Proceed(k, m)
    /\ UNCHANGED <<disk, tmp, server>>

----------------------------------------------------------------------------
\* _do_refresh, with the lock

\* The double check: the task before may have refreshed the token.
Acquired(k) ==
    /\ call[k].pc = "queued" /\ Unlocked
    /\ Goto(k, IF NeedsRefresh(tm) \/ tm.access = 0 THEN "posting" ELSE "returned")
    /\ UNCHANGED <<tm, disk, tmp, server, past>>

\* The server (external) accepts its newest refresh token; the answer is on its way.
ServerGrants(k) ==
    /\ call[k].pc = "posting" /\ tm.refresh = server.refresh /\ server.access < MaxIssued
    /\ \E rotate \in BOOLEAN :
          server' = [server EXCEPT !.access = @ + 1,
                                   !.refresh = IF rotate THEN server.access + 1 ELSE @]
    /\ Goto(k, "granted")
    /\ UNCHANGED <<tm, disk, tmp, past>>

\* Another status than 200, or an error before or after the server has granted.
RefreshFails(k) ==
    /\ call[k].pc \in {"posting", "granted"}
    /\ past' = [past EXCEPT !.lost = @ \/ call[k].pc = "granted"]
    /\ Goto(k, "returned")
    /\ UNCHANGED <<tm, disk, tmp, server>>

RefreshedKeepingOld(k) ==
    /\ call[k].pc = "granted"
    /\ tm' = [tm EXCEPT !.access = server.access]
    /\ Goto(k, "saving")
    /\ UNCHANGED <<disk, tmp, server, past>>

Refreshed(k) ==
    /\ call[k].pc = "granted"
    /\ tm' = [tm EXCEPT !.access = server.access, !.refresh = server.refresh]
    /\ Goto(k, "saving")
    /\ UNCHANGED <<disk, tmp, server, past>>

\* _save_auth_json: read, write auth.tmp, replace auth.json by it.
SaveRead(k) ==
    /\ call[k].pc = "saving"
    /\ IF disk.kind = "whole"
       THEN Saw(k, "writing", disk)
       ELSE Goto(k, "returned")
    /\ UNCHANGED <<tm, disk, tmp, server, past>>

UpdatedAccessOnly(file) == File(server.access, file.refresh)

\* The file with what the answer holds: the refresh token only if the server rotated it.
Updated(file) ==
    File(server.access, IF server.refresh = server.access THEN server.refresh ELSE file.refresh)

WriteInPlace(k) ==
    /\ \/ /\ call[k].pc = "writing"
          /\ disk' = Torn
          /\ Saw(k, "flushing", call[k].saw)
          /\ UNCHANGED tmp
       \/ /\ call[k].pc = "flushing"
          /\ tmp' = Updated(call[k].saw)
          /\ Goto(k, "replacing")
          /\ UNCHANGED disk
    /\ UNCHANGED <<tm, server, past>>

WriteTmp(k) ==
    /\ \/ /\ call[k].pc = "writing"
          /\ tmp' = Torn
          /\ Saw(k, "flushing", call[k].saw)
       \/ /\ call[k].pc = "flushing"
          /\ tmp' = Updated(call[k].saw)
          /\ Goto(k, "replacing")
    /\ UNCHANGED <<tm, disk, server, past>>

Replaced(k) ==
    /\ call[k].pc = "replacing"
    /\ disk' = tmp /\ tmp' = Missing
    /\ Goto(k, "returned")
    /\ UNCHANGED <<tm, server, past>>

\* An error while saving is logged; the refresh counts as done.
SaveFails(k) ==
    /\ call[k].pc \in Saving
    /\ past' = [past EXCEPT !.unsaved = TRUE]
    /\ Goto(k, "returned")
    /\ UNCHANGED <<tm, disk, tmp, server>>

----------------------------------------------------------------------------
\* The task is cancelled at one of its awaits and leaves the lock, or the queue before it.
\* The thread that replaces the file finishes all the same, unless it had not begun.
CancelCall(k) ==
    /\ call[k].pc \notin {"idle", "returned"}
    /\ past' = [past EXCEPT !.lost = @ \/ call[k].pc = "granted",
                            !.unsaved = @ \/ call[k].pc \in Saving]
    /\ call' = [call EXCEPT ![k] = Idle]
    /\ \/ UNCHANGED <<disk, tmp>>
       \/ call[k].pc = "replacing" /\ disk' = tmp /\ tmp' = Missing
    /\ UNCHANGED <<tm, server>>

CallEnds(k) ==
    /\ call[k].pc = "returned"
    /\ call' = [call EXCEPT ![k] = Idle]
    /\ UNCHANGED <<tm, disk, tmp, server, past>>

\* The process stops and starts again with a manager that has loaded nothing.
CrashTokens ==
    /\ tm' = NewManager
    /\ call' = [k \in Task |-> Idle]
    /\ past' = [past EXCEPT !.lost = @ \/ disk.refresh # server.refresh \/ disk.access # server.access,
                            !.unread = FALSE]
    /\ UNCHANGED <<disk, tmp, server>>

\* Time passes: every access token is within eight minutes of its expiry.
TokensExpire ==
    /\ server.fresh <= server.access
    /\ server' = [server EXCEPT !.fresh = server.access + 1]
    /\ UNCHANGED <<tm, disk, tmp, call, past>>

CallStep(k) ==
    \/ ReadAuthJson(k) \/ TakeAuthJson(k) \/ Acquired(k)
    \/ ServerGrants(k) \/ RefreshFails(k) \/ Refreshed(k)
    \/ SaveRead(k) \/ WriteTmp(k) \/ Replaced(k) \/ SaveFails(k)

TokenNext ==
    \/ \E k \in Task : GetAccessToken(k) \/ CallStep(k) \/ CancelCall(k) \/ CallEnds(k)
    \/ CrashTokens \/ TokensExpire

TokenSpec == TokenInit /\ [][TokenNext]_tokenVars

----------------------------------------------------------------------------
Pcs == {"idle", "loading", "read", "queued", "posting", "granted", "returned"} \cup Saving

TypeOKTokens ==
    /\ tm \in [loaded: BOOLEAN, access: Tokens, refresh: Tokens]
    /\ disk \in Files /\ tmp \in Files
    /\ call \in [Task -> [pc: Pcs, saw: Files]]
    /\ server \in [access: Tokens, refresh: Tokens, fresh: 0..MaxIssued + 1]
    /\ past \in [lost: BOOLEAN, late: BOOLEAN, unsaved: BOOLEAN, unread: BOOLEAN]

\* The tasks inside the refresh lock: at most one, which leaves a complete auth.tmp before it
\* replaces the file.  A crash, an error or a cancellation at any step, in the middle of a
\* write too, therefore leaves a complete auth.json (_save_auth_json's "atomic write").
OneHolder == \A j, k \in Task : call[j].pc \in Locked /\ call[k].pc \in Locked => j = k
TmpComplete == \A k \in Task : call[k].pc = "replacing" => tmp.kind = "whole"
AuthFileWhole == disk.kind # "torn"
TokenInv == TypeOKTokens /\ OneHolder /\ TmpComplete /\ AuthFileWhole

\* A manager that has loaded its file holds the newest tokens issued, however many tasks load,
\* refresh, fail and are cancelled at once.  Out of the code's hands is an answer that was lost
\* after the server had rotated; a load that ends after a refresh (late) is not prevented.  And
\* when a read of the file failed, the manager may hold no tokens at all until the process
\* starts again: it does not try a second time.
MemoryHoldsNewest ==
    tm.loaded /\ disk # Missing =>
        \/ tm.access = server.access /\ tm.refresh = server.refresh
        \/ past.lost \/ past.late
        \/ past.unread /\ tm.access = 0 /\ tm.refresh = 0
        \/ \E k \in Task : call[k].pc = "granted"

\* So does the file, once nobody is saving and no save has failed: a restart loses nothing.
FileHoldsNewest ==
    disk # Missing =>
        \/ disk.access = server.access /\ disk.refresh = server.refresh
        \/ past.lost \/ past.late \/ past.unsaved
        \/ \E k \in Task : call[k].pc \in {"granted"} \cup Saving
=============================================================================
