-------------------------- MODULE QuotaProbeProofs --------------------------
(***************************************************************************)
(* What one TokenManager guarantees for every set of tasks and every number *)
(* of tokens: auth.json stays whole, memory and file hold the newest        *)
(* tokens.  The quota probe uses the TokenManager as TokenManager.tla       *)
(* allows, so what is proved of that holds here; it runs one fetch at a     *)
(* time, and the snapshot keeps its measurement.                            *)
(***************************************************************************)
EXTENDS QuotaProbe, FiniteSetTheorems, TLAPS

----------------------------------------------------------------------------
(* The strengthening behind MemoryHoldsNewest and FileHoldsNewest.          *)

Excused == past.lost \/ past.late
HasFile == disk.kind = "whole"
InSync(x) == x.access = server.access /\ x.refresh = server.refresh
NotAfter(x, y) == x.access <= y.access /\ x.refresh <= y.refresh

\* A manager that was not loaded, or whose reads failed, holds no token.
Empty == tm.access = 0 /\ tm.refresh = 0

FileFirst ==
    /\ server.refresh <= server.access /\ server.refresh >= 1
    /\ disk = Missing \/ HasFile
    /\ \A k \in Task : call[k].pc \in {"writing", "flushing", "replacing"} => HasFile

\* Nobody refreshes without tokens, so the file is the newest, and what is being read is the file
\* unless the read failed.
BeforeLoad ==
    Empty /\ HasFile /\ ~Excused =>
        /\ InSync(disk)
        /\ tm.loaded => past.unread
        /\ \A k \in Task :
              /\ call[k].pc \notin Locked \cup {"queued"}
              /\ call[k].pc = "read" => call[k].saw = disk \/ (call[k].saw = Missing /\ past.unread)

\* With tokens in memory nothing is newer: the file, what is being read, what is being saved.
AfterLoad ==
    ~Empty /\ HasFile /\ ~Excused =>
        /\ NotAfter(disk, tm) /\ NotAfter(tm, server)
        /\ InSync(tm) \/ \E k \in Task : call[k].pc = "granted"
        /\ \A k \in Task :
              /\ call[k].pc = "read" => NotAfter(call[k].saw, tm)
              /\ call[k].pc \in {"writing", "flushing"} =>
                    call[k].saw.kind = "whole" /\ NotAfter(call[k].saw, tm)
              /\ call[k].pc = "replacing" =>
                    tmp.access = server.access /\ tmp.refresh <= server.refresh

\* While the answer is being saved, the file lacks at most the refresh token the answer holds.
HoldsAnswer(file) == file.refresh = server.refresh \/ server.refresh = server.access

SavingCatchesUp ==
    HasFile /\ ~Excused /\ ~past.unsaved =>
        /\ InSync(disk) \/ \E k \in Task : call[k].pc \in {"granted"} \cup Saving
        /\ \A k \in Task :
              /\ call[k].pc \in {"granted", "saving"} => HoldsAnswer(disk)
              /\ call[k].pc \in {"writing", "flushing"} => HoldsAnswer(call[k].saw)
              /\ call[k].pc = "replacing" => tmp.refresh = server.refresh

NewestInv == FileFirst /\ BeforeLoad /\ AfterLoad /\ SavingCatchesUp
----------------------------------------------------------------------------
(* Types, the refresh lock, the atomic write                                *)

LEMMA TokenInitTypes == TokenInit => TokenInv
BY TokenAssumption
   DEF TokenInit, TokenInv, TypeOKTokens, OneHolder, TmpComplete, AuthFileWhole, NewManager,
       File, Files, Missing, Tokens, Idle, Pcs, Locked, Saving

\* What Saw and Goto do to the tasks: one of them is elsewhere, the others are where they were.
LEMMA SawMoves ==
    ASSUME TypeOKTokens, NEW k \in Task, NEW pc \in Pcs, NEW file \in Files, Saw(k, pc, file)
    PROVE  /\ call' \in [Task -> [pc: Pcs, saw: Files]]
           /\ call'[k] = [pc |-> pc, saw |-> file]
           /\ \A j \in Task : j # k => call'[j] = call[j]
BY DEF Saw, TypeOKTokens

LEMMA FilesTyped ==
    Missing \in Files /\ Torn \in Files /\ \A a, r \in Tokens : File(a, r) \in Files
BY TokenAssumption DEF Missing, Torn, File, Files, Tokens

LEMMA CallTyped ==
    ASSUME TypeOKTokens, [TokenNext]_tokenVars
    PROVE  call' \in [Task -> [pc: Pcs, saw: Files]]
<1> USE FilesTyped DEF TypeOKTokens, Pcs, Saving
<1>1. ASSUME NEW k \in Task, GetAccessToken(k) PROVE call' \in [Task -> [pc: Pcs, saw: Files]]
  BY <1>1 DEF GetAccessToken, Proceed, Goto, Saw
<1>2. ASSUME NEW k \in Task, ReadAuthJson(k) PROVE call' \in [Task -> [pc: Pcs, saw: Files]]
  BY <1>2 DEF ReadAuthJson, Saw
<1>3. ASSUME NEW k \in Task, TakeAuthJson(k) PROVE call' \in [Task -> [pc: Pcs, saw: Files]]
  BY <1>3 DEF TakeAuthJson, Loaded, Proceed, Goto, Saw
<1>4. ASSUME NEW k \in Task, Acquired(k) PROVE call' \in [Task -> [pc: Pcs, saw: Files]]
  BY <1>4 DEF Acquired, Unlocked, Goto, Saw
<1>5. ASSUME NEW k \in Task, ServerGrants(k) PROVE call' \in [Task -> [pc: Pcs, saw: Files]]
  BY <1>5 DEF ServerGrants, Goto, Saw
<1>6. ASSUME NEW k \in Task, RefreshFails(k) PROVE call' \in [Task -> [pc: Pcs, saw: Files]]
  BY <1>6 DEF RefreshFails, Goto, Saw
<1>7. ASSUME NEW k \in Task, Refreshed(k) PROVE call' \in [Task -> [pc: Pcs, saw: Files]]
  BY <1>7 DEF Refreshed, Goto, Saw
<1>8. ASSUME NEW k \in Task, SaveRead(k) PROVE call' \in [Task -> [pc: Pcs, saw: Files]]
  BY <1>8 DEF SaveRead, Goto, Saw
<1>9. ASSUME NEW k \in Task, WriteTmp(k) PROVE call' \in [Task -> [pc: Pcs, saw: Files]]
  BY <1>9 DEF WriteTmp, Goto, Saw
<1>10. ASSUME NEW k \in Task, Replaced(k) PROVE call' \in [Task -> [pc: Pcs, saw: Files]]
  BY <1>10 DEF Replaced, Goto, Saw
<1>11. ASSUME NEW k \in Task, SaveFails(k) PROVE call' \in [Task -> [pc: Pcs, saw: Files]]
  BY <1>11 DEF SaveFails, Goto, Saw
<1>12. ASSUME NEW k \in Task, CancelCall(k) PROVE call' \in [Task -> [pc: Pcs, saw: Files]]
  BY <1>12 DEF CancelCall, Idle
<1>13. ASSUME NEW k \in Task, CallEnds(k) PROVE call' \in [Task -> [pc: Pcs, saw: Files]]
  BY <1>13 DEF CallEnds, Idle
<1>14. CASE CrashTokens
  BY <1>14 DEF CrashTokens, Idle, NewManager
<1>15. CASE TokensExpire
  BY <1>15 DEF TokensExpire
<1>16. CASE UNCHANGED tokenVars
  BY <1>16 DEF tokenVars
<1>17. QED
  BY <1>1, <1>2, <1>3, <1>4, <1>5, <1>6, <1>7, <1>8, <1>9, <1>10, <1>11, <1>12, <1>13, <1>14, <1>15, <1>16 DEF TokenNext, CallStep

LEMMA ManagerTyped ==
    ASSUME TypeOKTokens, [TokenNext]_tokenVars
    PROVE  tm' \in [loaded: BOOLEAN, access: Tokens, refresh: Tokens]
<1> USE DEF TypeOKTokens
<1>1. ASSUME NEW k \in Task, TakeAuthJson(k) PROVE tm' \in [loaded: BOOLEAN, access: Tokens, refresh: Tokens]
  BY <1>1 DEF TakeAuthJson, Loaded, Files
<1>2. ASSUME NEW k \in Task, Refreshed(k) PROVE tm' \in [loaded: BOOLEAN, access: Tokens, refresh: Tokens]
  BY <1>2 DEF Refreshed
<1>3. CASE CrashTokens
  BY <1>3, TokenAssumption DEF CrashTokens, NewManager, Tokens
<1>4. CASE UNCHANGED tm
  BY <1>4
<1>5. QED
  BY <1>1, <1>2, <1>3, <1>4
  DEF TokenNext, CallStep, tokenVars, GetAccessToken, ReadAuthJson, TakeAuthJson, Acquired, ServerGrants, RefreshFails, Refreshed, SaveRead, WriteTmp, Replaced, SaveFails, CancelCall, CallEnds, CrashTokens, TokensExpire

LEMMA FileTyped ==
    ASSUME TypeOKTokens, [TokenNext]_tokenVars
    PROVE  disk' \in Files /\ tmp' \in Files
<1> USE DEF TypeOKTokens
<1>1. ASSUME NEW k \in Task, WriteTmp(k) PROVE disk' \in Files /\ tmp' \in Files
  BY <1>1, FilesTyped DEF WriteTmp, Updated, Files
<1>2. ASSUME NEW k \in Task, Replaced(k) PROVE disk' \in Files /\ tmp' \in Files
  BY <1>2, FilesTyped DEF Replaced
<1>3. ASSUME NEW k \in Task, CancelCall(k) PROVE disk' \in Files /\ tmp' \in Files
  BY <1>3, FilesTyped DEF CancelCall
<1>4. CASE UNCHANGED <<disk, tmp>>
  BY <1>4
<1>5. QED
  BY <1>1, <1>2, <1>3, <1>4
  DEF TokenNext, CallStep, tokenVars, GetAccessToken, ReadAuthJson, TakeAuthJson, Acquired, ServerGrants, RefreshFails, Refreshed, SaveRead, WriteTmp, Replaced, SaveFails, CancelCall, CallEnds, CrashTokens, TokensExpire

LEMMA ServerTyped ==
    ASSUME TypeOKTokens, [TokenNext]_tokenVars
    PROVE  server' \in [access: Tokens, refresh: Tokens, fresh: 0..MaxIssued + 1]
<1> USE DEF TypeOKTokens, Tokens
<1>1. ASSUME NEW k \in Task, ServerGrants(k) PROVE server' \in [access: Tokens, refresh: Tokens, fresh: 0..MaxIssued + 1]
  <2>1. PICK rotate \in BOOLEAN :
           server' = [server EXCEPT !.access = @ + 1,
                                    !.refresh = IF rotate THEN server.access + 1 ELSE @]
    BY <1>1 DEF ServerGrants
  <2>2. server.access + 1 \in 0..MaxIssued
    BY <1>1, TokenAssumption DEF ServerGrants
  <2>3. QED
    BY <2>1, <2>2
<1>2. CASE TokensExpire
  BY <1>2, TokenAssumption DEF TokensExpire
<1>3. CASE UNCHANGED server
  BY <1>3
<1>4. QED
  BY <1>1, <1>2, <1>3
  DEF TokenNext, CallStep, tokenVars, GetAccessToken, ReadAuthJson, TakeAuthJson, Acquired, ServerGrants, RefreshFails, Refreshed, SaveRead, WriteTmp, Replaced, SaveFails, CancelCall, CallEnds, CrashTokens, TokensExpire

LEMMA PastTyped ==
    ASSUME TypeOKTokens, [TokenNext]_tokenVars
    PROVE  past' \in [lost: BOOLEAN, late: BOOLEAN, unsaved: BOOLEAN, unread: BOOLEAN]
<1> USE DEF TypeOKTokens
<1>1. ASSUME NEW k \in Task, TakeAuthJson(k) PROVE past' \in [lost: BOOLEAN, late: BOOLEAN, unsaved: BOOLEAN, unread: BOOLEAN]
  BY <1>1 DEF TakeAuthJson
<1>2. ASSUME NEW k \in Task, RefreshFails(k) PROVE past' \in [lost: BOOLEAN, late: BOOLEAN, unsaved: BOOLEAN, unread: BOOLEAN]
  BY <1>2 DEF RefreshFails
<1>3. ASSUME NEW k \in Task, SaveFails(k) PROVE past' \in [lost: BOOLEAN, late: BOOLEAN, unsaved: BOOLEAN, unread: BOOLEAN]
  BY <1>3 DEF SaveFails
<1>4. ASSUME NEW k \in Task, CancelCall(k) PROVE past' \in [lost: BOOLEAN, late: BOOLEAN, unsaved: BOOLEAN, unread: BOOLEAN]
  BY <1>4 DEF CancelCall
<1>5. CASE CrashTokens
  BY <1>5 DEF CrashTokens
<1>6. ASSUME NEW k \in Task, ReadAuthJson(k) PROVE past' \in [lost: BOOLEAN, late: BOOLEAN, unsaved: BOOLEAN, unread: BOOLEAN]
  BY <1>6 DEF ReadAuthJson
<1>7. CASE UNCHANGED past
  BY <1>7
<1>8. QED
  BY <1>1, <1>2, <1>3, <1>4, <1>5, <1>6, <1>7
  DEF TokenNext, CallStep, tokenVars, GetAccessToken, ReadAuthJson, TakeAuthJson, Acquired, ServerGrants, RefreshFails, Refreshed, SaveRead, WriteTmp, Replaced, SaveFails, CancelCall, CallEnds, CrashTokens, TokensExpire

LEMMA TokenStepTypes ==
    ASSUME TypeOKTokens, [TokenNext]_tokenVars
    PROVE  TypeOKTokens'
BY CallTyped, ManagerTyped, FileTyped, ServerTyped, PastTyped DEF TypeOKTokens

LEMMA TokenStepKeeps ==
    ASSUME TokenInv, [TokenNext]_tokenVars
    PROVE  (OneHolder /\ TmpComplete /\ AuthFileWhole)'
<1> USE DEF TokenInv, TypeOKTokens, Files, OneHolder, TmpComplete, AuthFileWhole, Locked, Saving, Missing, Torn
<1>1. ASSUME NEW k \in Task, GetAccessToken(k) PROVE (OneHolder /\ TmpComplete /\ AuthFileWhole)'
  <2>1. PICK pc \in {"loading", "queued", "returned"} : Saw(k, pc, Missing)
    BY <1>1 DEF GetAccessToken, Proceed, Goto
  <2>2. UNCHANGED <<disk, tmp>> /\ call[k].pc = "idle"
    BY <1>1 DEF GetAccessToken
  <2>3. QED
    BY <2>1, <2>2 DEF Saw
<1>2. ASSUME NEW k \in Task, ReadAuthJson(k) PROVE (OneHolder /\ TmpComplete /\ AuthFileWhole)'
  <2>1. PICK file \in {disk, Missing} : Saw(k, "read", file)
    BY <1>2 DEF ReadAuthJson
  <2>2. UNCHANGED <<disk, tmp>> /\ call[k].pc = "loading"
    BY <1>2 DEF ReadAuthJson
  <2>3. QED
    BY <2>1, <2>2 DEF Saw
<1>3. ASSUME NEW k \in Task, TakeAuthJson(k) PROVE (OneHolder /\ TmpComplete /\ AuthFileWhole)'
  BY <1>3 DEF TakeAuthJson, Loaded, Proceed, Goto, Saw
<1>4. ASSUME NEW k \in Task, Acquired(k) PROVE (OneHolder /\ TmpComplete /\ AuthFileWhole)'
  <2>1. PICK pc \in {"posting", "returned"} : Saw(k, pc, Missing)
    BY <1>4 DEF Acquired, Goto
  <2>2. Unlocked /\ UNCHANGED <<disk, tmp>>
    BY <1>4 DEF Acquired
  <2>3. QED
    BY <2>1, <2>2 DEF Unlocked, Saw
<1>5. ASSUME NEW k \in Task, ServerGrants(k) PROVE (OneHolder /\ TmpComplete /\ AuthFileWhole)'
  BY <1>5 DEF ServerGrants, Goto, Saw
<1>6. ASSUME NEW k \in Task, RefreshFails(k) PROVE (OneHolder /\ TmpComplete /\ AuthFileWhole)'
  BY <1>6 DEF RefreshFails, Goto, Saw
<1>7. ASSUME NEW k \in Task, Refreshed(k) PROVE (OneHolder /\ TmpComplete /\ AuthFileWhole)'
  BY <1>7 DEF Refreshed, Goto, Saw
<1>8. ASSUME NEW k \in Task, SaveRead(k) PROVE (OneHolder /\ TmpComplete /\ AuthFileWhole)'
  <2>1. PICK pc \in {"writing", "returned"} : Saw(k, pc, disk) \/ Saw(k, pc, Missing)
    BY <1>8 DEF SaveRead, Goto
  <2>2. UNCHANGED <<disk, tmp>> /\ call[k].pc = "saving"
    BY <1>8 DEF SaveRead
  <2>3. call'[k].pc = pc /\ \A j \in Task : j # k => call'[j] = call[j]
    BY <2>1 DEF Saw
  <2>4. QED
    BY SMTT(30), <2>2, <2>3
<1>9. ASSUME NEW k \in Task, WriteTmp(k) PROVE (OneHolder /\ TmpComplete /\ AuthFileWhole)'
  <2>1. PICK pc \in {"flushing", "replacing"} :
           /\ Saw(k, pc, call[k].saw) \/ Saw(k, pc, Missing)
           /\ pc = "replacing" => tmp' = Updated(call[k].saw)
    BY <1>9 DEF WriteTmp, Goto
  <2>2. call[k].pc \in Locked /\ UNCHANGED disk
    BY <1>9 DEF WriteTmp
  <2>3. call'[k].pc = pc /\ \A j \in Task : j # k => call'[j] = call[j]
    BY <2>1 DEF Saw
  <2>4. \A j \in Task : call'[j].pc \in Locked => j = k
    BY <2>2, <2>3
  <2>5. OneHolder'
    BY <2>4
  <2>6. TmpComplete'
    <3>1. pc = "replacing" => tmp'.kind = "whole"
      BY <2>1 DEF Updated, File
    <3>2. QED
      BY <2>3, <2>4, <3>1
  <2>7. QED
    BY <2>2, <2>5, <2>6
<1>10. ASSUME NEW k \in Task, Replaced(k) PROVE (OneHolder /\ TmpComplete /\ AuthFileWhole)'
  <2>1. call[k].pc = "replacing" /\ disk' = tmp /\ Saw(k, "returned", Missing)
    BY <1>10 DEF Replaced, Goto
  <2>2. call'[k].pc = "returned" /\ \A j \in Task : j # k => call'[j] = call[j]
    BY <2>1 DEF Saw
  <2>3. \A j \in Task : call'[j].pc \notin Locked
    BY <2>1, <2>2
  <2>4. QED
    BY <2>1, <2>3
<1>11. ASSUME NEW k \in Task, SaveFails(k) PROVE (OneHolder /\ TmpComplete /\ AuthFileWhole)'
  BY <1>11 DEF SaveFails, Goto, Saw
<1>12. ASSUME NEW k \in Task, CancelCall(k) PROVE (OneHolder /\ TmpComplete /\ AuthFileWhole)'
  BY <1>12 DEF CancelCall, Idle
<1>13. ASSUME NEW k \in Task, CallEnds(k) PROVE (OneHolder /\ TmpComplete /\ AuthFileWhole)'
  BY <1>13 DEF CallEnds, Idle
<1>14. CASE CrashTokens
  BY <1>14 DEF CrashTokens, Idle, NewManager
<1>15. CASE TokensExpire
  BY <1>15 DEF TokensExpire
<1>16. CASE UNCHANGED tokenVars
  BY <1>16 DEF tokenVars
<1>17. QED
  BY <1>1, <1>2, <1>3, <1>4, <1>5, <1>6, <1>7, <1>8, <1>9, <1>10, <1>11, <1>12, <1>13, <1>14, <1>15, <1>16 DEF TokenNext, CallStep

THEOREM TokensInvariant == TokenSpec => []TokenInv
<1>1. TokenInv /\ [TokenNext]_tokenVars => TokenInv'
  BY TokenStepTypes, TokenStepKeeps DEF TokenInv
<1>2. QED
  BY TokenInitTypes, <1>1, PTL DEF TokenSpec

\* auth.json is whole after every step: _save_auth_json replaces it, under the refresh lock, by
\* an auth.tmp that is complete.
THEOREM TokensFileWhole == TokenSpec => []AuthFileWhole
<1>1. TokenInv => AuthFileWhole
  BY DEF TokenInv
<1>2. QED
  BY TokensInvariant, <1>1, PTL

----------------------------------------------------------------------------
(* Memory and file hold the newest tokens                                   *)

LEMMA NewestInit == TokenInit => NewestInv
BY DEF TokenInit, NewestInv, FileFirst, BeforeLoad, AfterLoad, SavingCatchesUp, NewManager,
       File, Missing, Idle, Locked, Saving, InSync, HasFile, Empty

LEMMA NewestStep ==
    ASSUME TokenInv, NewestInv, [TokenNext]_tokenVars
    PROVE  NewestInv'
<1> USE TokenAssumption
    DEF TokenInv, TypeOKTokens, OneHolder, TmpComplete, AuthFileWhole, NewestInv,
        FileFirst, BeforeLoad, AfterLoad, SavingCatchesUp,
        Excused, Empty, HasFile, InSync, NotAfter, HoldsAnswer,
        Tokens, Files, Missing, Idle, Locked, Saving
<1>1. ASSUME NEW k \in Task, GetAccessToken(k) PROVE NewestInv'
  <2>1. PICK pc \in {"loading", "queued", "returned"} : Saw(k, pc, Missing) /\ (pc = "queued" => tm.access # 0)
    BY <1>1 DEF GetAccessToken, Proceed, Goto, Loaded
  <2>2. call'[k].pc = pc /\ call'[k].saw = Missing /\ \A j \in Task : j # k => call'[j] = call[j]
    BY <2>1 DEF Saw
  <2>3. call[k].pc = "idle" /\ UNCHANGED <<tm, disk, tmp, server, past>>
    BY <1>1 DEF GetAccessToken
  <2>4. FileFirst'
    BY <2>1, <2>2, <2>3 DEF FileFirst
  <2>5. BeforeLoad'
    BY <2>1, <2>2, <2>3 DEF BeforeLoad
  <2>6. AfterLoad'
    BY SMTT(30), <2>1, <2>2, <2>3 DEF AfterLoad
  <2>7. SavingCatchesUp'
    BY SMTT(30), <2>1, <2>2, <2>3 DEF SavingCatchesUp
  <2>8. QED
    BY <2>4, <2>5, <2>6, <2>7 DEF NewestInv
<1>2. ASSUME NEW k \in Task, ReadAuthJson(k) PROVE NewestInv'
  <2>1. CASE Saw(k, "read", disk) /\ UNCHANGED past
    <3>1. call'[k].pc = "read" /\ call'[k].saw = disk /\ \A j \in Task : j # k => call'[j] = call[j]
      BY <2>1 DEF Saw
    <3>2. call[k].pc = "loading" /\ UNCHANGED <<tm, disk, tmp, server, past>>
      BY <1>2, <2>1 DEF ReadAuthJson
    <3>3. FileFirst'
      BY <3>1, <3>2 DEF FileFirst
    <3>4. BeforeLoad'
      BY <3>1, <3>2 DEF BeforeLoad
    <3>5. AfterLoad'
      BY <3>1, <3>2 DEF AfterLoad
    <3>6. SavingCatchesUp'
      <4> HIDE DEF BeforeLoad, AfterLoad, NotAfter
      <4>1. SUFFICES ASSUME HasFile', ~Excused', ~past'.unsaved
                     PROVE  /\ (InSync(disk) \/ \E j \in Task : call[j].pc \in {"granted"} \cup Saving)'
                            /\ \A j \in Task :
                                  /\ (call[j].pc \in {"granted", "saving"} => HoldsAnswer(disk))'
                                  /\ (call[j].pc \in {"writing", "flushing"} => HoldsAnswer(call[j].saw))'
                                  /\ (call[j].pc = "replacing" => tmp.refresh = server.refresh)'
        BY DEF SavingCatchesUp
      <4>2. HasFile /\ ~Excused /\ ~past.unsaved
        BY <4>1, <3>1, <3>2 DEF FileFirst
      <4>3. (InSync(disk) \/ \E j \in Task : call[j].pc \in {"granted"} \cup Saving)'
        BY <4>1, <4>2, <3>1, <3>2 DEF SavingCatchesUp
      <4>4. ASSUME NEW j \in Task
            PROVE  /\ (call[j].pc \in {"granted", "saving"} => HoldsAnswer(disk))'
                   /\ (call[j].pc \in {"writing", "flushing"} => HoldsAnswer(call[j].saw))'
                   /\ (call[j].pc = "replacing" => tmp.refresh = server.refresh)'
        BY <4>1, <4>2, <3>1, <3>2 DEF SavingCatchesUp
      <4>5. QED
        BY <4>3, <4>4
    <3>7. QED
      BY <3>3, <3>4, <3>5, <3>6 DEF NewestInv
  <2>2. CASE Saw(k, "read", Missing) /\ past' = [past EXCEPT !.unread = TRUE]
    <3>1. call'[k].pc = "read" /\ call'[k].saw = Missing /\ \A j \in Task : j # k => call'[j] = call[j]
      BY <2>2 DEF Saw
    <3>2. /\ call[k].pc = "loading" /\ UNCHANGED <<tm, disk, tmp, server>>
          /\ past'.lost = past.lost /\ past'.late = past.late /\ past'.unsaved = past.unsaved
          /\ past'.unread
      BY <1>2, <2>2 DEF ReadAuthJson
    <3>3. FileFirst'
      BY <3>1, <3>2 DEF FileFirst
    <3>4. BeforeLoad'
      BY <3>1, <3>2 DEF BeforeLoad
    <3>5. AfterLoad'
      BY <3>1, <3>2 DEF AfterLoad
    <3>6. SavingCatchesUp'
      <4> HIDE DEF BeforeLoad, AfterLoad, NotAfter
      <4> QED
        BY <3>1, <3>2 DEF SavingCatchesUp
    <3>7. QED
      BY <3>3, <3>4, <3>5, <3>6 DEF NewestInv
  <2>3. QED
    BY <1>2, <2>1, <2>2 DEF ReadAuthJson
<1>3. ASSUME NEW k \in Task, TakeAuthJson(k) PROVE NewestInv'
  <2>1. PICK pc \in {"queued", "returned"} : Saw(k, pc, Missing) /\ (pc = "queued" => tm'.access # 0)
    BY <1>3 DEF TakeAuthJson, Proceed, Goto
  <2>2. call'[k].pc = pc /\ call'[k].saw = Missing /\ \A j \in Task : j # k => call'[j] = call[j]
    BY <2>1 DEF Saw
  <2>3. call[k].pc = "read" /\ UNCHANGED <<disk, tmp, server>>
    BY <1>3 DEF TakeAuthJson
  <2>4. tm' = Loaded(call[k].saw, tm) /\ tm'.loaded /\ past'.lost = past.lost /\ past'.unsaved = past.unsaved
       /\ past'.unread = past.unread
       /\ past'.late = (past.late \/ tm'.access < tm.access \/ tm'.refresh < tm.refresh)
    BY <1>3 DEF TakeAuthJson, Loaded
  <2>5. call[k].saw.kind = "whole" => tm'.access = call[k].saw.access /\ tm'.refresh = call[k].saw.refresh
    BY <2>4 DEF Loaded
  <2>6. call[k].saw.kind # "whole" => tm'.access = tm.access /\ tm'.refresh = tm.refresh
    BY <2>4 DEF Loaded
  <2>7. FileFirst'
    BY <2>1, <2>2, <2>3, <2>4, <2>5, <2>6 DEF FileFirst
  <2>8. BeforeLoad'
    <3>1. SUFFICES ASSUME Empty', HasFile', ~Excused'
                   PROVE  /\ InSync(disk)' /\ past'.unread
                          /\ \A j \in Task :
                                /\ (call[j].pc \notin Locked \cup {"queued"})'
                                /\ (call[j].pc = "read" => call[j].saw = disk \/ (call[j].saw = Missing /\ past.unread))'
      BY DEF BeforeLoad
    <3>2. HasFile /\ ~Excused
      BY <2>3, <2>4, <3>1
    <3>3. Empty
      <4>1. ~(tm'.access < tm.access) /\ ~(tm'.refresh < tm.refresh)
        BY <2>4, <3>1
      <4>2. tm'.access = 0 /\ tm'.refresh = 0 /\ tm.access \in Nat /\ tm.refresh \in Nat
        BY <3>1
      <4>3. QED
        BY <4>1, <4>2
    <3>4. InSync(disk) /\ (call[k].saw = disk \/ (call[k].saw = Missing /\ past.unread))
      BY <2>3, <3>2, <3>3 DEF BeforeLoad
    <3>5. call[k].saw # disk
      BY <2>5, <3>1, <3>2, <3>4 DEF FileFirst
    <3>6. past'.unread
      BY <2>4, <3>4, <3>5
    <3>7. pc # "queued"
      BY <2>1, <3>1
    <3>8. QED
      BY <2>2, <2>3, <2>4, <3>2, <3>3, <3>4, <3>6, <3>7 DEF BeforeLoad
  <2>9. AfterLoad'
    <3>1. SUFFICES ASSUME ~Empty', HasFile', ~Excused'
                   PROVE  /\ (NotAfter(disk, tm) /\ NotAfter(tm, server))'
                          /\ (InSync(tm) \/ \E j \in Task : call[j].pc = "granted")'
                          /\ \A j \in Task :
                                /\ (call[j].pc = "read" => NotAfter(call[j].saw, tm))'
                                /\ (call[j].pc \in {"writing", "flushing"} =>
                                       call[j].saw.kind = "whole" /\ NotAfter(call[j].saw, tm))'
                                /\ (call[j].pc = "replacing" =>
                                       tmp.access = server.access /\ tmp.refresh <= server.refresh)'
      BY DEF AfterLoad
    <3>2. HasFile /\ ~Excused
      BY <2>3, <2>4, <3>1
    <3>3. CASE Empty
      <4>1. InSync(disk) /\ (call[k].saw = disk \/ call[k].saw = Missing)
        BY <2>3, <3>2, <3>3 DEF BeforeLoad
      <4>2. call[k].saw = disk
        BY <2>6, <3>1, <3>3, <4>1
      <4>3. tm'.access = server.access /\ tm'.refresh = server.refresh
        BY <2>5, <3>2, <4>1, <4>2
      <4>4. \A j \in Task : call'[j].pc \notin {"writing", "flushing", "replacing"}
        BY <2>2, <3>2, <3>3 DEF BeforeLoad
      <4>5. \A j \in Task : call'[j].pc = "read" => call'[j].saw = disk \/ call'[j].saw = Missing
        BY <2>2, <3>2, <3>3 DEF BeforeLoad
      <4>6. QED
        BY <2>3, <4>1, <4>3, <4>4, <4>5
    <3>4. CASE ~Empty
      <4>1. NotAfter(call[k].saw, tm)
        BY <2>3, <3>2, <3>4 DEF AfterLoad
      <4>2. tm'.access = tm.access /\ tm'.refresh = tm.refresh
        <5>1. ~(tm'.access < tm.access) /\ ~(tm'.refresh < tm.refresh)
          BY <2>4, <3>1
        <5>2. CASE call[k].saw.kind = "whole"
          <6>1. /\ call[k].saw.access <= tm.access /\ call[k].saw.refresh <= tm.refresh
                /\ tm'.access = call[k].saw.access /\ tm'.refresh = call[k].saw.refresh
            BY <2>5, <4>1, <5>2
          <6>2. /\ tm.access \in Nat /\ tm.refresh \in Nat
                /\ call[k].saw.access \in Nat /\ call[k].saw.refresh \in Nat
            OBVIOUS
          <6> HIDE DEF TokenInv, NewestInv
          <6>3. QED
            BY <5>1, <6>1, <6>2
        <5>3. QED
          BY <2>6, <5>2
      <4>3. \A j \in Task : call'[j].pc \in {"read", "granted", "writing", "flushing", "replacing"} => j # k
        BY <2>2
      <4>4. \A j \in Task : call[j].pc = "granted" => call'[j].pc = "granted"
        BY <2>2, <2>3
      <4>5. QED
        BY <2>2, <2>3, <3>2, <3>4, <4>2, <4>3, <4>4 DEF AfterLoad
    <3>5. QED
      BY <3>3, <3>4
  <2>10. SavingCatchesUp'
    <3> HIDE DEF BeforeLoad, AfterLoad, NotAfter
    <3> QED
      BY <2>1, <2>2, <2>3, <2>4, <2>5, <2>6 DEF SavingCatchesUp
  <2>11. QED
    BY <2>7, <2>8, <2>9, <2>10 DEF NewestInv
<1>4. ASSUME NEW k \in Task, Acquired(k) PROVE NewestInv'
  <2>1. PICK pc \in {"posting", "returned"} : Saw(k, pc, Missing)
    BY <1>4 DEF Acquired, Goto
  <2>2. call'[k].pc = pc /\ call'[k].saw = Missing /\ \A j \in Task : j # k => call'[j] = call[j]
    BY <2>1 DEF Saw
  <2>3. call[k].pc = "queued" /\ UNCHANGED <<tm, disk, tmp, server, past>>
    BY <1>4 DEF Acquired
  <2>4. \A j \in Task : call[j].pc \in {"granted"} \cup Saving => call'[j].pc = call[j].pc
    BY <2>2, <2>3
  <2>5. FileFirst'
    BY <2>1, <2>2, <2>3, <2>4 DEF FileFirst
  <2>6. BeforeLoad'
    BY <2>1, <2>2, <2>3, <2>4 DEF BeforeLoad
  <2>7. AfterLoad'
    BY <2>1, <2>2, <2>3, <2>4 DEF AfterLoad
  <2>8. SavingCatchesUp'
    <3> HIDE DEF BeforeLoad, AfterLoad, NotAfter
    <3> QED
      BY <2>1, <2>2, <2>3, <2>4 DEF SavingCatchesUp
  <2>9. QED
    BY <2>5, <2>6, <2>7, <2>8 DEF NewestInv
<1>5. ASSUME NEW k \in Task, ServerGrants(k) PROVE NewestInv'
  <2>1. call'[k].pc = "granted" /\ call'[k].saw = Missing /\ \A j \in Task : j # k => call'[j] = call[j]
    BY <1>5 DEF ServerGrants, Goto, Saw
  <2>2. call[k].pc = "posting" /\ UNCHANGED <<tm, disk, tmp, past>>
    BY <1>5 DEF ServerGrants
  <2>3. server'.access = server.access + 1 /\ server'.refresh \in {server.refresh, server.access + 1}
    BY <1>5 DEF ServerGrants
  <2>4. \A j \in Task : call[j].pc \in Locked => j = k
    BY <2>2
  <2>5. FileFirst'
    BY <2>1, <2>2, <2>3, <2>4 DEF FileFirst
  <2>6. BeforeLoad'
    BY <2>1, <2>2, <2>3, <2>4 DEF BeforeLoad
  <2>7. AfterLoad'
    BY <2>1, <2>2, <2>3, <2>4 DEF AfterLoad
  <2>8. SavingCatchesUp'
    <3> HIDE DEF BeforeLoad, AfterLoad, NotAfter
    <3> QED
      BY <2>1, <2>2, <2>3, <2>4 DEF SavingCatchesUp
  <2>9. QED
    BY <2>5, <2>6, <2>7, <2>8 DEF NewestInv
<1>6. ASSUME NEW k \in Task, RefreshFails(k) PROVE NewestInv'
  <2>1. call'[k].pc = "returned" /\ call'[k].saw = Missing /\ \A j \in Task : j # k => call'[j] = call[j]
    BY <1>6 DEF RefreshFails, Goto, Saw
  <2>2. call[k].pc \in {"posting", "granted"} /\ UNCHANGED <<tm, disk, tmp, server>>
    BY <1>6 DEF RefreshFails
  <2>3. past'.lost = (past.lost \/ call[k].pc = "granted") /\ past'.late = past.late /\ past'.unsaved = past.unsaved
    BY <1>6 DEF RefreshFails
  <2>4. \A j \in Task : call[j].pc \in Locked => j = k
    BY <2>2
  <2>5. FileFirst'
    BY <2>1, <2>2, <2>3, <2>4 DEF FileFirst
  <2>6. BeforeLoad'
    BY <2>1, <2>2, <2>3, <2>4 DEF BeforeLoad
  <2>7. AfterLoad'
    <3>1. SUFFICES ASSUME ~Empty', HasFile', ~Excused'
                   PROVE  /\ (NotAfter(disk, tm) /\ NotAfter(tm, server))'
                          /\ (InSync(tm) \/ \E j \in Task : call[j].pc = "granted")'
                          /\ \A j \in Task :
                                /\ (call[j].pc = "read" => NotAfter(call[j].saw, tm))'
                                /\ (call[j].pc \in {"writing", "flushing"} =>
                                       call[j].saw.kind = "whole" /\ NotAfter(call[j].saw, tm))'
                                /\ (call[j].pc = "replacing" =>
                                       tmp.access = server.access /\ tmp.refresh <= server.refresh)'
      BY DEF AfterLoad
    <3>2. HasFile /\ ~Excused
      BY <3>1, <2>1, <2>2, <2>3, <2>4 DEF FileFirst
    <3>3. ~Empty
      BY <3>1, <3>2, <2>1, <2>2, <2>3, <2>4 DEF BeforeLoad
    <3>4. (NotAfter(disk, tm) /\ NotAfter(tm, server))'
      BY <3>1, <3>2, <3>3, <2>1, <2>2, <2>3, <2>4 DEF AfterLoad
    <3>5. (InSync(tm) \/ \E j \in Task : call[j].pc = "granted")'
      BY <3>1, <3>2, <3>3, <2>1, <2>2, <2>3, <2>4 DEF AfterLoad
    <3>6. ASSUME NEW j \in Task
          PROVE  /\ (call[j].pc = "read" => NotAfter(call[j].saw, tm))'
                 /\ (call[j].pc \in {"writing", "flushing"} =>
                        call[j].saw.kind = "whole" /\ NotAfter(call[j].saw, tm))'
                 /\ (call[j].pc = "replacing" =>
                        tmp.access = server.access /\ tmp.refresh <= server.refresh)'
      BY <3>1, <3>2, <3>3, <2>1, <2>2, <2>3, <2>4 DEF AfterLoad
    <3>7. QED
      BY <3>4, <3>5, <3>6
  <2>8. SavingCatchesUp'
    <3> HIDE DEF BeforeLoad, AfterLoad, NotAfter
    <3> QED
      BY <2>1, <2>2, <2>3, <2>4 DEF SavingCatchesUp
  <2>9. QED
    BY <2>5, <2>6, <2>7, <2>8 DEF NewestInv
<1>7. ASSUME NEW k \in Task, Refreshed(k) PROVE NewestInv'
  <2>1. call'[k].pc = "saving" /\ call'[k].saw = Missing /\ \A j \in Task : j # k => call'[j] = call[j]
    BY <1>7 DEF Refreshed, Goto, Saw
  <2>2. call[k].pc = "granted" /\ UNCHANGED <<disk, tmp, server, past>>
    BY <1>7 DEF Refreshed
  <2>3. tm'.loaded = tm.loaded /\ tm'.access = server.access /\ tm'.refresh = server.refresh
    BY <1>7 DEF Refreshed
  <2>4. \A j \in Task : call[j].pc \in Locked => j = k
    BY <2>2
  <2>5. FileFirst'
    BY <2>1, <2>2, <2>3, <2>4 DEF FileFirst
  <2>6. BeforeLoad'
    BY <2>1, <2>2, <2>3, <2>4 DEF BeforeLoad
  <2>7. AfterLoad'
    <3>1. SUFFICES ASSUME ~Empty', HasFile', ~Excused'
                   PROVE  /\ (NotAfter(disk, tm) /\ NotAfter(tm, server))'
                          /\ (InSync(tm) \/ \E j \in Task : call[j].pc = "granted")'
                          /\ \A j \in Task :
                                /\ (call[j].pc = "read" => NotAfter(call[j].saw, tm))'
                                /\ (call[j].pc \in {"writing", "flushing"} =>
                                       call[j].saw.kind = "whole" /\ NotAfter(call[j].saw, tm))'
                                /\ (call[j].pc = "replacing" =>
                                       tmp.access = server.access /\ tmp.refresh <= server.refresh)'
      BY DEF AfterLoad
    <3>2. HasFile /\ ~Excused
      BY <3>1, <2>1, <2>2, <2>3, <2>4 DEF FileFirst
    <3>3. ~Empty
      BY <3>1, <3>2, <2>1, <2>2, <2>3, <2>4 DEF BeforeLoad
    <3>4. (NotAfter(disk, tm) /\ NotAfter(tm, server))'
      BY <3>1, <3>2, <3>3, <2>1, <2>2, <2>3, <2>4 DEF AfterLoad
    <3>5. (InSync(tm) \/ \E j \in Task : call[j].pc = "granted")'
      BY <3>1, <3>2, <3>3, <2>1, <2>2, <2>3, <2>4 DEF AfterLoad
    <3>6. ASSUME NEW j \in Task
          PROVE  /\ (call[j].pc = "read" => NotAfter(call[j].saw, tm))'
                 /\ (call[j].pc \in {"writing", "flushing"} =>
                        call[j].saw.kind = "whole" /\ NotAfter(call[j].saw, tm))'
                 /\ (call[j].pc = "replacing" =>
                        tmp.access = server.access /\ tmp.refresh <= server.refresh)'
      BY <3>1, <3>2, <3>3, <2>1, <2>2, <2>3, <2>4 DEF AfterLoad
    <3>7. QED
      BY <3>4, <3>5, <3>6
  <2>8. SavingCatchesUp'
    <3> HIDE DEF BeforeLoad, AfterLoad, NotAfter
    <3> QED
      BY <2>1, <2>2, <2>3, <2>4 DEF SavingCatchesUp
  <2>9. QED
    BY <2>5, <2>6, <2>7, <2>8 DEF NewestInv
<1>8. ASSUME NEW k \in Task, SaveRead(k) PROVE NewestInv'
  <2>1. \A j \in Task : j # k => call'[j] = call[j]
    BY <1>8 DEF SaveRead, Goto, Saw
  <2>2. call[k].pc = "saving" /\ UNCHANGED <<tm, disk, tmp, server, past>>
    BY <1>8 DEF SaveRead
  <2>3. IF HasFile THEN call'[k] = [pc |-> "writing", saw |-> disk] ELSE call'[k] = [pc |-> "returned", saw |-> Missing]
    BY <1>8 DEF SaveRead, Goto, Saw
  <2>4. \A j \in Task : call[j].pc \in Locked => j = k
    BY <2>2
  <2>5. FileFirst'
    BY <2>1, <2>2, <2>3, <2>4 DEF FileFirst
  <2>6. BeforeLoad'
    BY <2>1, <2>2, <2>3, <2>4 DEF BeforeLoad
  <2>7. AfterLoad'
    BY <2>1, <2>2, <2>3, <2>4 DEF AfterLoad
  <2>8. SavingCatchesUp'
    <3> HIDE DEF BeforeLoad, AfterLoad, NotAfter
    <3> QED
      BY <2>1, <2>2, <2>3, <2>4 DEF SavingCatchesUp
  <2>9. QED
    BY <2>5, <2>6, <2>7, <2>8 DEF NewestInv
<1>9. ASSUME NEW k \in Task, WriteTmp(k) PROVE NewestInv'
  <2>1. \A j \in Task : j # k => call'[j] = call[j]
    BY <1>9 DEF WriteTmp, Goto, Saw
  <2>2. call[k].pc \in {"writing", "flushing"} /\ UNCHANGED <<tm, disk, server, past>>
    BY <1>9 DEF WriteTmp
  <2>3. PICK pc \in {"flushing", "replacing"} :
           /\ pc = "flushing" => Saw(k, pc, call[k].saw)
           /\ pc = "replacing" => Goto(k, pc) /\ tmp' = Updated(call[k].saw)
    BY <1>9 DEF WriteTmp
  <2>4. call'[k].pc = pc /\ (pc = "flushing" => call'[k].saw = call[k].saw)
    BY <2>3 DEF Goto, Saw
  <2>5. pc = "replacing" => /\ tmp'.access = server.access
                                    /\ tmp'.refresh = IF server.refresh = server.access THEN server.refresh
                                                      ELSE call[k].saw.refresh
    BY <2>3 DEF Updated, File
  <2>6. \A j \in Task : call[j].pc \in Locked => j = k
    BY <2>2
  <2>7. FileFirst'
    BY <2>1, <2>2, <2>3, <2>4, <2>5, <2>6 DEF FileFirst
  <2>8. BeforeLoad'
    BY <2>1, <2>2, <2>3, <2>4, <2>5, <2>6 DEF BeforeLoad
  <2>9. AfterLoad'
    BY <2>1, <2>2, <2>3, <2>4, <2>5, <2>6 DEF AfterLoad
  <2>10. SavingCatchesUp'
    <3> HIDE DEF BeforeLoad, AfterLoad, NotAfter
    <3> QED
      BY <2>1, <2>2, <2>3, <2>4, <2>5, <2>6 DEF SavingCatchesUp
  <2>11. QED
    BY <2>7, <2>8, <2>9, <2>10 DEF NewestInv
<1>10. ASSUME NEW k \in Task, Replaced(k) PROVE NewestInv'
  <2>1. call'[k].pc = "returned" /\ call'[k].saw = Missing /\ \A j \in Task : j # k => call'[j] = call[j]
    BY <1>10 DEF Replaced, Goto, Saw
  <2>2. call[k].pc = "replacing" /\ disk' = tmp /\ tmp.kind = "whole" /\ UNCHANGED <<tm, server, past>>
    BY <1>10 DEF Replaced
  <2>3. \A j \in Task : call[j].pc \in Locked => j = k
    BY <2>2
  <2>4. FileFirst'
    BY <2>1, <2>2, <2>3 DEF FileFirst
  <2>5. BeforeLoad'
    BY <2>1, <2>2, <2>3 DEF BeforeLoad
  <2>6. AfterLoad'
    <3>1. SUFFICES ASSUME ~Empty', HasFile', ~Excused'
                   PROVE  /\ (NotAfter(disk, tm) /\ NotAfter(tm, server))'
                          /\ (InSync(tm) \/ \E j \in Task : call[j].pc = "granted")'
                          /\ \A j \in Task :
                                /\ (call[j].pc = "read" => NotAfter(call[j].saw, tm))'
                                /\ (call[j].pc \in {"writing", "flushing"} =>
                                       call[j].saw.kind = "whole" /\ NotAfter(call[j].saw, tm))'
                                /\ (call[j].pc = "replacing" =>
                                       tmp.access = server.access /\ tmp.refresh <= server.refresh)'
      BY DEF AfterLoad
    <3>2. HasFile /\ ~Excused
      BY <3>1, <2>1, <2>2, <2>3 DEF FileFirst
    <3>3. ~Empty
      BY <3>1, <3>2, <2>1, <2>2, <2>3 DEF BeforeLoad
    <3>4. (NotAfter(disk, tm) /\ NotAfter(tm, server))'
      BY <3>1, <3>2, <3>3, <2>1, <2>2, <2>3 DEF AfterLoad
    <3>5. (InSync(tm) \/ \E j \in Task : call[j].pc = "granted")'
      BY <3>1, <3>2, <3>3, <2>1, <2>2, <2>3 DEF AfterLoad
    <3>6. ASSUME NEW j \in Task
          PROVE  /\ (call[j].pc = "read" => NotAfter(call[j].saw, tm))'
                 /\ (call[j].pc \in {"writing", "flushing"} =>
                        call[j].saw.kind = "whole" /\ NotAfter(call[j].saw, tm))'
                 /\ (call[j].pc = "replacing" =>
                        tmp.access = server.access /\ tmp.refresh <= server.refresh)'
      BY <3>1, <3>2, <3>3, <2>1, <2>2, <2>3 DEF AfterLoad
    <3>7. QED
      BY <3>4, <3>5, <3>6
  <2>7. SavingCatchesUp'
    <3>1. SUFFICES ASSUME HasFile', ~Excused', ~past'.unsaved
                   PROVE  /\ (InSync(disk) \/ \E j \in Task : call[j].pc \in {"granted"} \cup Saving)'
                          /\ \A j \in Task :
                                /\ (call[j].pc \in {"granted", "saving"} => HoldsAnswer(disk))'
                                /\ (call[j].pc \in {"writing", "flushing"} => HoldsAnswer(call[j].saw))'
                                /\ (call[j].pc = "replacing" => tmp.refresh = server.refresh)'
      BY DEF SavingCatchesUp
    <3>2. HasFile /\ ~Excused /\ ~past.unsaved
      BY <3>1, <2>1, <2>2, <2>3 DEF FileFirst
    <3>3. ~Empty
      BY <2>2, <3>2 DEF BeforeLoad
    <3>4. tmp.access = server.access
      BY <2>2, <3>2, <3>3 DEF AfterLoad
    <3>5. (InSync(disk) \/ \E j \in Task : call[j].pc \in {"granted"} \cup Saving)'
      BY <3>1, <3>2, <3>4, <2>1, <2>2, <2>3 DEF SavingCatchesUp
    <3>6. ASSUME NEW j \in Task
          PROVE  /\ (call[j].pc \in {"granted", "saving"} => HoldsAnswer(disk))'
                 /\ (call[j].pc \in {"writing", "flushing"} => HoldsAnswer(call[j].saw))'
                 /\ (call[j].pc = "replacing" => tmp.refresh = server.refresh)'
      BY <3>1, <3>2, <2>1, <2>2, <2>3 DEF SavingCatchesUp
    <3>7. QED
      BY <3>5, <3>6
  <2>8. QED
    BY <2>4, <2>5, <2>6, <2>7 DEF NewestInv
<1>11. ASSUME NEW k \in Task, SaveFails(k) PROVE NewestInv'
  <2>1. call'[k].pc = "returned" /\ call'[k].saw = Missing /\ \A j \in Task : j # k => call'[j] = call[j]
    BY <1>11 DEF SaveFails, Goto, Saw
  <2>2. call[k].pc \in Saving /\ UNCHANGED <<tm, disk, tmp, server>>
    BY <1>11 DEF SaveFails
  <2>3. past'.lost = past.lost /\ past'.late = past.late /\ past'.unsaved
    BY <1>11 DEF SaveFails
  <2>4. \A j \in Task : call[j].pc \in Locked => j = k
    BY <2>2
  <2>5. FileFirst'
    BY <2>1, <2>2, <2>3, <2>4 DEF FileFirst
  <2>6. BeforeLoad'
    BY <2>1, <2>2, <2>3, <2>4 DEF BeforeLoad
  <2>7. AfterLoad'
    BY <2>1, <2>2, <2>3, <2>4 DEF AfterLoad
  <2>8. SavingCatchesUp'
    <3> HIDE DEF BeforeLoad, AfterLoad, NotAfter
    <3> QED
      BY <2>1, <2>2, <2>3, <2>4 DEF SavingCatchesUp
  <2>9. QED
    BY <2>5, <2>6, <2>7, <2>8 DEF NewestInv
<1>12. ASSUME NEW k \in Task, CancelCall(k) PROVE NewestInv'
  <2>1. call'[k].pc = "idle" /\ call'[k].saw = Missing /\ \A j \in Task : j # k => call'[j] = call[j]
    BY <1>12 DEF CancelCall
  <2>2. UNCHANGED <<tm, server>>
    BY <1>12 DEF CancelCall
  <2>3. call[k].pc = "replacing" => tmp.kind = "whole"
    OBVIOUS
  <2>4. UNCHANGED disk \/ (call[k].pc = "replacing" /\ disk' = tmp)
    BY <1>12 DEF CancelCall
  <2>5. call[k].pc # "replacing" => UNCHANGED tmp
    BY <1>12 DEF CancelCall
  <2>6. /\ past'.lost = (past.lost \/ call[k].pc = "granted") /\ past'.late = past.late
       /\ past'.unsaved = (past.unsaved \/ call[k].pc \in Saving) /\ past'.unread = past.unread
    BY <1>12 DEF CancelCall
  <2>7. call[k].pc \in Locked => \A j \in Task : call[j].pc \in Locked => j = k
    OBVIOUS
  <2>8. FileFirst'
    BY <2>1, <2>2, <2>3, <2>4, <2>5, <2>6, <2>7 DEF FileFirst
  <2>9. BeforeLoad'
    BY <2>1, <2>2, <2>3, <2>4, <2>5, <2>6, <2>7 DEF BeforeLoad
  <2>10. AfterLoad'
    <3>1. SUFFICES ASSUME ~Empty', HasFile', ~Excused'
                   PROVE  /\ (NotAfter(disk, tm) /\ NotAfter(tm, server))'
                          /\ (InSync(tm) \/ \E j \in Task : call[j].pc = "granted")'
                          /\ \A j \in Task :
                                /\ (call[j].pc = "read" => NotAfter(call[j].saw, tm))'
                                /\ (call[j].pc \in {"writing", "flushing"} =>
                                       call[j].saw.kind = "whole" /\ NotAfter(call[j].saw, tm))'
                                /\ (call[j].pc = "replacing" =>
                                       tmp.access = server.access /\ tmp.refresh <= server.refresh)'
      BY DEF AfterLoad
    <3>2. HasFile /\ ~Excused
      BY <3>1, <2>1, <2>2, <2>3, <2>4, <2>5, <2>6, <2>7 DEF FileFirst
    <3>3. ~Empty
      BY <3>1, <3>2, <2>1, <2>2, <2>3, <2>4, <2>5, <2>6, <2>7 DEF BeforeLoad
    <3>4. (NotAfter(disk, tm) /\ NotAfter(tm, server))'
      BY <3>1, <3>2, <3>3, <2>1, <2>2, <2>3, <2>4, <2>5, <2>6, <2>7 DEF AfterLoad
    <3>5. (InSync(tm) \/ \E j \in Task : call[j].pc = "granted")'
      <4>1. call[k].pc # "granted"
        BY <2>6, <3>1
      <4>2. InSync(tm) \/ \E j \in Task : call[j].pc = "granted"
        BY <3>2, <3>3 DEF AfterLoad
      <4>3. (\E j \in Task : call[j].pc = "granted") => \E j \in Task : call'[j].pc = "granted"
        BY <2>1, <4>1
      <4> HIDE DEF TokenInv, NewestInv
      <4>4. QED
        BY <2>2, <4>2, <4>3
    <3>6. ASSUME NEW j \in Task
          PROVE  /\ (call[j].pc = "read" => NotAfter(call[j].saw, tm))'
                 /\ (call[j].pc \in {"writing", "flushing"} =>
                        call[j].saw.kind = "whole" /\ NotAfter(call[j].saw, tm))'
                 /\ (call[j].pc = "replacing" =>
                        tmp.access = server.access /\ tmp.refresh <= server.refresh)'
      BY <3>1, <3>2, <3>3, <2>1, <2>2, <2>3, <2>4, <2>5, <2>6, <2>7 DEF AfterLoad
    <3>7. QED
      BY <3>4, <3>5, <3>6
  <2>11. SavingCatchesUp'
    <3> HIDE DEF BeforeLoad, AfterLoad, NotAfter
    <3>1. SUFFICES ASSUME HasFile', ~Excused', ~past'.unsaved
                   PROVE  /\ (InSync(disk) \/ \E j \in Task : call[j].pc \in {"granted"} \cup Saving)'
                          /\ \A j \in Task :
                                /\ (call[j].pc \in {"granted", "saving"} => HoldsAnswer(disk))'
                                /\ (call[j].pc \in {"writing", "flushing"} => HoldsAnswer(call[j].saw))'
                                /\ (call[j].pc = "replacing" => tmp.refresh = server.refresh)'
      BY DEF SavingCatchesUp
    <3>2. HasFile /\ ~Excused /\ ~past.unsaved
      BY <3>1, <2>1, <2>2, <2>3, <2>4, <2>5, <2>6, <2>7 DEF FileFirst
    <3>3. (InSync(disk) \/ \E j \in Task : call[j].pc \in {"granted"} \cup Saving)'
      BY <3>1, <3>2, <2>1, <2>2, <2>3, <2>4, <2>5, <2>6, <2>7 DEF SavingCatchesUp
    <3>4. ASSUME NEW j \in Task
          PROVE  /\ (call[j].pc \in {"granted", "saving"} => HoldsAnswer(disk))'
                 /\ (call[j].pc \in {"writing", "flushing"} => HoldsAnswer(call[j].saw))'
                 /\ (call[j].pc = "replacing" => tmp.refresh = server.refresh)'
      BY <3>1, <3>2, <2>1, <2>2, <2>3, <2>4, <2>5, <2>6, <2>7 DEF SavingCatchesUp
    <3>5. QED
      BY <3>3, <3>4
  <2>12. QED
    BY <2>8, <2>9, <2>10, <2>11 DEF NewestInv
<1>13. ASSUME NEW k \in Task, CallEnds(k) PROVE NewestInv'
  <2>1. call'[k].pc = "idle" /\ call'[k].saw = Missing /\ \A j \in Task : j # k => call'[j] = call[j]
    BY <1>13 DEF CallEnds
  <2>2. call[k].pc = "returned" /\ UNCHANGED <<tm, disk, tmp, server, past>>
    BY <1>13 DEF CallEnds
  <2>3. FileFirst'
    BY <2>1, <2>2 DEF FileFirst
  <2>4. BeforeLoad'
    BY <2>1, <2>2 DEF BeforeLoad
  <2>5. AfterLoad'
    <3>1. \A j \in Task : call'[j].pc # "idle" => call'[j] = call[j]
      BY <2>1
    <3>2. \A j \in Task : call[j].pc = "granted" => call'[j] = call[j]
      BY <2>1, <2>2
    <3>3. QED
      BY <2>2, <3>1, <3>2 DEF AfterLoad
  <2>6. SavingCatchesUp'
    <3> HIDE DEF BeforeLoad, AfterLoad, NotAfter
    <3> QED
      BY <2>1, <2>2 DEF SavingCatchesUp
  <2>7. QED
    BY <2>3, <2>4, <2>5, <2>6 DEF NewestInv
<1>14. CASE CrashTokens
  <2>1. call' = [j \in Task |-> Idle] /\ tm' = NewManager /\ UNCHANGED <<disk, tmp, server>>
    BY <1>14 DEF CrashTokens
  <2>2. past'.lost = (past.lost \/ disk.refresh # server.refresh \/ disk.access # server.access)
       /\ past'.late = past.late /\ past'.unsaved = past.unsaved
    BY <1>14 DEF CrashTokens
  <2>3. ~tm'.loaded /\ Empty'
    BY <2>1 DEF NewManager
  <2>4. FileFirst'
    BY <2>1, <2>2, <2>3 DEF FileFirst
  <2>5. BeforeLoad'
    BY <2>1, <2>2, <2>3 DEF BeforeLoad
  <2>6. AfterLoad'
    BY <2>1, <2>2, <2>3 DEF AfterLoad
  <2>7. SavingCatchesUp'
    <3> HIDE DEF BeforeLoad, AfterLoad, NotAfter
    <3> QED
      BY <2>1, <2>2, <2>3 DEF SavingCatchesUp
  <2>8. QED
    BY <2>4, <2>5, <2>6, <2>7 DEF NewestInv
<1>15. CASE TokensExpire
  <2>1. UNCHANGED <<tm, disk, tmp, call, past>>
    BY <1>15 DEF TokensExpire
  <2>2. server'.access = server.access /\ server'.refresh = server.refresh
    BY <1>15 DEF TokensExpire
  <2>3. FileFirst'
    BY <2>1, <2>2 DEF FileFirst
  <2>4. BeforeLoad'
    BY <2>1, <2>2 DEF BeforeLoad
  <2>5. AfterLoad'
    BY <2>1, <2>2 DEF AfterLoad
  <2>6. SavingCatchesUp'
    <3> HIDE DEF BeforeLoad, AfterLoad, NotAfter
    <3> QED
      BY <2>1, <2>2 DEF SavingCatchesUp
  <2>7. QED
    BY <2>3, <2>4, <2>5, <2>6 DEF NewestInv
<1>16. CASE UNCHANGED tokenVars
  <2>1. UNCHANGED <<tm, disk, tmp, call, server, past>>
    BY <1>16 DEF tokenVars
  <2>2. FileFirst'
    BY <2>1 DEF FileFirst
  <2>3. BeforeLoad'
    BY <2>1 DEF BeforeLoad
  <2>4. AfterLoad'
    BY <2>1 DEF AfterLoad
  <2>5. SavingCatchesUp'
    <3> HIDE DEF BeforeLoad, AfterLoad, NotAfter
    <3> QED
      BY <2>1 DEF SavingCatchesUp
  <2>6. QED
    BY <2>2, <2>3, <2>4, <2>5 DEF NewestInv
<1>17. QED
  BY <1>1, <1>2, <1>3, <1>4, <1>5, <1>6, <1>7, <1>8, <1>9, <1>10, <1>11, <1>12, <1>13, <1>14, <1>15, <1>16 DEF TokenNext, CallStep

LEMMA TokensNewest == TokenSpec => [](TokenInv /\ NewestInv)
<1>1. TokenInv /\ NewestInv /\ [TokenNext]_tokenVars => (TokenInv /\ NewestInv)'
  BY TokenStepTypes, TokenStepKeeps, NewestStep DEF TokenInv
<1>2. QED
  BY TokenInitTypes, NewestInit, <1>1, PTL DEF TokenSpec

\* Memory holds the newest tokens the server has issued, whatever the tasks' interleaving, unless
\* an answer was lost, a load finished after a refresh, or a failed read left it without tokens.
THEOREM TokensMemoryNewest == TokenSpec => []MemoryHoldsNewest
<1>1. TokenInv /\ NewestInv => MemoryHoldsNewest
  BY DEF NewestInv, FileFirst, BeforeLoad, AfterLoad, InSync, Empty, Excused, MemoryHoldsNewest
<1>2. QED
  BY TokensNewest, <1>1, PTL

\* So does auth.json whenever no refresh is between its answer and its save.
THEOREM TokensFileNewest == TokenSpec => []FileHoldsNewest
<1>1. TokenInv /\ NewestInv => FileHoldsNewest
  <2>1. SUFFICES ASSUME TokenInv, NewestInv, disk # Missing, ~past.lost, ~past.late, ~past.unsaved
                 PROVE  InSync(disk) \/ \E k \in Task : call[k].pc \in {"granted"} \cup Saving
    BY DEF FileHoldsNewest, InSync
  <2>2. HasFile
    BY <2>1 DEF NewestInv, FileFirst
  <2>3. QED
    BY <2>1, <2>2 DEF NewestInv, SavingCatchesUp, Excused
<1>2. QED
  BY TokensNewest, <1>1, PTL

----------------------------------------------------------------------------
\* Every step of the probe is a step of its TokenManager or leaves it alone.
LEMMA ProbeStepsTokens == Next => [TokenNext]_tokenVars
<1> USE QuotaAssumption DEF TokenNext, tokenVars
<1>1. ASSUME NEW k \in Task, Token(k) PROVE [TokenNext]_tokenVars
  BY <1>1 DEF Token
<1>2. ASSUME NEW k \in Fetch, GetsToken(k) \/ Answered(k) \/ FetchCancelled(k)
      PROVE  [TokenNext]_tokenVars
  <2>1. k \in Task
    OBVIOUS
  <2>2. QED
    BY <1>2, <2>1 DEF GetsToken, Answered, FetchCancelled
<1>3. ASSUME NEW c \in Caller, Ask(c) PROVE [TokenNext]_tokenVars
  BY <1>3 DEF Ask, CreateFetch
<1>4. ASSUME NEW c \in Caller, Probe(c) \/ Return(c) \/ CancelCaller(c)
      PROVE  [TokenNext]_tokenVars
  BY <1>3, <1>4 DEF Probe, Return, CancelCaller
<1>5. ASSUME CacheExpires \/ RefreshSnapshot \/ TakeMeasurement PROVE [TokenNext]_tokenVars
  BY <1>3, <1>5 DEF CacheExpires, RefreshSnapshot, TakeMeasurement
<1>6. ASSUME Crash \/ Expire PROVE [TokenNext]_tokenVars
  BY <1>6 DEF Crash, Expire
<1>7. QED
  BY <1>1, <1>2, <1>4, <1>5, <1>6 DEF Next

\* The detailed system implements the TokenManager's specification.
THEOREM ProbeImplementsTokens == Spec => TokenSpec
<1>1. UNCHANGED vars => UNCHANGED tokenVars
  BY DEF vars
<1>2. [Next]_vars => [TokenNext]_tokenVars
  BY <1>1, ProbeStepsTokens
<1>3. QED
  BY <1>2, PTL DEF Spec, Init, TokenSpec

\* A quota fetch among the tasks changes nothing about the tokens.
THEOREM ProbeFileWhole == Spec => []AuthFileWhole
BY ProbeImplementsTokens, TokensFileWhole, PTL

THEOREM ProbeMemoryNewest == Spec => []MemoryHoldsNewest
BY ProbeImplementsTokens, TokensMemoryNewest, PTL

THEOREM ProbeFileNewest == Spec => []FileHoldsNewest
BY ProbeImplementsTokens, TokensFileNewest, PTL

----------------------------------------------------------------------------
(* One fetch at a time                                                      *)

TypeOKFetches ==
    /\ inflight \in Fetch \cup {NoFetch}
    /\ fetch \in [Fetch -> {"none"} \cup Running \cup Outcomes]
    /\ probe \in [Caller -> [on: Fetch \cup {NoFetch}, creator: BOOLEAN]]

\* Until an entry is displaced, a fetch that runs is the one in flight.
RunningInFlight == displaced \/ \A k \in Fetch : fetch[k] \in Running => inflight = k

ProbeInv == TypeOKFetches /\ RunningInFlight

LEMMA CreateKeeps ==
    ASSUME ProbeInv, NEW c \in Caller, Ask(c), UNCHANGED displaced
    PROVE  ProbeInv'
<1> USE QuotaAssumption DEF ProbeInv, TypeOKFetches, RunningInFlight, Running, Outcomes
<1>1. CASE inflight # NoFetch /\ fetch[inflight] \in Running
  <2>1. probe' = [probe EXCEPT ![c] = [on |-> inflight, creator |-> FALSE]]
    BY <1>1, Zenon DEF Ask
  <2>2. UNCHANGED <<fetch, inflight>>
    BY <1>1, Zenon DEF Ask
  <2>3. TypeOKFetches'
    BY <2>1, <2>2
  <2>4. QED
    BY <2>2, <2>3
<1>2. CASE ~(inflight # NoFetch /\ fetch[inflight] \in Running)
  <2>1. PICK k \in Fetch : /\ fetch' = [fetch EXCEPT ![k] = "token"]
                           /\ inflight' = k
                           /\ probe' = [probe EXCEPT ![c] = [on |-> k, creator |-> TRUE]]
    BY <1>2 DEF Ask, CreateFetch
  <2>2. displaced \/ \A j \in Fetch : fetch[j] \notin Running
    BY <1>2
  <2>3. TypeOKFetches'
    BY <2>1
  <2>4. RunningInFlight'
    BY <2>1, <2>2
  <2>5. QED
    BY <2>3, <2>4
<1>3. QED
  BY <1>1, <1>2

LEMMA ResumeKeeps ==
    ASSUME ProbeInv, NEW c \in Caller, Resume(c)
    PROVE  ProbeInv'
<1> USE QuotaAssumption DEF ProbeInv, TypeOKFetches, RunningInFlight, Running, Outcomes
<1> DEFINE k == probe[c].on
<1>1. k \in Fetch /\ fetch[k] \in Outcomes
  BY DEF Resume
<1>2. PICK s \in {"none", fetch[k]} : fetch' = [fetch EXCEPT ![k] = s]
  BY DEF Resume
<1>3. probe' = [probe EXCEPT ![c] = NotAsking]
  BY DEF Resume
<1>4. \/ inflight' = NoFetch /\ displaced' = (displaced \/ inflight \notin {k, NoFetch})
      \/ UNCHANGED <<inflight, displaced>>
  BY DEF Resume
<1>5. TypeOKFetches'
  BY <1>1, <1>2, <1>3, <1>4 DEF NotAsking
<1>6. \A j \in Fetch : fetch'[j] \in Running => j # k /\ fetch[j] \in Running
  BY <1>1, <1>2
<1>7. RunningInFlight'
  BY <1>1, <1>4, <1>6
<1>8. QED
  BY <1>5, <1>7

LEMMA ProbeInvInductive ==
    ASSUME ProbeInv, [Next]_vars
    PROVE  ProbeInv'
<1> USE QuotaAssumption DEF ProbeInv, TypeOKFetches, RunningInFlight, Running, Outcomes
<1>1. ASSUME NEW k \in Task, Token(k) PROVE ProbeInv'
  BY <1>1 DEF Token, quotaVars
<1>2. ASSUME NEW k \in Fetch, GetsToken(k) PROVE ProbeInv'
  BY <1>2 DEF GetsToken
<1>3. ASSUME NEW k \in Fetch, Answered(k) PROVE ProbeInv'
  BY <1>3 DEF Answered
<1>4. ASSUME NEW k \in Fetch, FetchCancelled(k) PROVE ProbeInv'
  BY <1>4 DEF FetchCancelled
<1>5. ASSUME NEW c \in Caller, Probe(c) PROVE ProbeInv'
  BY <1>5, CreateKeeps DEF Probe
<1>6. ASSUME NEW c \in Caller, Return(c) PROVE ProbeInv'
  BY <1>6, ResumeKeeps DEF Return
<1>7. ASSUME NEW c \in Caller, CancelCaller(c) PROVE ProbeInv'
  BY <1>7 DEF CancelCaller
<1>8. CASE CacheExpires
  BY <1>8 DEF CacheExpires
<1>9. CASE RefreshSnapshot
  BY <1>9, CreateKeeps DEF RefreshSnapshot
<1>10. CASE TakeMeasurement
  BY <1>10, ResumeKeeps DEF TakeMeasurement
<1>11. CASE Crash
  BY <1>11 DEF Crash, NotAsking
<1>12. CASE Expire
  BY <1>12 DEF Expire, quotaVars
<1>13. CASE UNCHANGED vars
  BY <1>13 DEF vars, quotaVars
<1>14. QED
  BY <1>1, <1>2, <1>3, <1>4, <1>5, <1>6, <1>7, <1>8, <1>9, <1>10, <1>11, <1>12, <1>13 DEF Next

\* At most one fetch of the account runs, unless an entry was displaced.
THEOREM ProbeOneFetch == Spec => []OneFetchAtATime
<1>1. Init => ProbeInv
  BY DEF Init, QuotaInit, ProbeInv, TypeOKFetches, RunningInFlight, Running, NotAsking
<1>2. ProbeInv /\ [Next]_vars => ProbeInv'
  BY ProbeInvInductive
<1>3. ProbeInv => OneFetchAtATime
  <2>1. SUFFICES ASSUME ProbeInv, ~displaced
                 PROVE  Cardinality({k \in Fetch : fetch[k] \in Running}) <= 1
    BY DEF OneFetchAtATime
  <2> DEFINE R == {k \in Fetch : fetch[k] \in Running}
  <2>2. R \subseteq {inflight}
    BY <2>1 DEF ProbeInv, RunningInFlight
  <2>3. IsFiniteSet({inflight}) /\ Cardinality({inflight}) = 1
    BY FS_Singleton
  <2>4. Cardinality(R) <= Cardinality({inflight})
    BY <2>2, <2>3, FS_Subset
  <2>5. QED
    BY <2>3, <2>4
<1>4. QED
  BY <1>1, <1>2, <1>3, PTL DEF Spec

----------------------------------------------------------------------------
(* The snapshot                                                            *)

\* While the loop awaits a fetch, the only step that touches the snapshot is the one that takes
\* the fetch's result, and no result, cancelled and failed ones included, unmeasures it.
THEOREM ProbeKeepsSnapshot == Spec => SnapshotKept
<1>1. ASSUME [Next]_vars, probe[Loop].on # NoFetch, snapshot.measured, ~Crash
      PROVE  snapshot'.measured
  <2>1. UNCHANGED snapshot => snapshot'.measured
    BY <1>1
  <2>2. CASE RefreshSnapshot
    BY <1>1, <2>1, <2>2 DEF RefreshSnapshot, NotAsking
  <2>3. CASE TakeMeasurement
    <3>1. snapshot' = Measured(fetch[probe[Loop].on]) /\ fetch[probe[Loop].on] \in Outcomes
      BY <2>3 DEF TakeMeasurement, Resume
    <3>2. CASE fetch[probe[Loop].on] = "quota"
      BY <3>1, <3>2 DEF Measured
    <3>3. CASE fetch[probe[Loop].on] # "quota"
      BY <1>1, <3>1, <3>3 DEF Measured, Outcomes
    <3>4. QED
      BY <3>2, <3>3
  <2>4. CASE UNCHANGED vars
    BY <2>1, <2>4 DEF vars, quotaVars
  <2>5. ASSUME NEW k \in Task, Token(k) PROVE snapshot'.measured
    BY <2>1, <2>5 DEF Token, quotaVars
  <2>6. ASSUME NEW k \in Fetch, GetsToken(k) \/ Answered(k) \/ FetchCancelled(k)
        PROVE  snapshot'.measured
    BY <2>1, <2>6 DEF GetsToken, Answered, FetchCancelled
  <2>7. ASSUME NEW c \in Caller, Probe(c) \/ Return(c) \/ CancelCaller(c)
        PROVE  snapshot'.measured
    BY <2>1, <2>7 DEF Probe, Return, CancelCaller
  <2>8. CASE CacheExpires \/ Expire
    BY <2>1, <2>8 DEF CacheExpires, Expire, quotaVars
  <2>9. QED
    BY <1>1, <2>2, <2>3, <2>4, <2>5, <2>6, <2>7, <2>8, Zenon DEF Next
<1>2. [Next]_vars => [probe[Loop].on # NoFetch /\ snapshot.measured => snapshot'.measured \/ Crash]_vars
  BY <1>1
<1>3. QED
  BY <1>2, PTL DEF Spec, SnapshotKept
=============================================================================
