------------------------- MODULE HealthCheckerProofs -------------------------
(***************************************************************************)
(* Proofs about HealthChecker, for any accounts, any number of triggered   *)
(* probes and any threshold.                                               *)
(***************************************************************************)
EXTENDS HealthChecker, TLAPS

USE HealthAssumption

Stations == {"asleep", "next", "probing", "expiring", "logging", "recovering",
             "marking", "dead"}

LEMMA CountsTyped ==
    ASSUME TypeOKHealth, NEW a \in Accounts
    PROVE  /\ Counted(a) \in 1..MaxCount
           /\ failCounts[a] <= Counted(a)
BY DEF TypeOKHealth, Counted, MaxCount

LEMMA InitKeeps == InitHealth => HealthInv
<1> SUFFICES ASSUME InitHealth PROVE HealthInv
  OBVIOUS
<1>1. TypeOKHealth
  BY DEF InitHealth, TypeOKHealth, NoVerdict, MaxCount, Probers, Loops
<1>2. ProbedWerePooled
  BY DEF InitHealth, ProbedWerePooled
<1>3. CountsStand
  BY DEF InitHealth, CountsStand
<1>4. SickHasFailed
  BY DEF InitHealth, SickHasFailed
<1>5. FailingIsMarked
  BY DEF InitHealth, FailingIsMarked
<1> QED
  BY <1>1, <1>2, <1>3, <1>4, <1>5 DEF HealthInv

-----------------------------------------------------------------------------
(* Steps that touch neither a flag, a count nor a verdict.                 *)

\* What such a step may do to a prober that is not judging.
Moves(p) ==
    /\ p \in Probers /\ pc[p] # "logging"
    /\ \E to \in {"asleep", "next", "probing", "expiring", "recovering",
                  "marking", "dead"} : pc' = [pc EXCEPT ![p] = to]
    /\ \E b \in Accounts \cup {NoAccount} :
         /\ acct' = [acct EXCEPT ![p] = b]
         /\ b # NoAccount => b \in pooled \cup gone
         /\ b = NoAccount => pc'[p] \in {"asleep", "next", "dead"}
    /\ todo' \in [Loops -> SUBSET (pooled \cup gone)]
    /\ UNCHANGED <<envVars, poolVars, verdictVars, patches>>

LEMMA MoveKeeps ==
    ASSUME HealthInv, NEW p \in Probers, Moves(p)
    PROVE  HealthInv'
<1> USE DEF HealthInv, Moves, envVars, poolVars, verdictVars
<1>1. TypeOKHealth'
  BY DEF TypeOKHealth
<1>2. ProbedWerePooled'
  BY DEF ProbedWerePooled, TypeOKHealth
<1>3. CountsStand'
  BY DEF CountsStand, TypeOKHealth
<1>4. SickHasFailed'
  BY DEF SickHasFailed
<1>5. FailingIsMarked'
  BY DEF FailingIsMarked, Judging, MarksUnhealthy, TypeOKHealth
<1> QED
  BY <1>1, <1>2, <1>3, <1>4, <1>5

-----------------------------------------------------------------------------
(* Successes and failures.                                                 *)

LEMMA SuccessKeeps ==
    ASSUME HealthInv, NEW p \in Probers, ProbeOk(p)
    PROVE  HealthInv'
<1> DEFINE a == acct[p]
<1>1. a \in Accounts /\ a \in pooled \cup gone
  BY DEF ProbeOk, HealthInv, ProbedWerePooled, TypeOKHealth
<1>2. /\ failCounts' = [failCounts EXCEPT ![a] = 0]
      /\ excused' = excused \ {a}
      /\ overruled' = overruled \cup Judging(a)
      /\ verdict' = verdict /\ pooled' = pooled /\ gone' = gone
      /\ todo' = todo /\ patches' = patches /\ cred' = cred
      /\ reachable' = reachable
  BY DEF ProbeOk, HandleSuccess, envVars
<1>3. /\ a \in pooled => healthy'[a] = TRUE
      /\ healthy' \in [Accounts -> BOOLEAN]
      /\ \A b \in Accounts \ {a} : healthy'[b] = healthy[b]
  <2>1. CASE WasHealthy(a)
    <3>1. healthy' = healthy
      BY <2>1 DEF ProbeOk, HandleSuccess
    <3> QED
      BY <1>1, <2>1, <3>1 DEF WasHealthy, HealthInv, TypeOKHealth
  <2>2. CASE ~WasHealthy(a)
    <3>1. healthy' = [healthy EXCEPT ![a] = TRUE]
      BY <2>2 DEF ProbeOk, HandleSuccess
    <3> QED
      BY <1>1, <3>1 DEF HealthInv, TypeOKHealth
  <2> QED
    BY <2>1, <2>2
<1>4. /\ \E to \in {"asleep", "next", "recovering"} : pc' = [pc EXCEPT ![p] = to]
      /\ \/ acct' = acct
         \/ acct' = [acct EXCEPT ![p] = NoAccount] /\ pc'[p] \in {"asleep", "next"}
      /\ pc[p] = "probing"
  BY DEF ProbeOk, HandleSuccess, Finish, GoTo, HealthInv, TypeOKHealth
<1> HIDE DEF a
<1>5. TypeOKHealth'
  <2>1. pc' \in [Probers -> Stations] /\ acct' \in [Probers -> Accounts \cup {NoAccount}]
    BY <1>4 DEF HealthInv, TypeOKHealth, Stations
  <2>2. failCounts' \in [Accounts -> 0..MaxCount] /\ overruled' \in SUBSET Probers
        /\ excused' \in SUBSET Accounts
    BY <1>1, <1>2 DEF HealthInv, TypeOKHealth, Judging, MaxCount
  <2> QED
    BY <1>2, <1>3, <2>1, <2>2 DEF HealthInv, TypeOKHealth, Stations
<1>6. ProbedWerePooled'
  BY <1>1, <1>2, <1>3, <1>4 DEF HealthInv, TypeOKHealth, ProbedWerePooled
<1>7. CountsStand'
  BY <1>1, <1>2, <1>4 DEF HealthInv, TypeOKHealth, CountsStand, Judging
<1>8. SickHasFailed'
  BY <1>1, <1>2, <1>3 DEF HealthInv, TypeOKHealth, SickHasFailed
<1>9. FailingIsMarked'
  <2> SUFFICES ASSUME NEW b \in pooled, b \notin excused', healthy'[b],
                      failCounts'[b] >= Threshold
               PROVE  \E q \in Judging(b)' : MarksUnhealthy(q)'
    BY <1>2 DEF FailingIsMarked
  <2>1. b # a /\ b \in Accounts
    BY <1>1, <1>2 DEF HealthInv, TypeOKHealth
  <2>2. PICK q \in Judging(b) : MarksUnhealthy(q)
    BY <1>2, <1>3, <2>1 DEF HealthInv, TypeOKHealth, FailingIsMarked
  <2>3. q # p /\ q \in Judging(b)'
    BY <1>4, <2>2 DEF Judging, HealthInv, TypeOKHealth
  <2> QED
    BY <1>2, <2>2, <2>3 DEF MarksUnhealthy
<1> QED
  BY <1>5, <1>6, <1>7, <1>8, <1>9 DEF HealthInv

\* A failure of a is counted and goes to the log.
LEMMA FailureKeeps ==
    ASSUME HealthInv, NEW p \in Probers, acct[p] # NoAccount, pc[p] # "logging",
           HandleFailure(p, acct[p]),
           UNCHANGED <<envVars, pooled, gone, todo, patches>>
    PROVE  HealthInv'
<1> DEFINE a == acct[p]
<1>1. a \in Accounts /\ a \in pooled \cup gone
  BY DEF HealthInv, ProbedWerePooled, TypeOKHealth
<1>2. /\ failCounts' = [failCounts EXCEPT ![a] = Counted(a)]
      /\ verdict' = [verdict EXCEPT ![p] = [was |-> WasHealthy(a), count |-> Counted(a)]]
      /\ pc' = [pc EXCEPT ![p] = "logging"]
      /\ UNCHANGED <<healthy, acct, overruled, excused, pooled, gone, todo, patches,
                     cred, reachable>>
  BY DEF HandleFailure, GoTo, envVars
<1>3. /\ Counted(a) \in 1..MaxCount /\ Counted(a) \in 0..MaxCount
      /\ failCounts[a] <= Counted(a)
  BY <1>1, CountsTyped DEF HealthInv, MaxCount
<1>4. WasHealthy(a) \in BOOLEAN
  BY <1>1 DEF WasHealthy, HealthInv, TypeOKHealth
<1>5. TypeOKHealth'
  BY <1>1, <1>2, <1>3, <1>4 DEF HealthInv, TypeOKHealth
<1>6. ProbedWerePooled'
  BY <1>1, <1>2, <1>3 DEF HealthInv, TypeOKHealth, ProbedWerePooled, a
<1>7. CountsStand'
  <2> SUFFICES ASSUME NEW q \in Probers, q \notin overruled, pc'[q] = "logging"
               PROVE  verdict'[q].count <= failCounts'[acct[q]]
    BY <1>2 DEF CountsStand
  <2>1. CASE q = p
    BY <1>1, <1>2, <1>3, <2>1 DEF HealthInv, TypeOKHealth, a, MaxCount
  <2>2. CASE q # p
    <3>1. pc[q] = "logging" /\ verdict'[q] = verdict[q]
      BY <1>2, <2>2 DEF HealthInv, TypeOKHealth
    <3>2. verdict[q].count <= failCounts[acct[q]] /\ acct[q] \in Accounts
      BY <3>1 DEF HealthInv, CountsStand, TypeOKHealth, ProbedWerePooled
    <3>3. failCounts[acct[q]] <= failCounts'[acct[q]]
      BY <1>1, <1>2, <1>3, <3>2 DEF HealthInv, TypeOKHealth, MaxCount
    <3> QED
      BY <3>1, <3>2, <3>3, <1>1, <1>2, <1>3 DEF HealthInv, TypeOKHealth, MaxCount
  <2> QED
    BY <2>1, <2>2
<1>8. SickHasFailed'
  BY <1>1, <1>2, <1>3 DEF HealthInv, TypeOKHealth, SickHasFailed, MaxCount
<1>9. FailingIsMarked'
  <2> SUFFICES ASSUME NEW b \in pooled, b \notin excused, healthy[b],
                      failCounts'[b] >= Threshold
               PROVE  \E q \in Judging(b)' : MarksUnhealthy(q)'
    BY <1>2 DEF FailingIsMarked
  <2>0. b \in Accounts
    BY DEF HealthInv, TypeOKHealth
  <2>1. CASE b = a
    <3>1. p \in Judging(b)'
      BY <1>2, <2>1 DEF Judging, a, HealthInv, TypeOKHealth
    <3>2. verdict'[p] = [was |-> WasHealthy(a), count |-> Counted(a)]
      BY <1>2 DEF HealthInv, TypeOKHealth
    <3>3. WasHealthy(a) /\ Counted(a) >= Threshold
      BY <1>1, <1>2, <2>1 DEF WasHealthy, HealthInv, TypeOKHealth
    <3>4. MarksUnhealthy(p)'
      BY <3>2, <3>3 DEF MarksUnhealthy
    <3> QED
      BY <3>1, <3>4
  <2>2. CASE b # a
    <3>1. PICK q \in Judging(b) : MarksUnhealthy(q)
      BY <1>2, <2>0, <2>2 DEF HealthInv, TypeOKHealth, FailingIsMarked
    <3>2. q # p /\ q \in Probers
      BY <3>1 DEF Judging
    <3>3. q \in Judging(b)' /\ verdict'[q] = verdict[q]
      BY <1>2, <3>1, <3>2 DEF Judging, HealthInv, TypeOKHealth
    <3> QED
      BY <3>1, <3>3 DEF MarksUnhealthy
  <2> QED
    BY <2>1, <2>2
<1> QED
  BY <1>5, <1>6, <1>7, <1>8, <1>9 DEF HealthInv

-----------------------------------------------------------------------------
(* Verdicts.                                                               *)

\* A prober that judges leaves the verdict behind; a flag it takes down has
\* the count behind it or is excused.
LEMMA VerdictKeeps ==
    ASSUME HealthInv, NEW p \in Probers, pc[p] = "logging",
           NEW ex \in SUBSET Accounts, excused' = ex,
           NEW off \in BOOLEAN,
           healthy' = IF off THEN [healthy EXCEPT ![acct[p]] = FALSE] ELSE healthy,
           \A b \in Accounts \ {acct[p]} : b \in ex <=> b \in excused,
           off => MarksUnhealthy(p) /\ (acct[p] \notin ex => p \notin overruled),
           ~off => (acct[p] \in excused => acct[p] \in ex),
           ~off /\ MarksUnhealthy(p) => acct[p] \in ex,
           \E to \in {"asleep", "next", "marking", "dead"} :
               /\ pc' = [pc EXCEPT ![p] = to]
               /\ \/ to # "marking" /\ acct' = [acct EXCEPT ![p] = NoAccount]
                  \/ acct' = acct,
           ClearVerdict(p),
           UNCHANGED <<envVars, pooled, gone, todo, failCounts, patches>>
    PROVE  HealthInv'
<1> DEFINE a == acct[p]
<1>1. a \in Accounts /\ a \in pooled \cup gone
  BY DEF HealthInv, ProbedWerePooled, TypeOKHealth
<1>2. /\ verdict' = [verdict EXCEPT ![p] = NoVerdict]
      /\ overruled' = overruled \ {p}
      /\ UNCHANGED <<pooled, gone, todo, failCounts, patches, cred, reachable>>
  BY DEF ClearVerdict, envVars
<1>3. /\ pc'[p] \in {"asleep", "next", "marking", "dead"}
      /\ pc' = [pc EXCEPT ![p] = pc'[p]]
      /\ \A q \in Probers \ {p} : pc'[q] = pc[q] /\ acct'[q] = acct[q]
      /\ acct'[p] \in {NoAccount, a}
      /\ acct'[p] = NoAccount => pc'[p] # "marking"
      /\ acct' \in [Probers -> Accounts \cup {NoAccount}]
  BY <1>1 DEF HealthInv, TypeOKHealth
<1>4. /\ healthy' \in [Accounts -> BOOLEAN]
      /\ \A b \in Accounts \ {a} : healthy'[b] = healthy[b]
      /\ off => ~healthy'[a]
  BY <1>1 DEF HealthInv, TypeOKHealth
<1>5. TypeOKHealth'
  <2>1. pc' \in [Probers -> Stations]
    BY <1>3 DEF HealthInv, TypeOKHealth, Stations
  <2>2. /\ verdict' \in [Probers -> [was : BOOLEAN, count : 0..MaxCount]]
        /\ overruled' \in SUBSET Probers /\ excused' \in SUBSET Accounts
    BY <1>2 DEF HealthInv, TypeOKHealth, NoVerdict, MaxCount
  <2> QED
    BY <1>2, <1>3, <1>4, <2>1, <2>2 DEF HealthInv, TypeOKHealth, Stations
<1>6. ProbedWerePooled'
  BY <1>1, <1>2, <1>3, <1>4 DEF HealthInv, TypeOKHealth, ProbedWerePooled
<1>7. CountsStand'
  BY <1>2, <1>3 DEF HealthInv, TypeOKHealth, CountsStand
<1>8. SickHasFailed'
  <2> SUFFICES ASSUME NEW b \in pooled, b \notin ex, ~healthy'[b]
               PROVE  failCounts[b] >= Threshold
    BY <1>2 DEF SickHasFailed
  <2>0. b \in Accounts
    BY DEF HealthInv, TypeOKHealth
  <2>1. CASE b # a
    BY <1>4, <2>0, <2>1 DEF HealthInv, SickHasFailed
  <2>2. CASE b = a /\ off
    <3>1. p \notin overruled /\ MarksUnhealthy(p)
      BY <2>2
    <3>2. verdict[p].count <= failCounts[a]
      BY <3>1 DEF HealthInv, CountsStand
    <3> QED
      BY <1>1, <2>2, <3>1, <3>2 DEF MarksUnhealthy, HealthInv, TypeOKHealth, MaxCount
  <2>3. CASE b = a /\ ~off
    BY <2>3 DEF HealthInv, SickHasFailed
  <2> QED
    BY <2>1, <2>2, <2>3
<1>9. FailingIsMarked'
  <2> SUFFICES ASSUME NEW b \in pooled, b \notin ex, healthy'[b],
                      failCounts[b] >= Threshold
               PROVE  \E q \in Judging(b)' : MarksUnhealthy(q)'
    BY <1>2 DEF FailingIsMarked
  <2>0. b \in Accounts
    BY DEF HealthInv, TypeOKHealth
  <2>1. healthy[b] /\ b \notin excused
    BY <1>4, <2>0 DEF HealthInv, TypeOKHealth
  <2>2. PICK q \in Judging(b) : MarksUnhealthy(q)
    BY <2>1 DEF HealthInv, FailingIsMarked
  <2>3. q # p
    BY <1>4, <2>2 DEF Judging
  <2>4. q \in Judging(b)' /\ verdict'[q] = verdict[q]
    BY <1>2, <1>3, <2>2, <2>3 DEF Judging, HealthInv, TypeOKHealth
  <2> QED
    BY <2>2, <2>4 DEF MarksUnhealthy
<1> QED
  BY <1>5, <1>6, <1>7, <1>8, <1>9 DEF HealthInv

-----------------------------------------------------------------------------
(* The steps of a prober.                                                  *)

LEMMA ProberKeeps ==
    ASSUME HealthInv, NEW p \in Probers, ProberNext(p)
    PROVE  HealthInv'
<1> USE DEF GoTo, Finish
<1>0. /\ pc[p] \in {"probing", "expiring", "recovering", "marking", "logging"}
           => acct[p] \in Accounts /\ acct[p] \in pooled \cup gone
      /\ acct[p] \in Accounts \cup {NoAccount}
      /\ acct[p] # NoAccount => acct[p] \in pooled \cup gone
      /\ acct[p] = NoAccount => pc[p] \in {"asleep", "next", "dead"}
      /\ acct \in [Probers -> Accounts \cup {NoAccount}]
      /\ todo \in [Loops -> SUBSET (pooled \cup gone)]
  BY DEF HealthInv, TypeOKHealth, ProbedWerePooled
<1>1. CASE p \in Loops /\ Wake(p)
  <2>1. acct = [acct EXCEPT ![p] = acct[p]]
    BY <1>0
  <2>2. todo' \in [Loops -> SUBSET (pooled \cup gone)] /\ pc'[p] = "next"
    BY <1>0, <1>1 DEF Wake, HealthInv, TypeOKHealth
  <2>3. Moves(p)
    BY <1>0, <1>1, <2>1, <2>2 DEF Wake, Moves
  <2> QED
    BY <2>3, MoveKeeps
<1>2. CASE p \in Loops /\ NextEntry(p)
  <2>1. CASE \E b \in todo[p] : /\ acct' = [acct EXCEPT ![p] = b]
                                /\ todo' = [todo EXCEPT ![p] = @ \ {b}]
                                /\ pc' = [pc EXCEPT ![p] = "probing"]
    <3>1. PICK b \in todo[p] : /\ acct' = [acct EXCEPT ![p] = b]
                              /\ todo' = [todo EXCEPT ![p] = @ \ {b}]
                              /\ pc' = [pc EXCEPT ![p] = "probing"]
      BY <2>1
    <3>2. b \in Accounts /\ b \in pooled \cup gone
      BY <1>0, <1>2 DEF HealthInv, TypeOKHealth
    <3>3. todo' \in [Loops -> SUBSET (pooled \cup gone)]
      BY <1>0, <1>2, <3>1
    <3>4. Moves(p)
      BY <1>2, <3>1, <3>2, <3>3 DEF NextEntry, Moves
    <3> QED
      BY <3>4, MoveKeeps
  <2>2. CASE pc' = [pc EXCEPT ![p] = "asleep"] /\ acct' = acct /\ todo' = todo
    <3>1. acct = [acct EXCEPT ![p] = acct[p]] /\ pc'[p] = "asleep"
      BY <1>0, <2>2 DEF HealthInv, TypeOKHealth
    <3>2. Moves(p)
      BY <1>0, <1>2, <2>2, <3>1 DEF NextEntry, Moves
    <3> QED
      BY <3>2, MoveKeeps
  <2> QED
    BY <1>2, <2>1, <2>2 DEF NextEntry
<1>3. CASE ProbeOk(p)
  BY <1>3, SuccessKeeps
<1>4. CASE LocalProbeFails(p)
  <2>1. acct = [acct EXCEPT ![p] = acct[p]] /\ pc'[p] = "expiring"
    BY <1>0, <1>4 DEF LocalProbeFails, HealthInv, TypeOKHealth
  <2>2. Moves(p)
    BY <1>0, <1>4, <2>1 DEF LocalProbeFails, Moves
  <2> QED
    BY <2>2, MoveKeeps
<1>5. CASE p = Remote /\ RemoteProbeFails
  BY <1>0, <1>5, FailureKeeps, NoAccount \notin Accounts DEF RemoteProbeFails
<1>6. CASE ExpiryLogged(p)
  BY <1>0, <1>6, FailureKeeps, NoAccount \notin Accounts DEF ExpiryLogged
<1>7. ASSUME pc[p] \in {"expiring", "recovering", "marking"}, Finish(p),
             UNCHANGED <<envVars, poolVars, todo, verdictVars, patches>>
      PROVE  HealthInv'
  <2>1. pc'[p] \in {"asleep", "next"}
    BY <1>7 DEF HealthInv, TypeOKHealth
  <2>2. Moves(p)
    BY <1>0, <1>7, <2>1 DEF Moves
  <2> QED
    BY <2>2, MoveKeeps
<1>8. CASE Judge(p)
  <2> DEFINE ex == IF MarksUnhealthy(p)
                   THEN IF p \in overruled THEN excused \cup {acct[p]}
                        ELSE excused \ {acct[p]}
                   ELSE excused
  <2>1. MarksUnhealthy(p) \in BOOLEAN
    BY DEF MarksUnhealthy, HealthInv, TypeOKHealth
  <2>2. ex \in SUBSET Accounts /\ excused' = ex
    BY <1>0, <1>8 DEF Judge, Verdict, HealthInv, TypeOKHealth
  <2>3. \E to \in {"asleep", "next", "marking", "dead"} :
           /\ pc' = [pc EXCEPT ![p] = to]
           /\ \/ to # "marking" /\ acct' = [acct EXCEPT ![p] = NoAccount]
              \/ acct' = acct
    BY <1>8 DEF Judge, Verdict
  <2>4. healthy' = IF MarksUnhealthy(p) THEN [healthy EXCEPT ![acct[p]] = FALSE]
                   ELSE healthy
    BY <1>8 DEF Judge, Verdict
  <2>5. ClearVerdict(p) /\ pc[p] = "logging"
        /\ UNCHANGED <<envVars, pooled, gone, todo, failCounts, patches>>
    BY <1>8 DEF Judge, Verdict
  <2>6. /\ \A b \in Accounts \ {acct[p]} : b \in ex <=> b \in excused
        /\ MarksUnhealthy(p) => (acct[p] \notin ex => p \notin overruled)
        /\ ~MarksUnhealthy(p) => (acct[p] \in excused => acct[p] \in ex)
    OBVIOUS
  <2> HIDE DEF ex
  <2> QED
    BY <2>1, <2>2, <2>3, <2>4, <2>5, <2>6, VerdictKeeps
<1>9. CASE Saved(p)
  BY <1>7, <1>9 DEF Saved
<1>10. CASE SaveFails(p)
  <2>1. CASE pc[p] = "recovering" /\ HandleFailure(p, acct[p])
    BY <1>0, <1>10, <2>1, FailureKeeps, NoAccount \notin Accounts DEF SaveFails
  <2>2. CASE /\ pc' = [pc EXCEPT ![p] = "dead"]
             /\ acct' = [acct EXCEPT ![p] = NoAccount]
             /\ UNCHANGED <<healthy, verdictVars>>
    <3>1. pc'[p] = "dead"
      BY <2>2 DEF HealthInv, TypeOKHealth
    <3>2. Moves(p)
      BY <1>0, <1>10, <2>2, <3>1 DEF SaveFails, Moves, poolVars
    <3> QED
      BY <3>2, MoveKeeps
  <2>3. CASE Finish(p) /\ UNCHANGED <<healthy, verdictVars>>
    BY <1>7, <1>10, <2>3 DEF SaveFails, poolVars
  <2> QED
    BY <1>10, <2>1, <2>2, <2>3 DEF SaveFails
<1> QED
  BY <1>1, <1>2, <1>3, <1>4, <1>5, <1>6, <1>8, <1>9, <1>10
     DEF ProberNext

-----------------------------------------------------------------------------
(* The steps of the others.                                                *)

LEMMA OthersKeep ==
    ASSUME HealthInv,
           \/ \E t \in Triggers : TriggerProbe(t)
           \/ AddEntry \/ RemoveEntry \/ PatchHealth \/ TokenChanges \/ BackendChanges
    PROVE  HealthInv'
<1> USE DEF HealthInv, envVars, poolVars, proberVars, verdictVars
<1>1. ASSUME NEW t \in Triggers, TriggerProbe(t) PROVE HealthInv'
  <2>1. PICK a \in pooled : acct' = [acct EXCEPT ![t] = a]
    BY <1>1 DEF TriggerProbe
  <2>2. a \in Accounts /\ t \in Probers /\ a # NoAccount
    BY DEF TypeOKHealth, Probers
  <2>3. todo' \in [Loops -> SUBSET (pooled \cup gone)]
    BY <1>1 DEF TriggerProbe, TypeOKHealth, ProbedWerePooled
  <2>4. Moves(t)
    BY <1>1, <2>1, <2>2, <2>3 DEF TriggerProbe, Moves, GoTo
  <2> QED
    BY <2>2, <2>4, MoveKeeps
<1>2. ASSUME AddEntry PROVE HealthInv'
  <2>1. PICK a \in Accounts \ (pooled \cup gone) : pooled' = pooled \cup {a}
    BY <1>2 DEF AddEntry
  <2>2. healthy[a] /\ failCounts[a] = 0
    BY <2>1 DEF ProbedWerePooled
  <2>3. TypeOKHealth'
    BY <1>2, <2>1 DEF AddEntry, TypeOKHealth
  <2>4. ProbedWerePooled'
    BY <1>2, <2>1 DEF AddEntry, ProbedWerePooled
  <2>5. CountsStand'
    BY <1>2 DEF AddEntry, CountsStand
  <2>6. SickHasFailed'
    BY <1>2, <2>1, <2>2 DEF AddEntry, SickHasFailed
  <2>7. FailingIsMarked'
    BY <1>2, <2>1, <2>2 DEF AddEntry, FailingIsMarked, Judging, MarksUnhealthy
  <2> QED
    BY <2>3, <2>4, <2>5, <2>6, <2>7
<1>3. ASSUME RemoveEntry PROVE HealthInv'
  <2>1. PICK a \in pooled : pooled' = pooled \ {a} /\ gone' = gone \cup {a}
    BY <1>3 DEF RemoveEntry
  <2>2. TypeOKHealth'
    BY <1>3, <2>1 DEF RemoveEntry, TypeOKHealth
  <2>3. ProbedWerePooled'
    BY <1>3, <2>1 DEF RemoveEntry, ProbedWerePooled
  <2>4. CountsStand'
    BY <1>3 DEF RemoveEntry, CountsStand
  <2>5. SickHasFailed'
    BY <1>3, <2>1 DEF RemoveEntry, SickHasFailed
  <2>6. FailingIsMarked'
    BY <1>3, <2>1 DEF RemoveEntry, FailingIsMarked, Judging, MarksUnhealthy
  <2> QED
    BY <2>2, <2>3, <2>4, <2>5, <2>6
<1>4. ASSUME PatchHealth PROVE HealthInv'
  <2>1. PICK a \in pooled, v \in BOOLEAN :
          /\ healthy' = [healthy EXCEPT ![a] = v]
          /\ excused' = IF v = (failCounts[a] < Threshold) THEN excused \ {a}
                        ELSE excused \cup {a}
    BY <1>4 DEF PatchHealth
  <2>2. a \in Accounts
    BY DEF TypeOKHealth
  <2>3. TypeOKHealth'
    BY <1>4, <2>1, <2>2 DEF PatchHealth, TypeOKHealth
  <2>4. ProbedWerePooled'
    BY <1>4, <2>1 DEF PatchHealth, ProbedWerePooled, TypeOKHealth
  <2>5. CountsStand'
    BY <1>4 DEF PatchHealth, CountsStand
  <2>6. SickHasFailed'
    BY <1>4, <2>1, <2>2 DEF PatchHealth, SickHasFailed, TypeOKHealth, MaxCount
  <2>7. FailingIsMarked'
    BY <1>4, <2>1, <2>2
       DEF PatchHealth, FailingIsMarked, Judging, MarksUnhealthy, TypeOKHealth, MaxCount
  <2> QED
    BY <2>3, <2>4, <2>5, <2>6, <2>7
<1>5. ASSUME TokenChanges \/ BackendChanges PROVE HealthInv'
  <2>1. UNCHANGED <<poolVars, proberVars, verdictVars, patches>>
        /\ cred' \in [Accounts -> Credentials] /\ reachable' \in BOOLEAN
    BY <1>5 DEF TokenChanges, BackendChanges, TypeOKHealth, Credentials
  <2> QED
    BY <2>1 DEF TypeOKHealth, ProbedWerePooled, CountsStand, SickHasFailed,
                FailingIsMarked, Judging, MarksUnhealthy
<1> QED
  BY <1>1, <1>2, <1>3, <1>4, <1>5

-----------------------------------------------------------------------------
\* The inductive invariant of the health checker.
THEOREM HealthInvariant == SpecHealth => []HealthInv
<1>1. HealthInv /\ [NextHealth]_healthVars => HealthInv'
  <2> SUFFICES ASSUME HealthInv, [NextHealth]_healthVars PROVE HealthInv'
    OBVIOUS
  <2>1. CASE \E p \in Probers : ProberNext(p)
    BY <2>1, ProberKeeps
  <2>2. CASE \/ \E t \in Triggers : TriggerProbe(t)
             \/ AddEntry \/ RemoveEntry \/ PatchHealth
             \/ TokenChanges \/ BackendChanges
    BY <2>2, OthersKeep
  <2>3. CASE UNCHANGED healthVars
    BY <2>3 DEF healthVars, envVars, poolVars, proberVars, verdictVars, HealthInv,
                TypeOKHealth, ProbedWerePooled, CountsStand, SickHasFailed,
                FailingIsMarked, Judging, MarksUnhealthy
  <2> QED
    BY <2>1, <2>2, <2>3 DEF NextHealth
<1> QED
  BY InitKeeps, <1>1, PTL DEF SpecHealth

\* No account is taken off with fewer than Threshold failures in a row.
THEOREM OffOnlyAfterFailures == SpecHealth => []SickHasFailed
<1>1. HealthInv => SickHasFailed
  BY DEF HealthInv
<1> QED
  BY <1>1, HealthInvariant, PTL

\* No account goes on with Threshold failures in a row and no verdict due.
THEOREM FailuresLeadToVerdict == SpecHealth => []FailingIsMarked
<1>1. HealthInv => FailingIsMarked
  BY DEF HealthInv
<1> QED
  BY <1>1, HealthInvariant, PTL
=============================================================================
