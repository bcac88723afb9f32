---------------------------- MODULE HealthChecker ----------------------------
(***************************************************************************)
(* HealthChecker (app/services/health_check.py): the local and the remote  *)
(* loop and the probes that failed requests trigger, all of which share    *)
(* one failure count per account and the health flag of its pool entry.    *)
(*                                                                         *)
(* A prober suspends while it probes, while it writes a log entry and      *)
(* while the account store saves.  What it read before such a suspension   *)
(* (was_healthy and the count) is in its verdict record, and may be old    *)
(* when it is used.  A save may raise.  A log write does not, since        *)
(* LogStore.write catches every exception (log_store.py:163-167).          *)
(***************************************************************************)
EXTENDS Integers, FiniteSets

CONSTANTS
    Accounts,     \* account ids
    Triggers,     \* probes that failed requests may have under way together
    Threshold,    \* settings.health_fail_threshold
    MaxPatches,   \* bound: PATCH requests that set the health flag
    NoAccount     \* a prober that is probing nothing

Local == "local"
Remote == "remote"
Loops == {Local, Remote}
Probers == Loops \cup Triggers

ASSUME HealthAssumption ==
    /\ IsFiniteSet(Accounts) /\ IsFiniteSet(Triggers)
    /\ Threshold \in Nat \ {0} /\ MaxPatches \in Nat
    /\ NoAccount \notin Accounts
    /\ Triggers \cap Loops = {}

VARIABLES
    pooled,       \* accounts with a pool entry
    gone,         \* accounts that were removed
    healthy,      \* PoolEntry.healthy
    failCounts,   \* _fail_counts, counted no further than MaxCount
    cred,         \* what the account's TokenManager holds
    reachable,    \* does the backend answer at all?
    pc,           \* where each prober stands
    acct,         \* the account it probes
    todo,         \* the entries a loop has still to probe in this pass
    verdict,      \* was_healthy and the count as read before the log write
    patches,      \* bound: PATCH requests so far
    overruled,    \* history: probers of an account that answered meanwhile
    excused       \* history: accounts whose flag does not follow the count

envVars == <<cred, reachable>>
poolVars == <<pooled, gone, healthy>>
proberVars == <<pc, acct, todo>>
verdictVars == <<failCounts, verdict, overruled, excused>>
healthVars == <<envVars, poolVars, proberVars, verdictVars, patches>>

\* A token string that has expired and cannot be refreshed is still returned
\* by get_access_token; only an account whose auth.json gave none, or could
\* not be read, has none.
Credentials == {"good", "expired", "none"}

\* Counts are only compared with Threshold; those above it are one value.
MaxCount == Threshold + 1

NoVerdict == [was |-> TRUE, count |-> 0]

-----------------------------------------------------------------------------
InitHealth ==
    /\ pooled \in SUBSET Accounts /\ gone = {}
    /\ healthy \in [Accounts -> BOOLEAN]
    /\ \A a \in Accounts \ pooled : healthy[a]
    /\ failCounts = [a \in Accounts |-> 0]
    /\ cred \in [Accounts -> Credentials] /\ reachable \in BOOLEAN
    /\ pc = [p \in Probers |-> IF p = Local THEN "next" ELSE "asleep"]
    /\ acct = [p \in Probers |-> NoAccount]
    /\ todo = [l \in Loops |-> IF l = Local THEN pooled ELSE {}]
    /\ verdict = [p \in Probers |-> NoVerdict]
    /\ patches = 0 /\ overruled = {}
    /\ excused = {a \in pooled : ~healthy[a]}

-----------------------------------------------------------------------------
(* How a prober comes to a probe, and how it goes on after it.             *)

GoTo(p, label) == pc' = [pc EXCEPT ![p] = label]

\* A loop turns to its next entry; a triggered probe has ended.
Finish(p) ==
    /\ GoTo(p, IF p \in Loops THEN "next" ELSE "asleep")
    /\ acct' = [acct EXCEPT ![p] = NoAccount]

\* The timer of a loop fires: it takes a copy of the pool's entries.
Wake(l) ==
    /\ pc[l] = "asleep"
    /\ GoTo(l, "next")
    /\ todo' = [todo EXCEPT ![l] = pooled]
    /\ UNCHANGED <<envVars, poolVars, acct, verdictVars, patches>>

\* The loop probes another entry of its copy, or sleeps.  In which order the
\* entries come is left open.
NextEntry(l) ==
    /\ pc[l] = "next"
    /\ \/ \E a \in todo[l] :
            /\ acct' = [acct EXCEPT ![l] = a]
            /\ todo' = [todo EXCEPT ![l] = @ \ {a}]
            /\ GoTo(l, "probing")
       \/ todo[l] = {} /\ GoTo(l, "asleep") /\ UNCHANGED <<acct, todo>>
    /\ UNCHANGED <<envVars, poolVars, verdictVars, patches>>

\* trigger_probe: without an entry it returns.
TriggerProbe(t) ==
    /\ pc[t] = "asleep"
    /\ \E a \in pooled : acct' = [acct EXCEPT ![t] = a]
    /\ GoTo(t, "probing")
    /\ UNCHANGED <<envVars, poolVars, todo, verdictVars, patches>>

-----------------------------------------------------------------------------
(* _handle_probe_result up to its first suspension.                        *)

\* was_healthy: an account without an entry counts as healthy.
WasHealthy(a) == a \in pooled => healthy[a]

\* Probers about to judge a failure that a success of a has overtaken.
Judging(a) == {q \in Probers : acct[q] = a /\ pc[q] = "logging"}

\* Mutant of HandleSuccess: without a failure there is nothing to recover.
HandleSuccessAfterFailure(p, a) ==
    /\ failCounts' = [failCounts EXCEPT ![a] = 0]
    /\ excused' = excused \ {a}
    /\ overruled' = overruled \cup Judging(a)
    /\ IF WasHealthy(a) \/ failCounts[a] = 0
       THEN Finish(p) /\ UNCHANGED healthy
       ELSE /\ healthy' = [healthy EXCEPT ![a] = TRUE]
            /\ GoTo(p, "recovering") /\ UNCHANGED acct
    /\ UNCHANGED verdict

\* A success clears the count; an unhealthy account recovers.
HandleSuccess(p, a) ==
    /\ failCounts' = [failCounts EXCEPT ![a] = 0]
    /\ excused' = excused \ {a}
    /\ overruled' = overruled \cup Judging(a)
    /\ IF WasHealthy(a)
       THEN Finish(p) /\ UNCHANGED healthy
       ELSE /\ healthy' = [healthy EXCEPT ![a] = TRUE]
            /\ GoTo(p, "recovering") /\ UNCHANGED acct
    /\ UNCHANGED verdict

Counted(a) == IF failCounts[a] < MaxCount THEN failCounts[a] + 1 ELSE MaxCount

\* A failure is counted; the log write suspends.
HandleFailure(p, a) ==
    /\ failCounts' = [failCounts EXCEPT ![a] = Counted(a)]
    /\ verdict' = [verdict EXCEPT ![p] = [was |-> WasHealthy(a), count |-> Counted(a)]]
    /\ GoTo(p, "logging")
    /\ UNCHANGED <<healthy, acct, overruled, excused>>

-----------------------------------------------------------------------------
(* The answers of the probes.                                              *)

\* The local probe asks the TokenManager for a token, the remote one calls
\* the backend with it.
Answers(p, a) ==
    IF p = Remote THEN cred[a] = "good" /\ reachable ELSE cred[a] # "none"

ProbeOk(p) ==
    /\ pc[p] = "probing" /\ Answers(p, acct[p])
    /\ HandleSuccess(p, acct[p])
    /\ UNCHANGED <<envVars, pooled, gone, todo, patches>>

\* The remote loop's exception handler counts the failure at once.
RemoteProbeFails ==
    /\ pc[Remote] = "probing" /\ ~Answers(Remote, acct[Remote])
    /\ HandleFailure(Remote, acct[Remote])
    /\ UNCHANGED <<envVars, pooled, gone, todo, patches>>

\* _probe_local writes a log entry before it returns False.
LocalProbeFails(p) ==
    /\ p # Remote
    /\ pc[p] = "probing" /\ ~Answers(p, acct[p])
    /\ GoTo(p, "expiring")
    /\ UNCHANGED <<envVars, poolVars, acct, todo, verdictVars, patches>>

ExpiryLogged(p) ==
    /\ pc[p] = "expiring"
    /\ HandleFailure(p, acct[p])
    /\ UNCHANGED <<envVars, pooled, gone, todo, patches>>

-----------------------------------------------------------------------------
(* _handle_probe_result after the log write, and the save.                 *)

MarksUnhealthy(p) == verdict[p].count >= Threshold /\ verdict[p].was

\* The verdict is spent.
ClearVerdict(p) ==
    /\ verdict' = [verdict EXCEPT ![p] = NoVerdict]
    /\ overruled' = overruled \ {p}

\* The account is marked or left as it is, and the verdict is spent.
Verdict(p, marks) ==
    /\ IF marks
       THEN /\ healthy' = [healthy EXCEPT ![acct[p]] = FALSE]
            /\ excused' = IF p \in overruled THEN excused \cup {acct[p]}
                          ELSE excused \ {acct[p]}
            /\ GoTo(p, "marking") /\ UNCHANGED acct
       ELSE Finish(p) /\ UNCHANGED <<healthy, excused>>
    /\ ClearVerdict(p)

\* Mutant of Judge: one failure less is enough.
JudgeEarly(p) ==
    /\ pc[p] = "logging"
    /\ Verdict(p, verdict[p].count >= Threshold - 1 /\ verdict[p].was)
    /\ UNCHANGED <<envVars, pooled, gone, todo, failCounts, patches>>

\* Mutant of Judge: one failure more is needed.
JudgeLate(p) ==
    /\ pc[p] = "logging"
    /\ Verdict(p, verdict[p].count > Threshold /\ verdict[p].was)
    /\ UNCHANGED <<envVars, pooled, gone, todo, failCounts, patches>>

\* Mutant of Judge: only the failure that reaches the threshold counts.
JudgeOnce(p) ==
    /\ pc[p] = "logging"
    /\ Verdict(p, verdict[p].count = Threshold /\ verdict[p].was)
    /\ UNCHANGED <<envVars, pooled, gone, todo, failCounts, patches>>

\* The failure is judged by what was read before the log write.
Judge(p) ==
    /\ pc[p] = "logging"
    /\ Verdict(p, MarksUnhealthy(p))
    /\ UNCHANGED <<envVars, pooled, gone, todo, failCounts, patches>>

\* update_account returns, or has nothing to update.
Saved(p) ==
    /\ pc[p] \in {"recovering", "marking"}
    /\ Finish(p)
    /\ UNCHANGED <<envVars, poolVars, todo, verdictVars, patches>>

\* The save raises.  Only the remote loop cares: a recovery that cannot be
\* saved counts as a failed probe, and outside its try block the loop ends.
SaveFails(p) ==
    /\ pc[p] \in {"recovering", "marking"}
    /\ \/ /\ p = Remote /\ pc[p] = "recovering"
          /\ HandleFailure(p, acct[p])
       \/ /\ p = Remote /\ pc[p] = "marking"
          /\ GoTo(p, "dead") /\ acct' = [acct EXCEPT ![p] = NoAccount]
          /\ UNCHANGED <<healthy, verdictVars>>
       \/ /\ p # Remote
          /\ Finish(p)
          /\ UNCHANGED <<healthy, verdictVars>>
    /\ UNCHANGED <<envVars, pooled, gone, todo, patches>>

-----------------------------------------------------------------------------
(* What the others do.                                                     *)

\* add_account creates a healthy account with a new id.
AddEntry ==
    /\ \E a \in Accounts \ (pooled \cup gone) : pooled' = pooled \cup {a}
    /\ UNCHANGED <<envVars, gone, healthy, proberVars, verdictVars, patches>>

RemoveEntry ==
    /\ \E a \in pooled : pooled' = pooled \ {a} /\ gone' = gone \cup {a}
    /\ UNCHANGED <<envVars, healthy, proberVars, verdictVars, patches>>

\* PATCH /accounts/{id} with a health flag; the count is left alone.
PatchHealth ==
    /\ patches < MaxPatches /\ patches' = patches + 1
    /\ \E a \in pooled, v \in BOOLEAN :
         /\ healthy' = [healthy EXCEPT ![a] = v]
         /\ excused' = IF v = (failCounts[a] < Threshold) THEN excused \ {a}
                       ELSE excused \cup {a}
    /\ UNCHANGED <<envVars, pooled, gone, proberVars, failCounts, verdict, overruled>>

\* A token expires, is rejected, or is refreshed.  An account without one
\* never gets one: auth.json is not read again.
TokenChanges ==
    /\ \E a \in Accounts, c \in {"good", "expired"} :
         cred[a] # "none" /\ cred' = [cred EXCEPT ![a] = c]
    /\ UNCHANGED <<reachable, poolVars, proberVars, verdictVars, patches>>

BackendChanges ==
    /\ reachable' = ~reachable
    /\ UNCHANGED <<cred, poolVars, proberVars, verdictVars, patches>>

ProberNext(p) ==
    \/ p \in Loops /\ (Wake(p) \/ NextEntry(p))
    \/ ProbeOk(p) \/ LocalProbeFails(p) \/ (p = Remote /\ RemoteProbeFails)
    \/ ExpiryLogged(p) \/ Judge(p) \/ Saved(p) \/ SaveFails(p)

NextHealth ==
    \/ \E p \in Probers : ProberNext(p)
    \/ \E t \in Triggers : TriggerProbe(t)
    \/ AddEntry \/ RemoveEntry \/ PatchHealth \/ TokenChanges \/ BackendChanges

\* Timers fire, HTTP calls have a timeout, threads finish.
FairHealth == \A p \in Probers : WF_healthVars(ProberNext(p))

SpecHealth == InitHealth /\ [][NextHealth]_healthVars /\ FairHealth
-----------------------------------------------------------------------------
\* Type invariant.
TypeOKHealth ==
    /\ pooled \in SUBSET Accounts /\ gone \in SUBSET Accounts
    /\ healthy \in [Accounts -> BOOLEAN]
    /\ failCounts \in [Accounts -> 0..MaxCount]
    /\ cred \in [Accounts -> Credentials] /\ reachable \in BOOLEAN
    /\ pc \in [Probers -> {"asleep", "next", "probing", "expiring", "logging",
                            "recovering", "marking", "dead"}]
    /\ acct \in [Probers -> Accounts \cup {NoAccount}]
    /\ todo \in [Loops -> SUBSET Accounts]
    /\ verdict \in [Probers -> [was : BOOLEAN, count : 0..MaxCount]]
    /\ patches \in Nat
    /\ overruled \in SUBSET Probers /\ excused \in SUBSET Accounts

\* An account is off only with Threshold failures in a row behind it, from
\* whatever probers, unless it was stored or patched so, or a success came
\* between a failure and its verdict.
SickHasFailed ==
    \A a \in pooled \ excused : ~healthy[a] => failCounts[a] >= Threshold

\* After Threshold failures in a row an account is off or about to be,
\* unless a patch brought it back.
FailingIsMarked ==
    \A a \in pooled \ excused :
        healthy[a] /\ failCounts[a] >= Threshold
            => \E p \in Judging(a) : MarksUnhealthy(p)

\* An account that has no token at all is off in the end, though the remote
\* loop may have died and any save may fail.
TokenlessGoesOff ==
    \A a \in Accounts :
        <>[](a \in pooled /\ cred[a] = "none") => <>[](a \in pooled => ~healthy[a])

\* An account whose probes all succeed is healthy in the end, however it
\* started, and whatever verdicts were under way.
WorkingRecovers ==
    \A a \in Accounts :
        <>[](a \in pooled /\ cred[a] = "good" /\ reachable) => <>[]healthy[a]

-----------------------------------------------------------------------------
\* The inductive invariant of the proofs in HealthCheckerProofs.

\* Nobody has probed, counted or marked an account that was never pooled.
ProbedWerePooled ==
    /\ \A p \in Probers : acct[p] = NoAccount => pc[p] \in {"asleep", "next", "dead"}
    /\ \A p \in Probers : acct[p] # NoAccount => acct[p] \in pooled \cup gone
    /\ \A l \in Loops : todo[l] \subseteq pooled \cup gone
    /\ \A a \in Accounts \ (pooled \cup gone) :
         healthy[a] /\ failCounts[a] = 0 /\ a \notin excused

\* A count that was read is still reached, unless a success came in between.
CountsStand ==
    \A p \in Probers \ overruled :
        pc[p] = "logging" => verdict[p].count <= failCounts[acct[p]]

HealthInv ==
    /\ TypeOKHealth
    /\ ProbedWerePooled
    /\ CountsStand
    /\ SickHasFailed
    /\ FailingIsMarked
=============================================================================
