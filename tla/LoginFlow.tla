----------------------------- MODULE LoginFlow -----------------------------
(***************************************************************************)
(* How an account gets into the pool: a "codex login --device-auth"        *)
(* process (services/account_bootstrap.py), started by an administrator or *)
(* by a visitor with an invite code (services/public_contribution.py), and *)
(* the confirmation, cancellation or review that ends the flow             *)
(* (routes/admin/accounts.py, routes/admin/contributions.py).              *)
(*                                                                         *)
(* A flow is written by its process monitor, its timeout killer, its       *)
(* watcher and any number of administrators and visitors.  Updates of the  *)
(* record change it in memory and then wait for the save, which may fail.  *)
(***************************************************************************)
EXTENDS Naturals

CONSTANTS
    Session,    \* bootstrap sessions; a public one has one contribution record
    Actor       \* route handlers that confirm, cancel or review

VARIABLES
    flow,       \* what each session is, see Flows
    actor       \* what each handler is waiting for, see Handlers

loginVars == <<flow, actor>>

Flows ==
    [ route: {"off", "spawning", "recording", "open", "broken"},  \* the handler that starts it
      public: BOOLEAN,
      status: {"waiting", "success", "failed", "timeout"},        \* BootstrapSession.status
      proc: {"none", "running", "ok", "bad"},                     \* the process and how it exited
      home: {"none", "empty", "login", "removed"},                \* CODEX_HOME; login: with auth.json
      monitor: {"off", "on", "done", "error"},
      killer: {"off", "sleeping", "waiting", "done"},
      registered: BOOLEAN,                                        \* in BootstrapManager._sessions
      record: {"none", "waiting", "success", "failed", "timeout",
               "pending_review", "cancelled", "rejected", "approved"},
      watch: {"off", "polling", "syncing", "tokens", "marking", "counting", "done"},
      active: BOOLEAN,                                            \* in _active_sessions
      used: 0..1,                                                 \* added to the invite's used_count
      pooled: Nat,                                                \* accounts made of it
      loggedIn: BOOLEAN,     \* history: the process has written auth.json
      contested: BOOLEAN,    \* history: removed while being taken over, or approved by halves
      dropped: BOOLEAN ]     \* history: removed while its record was waiting for a review

Phases == {"idle", "confirming", "killing", "cancelling", "adding", "approving", "rejecting"}
Handlers == [phase: Phases, public: BOOLEAN, on: Session]

Fresh ==
    [ route |-> "off", public |-> FALSE, status |-> "waiting", proc |-> "none", home |-> "none",
      monitor |-> "off", killer |-> "off", registered |-> FALSE, record |-> "none",
      watch |-> "off", active |-> FALSE, used |-> 0, pooled |-> 0, loggedIn |-> FALSE,
      contested |-> FALSE, dropped |-> FALSE ]
Init ==
    /\ flow = [s \in Session |-> Fresh]
    /\ actor \in [Actor -> {[phase |-> "idle", public |-> FALSE, on |-> s] : s \in Session}]

Become(a, phase) == actor' = [actor EXCEPT ![a].phase = phase]
Call(a, s, phase, public) == actor' = [actor EXCEPT ![a] = [phase |-> phase, public |-> public, on |-> s]]

----------------------------------------------------------------------------
\* start_bootstrap, alone or within start_contribution (whose limits are left out).

Begin(s, public) ==
    /\ flow[s].route = "off"
    /\ flow' = [flow EXCEPT ![s].route = "spawning", ![s].public = public, ![s].home = "empty"]
    /\ UNCHANGED actor

\* The process runs; its monitor and its killer are started.  A public flow writes its record.
Spawned(s) ==
    /\ flow[s].route = "spawning"
    /\ flow' = [flow EXCEPT ![s].proc = "running", ![s].monitor = "on", ![s].killer = "sleeping",
                            ![s].registered = TRUE,
                            ![s].route = IF flow[s].public THEN "recording" ELSE "open",
                            ![s].record = IF flow[s].public THEN "waiting" ELSE "none"]
    /\ UNCHANGED actor

SpawnFails(s) ==
    /\ flow[s].route = "spawning"
    /\ flow' = [flow EXCEPT ![s].route = "broken"]
    /\ UNCHANGED actor

\* The record is saved: the flow counts as active and is watched.
Recorded(s) ==
    /\ flow[s].route = "recording"
    /\ flow' = [flow EXCEPT ![s].route = "open", ![s].active = TRUE, ![s].watch = "polling"]
    /\ UNCHANGED actor

RecordFails(s) ==
    /\ flow[s].route = "recording"
    /\ flow' = [flow EXCEPT ![s].route = "broken"]
    /\ UNCHANGED actor

----------------------------------------------------------------------------
\* The process (external), its monitor and its killer.

UserLogsIn(s) ==
    /\ flow[s].proc = "running" /\ flow[s].home = "empty"
    /\ flow' = [flow EXCEPT ![s].home = "login", ![s].loggedIn = TRUE]
    /\ UNCHANGED actor

Exits(s) ==
    /\ flow[s].proc = "running"
    /\ \E code \in {"ok", "bad"} : flow' = [flow EXCEPT ![s].proc = code]
    /\ UNCHANGED actor

\* End of output and exit status: success needs both status 0 and auth.json.
VerdictByExit(s) == IF flow[s].proc = "ok" THEN "success" ELSE "failed"

Verdict(s) ==
    IF flow[s].proc = "ok" /\ flow[s].home = "login" THEN "success" ELSE "failed"

MonitorEnds(s) ==
    /\ flow[s].monitor = "on" /\ flow[s].proc \in {"ok", "bad"}
    /\ flow' = [flow EXCEPT ![s].monitor = "done", ![s].status = Verdict(s)]
    /\ UNCHANGED actor

\* Reading the output raises, for instance on an overlong line.
MonitorFails(s) ==
    /\ flow[s].monitor = "on"
    /\ flow' = [flow EXCEPT ![s].monitor = "error", ![s].status = "failed"]
    /\ UNCHANGED actor

Killed(s) == IF flow[s].proc = "running" THEN "bad" ELSE flow[s].proc

TimeoutKillerNotKilling(s) ==
    /\ flow[s].killer = "sleeping"
    /\ flow' = [flow EXCEPT ![s].killer = "done", ![s].status = IF @ = "waiting" THEN "timeout" ELSE @]
    /\ UNCHANGED actor

\* Five minutes are over: the killer looks at the status once, kills, waits up to five seconds
\* and then writes "timeout", whatever the monitor has written meanwhile.
TimeoutKiller(s) ==
    /\ \/ /\ flow[s].killer = "sleeping"
          /\ flow' = IF flow[s].status = "waiting"
                     THEN [flow EXCEPT ![s].killer = "waiting", ![s].proc = Killed(s)]
                     ELSE [flow EXCEPT ![s].killer = "done"]
       \/ /\ flow[s].killer = "waiting"
          /\ flow' = [flow EXCEPT ![s].killer = "done", ![s].status = "timeout"]
    /\ UNCHANGED actor

----------------------------------------------------------------------------
\* _watch_session: poll, copy the status into the record, take over a login.

StopWatch(s) == flow' = [flow EXCEPT ![s].watch = "done", ![s].active = FALSE]

WatchPoll(s) ==
    /\ flow[s].watch = "polling"
    /\ \/ ~flow[s].registered /\ StopWatch(s)
       \/ /\ flow[s].registered
          /\ flow' = [flow EXCEPT ![s].record = flow[s].status, ![s].watch = "syncing"]
    /\ UNCHANGED actor

\* After the save the session is looked at again: it may have been cancelled or have ended.
WatchSynced(s) ==
    /\ flow[s].watch = "syncing"
    /\ \/ flow[s].status = "waiting" /\ flow' = [flow EXCEPT ![s].watch = "polling"]
       \/ flow[s].status = "success" /\ flow' = [flow EXCEPT ![s].watch = "tokens"]
       \/ flow[s].status \in {"failed", "timeout"} /\ StopWatch(s)
    /\ UNCHANGED actor

\* _mark_login_success: the token is fetched, the record marked, the invite counted.  A
\* missing auth.json is only logged by the token manager: the record is marked all the same.
WatchMark(s) ==
    /\ \/ /\ flow[s].watch = "tokens"
          /\ flow' = [flow EXCEPT ![s].record = "pending_review", ![s].watch = "marking"]
       \/ /\ flow[s].watch = "marking"
          /\ flow' = [flow EXCEPT ![s].used = 1, ![s].watch = "counting"]
       \/ /\ flow[s].watch = "counting"
          /\ StopWatch(s)
    /\ UNCHANGED actor

WatchFailsHolding(s) ==
    /\ flow[s].watch \in {"syncing", "tokens", "marking", "counting"}
    /\ flow' = [flow EXCEPT ![s].watch = "done"]
    /\ UNCHANGED actor

\* A save raises: the finally clause frees the place.
WatchFails(s) ==
    /\ flow[s].watch \in {"syncing", "tokens", "marking", "counting"}
    /\ StopWatch(s)
    /\ UNCHANGED actor

----------------------------------------------------------------------------
\* Handlers.  TakenOver: the login of s is just being taken over by the watcher or by a
\* handler other than a.

TakenOver(a, s) ==
    \/ flow[s].watch = "tokens"
    \/ flow[s].watch = "syncing" /\ flow[s].status = "success"
    \/ \E b \in Actor \ {a} :
          actor[b].on = s /\ actor[b].phase \in {"confirming", "adding", "approving"}

WithoutHome(a, s, f) ==
    [f EXCEPT ![s].home = "removed", ![s].contested = @ \/ TakenOver(a, s),
              ![s].dropped = @ \/ flow[s].record = "pending_review"]

\* finalize_bootstrap: only the one that finds the session in the registry removes its directory.
Finalized(a, s, removeDirectory, f) ==
    [(IF removeDirectory /\ f[s].registered THEN WithoutHome(a, s, f) ELSE f)
        EXCEPT ![s].registered = FALSE]

\* confirm_bootstrap takes the session out of the registry, also when it cannot be confirmed.
Confirm(a, s) ==
    /\ actor[a].phase = "idle" /\ flow[s].registered
    /\ flow' = [flow EXCEPT ![s].registered = FALSE]
    /\ IF flow[s].status = "success" THEN Call(a, s, "confirming", FALSE) ELSE UNCHANGED actor

\* cancel_bootstrap by an administrator, or by the visitor through cancel_public_record: a
\* running process is killed and waited for, then the directory goes and the record is marked.
Cancelled(a, s, public, f) ==
    /\ flow' = IF public THEN [f EXCEPT ![s].record = "cancelled"] ELSE f
    /\ Call(a, s, IF public THEN "cancelling" ELSE "idle", public)

Cancel(a, s, public) ==
    /\ actor[a].phase = "idle"
    /\ IF public THEN flow[s].active ELSE flow[s].registered
    /\ IF flow[s].registered /\ flow[s].proc = "running"
       THEN /\ flow' = [flow EXCEPT ![s].registered = FALSE, ![s].proc = "bad"]
            /\ Call(a, s, "killing", public)
       ELSE Cancelled(a, s, public, Finalized(a, s, TRUE, flow))

CancelGoesOn(a) ==
    LET s == actor[a].on IN
    \/ /\ actor[a].phase = "killing"
       /\ Cancelled(a, s, actor[a].public, WithoutHome(a, s, flow))
    \/ /\ actor[a].phase = "cancelling"
       /\ flow' = [flow EXCEPT ![s].active = FALSE]
       /\ Become(a, "idle")

\* review_contribution.  The list of accounts is cached, so the check for a duplicate and the
\* copy of the list that add_account saves fall into one step.
Approve(a, s) ==
    /\ actor[a].phase = "idle" /\ flow[s].record = "pending_review"
    /\ IF flow[s].pooled > 0
       THEN flow' = [flow EXCEPT ![s].record = "rejected"] /\ Call(a, s, "rejecting", TRUE)
       ELSE UNCHANGED flow /\ Call(a, s, "adding", TRUE)

Reject(a, s) ==
    /\ actor[a].phase = "idle" /\ flow[s].record # "none"
    /\ flow' = [flow EXCEPT ![s].record = "rejected"]
    /\ Call(a, s, "rejecting", TRUE)

\* accounts.json is saved: the account goes into the pool.
AccountAdded(a) ==
    LET s == actor[a].on IN
    \/ /\ actor[a].phase = "confirming"
       /\ flow' = [flow EXCEPT ![s].pooled = @ + 1]
       /\ Become(a, "idle")
    \/ /\ actor[a].phase = "adding"
       /\ flow' = [flow EXCEPT ![s].pooled = @ + 1, ![s].record = "approved"]
       /\ Become(a, "approving")

ReviewEndsRemoving(a) ==
    /\ actor[a].phase \in {"approving", "rejecting"}
    /\ flow' = Finalized(a, actor[a].on, TRUE, flow)
    /\ Become(a, "idle")

ReviewEnds(a) ==
    /\ actor[a].phase \in {"approving", "rejecting"}
    /\ flow' = Finalized(a, actor[a].on, actor[a].phase = "rejecting", flow)
    /\ Become(a, "idle")

\* A save raises: the handler answers 500 and leaves things as they are.
HandlerFails(a) ==
    /\ actor[a].phase \in {"confirming", "adding", "cancelling", "approving", "rejecting"}
    /\ Become(a, "idle")
    /\ flow' = [flow EXCEPT ![actor[a].on].contested = @ \/ actor[a].phase = "approving"]

Starting(s) ==
    \/ \E public \in BOOLEAN : Begin(s, public)
    \/ Spawned(s) \/ SpawnFails(s) \/ Recorded(s) \/ RecordFails(s)
Login(s) == UserLogsIn(s) \/ Exits(s) \/ MonitorEnds(s) \/ MonitorFails(s) \/ TimeoutKiller(s)
Watching(s) == WatchPoll(s) \/ WatchSynced(s) \/ WatchMark(s) \/ WatchFails(s)
Request(a, s) ==
    \/ Confirm(a, s) \/ Approve(a, s) \/ Reject(a, s)
    \/ \E public \in BOOLEAN : Cancel(a, s, public)
Handle(a) == CancelGoesOn(a) \/ AccountAdded(a) \/ ReviewEnds(a) \/ HandlerFails(a)

Next ==
    \/ \E s \in Session : Starting(s) \/ Login(s) \/ Watching(s) \/ \E a \in Actor : Request(a, s)
    \/ \E a \in Actor : Handle(a)

Spec == Init /\ [][Next]_loginVars

\* Timers fire, a process that was killed or has exited is noticed, subprocess calls and saves
\* end.  Nothing is asked of the user, of the process or of the administrators.
LoginFairness ==
    /\ \A s \in Session : /\ WF_loginVars(Spawned(s) \/ SpawnFails(s))
                          /\ WF_loginVars(Recorded(s) \/ RecordFails(s))
                          /\ WF_loginVars(MonitorEnds(s))
                          /\ WF_loginVars(TimeoutKiller(s))
                          /\ WF_loginVars(Watching(s))
    /\ \A a \in Actor : WF_loginVars(Handle(a))
FairSpec == Spec /\ LoginFairness

----------------------------------------------------------------------------
\* Only a login that was really completed ends up in the pool, whoever confirms, approves,
\* cancels or times out at the same time.
OnlyLoggedInPooled ==
    \A s \in Session : flow[s].pooled > 0 => flow[s].loggedIn

\* A pooled account has its directory with auth.json.  The code does not exclude two cases.
\* Contested: a cancellation or rejection removed it while another handler or the watcher was
\* taking the login over, or could do so because the last save of an approval failed.
\* Dropped: it was removed while the contribution was waiting for its review, for instance when
\* an administrator cancelled the session first and approved the record, which the cancellation
\* does not touch, any time later.
PooledHasHome ==
    \A s \in Session :
        flow[s].pooled > 0 => flow[s].home = "login" \/ flow[s].contested \/ flow[s].dropped

\* Every login gets a verdict, when neither the user nor the process sees to it then from the
\* killer, and no process is left behind.  The exception is one whose monitor broke: that
\* sets "failed", and the killer only kills what is still waiting.
LoginEnds ==
    \A s \in Session :
        flow[s].proc = "running" ~>
            flow[s].status # "waiting" /\ (flow[s].proc # "running" \/ flow[s].monitor = "error")

\* The place that a public flow takes (global, per address and per invite) is always freed.
PlaceIsFreed == \A s \in Session : flow[s].active ~> ~flow[s].active

----------------------------------------------------------------------------
\* The inductive invariant of the proofs in LoginFlowProofs.

\* Typing.
TypeOK == flow \in [Session -> Flows] /\ actor \in [Actor -> Handlers]

Handling(a, s, phases) == actor[a].on = s /\ actor[a].phase \in phases

\* The parts of a flow fit together: before its process is started there is nothing of it, and
\* it is active only while it is watched.
FlowFits(s) ==
    /\ flow[s].route \in {"off", "spawning"} =>
          /\ flow[s].status = "waiting" /\ flow[s].proc = "none" /\ ~flow[s].registered
          /\ flow[s].monitor = "off" /\ flow[s].killer = "off" /\ flow[s].record = "none"
          /\ flow[s].pooled = 0
          /\ \A a \in Actor : Handling(a, s, Phases) => actor[a].phase = "idle"
    /\ flow[s].route = "recording" => flow[s].public
    /\ flow[s].watch # "off" => flow[s].public /\ flow[s].route = "open"
    /\ flow[s].active => flow[s].watch \notin {"off", "done"}
    /\ flow[s].registered => flow[s].killer # "off"
    /\ flow[s].monitor = "on" => flow[s].status \in {"waiting", "timeout"}

\* A success needs a process that ended well and a completed login, and whatever is built on
\* a success inherits that.
BuiltOnSuccess(s) ==
    \/ flow[s].status = "success"
    \/ flow[s].watch \in {"tokens", "marking", "counting"}
    \/ flow[s].record \in {"success", "pending_review", "approved"}
    \/ flow[s].pooled > 0
    \/ \E a \in Actor : Handling(a, s, {"confirming", "adding", "approving"})

SuccessIsLogin(s) ==
    /\ flow[s].home = "login" => flow[s].loggedIn
    /\ BuiltOnSuccess(s) => flow[s].loggedIn /\ flow[s].proc = "ok"

\* Who removes the directory: a handler that killed the process, or one that finds the session
\* in the registry, which a confirmation or the end of an approval takes it out of.
BeingTaken(s) ==
    \/ flow[s].watch = "tokens"
    \/ flow[s].watch = "syncing" /\ flow[s].status = "success"
    \/ flow[s].record = "pending_review"
    \/ \E a \in Actor : Handling(a, s, {"confirming", "adding", "approving"})

HomeIsGuarded(s) ==
    /\ \A a \in Actor : /\ Handling(a, s, {"killing"}) => flow[s].proc = "bad"
                        /\ Handling(a, s, {"confirming"}) => ~flow[s].registered
    /\ flow[s].registered /\ flow[s].status = "success" => flow[s].home = "login"
    /\ flow[s].pooled > 0 /\ flow[s].registered =>
          flow[s].contested \/ \E a \in Actor : Handling(a, s, {"approving"})
    /\ BeingTaken(s) \/ flow[s].pooled > 0 =>
          flow[s].home = "login" \/ flow[s].contested \/ flow[s].dropped

LoginInv ==
    /\ TypeOK
    /\ \A s \in Session : FlowFits(s) /\ SuccessIsLogin(s) /\ HomeIsGuarded(s)
=============================================================================
