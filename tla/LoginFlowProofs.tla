-------------------------- MODULE LoginFlowProofs --------------------------
(* LoginInv is inductive, for any number of sessions and handlers, and     *)
(* gives OnlyLoggedInPooled and PooledHasHome.                             *)
EXTENDS LoginFlow, TLAPS

Fits(s) == FlowFits(s) /\ SuccessIsLogin(s) /\ HomeIsGuarded(s)

\* A step that is not about t: its flow is as before, and only handlers that were idle or
\* busy elsewhere have moved, and not to t.
Elsewhere(t) ==
    /\ flow'[t] = flow[t]
    /\ \A a \in Actor :
          \/ actor'[a] = actor[a]
          \/ actor[a].on # t /\ actor'[a].on # t
          \/ actor[a].phase = "idle" /\ actor'[a].on # t

LEMMA ElsewhereFits ==
    ASSUME TypeOK, NEW t \in Session, Fits(t), Elsewhere(t)
    PROVE  Fits(t)'
<1>1. ASSUME NEW a \in Actor, NEW F, "idle" \notin F
      PROVE  Handling(a, t, F)' <=> Handling(a, t, F)
  BY <1>1 DEF Elsewhere, Handling
<1>2. \A a \in Actor : Handling(a, t, Phases)' => actor'[a].phase = "idle" \/ actor'[a] = actor[a]
  BY DEF Elsewhere, Handling
<1>3. FlowFits(t)'
  BY <1>2 DEF Fits, FlowFits, Elsewhere, Handling
<1>4. \A F : "idle" \notin F =>
        ((\E a \in Actor : Handling(a, t, F))' <=> \E a \in Actor : Handling(a, t, F))
  BY <1>1
<1>5. BuiltOnSuccess(t)' <=> BuiltOnSuccess(t)
  BY <1>1 DEF Elsewhere, BuiltOnSuccess
<1>6. SuccessIsLogin(t)'
  BY <1>5 DEF Fits, SuccessIsLogin, Elsewhere
<1>7. BeingTaken(t)' <=> BeingTaken(t)
  BY <1>1 DEF Elsewhere, BeingTaken
<1>8. HomeIsGuarded(t)'
  BY <1>1, <1>7 DEF Fits, HomeIsGuarded, Elsewhere
<1>9. QED BY <1>3, <1>6, <1>8 DEF Fits

LEMMA InitFits == ASSUME Init PROVE LoginInv
<1>1. TypeOK
  <2>1. Fresh \in Flows
    BY DEF Fresh, Flows
  <2>2. \A s \in Session : [phase |-> "idle", public |-> FALSE, on |-> s] \in Handlers
    BY DEF Handlers, Phases
  <2>3. QED BY <2>1, <2>2 DEF Init, TypeOK
<1>2. ASSUME NEW s \in Session PROVE FlowFits(s) /\ SuccessIsLogin(s) /\ HomeIsGuarded(s)
  <2>1. flow[s] = Fresh
    BY DEF Init
  <2>2. \A a \in Actor : actor[a].phase = "idle"
    BY DEF Init
  <2>3. QED
    BY <2>1, <2>2 DEF Fresh, FlowFits, SuccessIsLogin, BuiltOnSuccess, HomeIsGuarded, BeingTaken, Handling
<1>3. QED BY <1>1, <1>2 DEF LoginInv

\* One field of a flow is written.
LEMMA FieldWritten ==
    ASSUME NEW f \in Flows
    PROVE  /\ [f EXCEPT !.route = "open"] \in Flows
           /\ [f EXCEPT !.watch = "polling"] \in Flows
           /\ [f EXCEPT !.watch = "done"] \in Flows
           /\ [f EXCEPT !.registered = FALSE] \in Flows
           /\ [f EXCEPT !.proc = "bad"] \in Flows
           /\ [f EXCEPT !.home = "removed"] \in Flows
           /\ [f EXCEPT !.pooled = f.pooled + 1] \in Flows
           /\ \A b \in BOOLEAN : [f EXCEPT !.active = b] \in Flows
           /\ \A b \in BOOLEAN : [f EXCEPT !.contested = b] \in Flows
           /\ \A b \in BOOLEAN : [f EXCEPT !.dropped = b] \in Flows
           /\ \A r \in {"cancelled", "rejected", "approved"} : [f EXCEPT !.record = r] \in Flows
<1>1. [f EXCEPT !.route = "open"] \in Flows
  BY DEF Flows
<1>2. [f EXCEPT !.watch = "polling"] \in Flows /\ [f EXCEPT !.watch = "done"] \in Flows
  BY DEF Flows
<1>3. [f EXCEPT !.registered = FALSE] \in Flows
  BY DEF Flows
<1>4. [f EXCEPT !.proc = "bad"] \in Flows
  BY DEF Flows
<1>5. [f EXCEPT !.home = "removed"] \in Flows
  BY DEF Flows
<1>6. [f EXCEPT !.pooled = f.pooled + 1] \in Flows
  BY DEF Flows
<1>7. \A b \in BOOLEAN : [f EXCEPT !.active = b] \in Flows
  BY DEF Flows
<1>8. /\ \A b \in BOOLEAN : [f EXCEPT !.contested = b] \in Flows
      /\ \A b \in BOOLEAN : [f EXCEPT !.dropped = b] \in Flows
  BY DEF Flows
<1>9. \A r \in {"cancelled", "rejected", "approved"} : [f EXCEPT !.record = r] \in Flows
  BY DEF Flows
<1>10. QED BY <1>1, <1>2, <1>3, <1>4, <1>5, <1>6, <1>7, <1>8, <1>9

----------------------------------------------------------------------------
\* Steps of the login process and of those who look after it: no handler moves.

Attended(s) == Starting(s) \/ Login(s) \/ Watching(s)

LEMMA AttendedTypes ==
    ASSUME TypeOK, NEW s \in Session, Attended(s)
    PROVE  TypeOK' /\ actor' = actor /\ \A t \in Session \ {s} : flow'[t] = flow[t]
<1> DEFINE Moved ==
      /\ flow' \in [Session -> Flows] /\ actor' = actor
      /\ \A t \in Session \ {s} : flow'[t] = flow[t]
<1>0. flow[s] \in Flows
  BY DEF TypeOK
<1>1. ASSUME NEW public \in BOOLEAN, Begin(s, public)
      PROVE  Moved
  BY ZenonT(60), <1>0, <1>1 DEF Begin, TypeOK, Flows
<1>2. ASSUME Spawned(s) PROVE Moved
  BY <1>0, <1>2 DEF Spawned, TypeOK, Flows
<1>3. ASSUME SpawnFails(s) PROVE Moved
  BY <1>0, <1>3 DEF SpawnFails, TypeOK, Flows
<1>4. ASSUME Recorded(s) PROVE Moved
  <2> DEFINE h == [flow[s] EXCEPT !.route = "open"]
             k == [h EXCEPT !.active = TRUE]
             g == [k EXCEPT !.watch = "polling"]
  <2>1. h \in Flows /\ k \in Flows /\ g \in Flows
    BY <1>0, FieldWritten
  <2>2. flow' = [flow EXCEPT ![s] = g] /\ actor' = actor
    BY <1>0, <1>4 DEF Recorded, TypeOK
  <2>3. QED BY <2>1, <2>2 DEF TypeOK
<1>5. ASSUME RecordFails(s) PROVE Moved
  BY <1>0, <1>5 DEF RecordFails, TypeOK, Flows
<1>6. ASSUME UserLogsIn(s) PROVE Moved
  BY <1>0, <1>6 DEF UserLogsIn, TypeOK, Flows
<1>7. ASSUME Exits(s) PROVE Moved
  BY <1>0, <1>7 DEF Exits, TypeOK, Flows
<1>8. ASSUME MonitorEnds(s) PROVE Moved
  BY <1>0, <1>8 DEF MonitorEnds, Verdict, TypeOK, Flows
<1>9. ASSUME MonitorFails(s) PROVE Moved
  BY <1>0, <1>9 DEF MonitorFails, TypeOK, Flows
<1>10. ASSUME TimeoutKiller(s) PROVE Moved
  BY <1>0, <1>10 DEF TimeoutKiller, Killed, TypeOK, Flows
<1>11. ASSUME WatchPoll(s) PROVE Moved
  BY <1>0, <1>11 DEF WatchPoll, StopWatch, TypeOK, Flows
<1>12. ASSUME WatchSynced(s) PROVE Moved
  BY <1>0, <1>12 DEF WatchSynced, StopWatch, TypeOK, Flows
<1>13. ASSUME WatchMark(s) PROVE Moved
  BY <1>0, <1>13 DEF WatchMark, StopWatch, TypeOK, Flows
<1>14. ASSUME WatchFails(s) PROVE Moved
  <2> DEFINE h == [flow[s] EXCEPT !.watch = "done"]
             g == [h EXCEPT !.active = FALSE]
  <2>1. h \in Flows /\ g \in Flows
    BY <1>0, FieldWritten
  <2>2. flow' = [flow EXCEPT ![s] = g] /\ actor' = actor
    BY <1>0, <1>14 DEF WatchFails, StopWatch, TypeOK
  <2>3. QED BY <2>1, <2>2 DEF TypeOK
<1>15. Moved
  BY <1>1, <1>2, <1>3, <1>4, <1>5, <1>6, <1>7, <1>8, <1>9, <1>10, <1>11, <1>12, <1>13, <1>14 DEF Attended, Starting, Login, Watching
<1>16. QED BY <1>15 DEF TypeOK

LEMMA AttendedFits ==
    ASSUME TypeOK, NEW s \in Session, Fits(s), Attended(s)
    PROVE  Fits(s)'
<1> USE DEF TypeOK, Handling
<1>0. flow[s] \in Flows /\ actor' = actor
  BY AttendedTypes
<1>1. ASSUME NEW public \in BOOLEAN, Begin(s, public) PROVE Fits(s)'
  <2>1. FlowFits(s)'
    BY <1>0, <1>1 DEF Begin, Fits, FlowFits, Flows
  <2>2. SuccessIsLogin(s)'
    BY <1>0, <1>1 DEF Begin, Fits, FlowFits, SuccessIsLogin, BuiltOnSuccess, Flows, Phases
  <2>3. HomeIsGuarded(s)'
    BY <1>0, <1>1 DEF Begin, Fits, FlowFits, SuccessIsLogin, BuiltOnSuccess, HomeIsGuarded, BeingTaken, Flows, Phases
  <2>4. QED BY <2>1, <2>2, <2>3 DEF Fits
<1>2. ASSUME Spawned(s) PROVE Fits(s)'
  <2>1. FlowFits(s)'
    BY <1>0, <1>2 DEF Spawned, Fits, FlowFits, Flows
  <2>2. SuccessIsLogin(s)'
    BY <1>0, <1>2 DEF Spawned, Fits, FlowFits, SuccessIsLogin, BuiltOnSuccess, Flows, Phases
  <2>3. HomeIsGuarded(s)'
    BY <1>0, <1>2 DEF Spawned, Fits, FlowFits, SuccessIsLogin, BuiltOnSuccess, HomeIsGuarded, BeingTaken, Flows, Phases
  <2>4. QED BY <2>1, <2>2, <2>3 DEF Fits
<1>3. ASSUME SpawnFails(s) PROVE Fits(s)'
  <2>1. FlowFits(s)'
    BY <1>0, <1>3 DEF SpawnFails, Fits, FlowFits, Flows
  <2>2. SuccessIsLogin(s)'
    BY <1>0, <1>3 DEF SpawnFails, Fits, FlowFits, SuccessIsLogin, BuiltOnSuccess, Flows, Phases
  <2>3. HomeIsGuarded(s)'
    BY <1>0, <1>3 DEF SpawnFails, Fits, FlowFits, SuccessIsLogin, BuiltOnSuccess, HomeIsGuarded, BeingTaken, Flows, Phases
  <2>4. QED BY <2>1, <2>2, <2>3 DEF Fits
<1>4. ASSUME Recorded(s) PROVE Fits(s)'
  <2>1. FlowFits(s)'
    BY <1>0, <1>4 DEF Recorded, Fits, FlowFits, Flows
  <2>2. SuccessIsLogin(s)'
    BY <1>0, <1>4 DEF Recorded, Fits, FlowFits, SuccessIsLogin, BuiltOnSuccess, Flows, Phases
  <2>3. HomeIsGuarded(s)'
    BY <1>0, <1>4 DEF Recorded, Fits, FlowFits, SuccessIsLogin, BuiltOnSuccess, HomeIsGuarded, BeingTaken, Flows, Phases
  <2>4. QED BY <2>1, <2>2, <2>3 DEF Fits
<1>5. ASSUME RecordFails(s) PROVE Fits(s)'
  <2>1. FlowFits(s)'
    BY <1>0, <1>5 DEF RecordFails, Fits, FlowFits, Flows
  <2>2. SuccessIsLogin(s)'
    BY <1>0, <1>5 DEF RecordFails, Fits, FlowFits, SuccessIsLogin, BuiltOnSuccess, Flows, Phases
  <2>3. HomeIsGuarded(s)'
    BY <1>0, <1>5 DEF RecordFails, Fits, FlowFits, SuccessIsLogin, BuiltOnSuccess, HomeIsGuarded, BeingTaken, Flows, Phases
  <2>4. QED BY <2>1, <2>2, <2>3 DEF Fits
<1>6. ASSUME UserLogsIn(s) PROVE Fits(s)'
  <2>1. FlowFits(s)'
    BY <1>0, <1>6 DEF UserLogsIn, Fits, FlowFits, Flows
  <2>2. SuccessIsLogin(s)'
    BY <1>0, <1>6 DEF UserLogsIn, Fits, FlowFits, SuccessIsLogin, BuiltOnSuccess, Flows, Phases
  <2>3. HomeIsGuarded(s)'
    BY <1>0, <1>6 DEF UserLogsIn, Fits, FlowFits, SuccessIsLogin, BuiltOnSuccess, HomeIsGuarded, BeingTaken, Flows, Phases
  <2>4. QED BY <2>1, <2>2, <2>3 DEF Fits
<1>7. ASSUME Exits(s) PROVE Fits(s)'
  <2>1. FlowFits(s)'
    BY <1>0, <1>7 DEF Exits, Fits, FlowFits, Flows
  <2>2. SuccessIsLogin(s)'
    BY <1>0, <1>7 DEF Exits, Fits, FlowFits, SuccessIsLogin, BuiltOnSuccess, Flows, Phases
  <2>3. HomeIsGuarded(s)'
    BY <1>0, <1>7 DEF Exits, Fits, FlowFits, SuccessIsLogin, BuiltOnSuccess, HomeIsGuarded, BeingTaken, Flows, Phases
  <2>4. QED BY <2>1, <2>2, <2>3 DEF Fits
<1>8. ASSUME MonitorEnds(s) PROVE Fits(s)'
  <2>1. FlowFits(s)'
    BY <1>0, <1>8 DEF MonitorEnds, Verdict, Fits, FlowFits, Flows
  <2>2. SuccessIsLogin(s)'
    BY <1>0, <1>8 DEF MonitorEnds, Verdict, Fits, FlowFits, SuccessIsLogin, BuiltOnSuccess, Flows, Phases
  <2>3. HomeIsGuarded(s)'
    BY <1>0, <1>8 DEF MonitorEnds, Verdict, Fits, FlowFits, SuccessIsLogin, BuiltOnSuccess, HomeIsGuarded, BeingTaken, Flows, Phases
  <2>4. QED BY <2>1, <2>2, <2>3 DEF Fits
<1>9. ASSUME MonitorFails(s) PROVE Fits(s)'
  <2>1. FlowFits(s)'
    BY <1>0, <1>9 DEF MonitorFails, Fits, FlowFits, Flows
  <2>2. SuccessIsLogin(s)'
    BY <1>0, <1>9 DEF MonitorFails, Fits, FlowFits, SuccessIsLogin, BuiltOnSuccess, Flows, Phases
  <2>3. HomeIsGuarded(s)'
    BY <1>0, <1>9 DEF MonitorFails, Fits, FlowFits, SuccessIsLogin, BuiltOnSuccess, HomeIsGuarded, BeingTaken, Flows, Phases
  <2>4. QED BY <2>1, <2>2, <2>3 DEF Fits
<1>10. ASSUME TimeoutKiller(s) PROVE Fits(s)'
  <2>1. FlowFits(s)'
    BY <1>0, <1>10 DEF TimeoutKiller, Killed, Fits, FlowFits, Flows
  <2>2. SuccessIsLogin(s)'
    BY <1>0, <1>10 DEF TimeoutKiller, Killed, Fits, FlowFits, SuccessIsLogin, BuiltOnSuccess, Flows, Phases
  <2>3. HomeIsGuarded(s)'
    BY <1>0, <1>10 DEF TimeoutKiller, Killed, Fits, FlowFits, SuccessIsLogin, BuiltOnSuccess, HomeIsGuarded, BeingTaken, Flows, Phases
  <2>4. QED BY <2>1, <2>2, <2>3 DEF Fits
<1>11. ASSUME WatchPoll(s) PROVE Fits(s)'
  <2>1. FlowFits(s)'
    BY <1>0, <1>11 DEF WatchPoll, StopWatch, Fits, FlowFits, Flows
  <2>2. SuccessIsLogin(s)'
    BY <1>0, <1>11 DEF WatchPoll, StopWatch, Fits, FlowFits, SuccessIsLogin, BuiltOnSuccess, Flows, Phases
  <2>3. HomeIsGuarded(s)'
    BY <1>0, <1>11 DEF WatchPoll, StopWatch, Fits, FlowFits, SuccessIsLogin, BuiltOnSuccess, HomeIsGuarded, BeingTaken, Flows, Phases
  <2>4. QED BY <2>1, <2>2, <2>3 DEF Fits
<1>12. ASSUME WatchSynced(s) PROVE Fits(s)'
  <2>1. FlowFits(s)'
    BY <1>0, <1>12 DEF WatchSynced, StopWatch, Fits, FlowFits, Flows
  <2>2. SuccessIsLogin(s)'
    BY <1>0, <1>12 DEF WatchSynced, StopWatch, Fits, FlowFits, SuccessIsLogin, BuiltOnSuccess, Flows, Phases
  <2>3. HomeIsGuarded(s)'
    BY <1>0, <1>12 DEF WatchSynced, StopWatch, Fits, FlowFits, SuccessIsLogin, BuiltOnSuccess, HomeIsGuarded, BeingTaken, Flows, Phases
  <2>4. QED BY <2>1, <2>2, <2>3 DEF Fits
<1>13. ASSUME WatchMark(s) PROVE Fits(s)'
  <2>1. FlowFits(s)'
    BY <1>0, <1>13 DEF WatchMark, StopWatch, Fits, FlowFits, Flows
  <2>2. SuccessIsLogin(s)'
    BY <1>0, <1>13 DEF WatchMark, StopWatch, Fits, FlowFits, SuccessIsLogin, BuiltOnSuccess, Flows, Phases
  <2>3. HomeIsGuarded(s)'
    BY <1>0, <1>13 DEF WatchMark, StopWatch, Fits, FlowFits, SuccessIsLogin, BuiltOnSuccess, HomeIsGuarded, BeingTaken, Flows, Phases
  <2>4. QED BY <2>1, <2>2, <2>3 DEF Fits
<1>14. ASSUME WatchFails(s) PROVE Fits(s)'
  <2>1. FlowFits(s)'
    BY <1>0, <1>14 DEF WatchFails, StopWatch, Fits, FlowFits, Flows
  <2>2. SuccessIsLogin(s)'
    BY <1>0, <1>14 DEF WatchFails, StopWatch, Fits, FlowFits, SuccessIsLogin, BuiltOnSuccess, Flows, Phases
  <2>3. HomeIsGuarded(s)'
    BY <1>0, <1>14 DEF WatchFails, StopWatch, Fits, FlowFits, SuccessIsLogin, BuiltOnSuccess, HomeIsGuarded, BeingTaken, Flows, Phases
  <2>4. QED BY <2>1, <2>2, <2>3 DEF Fits
<1>15. QED BY <1>1, <1>2, <1>3, <1>4, <1>5, <1>6, <1>7, <1>8, <1>9, <1>10, <1>11, <1>12, <1>13, <1>14 DEF Attended, Starting, Login, Watching

----------------------------------------------------------------------------
\* What the parts of a handler's step do.

LEMMA CallEffect ==
    ASSUME TypeOK, NEW a \in Actor, NEW s \in Session, NEW phase \in Phases,
           NEW public \in BOOLEAN, Call(a, s, phase, public)
    PROVE  /\ actor' \in [Actor -> Handlers]
           /\ actor'[a].phase = phase /\ actor'[a].on = s
           /\ \A b \in Actor \ {a} : actor'[b] = actor[b]
BY DEF TypeOK, Call, Handlers

LEMMA BecomeEffect ==
    ASSUME TypeOK, NEW a \in Actor, NEW phase \in Phases, Become(a, phase)
    PROVE  /\ actor' \in [Actor -> Handlers]
           /\ actor'[a].phase = phase /\ actor'[a].on = actor[a].on
           /\ \A b \in Actor \ {a} : actor'[b] = actor[b]
BY DEF TypeOK, Become, Handlers

\* The flow of s without its directory, as a leaves it.
Bare(a, s) ==
    [[[flow[s] EXCEPT !.home = "removed"]
         EXCEPT !.contested = flow[s].contested \/ TakenOver(a, s)]
         EXCEPT !.dropped = flow[s].dropped \/ flow[s].record = "pending_review"]

LEMMA RemovalEffect ==
    ASSUME TypeOK, NEW a \in Actor, NEW s \in Session
    PROVE  /\ Bare(a, s) \in Flows
           /\ WithoutHome(a, s, flow) = [flow EXCEPT ![s] = Bare(a, s)]
<1> DEFINE b == flow[s].contested \/ TakenOver(a, s)
           d == flow[s].dropped \/ flow[s].record = "pending_review"
           h == [flow[s] EXCEPT !.home = "removed"]
           k == [h EXCEPT !.contested = b]
<1>1. b \in BOOLEAN /\ d \in BOOLEAN
  BY DEF TakenOver
<1>2. flow \in [Session -> Flows]
  BY DEF TypeOK
<1>3. h \in Flows
  BY <1>2, FieldWritten
<1>4. k \in Flows
  BY <1>1, <1>3, FieldWritten
<1>5. [k EXCEPT !.dropped = d] \in Flows
  BY <1>1, <1>4, FieldWritten
<1>6. WithoutHome(a, s, flow) = [flow EXCEPT ![s] = [k EXCEPT !.dropped = d]]
  BY <1>2 DEF WithoutHome, Flows
<1>7. QED BY <1>5, <1>6 DEF Bare

\* What every step of a handler leaves alone in the flow it is about.
Keeps(s) ==
    /\ flow'[s].route = flow[s].route /\ flow'[s].public = flow[s].public
    /\ flow'[s].status = flow[s].status /\ flow'[s].watch = flow[s].watch
    /\ flow'[s].monitor = flow[s].monitor /\ flow'[s].killer = flow[s].killer
    /\ flow'[s].loggedIn = flow[s].loggedIn
    /\ \A t \in Session \ {s} : flow'[t] = flow[t]

KeepsHome(s) ==
    /\ flow'[s].home = flow[s].home
    /\ flow'[s].contested = flow[s].contested /\ flow'[s].dropped = flow[s].dropped

LosesHome(a, s) ==
    /\ flow'[s].home = "removed"
    /\ flow'[s].contested = (flow[s].contested \/ TakenOver(a, s))
    /\ flow'[s].dropped = (flow[s].dropped \/ flow[s].record = "pending_review")

\* The directory goes exactly if the session was in the registry.
DropsSession(a, s) ==
    /\ ~flow'[s].registered
    /\ IF flow[s].registered THEN LosesHome(a, s) ELSE KeepsHome(s)

LEMMA FinalizedEffect ==
    ASSUME TypeOK, NEW a \in Actor, NEW s \in Session, NEW remove \in BOOLEAN,
           NEW mark \in BOOLEAN, NEW STATE f, f = Finalized(a, s, remove, flow),
           flow' = IF mark THEN [f EXCEPT ![s].record = "cancelled"] ELSE f
    PROVE  /\ flow' \in [Session -> Flows] /\ Keeps(s)
           /\ flow'[s].proc = flow[s].proc /\ flow'[s].active = flow[s].active
           /\ flow'[s].pooled = flow[s].pooled
           /\ flow'[s].record = IF mark THEN "cancelled" ELSE flow[s].record
           /\ IF remove THEN DropsSession(a, s) ELSE ~flow'[s].registered /\ KeepsHome(s)
<1> DEFINE c == flow[s].contested \/ TakenOver(a, s)
           d == flow[s].dropped \/ flow[s].record = "pending_review"
           r == Bare(a, s)
           h == IF remove /\ flow[s].registered THEN r ELSE flow[s]
           k == [h EXCEPT !.registered = FALSE]
           g == IF mark THEN [k EXCEPT !.record = "cancelled"] ELSE k
<1>0. flow \in [Session -> Flows] /\ flow[s] \in Flows
  BY DEF TypeOK
<1>1. WithoutHome(a, s, flow) = [flow EXCEPT ![s] = r] /\ r \in Flows
  BY RemovalEffect
<1>2. h \in Flows
  BY <1>0, <1>1
<1>3. k \in Flows
  BY <1>2, FieldWritten
<1>4. g \in Flows
  BY <1>3, FieldWritten
<1>5. f = [flow EXCEPT ![s] = k]
  <2>1. CASE remove /\ flow[s].registered
    BY <1>0, <1>1, <2>1 DEF Finalized
  <2>2. CASE ~(remove /\ flow[s].registered)
    BY <1>0, <2>2 DEF Finalized
  <2>3. QED BY <2>1, <2>2
<1>6. flow' = [flow EXCEPT ![s] = g]
  BY <1>0, <1>3, <1>5
<1>7. flow'[s] = g /\ flow' \in [Session -> Flows] /\ \A t \in Session \ {s} : flow'[t] = flow[t]
  BY ZenonT(60), <1>0, <1>4, <1>6
<1>8. /\ h.route = flow[s].route /\ h.public = flow[s].public /\ h.status = flow[s].status
      /\ h.watch = flow[s].watch /\ h.monitor = flow[s].monitor /\ h.killer = flow[s].killer
      /\ h.loggedIn = flow[s].loggedIn /\ h.proc = flow[s].proc /\ h.active = flow[s].active
      /\ h.pooled = flow[s].pooled /\ h.record = flow[s].record
      /\ IF remove /\ flow[s].registered
         THEN h.home = "removed" /\ h.contested = c /\ h.dropped = d
         ELSE /\ h.home = flow[s].home
              /\ h.contested = flow[s].contested /\ h.dropped = flow[s].dropped
  BY <1>0 DEF Flows, Bare
<1>9. /\ g.route = h.route /\ g.public = h.public /\ g.status = h.status
      /\ g.watch = h.watch /\ g.monitor = h.monitor /\ g.killer = h.killer
      /\ g.loggedIn = h.loggedIn /\ g.proc = h.proc /\ g.active = h.active
      /\ g.pooled = h.pooled /\ g.home = h.home
      /\ g.contested = h.contested /\ g.dropped = h.dropped
      /\ ~g.registered /\ g.record = IF mark THEN "cancelled" ELSE h.record
  BY <1>2 DEF Flows
<1> HIDE DEF c, d, r, h, k, g
<1>10. Keeps(s)
  BY <1>7, <1>8, <1>9 DEF Keeps
<1>11. IF remove THEN DropsSession(a, s) ELSE ~flow'[s].registered /\ KeepsHome(s)
  BY <1>7, <1>8, <1>9 DEF DropsSession, KeepsHome, LosesHome, c, d
<1>12. QED BY <1>7, <1>8, <1>9, <1>10, <1>11

\* A cancellation that had to kill the process goes on: the directory goes in any case.
LEMMA KilledEffect ==
    ASSUME TypeOK, NEW a \in Actor, NEW s \in Session, NEW mark \in BOOLEAN,
           NEW STATE f, f = WithoutHome(a, s, flow),
           flow' = IF mark THEN [f EXCEPT ![s].record = "cancelled"] ELSE f
    PROVE  /\ flow' \in [Session -> Flows] /\ Keeps(s)
           /\ flow'[s].proc = flow[s].proc /\ flow'[s].active = flow[s].active
           /\ flow'[s].pooled = flow[s].pooled /\ flow'[s].registered = flow[s].registered
           /\ flow'[s].record = IF mark THEN "cancelled" ELSE flow[s].record
           /\ LosesHome(a, s)
<1> DEFINE c == flow[s].contested \/ TakenOver(a, s)
           d == flow[s].dropped \/ flow[s].record = "pending_review"
           r == Bare(a, s)
           g == IF mark THEN [r EXCEPT !.record = "cancelled"] ELSE r
<1>0. flow \in [Session -> Flows] /\ flow[s] \in Flows
  BY DEF TypeOK
<1>1. WithoutHome(a, s, flow) = [flow EXCEPT ![s] = r] /\ r \in Flows
  BY RemovalEffect
<1>2. g \in Flows
  BY <1>1, FieldWritten
<1>3. flow' = [flow EXCEPT ![s] = g]
  BY <1>0, <1>1
<1>4. flow'[s] = g /\ flow' \in [Session -> Flows] /\ \A t \in Session \ {s} : flow'[t] = flow[t]
  BY <1>0, <1>2, <1>3
<1>5. /\ g.route = flow[s].route /\ g.public = flow[s].public /\ g.status = flow[s].status
      /\ g.watch = flow[s].watch /\ g.monitor = flow[s].monitor /\ g.killer = flow[s].killer
      /\ g.loggedIn = flow[s].loggedIn /\ g.proc = flow[s].proc /\ g.active = flow[s].active
      /\ g.pooled = flow[s].pooled /\ g.registered = flow[s].registered
      /\ g.home = "removed" /\ g.contested = c /\ g.dropped = d
      /\ g.record = IF mark THEN "cancelled" ELSE flow[s].record
  BY <1>0 DEF Flows, Bare
<1> HIDE DEF r, g
<1>6. QED BY <1>4, <1>5 DEF Keeps, LosesHome

----------------------------------------------------------------------------
\* What each step of a handler does.

\* a is the only handler that moves, and it is about s before or after.
Moves(a, s) ==
    /\ TypeOK'
    /\ \A b \in Actor \ {a} : actor'[b] = actor[b]
    /\ actor[a].on = s \/ actor[a].phase = "idle"
    /\ actor'[a].on = s \/ actor'[a] = actor[a]

Turns(a, s, from, to) ==
    /\ Moves(a, s)
    /\ actor[a].phase = from /\ (from # "idle" => actor[a].on = s)
    /\ actor'[a].phase = to /\ actor'[a].on = s

LEMMA ConfirmEffect ==
    ASSUME TypeOK, NEW a \in Actor, NEW s \in Session, Confirm(a, s)
    PROVE  /\ Keeps(s) /\ KeepsHome(s) /\ Moves(a, s)
           /\ flow[s].registered /\ ~flow'[s].registered
           /\ flow'[s].proc = flow[s].proc /\ flow'[s].active = flow[s].active
           /\ flow'[s].pooled = flow[s].pooled /\ flow'[s].record = flow[s].record
           /\ IF flow[s].status = "success" THEN Turns(a, s, "idle", "confirming")
              ELSE actor' = actor
<1> DEFINE g == [flow[s] EXCEPT !.registered = FALSE]
<1>1. flow \in [Session -> Flows] /\ flow[s] \in Flows /\ actor[a] \in Handlers
  BY DEF TypeOK
<1>2. g \in Flows /\ flow' = [flow EXCEPT ![s] = g]
  BY <1>1, FieldWritten DEF Confirm
<1>3. /\ flow' \in [Session -> Flows] /\ Keeps(s) /\ KeepsHome(s) /\ ~flow'[s].registered
      /\ flow'[s].proc = flow[s].proc /\ flow'[s].active = flow[s].active
      /\ flow'[s].pooled = flow[s].pooled /\ flow'[s].record = flow[s].record
  BY <1>1, <1>2 DEF Keeps, KeepsHome, Flows
<1>4. CASE flow[s].status = "success"
  <2>1. Call(a, s, "confirming", FALSE)
    BY <1>4 DEF Confirm
  <2>2. Turns(a, s, "idle", "confirming")
    BY <1>3, <2>1, CallEffect DEF Turns, Moves, TypeOK, Phases, Confirm
  <2>3. QED BY <1>3, <1>4, <2>2 DEF Turns, Confirm
<1>5. CASE flow[s].status # "success"
  BY <1>3, <1>5 DEF Confirm, Moves, TypeOK
<1>6. QED BY <1>4, <1>5

LEMMA CancelEffect ==
    ASSUME TypeOK, NEW a \in Actor, NEW s \in Session, NEW public \in BOOLEAN, Cancel(a, s, public)
    PROVE  /\ Keeps(s) /\ flow'[s].active = flow[s].active /\ flow'[s].pooled = flow[s].pooled
           /\ flow[s].active \/ flow[s].registered
           /\ \/ /\ flow[s].registered /\ flow[s].proc = "running"
                 /\ flow'[s].proc = "bad" /\ ~flow'[s].registered
                 /\ flow'[s].record = flow[s].record /\ KeepsHome(s)
                 /\ Turns(a, s, "idle", "killing")
              \/ /\ flow'[s].proc = flow[s].proc /\ DropsSession(a, s)
                 /\ flow'[s].record \in {"cancelled", flow[s].record}
                 /\ \E to \in {"idle", "cancelling"} : Turns(a, s, "idle", to)
<1>0. flow \in [Session -> Flows] /\ flow[s] \in Flows /\ actor[a] \in Handlers
  BY DEF TypeOK
<1>1. flow[s].active \/ flow[s].registered
  BY DEF Cancel
<1>2. CASE flow[s].registered /\ flow[s].proc = "running"
  <2> DEFINE h == [flow[s] EXCEPT !.registered = FALSE]
             g == [h EXCEPT !.proc = "bad"]
  <2>1. h \in Flows /\ g \in Flows
    BY <1>0, FieldWritten
  <2>2. flow' = [flow EXCEPT ![s] = g]
    BY <1>0, <1>2 DEF Cancel
  <2>3. /\ flow' \in [Session -> Flows] /\ Keeps(s) /\ KeepsHome(s) /\ ~flow'[s].registered
        /\ flow'[s].proc = "bad" /\ flow'[s].active = flow[s].active
        /\ flow'[s].pooled = flow[s].pooled /\ flow'[s].record = flow[s].record
    BY <1>0, <2>1, <2>2 DEF Keeps, KeepsHome, Flows
  <2>4. Call(a, s, "killing", public)
    BY <1>2 DEF Cancel
  <2>5. Turns(a, s, "idle", "killing")
    BY <2>3, <2>4, CallEffect DEF Turns, Moves, TypeOK, Phases, Cancel
  <2>6. QED BY <1>1, <1>2, <2>3, <2>5
<1>3. CASE ~(flow[s].registered /\ flow[s].proc = "running")
  <2> DEFINE f == Finalized(a, s, TRUE, flow)
             to == IF public THEN "cancelling" ELSE "idle"
  <2>0. Cancelled(a, s, public, f) /\ actor[a].phase = "idle"
    BY <1>3 DEF Cancel
  <2>1. flow' = (IF public THEN [f EXCEPT ![s].record = "cancelled"] ELSE f) /\ Call(a, s, to, public)
    BY <2>0 DEF Cancelled
  <2>2. /\ flow' \in [Session -> Flows] /\ Keeps(s)
        /\ flow'[s].proc = flow[s].proc /\ flow'[s].active = flow[s].active
        /\ flow'[s].pooled = flow[s].pooled
        /\ flow'[s].record = IF public THEN "cancelled" ELSE flow[s].record
        /\ DropsSession(a, s)
    BY ZenonT(60), <2>1, FinalizedEffect
  <2>3. to \in Phases /\ to \in {"idle", "cancelling"}
    BY DEF Phases
  <2> HIDE DEF f, to
  <2>4. /\ actor' \in [Actor -> Handlers] /\ actor'[a].phase = to /\ actor'[a].on = s
        /\ \A b \in Actor \ {a} : actor'[b] = actor[b]
    BY <2>1, <2>3, CallEffect
  <2>5. Turns(a, s, "idle", to)
    BY <2>0, <2>2, <2>4 DEF Turns, Moves, TypeOK
  <2>6. QED BY <1>1, <2>2, <2>3, <2>5
<1>4. QED BY <1>2, <1>3

LEMMA CancelGoesOnEffect ==
    ASSUME TypeOK, NEW a \in Actor, NEW s \in Session, actor[a].on = s, CancelGoesOn(a)
    PROVE  /\ Keeps(s) /\ flow'[s].proc = flow[s].proc /\ flow'[s].pooled = flow[s].pooled
           /\ flow'[s].registered = flow[s].registered
           /\ \/ /\ LosesHome(a, s) /\ flow'[s].active = flow[s].active
                 /\ flow'[s].record \in {"cancelled", flow[s].record}
                 /\ \E to \in {"idle", "cancelling"} : Turns(a, s, "killing", to)
              \/ /\ KeepsHome(s) /\ ~flow'[s].active /\ flow'[s].record = flow[s].record
                 /\ Turns(a, s, "cancelling", "idle")
<1>0. flow \in [Session -> Flows] /\ flow[s] \in Flows /\ actor[a] \in Handlers
  BY DEF TypeOK
<1>1. CASE actor[a].phase = "killing" /\ Cancelled(a, s, actor[a].public, WithoutHome(a, s, flow))
  <2> DEFINE f == WithoutHome(a, s, flow)
             public == actor[a].public
             to == IF public THEN "cancelling" ELSE "idle"
  <2>1. flow' = (IF public THEN [f EXCEPT ![s].record = "cancelled"] ELSE f) /\ Call(a, s, to, public)
    BY <1>1 DEF Cancelled
  <2>2. public \in BOOLEAN
    BY <1>0 DEF Handlers
  <2>3. /\ flow' \in [Session -> Flows] /\ Keeps(s)
        /\ flow'[s].proc = flow[s].proc /\ flow'[s].active = flow[s].active
        /\ flow'[s].pooled = flow[s].pooled /\ flow'[s].registered = flow[s].registered
        /\ flow'[s].record = IF public THEN "cancelled" ELSE flow[s].record
        /\ LosesHome(a, s)
    <3> HIDE DEF public
    <3>1. QED BY <2>1, <2>2, KilledEffect
  <2>4. to \in Phases /\ to \in {"idle", "cancelling"}
    BY DEF Phases
  <2>5. Turns(a, s, "killing", to)
    <3> HIDE DEF to
    <3>1. QED BY <1>1, <2>1, <2>2, <2>3, <2>4, CallEffect DEF Turns, Moves, TypeOK
  <2>6. QED BY <2>3, <2>4, <2>5
<1>2. CASE /\ actor[a].phase = "cancelling" /\ Become(a, "idle")
           /\ flow' = [flow EXCEPT ![s].active = FALSE]
  <2> DEFINE g == [flow[s] EXCEPT !.active = FALSE]
  <2>1. g \in Flows /\ flow' = [flow EXCEPT ![s] = g]
    BY <1>0, <1>2, FieldWritten
  <2>2. /\ flow' \in [Session -> Flows] /\ Keeps(s) /\ KeepsHome(s) /\ ~flow'[s].active
        /\ flow'[s].proc = flow[s].proc /\ flow'[s].registered = flow[s].registered
        /\ flow'[s].pooled = flow[s].pooled /\ flow'[s].record = flow[s].record
    BY <1>0, <2>1 DEF Keeps, KeepsHome, Flows
  <2>3. Turns(a, s, "cancelling", "idle")
    BY <1>2, <2>2, BecomeEffect DEF Turns, Moves, TypeOK, Phases
  <2>4. QED BY <2>2, <2>3
<1>3. QED BY <1>1, <1>2 DEF CancelGoesOn

\* The end of an administrator's look at the record: it is refused, or the account is added.
LEMMA ApproveEffect ==
    ASSUME TypeOK, NEW a \in Actor, NEW s \in Session, Approve(a, s)
    PROVE  /\ Keeps(s) /\ KeepsHome(s) /\ flow'[s].proc = flow[s].proc
           /\ flow'[s].registered = flow[s].registered /\ flow'[s].active = flow[s].active
           /\ flow'[s].pooled = flow[s].pooled /\ flow[s].record = "pending_review"
           /\ \/ flow'[s].record = "rejected" /\ Turns(a, s, "idle", "rejecting")
              \/ flow'[s].record = flow[s].record /\ Turns(a, s, "idle", "adding")
<1> DEFINE g == [flow[s] EXCEPT !.record = "rejected"]
<1>0. flow \in [Session -> Flows] /\ flow[s] \in Flows /\ actor[a] \in Handlers
  BY DEF TypeOK
<1>1. CASE flow' = [flow EXCEPT ![s].record = "rejected"] /\ Call(a, s, "rejecting", TRUE)
  <2>1. g \in Flows /\ flow' = [flow EXCEPT ![s] = g]
    BY <1>0, <1>1, FieldWritten
  <2>2. /\ flow' \in [Session -> Flows] /\ Keeps(s) /\ KeepsHome(s) /\ flow'[s].proc = flow[s].proc
        /\ flow'[s].registered = flow[s].registered /\ flow'[s].active = flow[s].active
        /\ flow'[s].pooled = flow[s].pooled /\ flow'[s].record = "rejected"
    BY <1>0, <2>1 DEF Keeps, KeepsHome, Flows
  <2>3. Turns(a, s, "idle", "rejecting")
    BY <1>1, <2>2, CallEffect DEF Turns, Moves, TypeOK, Phases, Approve
  <2>4. QED BY <2>2, <2>3 DEF Approve
<1>2. CASE UNCHANGED flow /\ Call(a, s, "adding", TRUE)
  <2>1. Turns(a, s, "idle", "adding")
    BY <1>0, <1>2, CallEffect DEF Turns, Moves, TypeOK, Phases, Approve
  <2>2. QED BY <1>2, <2>1 DEF Keeps, KeepsHome, Approve
<1>3. QED BY <1>1, <1>2 DEF Approve

LEMMA RejectEffect ==
    ASSUME TypeOK, NEW a \in Actor, NEW s \in Session, Reject(a, s)
    PROVE  /\ Keeps(s) /\ KeepsHome(s) /\ flow'[s].proc = flow[s].proc
           /\ flow'[s].registered = flow[s].registered /\ flow'[s].active = flow[s].active
           /\ flow'[s].pooled = flow[s].pooled /\ flow[s].record # "none"
           /\ flow'[s].record = "rejected" /\ Turns(a, s, "idle", "rejecting")
<1> DEFINE g == [flow[s] EXCEPT !.record = "rejected"]
<1>0. flow \in [Session -> Flows] /\ flow[s] \in Flows /\ actor[a] \in Handlers
  BY DEF TypeOK
<1>1. g \in Flows /\ flow' = [flow EXCEPT ![s] = g]
  BY <1>0, FieldWritten DEF Reject
<1>2. /\ flow' \in [Session -> Flows] /\ Keeps(s) /\ KeepsHome(s) /\ flow'[s].proc = flow[s].proc
      /\ flow'[s].registered = flow[s].registered /\ flow'[s].active = flow[s].active
      /\ flow'[s].pooled = flow[s].pooled /\ flow'[s].record = "rejected"
  BY <1>0, <1>1 DEF Keeps, KeepsHome, Flows
<1>3. Turns(a, s, "idle", "rejecting")
  BY <1>2, CallEffect DEF Turns, Moves, TypeOK, Phases, Reject
<1>4. QED BY <1>2, <1>3 DEF Reject

LEMMA AccountAddedEffect ==
    ASSUME TypeOK, NEW a \in Actor, NEW s \in Session, actor[a].on = s, AccountAdded(a)
    PROVE  /\ Keeps(s) /\ KeepsHome(s) /\ flow'[s].proc = flow[s].proc
           /\ flow'[s].registered = flow[s].registered /\ flow'[s].active = flow[s].active
           /\ flow'[s].pooled = flow[s].pooled + 1
           /\ \/ flow'[s].record = flow[s].record /\ Turns(a, s, "confirming", "idle")
              \/ flow'[s].record = "approved" /\ Turns(a, s, "adding", "approving")
<1> DEFINE h == [flow[s] EXCEPT !.pooled = flow[s].pooled + 1]
           g == [h EXCEPT !.record = "approved"]
<1>0. flow \in [Session -> Flows] /\ flow[s] \in Flows /\ actor[a] \in Handlers
  BY DEF TypeOK
<1>1. h \in Flows /\ g \in Flows
  BY <1>0, FieldWritten
<1>2. CASE actor[a].phase = "confirming" /\ Become(a, "idle") /\ flow' = [flow EXCEPT ![s].pooled = @ + 1]
  <2>1. flow' = [flow EXCEPT ![s] = h]
    BY <1>0, <1>2
  <2>2. /\ flow' \in [Session -> Flows] /\ Keeps(s) /\ KeepsHome(s) /\ flow'[s].proc = flow[s].proc
        /\ flow'[s].registered = flow[s].registered /\ flow'[s].active = flow[s].active
        /\ flow'[s].pooled = flow[s].pooled + 1 /\ flow'[s].record = flow[s].record
    BY <1>0, <1>1, <2>1 DEF Keeps, KeepsHome, Flows
  <2>3. Turns(a, s, "confirming", "idle")
    BY <1>2, <2>2, BecomeEffect DEF Turns, Moves, TypeOK, Phases
  <2>4. QED BY <2>2, <2>3
<1>3. CASE /\ actor[a].phase = "adding" /\ Become(a, "approving")
           /\ flow' = [flow EXCEPT ![s].pooled = @ + 1, ![s].record = "approved"]
  <2>1. flow' = [flow EXCEPT ![s] = g]
    BY <1>0, <1>3
  <2>2. /\ flow' \in [Session -> Flows] /\ Keeps(s) /\ KeepsHome(s) /\ flow'[s].proc = flow[s].proc
        /\ flow'[s].registered = flow[s].registered /\ flow'[s].active = flow[s].active
        /\ flow'[s].pooled = flow[s].pooled + 1 /\ flow'[s].record = "approved"
    BY <1>0, <1>1, <2>1 DEF Keeps, KeepsHome, Flows
  <2>3. Turns(a, s, "adding", "approving")
    BY <1>3, <2>2, BecomeEffect DEF Turns, Moves, TypeOK, Phases
  <2>4. QED BY <2>2, <2>3
<1>4. QED BY <1>2, <1>3 DEF AccountAdded

LEMMA ReviewEndsEffect ==
    ASSUME TypeOK, NEW a \in Actor, NEW s \in Session, actor[a].on = s, ReviewEnds(a)
    PROVE  /\ Keeps(s) /\ flow'[s].proc = flow[s].proc /\ flow'[s].active = flow[s].active
           /\ flow'[s].pooled = flow[s].pooled /\ flow'[s].record = flow[s].record
           /\ \/ DropsSession(a, s) /\ Turns(a, s, "rejecting", "idle")
              \/ ~flow'[s].registered /\ KeepsHome(s) /\ Turns(a, s, "approving", "idle")
<1> DEFINE remove == actor[a].phase = "rejecting"
           f == Finalized(a, s, remove, flow)
<1>1. flow' = (IF FALSE THEN [f EXCEPT ![s].record = "cancelled"] ELSE f)
  BY DEF ReviewEnds
<1>2. /\ flow' \in [Session -> Flows] /\ Keeps(s)
      /\ flow'[s].proc = flow[s].proc /\ flow'[s].active = flow[s].active
      /\ flow'[s].pooled = flow[s].pooled /\ flow'[s].record = flow[s].record
      /\ IF remove THEN DropsSession(a, s) ELSE ~flow'[s].registered /\ KeepsHome(s)
  <2>1. remove \in BOOLEAN
    OBVIOUS
  <2> HIDE DEF remove
  <2>2. QED BY <1>1, <2>1, FinalizedEffect
<1>3. actor[a].phase \in {"approving", "rejecting"} /\ Become(a, "idle")
  BY DEF ReviewEnds
<1>4. Turns(a, s, actor[a].phase, "idle")
  BY <1>2, <1>3, BecomeEffect DEF Turns, Moves, TypeOK, Phases
<1>5. QED BY <1>2, <1>3, <1>4

LEMMA HandlerFailsEffect ==
    ASSUME TypeOK, NEW a \in Actor, NEW s \in Session, actor[a].on = s, HandlerFails(a)
    PROVE  /\ Keeps(s) /\ flow'[s].proc = flow[s].proc /\ flow'[s].active = flow[s].active
           /\ flow'[s].pooled = flow[s].pooled /\ flow'[s].record = flow[s].record
           /\ flow'[s].registered = flow[s].registered /\ flow'[s].home = flow[s].home
           /\ flow'[s].dropped = flow[s].dropped
           /\ flow'[s].contested = (flow[s].contested \/ actor[a].phase = "approving")
           /\ actor[a].phase # "killing" /\ Turns(a, s, actor[a].phase, "idle")
<1> DEFINE c == flow[s].contested \/ actor[a].phase = "approving"
           g == [flow[s] EXCEPT !.contested = c]
<1>0. flow \in [Session -> Flows] /\ flow[s] \in Flows /\ actor[a] \in Handlers
  BY DEF TypeOK
<1>1. g \in Flows
  BY <1>0, FieldWritten
<1>2. flow' = [flow EXCEPT ![s] = g]
  BY <1>0 DEF HandlerFails
<1>3. /\ flow' \in [Session -> Flows] /\ Keeps(s) /\ flow'[s].home = flow[s].home
      /\ flow'[s].dropped = flow[s].dropped
      /\ flow'[s].contested = c /\ flow'[s].proc = flow[s].proc
      /\ flow'[s].registered = flow[s].registered /\ flow'[s].active = flow[s].active
      /\ flow'[s].pooled = flow[s].pooled /\ flow'[s].record = flow[s].record
  BY <1>0, <1>1, <1>2 DEF Keeps, Flows
<1>4. Become(a, "idle") /\ actor[a].phase \notin {"idle", "killing"}
  BY DEF HandlerFails
<1>5. Turns(a, s, actor[a].phase, "idle")
  BY <1>3, <1>4, BecomeEffect DEF Turns, Moves, TypeOK, Phases
<1>6. QED BY <1>3, <1>4, <1>5

----------------------------------------------------------------------------
\* The induction step.

\* A step of handler a about s.
Handled(a, s) == Request(a, s) \/ (actor[a].on = s /\ Handle(a))

LEMMA ConfirmFits ==
    ASSUME TypeOK, NEW a \in Actor, NEW s \in Session, Fits(s), Confirm(a, s)
    PROVE  Moves(a, s) /\ Keeps(s) /\ Fits(s)'
<1> USE ConfirmEffect
<1>0. flow[s] \in Flows /\ actor \in [Actor -> Handlers] /\ flow'[s] \in Flows /\ actor' \in [Actor -> Handlers]
  BY DEF TypeOK, Moves, Turns
<1>1. FlowFits(s)'
  BY <1>0 DEF Keeps, KeepsHome, LosesHome, DropsSession, Turns, Moves, Fits, FlowFits, Handling, Handlers, Flows
<1>2. SuccessIsLogin(s)'
  BY <1>0 DEF Keeps, KeepsHome, LosesHome, DropsSession, Turns, Moves, Fits, FlowFits, SuccessIsLogin, BuiltOnSuccess, Handling, Flows
<1>3. HomeIsGuarded(s)'
  BY <1>0 DEF Keeps, KeepsHome, LosesHome, DropsSession, Turns, Moves, Fits, FlowFits, SuccessIsLogin, BuiltOnSuccess, HomeIsGuarded, BeingTaken, TakenOver, Handling, Flows
<1>4. QED BY <1>1, <1>2, <1>3 DEF Fits, Turns

LEMMA CancelFits ==
    ASSUME TypeOK, NEW a \in Actor, NEW s \in Session, Fits(s), NEW public \in BOOLEAN, Cancel(a, s, public)
    PROVE  Moves(a, s) /\ Keeps(s) /\ Fits(s)'
<1> USE CancelEffect
<1>0. flow[s] \in Flows /\ actor \in [Actor -> Handlers] /\ flow'[s] \in Flows /\ actor' \in [Actor -> Handlers]
  BY DEF TypeOK, Moves, Turns
<1>1. FlowFits(s)'
  BY <1>0 DEF Keeps, KeepsHome, LosesHome, DropsSession, Turns, Moves, Fits, FlowFits, Handling, Handlers, Flows
<1>2. SuccessIsLogin(s)'
  BY <1>0 DEF Keeps, KeepsHome, LosesHome, DropsSession, Turns, Moves, Fits, FlowFits, SuccessIsLogin, BuiltOnSuccess, Handling, Flows
<1>3. HomeIsGuarded(s)'
  BY <1>0 DEF Keeps, KeepsHome, LosesHome, DropsSession, Turns, Moves, Fits, FlowFits, SuccessIsLogin, BuiltOnSuccess, HomeIsGuarded, BeingTaken, TakenOver, Handling, Flows
<1>4. QED BY <1>1, <1>2, <1>3 DEF Fits, Turns

LEMMA CancelGoesOnFits ==
    ASSUME TypeOK, NEW a \in Actor, NEW s \in Session, Fits(s), actor[a].on = s, CancelGoesOn(a)
    PROVE  Moves(a, s) /\ Keeps(s) /\ Fits(s)'
<1> USE CancelGoesOnEffect
<1>0. flow[s] \in Flows /\ actor \in [Actor -> Handlers] /\ flow'[s] \in Flows /\ actor' \in [Actor -> Handlers]
  BY DEF TypeOK, Moves, Turns
<1>1. FlowFits(s)'
  BY <1>0 DEF Keeps, KeepsHome, LosesHome, DropsSession, Turns, Moves, Fits, FlowFits, Handling, Handlers, Flows
<1>2. SuccessIsLogin(s)'
  BY <1>0 DEF Keeps, KeepsHome, LosesHome, DropsSession, Turns, Moves, Fits, FlowFits, SuccessIsLogin, BuiltOnSuccess, Handling, Flows
<1>3. HomeIsGuarded(s)'
  BY <1>0 DEF Keeps, KeepsHome, LosesHome, DropsSession, Turns, Moves, Fits, FlowFits, SuccessIsLogin, BuiltOnSuccess, HomeIsGuarded, BeingTaken, TakenOver, Handling, Flows
<1>4. QED BY <1>1, <1>2, <1>3 DEF Fits, Turns

LEMMA ApproveFits ==
    ASSUME TypeOK, NEW a \in Actor, NEW s \in Session, Fits(s), Approve(a, s)
    PROVE  Moves(a, s) /\ Keeps(s) /\ Fits(s)'
<1> USE ApproveEffect
<1>0. flow[s] \in Flows /\ actor \in [Actor -> Handlers] /\ flow'[s] \in Flows /\ actor' \in [Actor -> Handlers]
  BY DEF TypeOK, Moves, Turns
<1>1. FlowFits(s)'
  BY <1>0 DEF Keeps, KeepsHome, LosesHome, DropsSession, Turns, Moves, Fits, FlowFits, Handling, Handlers, Flows
<1>2. SuccessIsLogin(s)'
  BY <1>0 DEF Keeps, KeepsHome, LosesHome, DropsSession, Turns, Moves, Fits, FlowFits, SuccessIsLogin, BuiltOnSuccess, Handling, Flows
<1>3. HomeIsGuarded(s)'
  BY <1>0 DEF Keeps, KeepsHome, LosesHome, DropsSession, Turns, Moves, Fits, FlowFits, SuccessIsLogin, BuiltOnSuccess, HomeIsGuarded, BeingTaken, TakenOver, Handling, Flows
<1>4. QED BY <1>1, <1>2, <1>3 DEF Fits, Turns

LEMMA RejectFits ==
    ASSUME TypeOK, NEW a \in Actor, NEW s \in Session, Fits(s), Reject(a, s)
    PROVE  Moves(a, s) /\ Keeps(s) /\ Fits(s)'
<1> USE RejectEffect
<1>0. flow[s] \in Flows /\ actor \in [Actor -> Handlers] /\ flow'[s] \in Flows /\ actor' \in [Actor -> Handlers]
  BY DEF TypeOK, Moves, Turns
<1>1. FlowFits(s)'
  BY <1>0 DEF Keeps, KeepsHome, LosesHome, DropsSession, Turns, Moves, Fits, FlowFits, Handling, Handlers, Flows
<1>2. SuccessIsLogin(s)'
  BY <1>0 DEF Keeps, KeepsHome, LosesHome, DropsSession, Turns, Moves, Fits, FlowFits, SuccessIsLogin, BuiltOnSuccess, Handling, Flows
<1>3. HomeIsGuarded(s)'
  BY <1>0 DEF Keeps, KeepsHome, LosesHome, DropsSession, Turns, Moves, Fits, FlowFits, SuccessIsLogin, BuiltOnSuccess, HomeIsGuarded, BeingTaken, TakenOver, Handling, Flows
<1>4. QED BY <1>1, <1>2, <1>3 DEF Fits, Turns

LEMMA AccountAddedFits ==
    ASSUME TypeOK, NEW a \in Actor, NEW s \in Session, Fits(s), actor[a].on = s, AccountAdded(a)
    PROVE  Moves(a, s) /\ Keeps(s) /\ Fits(s)'
<1> USE AccountAddedEffect
<1>0. flow[s] \in Flows /\ actor \in [Actor -> Handlers] /\ flow'[s] \in Flows /\ actor' \in [Actor -> Handlers]
  BY DEF TypeOK, Moves, Turns
<1>1. FlowFits(s)'
  BY <1>0 DEF Keeps, KeepsHome, LosesHome, DropsSession, Turns, Moves, Fits, FlowFits, Handling, Handlers, Flows
<1>2. SuccessIsLogin(s)'
  BY <1>0 DEF Keeps, KeepsHome, LosesHome, DropsSession, Turns, Moves, Fits, FlowFits, SuccessIsLogin, BuiltOnSuccess, Handling, Flows
<1>3. HomeIsGuarded(s)'
  BY <1>0 DEF Keeps, KeepsHome, LosesHome, DropsSession, Turns, Moves, Fits, FlowFits, SuccessIsLogin, BuiltOnSuccess, HomeIsGuarded, BeingTaken, TakenOver, Handling, Flows
<1>4. QED BY <1>1, <1>2, <1>3 DEF Fits, Turns

LEMMA ReviewEndsFits ==
    ASSUME TypeOK, NEW a \in Actor, NEW s \in Session, Fits(s), actor[a].on = s, ReviewEnds(a)
    PROVE  Moves(a, s) /\ Keeps(s) /\ Fits(s)'
<1> USE ReviewEndsEffect
<1>0. flow[s] \in Flows /\ actor \in [Actor -> Handlers] /\ flow'[s] \in Flows /\ actor' \in [Actor -> Handlers]
  BY DEF TypeOK, Moves, Turns
<1>1. FlowFits(s)'
  BY <1>0 DEF Keeps, KeepsHome, LosesHome, DropsSession, Turns, Moves, Fits, FlowFits, Handling, Handlers, Flows
<1>2. SuccessIsLogin(s)'
  BY <1>0 DEF Keeps, KeepsHome, LosesHome, DropsSession, Turns, Moves, Fits, FlowFits, SuccessIsLogin, BuiltOnSuccess, Handling, Flows
<1>3. HomeIsGuarded(s)'
  BY <1>0 DEF Keeps, KeepsHome, LosesHome, DropsSession, Turns, Moves, Fits, FlowFits, SuccessIsLogin, BuiltOnSuccess, HomeIsGuarded, BeingTaken, TakenOver, Handling, Flows
<1>4. QED BY <1>1, <1>2, <1>3 DEF Fits, Turns

LEMMA HandlerFailsFits ==
    ASSUME TypeOK, NEW a \in Actor, NEW s \in Session, Fits(s), actor[a].on = s, HandlerFails(a)
    PROVE  Moves(a, s) /\ Keeps(s) /\ Fits(s)'
<1> USE HandlerFailsEffect
<1>0. flow[s] \in Flows /\ actor \in [Actor -> Handlers] /\ flow'[s] \in Flows /\ actor' \in [Actor -> Handlers]
  BY DEF TypeOK, Moves, Turns
<1>1. FlowFits(s)'
  BY <1>0 DEF Keeps, KeepsHome, LosesHome, DropsSession, Turns, Moves, Fits, FlowFits, Handling, Handlers, Flows
<1>2. SuccessIsLogin(s)'
  BY <1>0 DEF Keeps, KeepsHome, LosesHome, DropsSession, Turns, Moves, Fits, FlowFits, SuccessIsLogin, BuiltOnSuccess, Handling, Flows
<1>3. HomeIsGuarded(s)'
  BY <1>0 DEF Keeps, KeepsHome, LosesHome, DropsSession, Turns, Moves, Fits, FlowFits, SuccessIsLogin, BuiltOnSuccess, HomeIsGuarded, BeingTaken, TakenOver, Handling, Flows
<1>4. QED BY <1>1, <1>2, <1>3 DEF Fits, Turns

LEMMA StepFits ==
    ASSUME LoginInv, [Next]_loginVars
    PROVE  LoginInv'
<1>0. TypeOK /\ \A t \in Session : Fits(t)
  BY DEF LoginInv, Fits
<1>1. ASSUME NEW s \in Session, Attended(s) PROVE LoginInv'
  <2>1. TypeOK' /\ Fits(s)'
    BY <1>0, <1>1, AttendedTypes, AttendedFits
  <2>2. ASSUME NEW t \in Session \ {s} PROVE Fits(t)'
    <3>1. Elsewhere(t)
      BY <1>0, <1>1, AttendedTypes DEF Elsewhere
    <3>2. QED BY <1>0, <3>1, ElsewhereFits
  <2>3. \A t \in Session : Fits(t)'
    BY <2>1, <2>2
  <2>4. QED BY <2>1, <2>3 DEF LoginInv, Fits
<1>2. ASSUME NEW a \in Actor, NEW s \in Session, Handled(a, s) PROVE LoginInv'
  <2>1. Moves(a, s) /\ Keeps(s) /\ Fits(s)'
    BY <1>0, <1>2, ConfirmFits, CancelFits, CancelGoesOnFits, ApproveFits, RejectFits,
       AccountAddedFits, ReviewEndsFits, HandlerFailsFits DEF Handled, Request, Handle
  <2>2. ASSUME NEW t \in Session \ {s} PROVE Fits(t)'
    <3>1. Elsewhere(t)
      BY <2>1 DEF Elsewhere, Moves, Keeps
    <3>2. QED BY <1>0, <3>1, ElsewhereFits
  <2>3. \A t \in Session : Fits(t)'
    BY <2>1, <2>2
  <2>4. QED BY <2>1, <2>3 DEF LoginInv, Fits, Moves
<1>3. ASSUME NEW a \in Actor, Handle(a) PROVE LoginInv'
  <2>1. actor[a].on \in Session
    BY <1>0 DEF TypeOK, Handlers
  <2>2. QED BY <1>2, <1>3, <2>1 DEF Handled
<1>4. CASE UNCHANGED loginVars
  <2>1. \A t \in Session : Elsewhere(t)
    BY <1>4 DEF Elsewhere, loginVars
  <2>2. TypeOK' /\ \A t \in Session : Fits(t)'
    BY <1>0, <1>4, <2>1, ElsewhereFits DEF TypeOK, loginVars
  <2>3. QED BY <2>2 DEF LoginInv, Fits
<1>5. QED BY <1>1, <1>2, <1>3, <1>4 DEF Next, Attended, Handled

\* The login flows keep LoginInv: whatever the monitor, the killer, the watcher and the handlers
\* do to one session, its parts fit together.
THEOREM LoginInvariant == Spec => []LoginInv
<1>1. Init => LoginInv
  BY InitFits
<1>2. LoginInv /\ [Next]_loginVars => LoginInv'
  BY StepFits
<1>3. QED BY <1>1, <1>2, PTL DEF Spec

\* Only a login that was completed gets into the pool (finalize, review_contribution and
\* confirm_bootstrap against cancellation and timeout).
THEOREM PooledAreLoggedIn == Spec => []OnlyLoggedInPooled
<1>1. LoginInv => OnlyLoggedInPooled
  BY DEF LoginInv, OnlyLoggedInPooled, SuccessIsLogin, BuiltOnSuccess
<1>2. QED BY <1>1, LoginInvariant, PTL

\* The directory of a pooled account is removed only by someone who found the login being taken
\* over by another, or found its contribution waiting for the review that it does not prevent.
THEOREM PooledKeepHome == Spec => []PooledHasHome
<1>1. LoginInv => PooledHasHome
  BY DEF LoginInv, PooledHasHome, HomeIsGuarded
<1>2. QED BY <1>1, LoginInvariant, PTL
=============================================================================
