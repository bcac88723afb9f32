------------------------- MODULE AccountPoolProofs -------------------------
(***************************************************************************)
(* Proofs about SessionBindings and AccountPool, for every set of          *)
(* requests, accounts and sessions, every limit and every bound.  The two  *)
(* dictionaries of the session table are inverse and bounded.  PoolInv is  *)
(* inductive; from it follow the exactness of active_count, the absence of *)
(* lost waiters, the absence of idle slots while requests wait, the order  *)
(* of service, and that the pool implements SlotLedger.                    *)
(***************************************************************************)
EXTENDS AccountPool, FiniteSetTheorems, SequenceTheorems, TLAPS

-----------------------------------------------------------------------------
(* The session table.                                                      *)

TableInv == TypeOKBindings /\ BindingsConsistent

\* The empty table is well-typed and consistent.
LEMMA InitTable == InitBindings => TableInv
BY BindingsAssumption
   DEF InitBindings, TableInv, TypeOKBindings, BindingsConsistent

\* What the eviction loop removes is a set of bound sessions.
LEMMA EvictedBound ==
    ASSUME NEW evicted \in EvictionChoices
    PROVE  evicted \subseteq BoundSessions
BY DEF EvictionChoices, OldestBindings

\* bind_session keeps the table well-typed and consistent.
LEMMA BindKeepsTable ==
    ASSUME TableInv, NEW s \in Sessions, NEW a \in Accounts, BindSession(s, a)
    PROVE  TableInv'
<1>1. PICK evicted \in EvictionChoices :
        LET kept == BoundSessions \ evicted
            sets == SessionSetsWithout(evicted \cup {s})
        IN  /\ sessionBindings' =
                 [t \in Sessions |-> IF t = s THEN a
                                     ELSE IF t \in evicted THEN None
                                     ELSE sessionBindings[t]]
            /\ insertedBefore' =
                 OrderWithin(kept) \cup
                 (IF s \in kept THEN {} ELSE kept \X {s})
            /\ accountSessions' = [sets EXCEPT ![a] = @ \cup {s}]
  BY DEF BindSession
<1> DEFINE sets == SessionSetsWithout(evicted \cup {s})
<1>2. evicted \subseteq BoundSessions /\ BoundSessions \subseteq Sessions
  BY EvictedBound DEF BoundSessions
<1>3. sets = [b \in Accounts |->
                accountSessions[b] \ {t \in evicted \cup {s} : sessionBindings[t] = b}]
  BY DEF SessionSetsWithout
<1>4. sets \in [Accounts -> SUBSET Sessions]
  BY <1>3 DEF TableInv, TypeOKBindings
<1>5. TypeOKBindings'
  <2>1. sessionBindings' \in [Sessions -> Accounts \cup {None}]
    BY <1>1 DEF TableInv, TypeOKBindings
  <2>2. insertedBefore' \subseteq Sessions \X Sessions
    BY <1>1, <1>2 DEF TableInv, TypeOKBindings, OrderWithin
  <2>3. accountSessions' \in [Accounts -> SUBSET Sessions]
    BY <1>1, <1>4
  <2> QED
    BY <2>1, <2>2, <2>3 DEF TypeOKBindings
<1>6. BindingsConsistent'
  <2> SUFFICES ASSUME NEW t \in Sessions, NEW b \in Accounts
               PROVE  t \in accountSessions'[b] <=> sessionBindings'[t] = b
    BY DEF BindingsConsistent
  <2>1. t \in accountSessions[b] <=> sessionBindings[t] = b
    BY DEF TableInv, BindingsConsistent
  <2>2. accountSessions'[b] = sets[b] \cup (IF b = a THEN {s} ELSE {})
    BY <1>1, <1>4
  <2>3. sets[b] =
          accountSessions[b] \ {u \in evicted \cup {s} : sessionBindings[u] = b}
    BY <1>3
  <2>4. sessionBindings'[t] = IF t = s THEN a
                              ELSE IF t \in evicted THEN None
                              ELSE sessionBindings[t]
    BY <1>1
  <2> QED
    BY <2>1, <2>2, <2>3, <2>4, BindingsAssumption
<1> QED
  BY <1>5, <1>6 DEF TableInv

\* unbind_session keeps the table well-typed and consistent.
LEMMA UnbindKeepsTable ==
    ASSUME TableInv, NEW s \in Sessions, UnbindSession(s)
    PROVE  TableInv'
<1>1. TypeOKBindings'
  BY DEF TableInv, TypeOKBindings, UnbindSession, OrderWithin, SessionSetsWithout
<1>2. BindingsConsistent'
  BY BindingsAssumption
     DEF TableInv, TypeOKBindings, BindingsConsistent, UnbindSession,
         SessionSetsWithout
<1> QED
  BY <1>1, <1>2 DEF TableInv

\* The clean-up of remove_entry keeps the table well-typed and consistent.
LEMMA DropKeepsTable ==
    ASSUME TableInv, NEW a \in Accounts, DropAccountSessions(a)
    PROVE  TableInv'
<1>1. TypeOKBindings'
  BY DEF TableInv, TypeOKBindings, DropAccountSessions, OrderWithin
<1>2. BindingsConsistent'
  BY BindingsAssumption
     DEF TableInv, TypeOKBindings, BindingsConsistent, DropAccountSessions
<1> QED
  BY <1>1, <1>2 DEF TableInv

\* A step that leaves the table alone keeps it well-typed and consistent.
LEMMA StutterKeepsTable ==
    TableInv /\ UNCHANGED bindingVars => TableInv'
BY DEF TableInv, TypeOKBindings, BindingsConsistent, bindingVars

\* The two dictionaries of the session table stay inverse to each other.
THEOREM SessionTableConsistent == SpecBindings => []BindingsConsistent
<1>1. TableInv /\ [NextBindings]_bindingVars => TableInv'
  BY BindKeepsTable, UnbindKeepsTable, DropKeepsTable, StutterKeepsTable
     DEF NextBindings
<1>2. TableInv => BindingsConsistent
  BY DEF TableInv
<1> QED
  BY InitTable, <1>1, <1>2, PTL DEF SpecBindings

-----------------------------------------------------------------------------
\* The bound sessions are a finite set.
LEMMA BoundFinite == IsFiniteSet(BoundSessions) /\ Cardinality(BoundSessions) \in Nat
BY BindingsAssumption, FS_Subset, FS_CardinalityType DEF BoundSessions

LEMMA BoundFiniteNext ==
    IsFiniteSet(BoundSessions') /\ Cardinality(BoundSessions') \in Nat
<1>1. BoundSessions' \in SUBSET Sessions
  BY DEF BoundSessions
<1> QED
  BY <1>1, BindingsAssumption, FS_Subset, FS_CardinalityType

\* bind_session never takes the table over its limit.
LEMMA BindKeepsBound ==
    ASSUME TableInv, BindingsBounded,
           NEW s \in Sessions, NEW a \in Accounts, BindSession(s, a)
    PROVE  BindingsBounded'
<1>1. PICK evicted \in EvictionChoices :
        sessionBindings' =
            [t \in Sessions |-> IF t = s THEN a
                                ELSE IF t \in evicted THEN None
                                ELSE sessionBindings[t]]
  BY DEF BindSession
<1> DEFINE kept == BoundSessions \ evicted
<1>2. BoundSessions' \subseteq kept \cup {s}
  BY <1>1 DEF BoundSessions
<1>3. IsFiniteSet(kept) /\ Cardinality(kept) \in Nat
  <2>1. kept \in SUBSET BoundSessions
    OBVIOUS
  <2> QED
    BY <2>1, BoundFinite, FS_Subset, FS_CardinalityType
<1>4. Cardinality(kept) + 1 <= MaxSessionBindings
  <2>1. CASE Cardinality(BoundSessions) >= MaxSessionBindings
    <3>1. PICK o \in BoundSessions : evicted = {o}
      BY <2>1 DEF EvictionChoices, OldestBindings
    <3>2. Cardinality(kept) = Cardinality(BoundSessions) - 1
      BY <3>1, BoundFinite, FS_RemoveElement
    <3> QED
      BY <3>2, BoundFinite, BindingsAssumption DEF BindingsBounded
  <2>2. CASE ~(Cardinality(BoundSessions) >= MaxSessionBindings)
    <3>1. kept = BoundSessions
      BY <2>2 DEF EvictionChoices
    <3> QED
      BY <3>1, <2>2, BoundFinite, BindingsAssumption
  <2> QED
    BY <2>1, <2>2
<1>5. /\ IsFiniteSet(kept \cup {s})
      /\ Cardinality(kept \cup {s}) \in Nat
      /\ Cardinality(kept \cup {s}) <= Cardinality(kept) + 1
  <2> HIDE DEF kept
  <2>1. /\ IsFiniteSet(kept \cup {s})
        /\ Cardinality(kept \cup {s}) =
              IF s \in kept THEN Cardinality(kept) ELSE Cardinality(kept) + 1
    BY <1>3, FS_AddElement
  <2> QED
    BY <1>3, <2>1
<1>6. Cardinality(BoundSessions') <= Cardinality(kept \cup {s})
  BY <1>2, <1>5, FS_Subset
<1> QED
  BY <1>3, <1>4, <1>5, <1>6, BoundFiniteNext, BindingsAssumption DEF BindingsBounded

\* No other operation adds a binding.
LEMMA ShrinkKeepsBound ==
    ASSUME BindingsBounded, BoundSessions' \subseteq BoundSessions
    PROVE  BindingsBounded'
<1>1. Cardinality(BoundSessions') <= Cardinality(BoundSessions)
  BY BoundFinite, FS_Subset
<1> QED
  BY <1>1, BoundFinite, BoundFiniteNext, BindingsAssumption DEF BindingsBounded

\* The session table never exceeds _max_session_bindings.
THEOREM SessionTableBounded == SpecBindings => []BindingsBounded
<1> DEFINE I == TableInv /\ BindingsBounded
<1>1. InitBindings => I
  <2>1. InitBindings => BoundSessions = {}
    BY DEF InitBindings, BoundSessions
  <2> QED
    BY <2>1, InitTable, FS_EmptySet, BindingsAssumption DEF BindingsBounded
<1>2. I /\ [NextBindings]_bindingVars => I'
  <2> SUFFICES ASSUME I, [NextBindings]_bindingVars
               PROVE  I'
    OBVIOUS
  <2>1. ASSUME NEW s \in Sessions, NEW a \in Accounts, BindSession(s, a)
        PROVE  I'
    BY <2>1, BindKeepsTable, BindKeepsBound
  <2>2. ASSUME NEW s \in Sessions, UnbindSession(s)
        PROVE  I'
    <3>1. BoundSessions' \subseteq BoundSessions
      BY <2>2 DEF BoundSessions, UnbindSession, TableInv, TypeOKBindings
    <3> QED
      BY <2>2, <3>1, UnbindKeepsTable, ShrinkKeepsBound
  <2>3. ASSUME NEW a \in Accounts, DropAccountSessions(a)
        PROVE  I'
    <3>1. BoundSessions' \subseteq BoundSessions
      BY <2>3 DEF BoundSessions, DropAccountSessions, TableInv, TypeOKBindings
    <3> QED
      BY <2>3, <3>1, DropKeepsTable, ShrinkKeepsBound
  <2>4. CASE UNCHANGED bindingVars
    BY <2>4, StutterKeepsTable DEF BindingsBounded, BoundSessions, bindingVars
  <2> QED
    BY <2>1, <2>2, <2>3, <2>4 DEF NextBindings
<1>3. I => BindingsBounded
  OBVIOUS
<1> QED
  BY <1>1, <1>2, <1>3, PTL DEF SpecBindings

-----------------------------------------------------------------------------
(* What the helpers of the pool return.                                    *)

\* The entry acquire() selects is pooled and has room.
LEMMA SelectedHasRoom ==
    ASSUME TypeOK, NEW i \in Selected
    PROVE  /\ i \in DOMAIN pool
           /\ pool[i] \in Pooled /\ pool[i] \in Accounts
           /\ HasRoom(pool[i])
BY DEF TypeOK, Selected, LeastLoaded, Available, Pooled

\* The entry a session is bound to is only used while it has room.
LEMMA BoundHasRoom ==
    ASSUME TypeOK, NEW r \in Requests, NEW a \in BoundEntry(r)
    PROVE  a \in Pooled /\ a \in Accounts /\ HasRoom(a)
BY DEF TypeOK, BoundEntry, Pooled

LEMMA PooledAccounts == TypeOK => Pooled \subseteq Accounts
BY DEF TypeOK, Pooled

\* Removing an entry keeps the list typed and free of duplicates, and
\* removes exactly that id.
LEMMA PoolWithoutFacts ==
    ASSUME pool \in Seq(Accounts), NEW a \in Pooled,
           \A i, j \in DOMAIN pool : i # j => pool[i] # pool[j]
    PROVE  LET p == PoolWithout(a)
           IN  /\ p \in Seq(Accounts)
               /\ {p[i] : i \in DOMAIN p} = Pooled \ {a}
               /\ \A i, j \in DOMAIN p : i # j => p[i] # p[j]
<1> DEFINE at == CHOOSE i \in DOMAIN pool : pool[i] = a
           n == Len(pool) - 1
           p == [i \in 1..n |-> pool[IF i < at THEN i ELSE i + 1]]
<1>1. at \in DOMAIN pool /\ pool[at] = a
  BY DEF Pooled
<1>2. DOMAIN pool = 1..Len(pool) /\ Len(pool) \in Nat /\ n \in Nat
  BY <1>1
<1>3. \A i \in 1..n : /\ (IF i < at THEN i ELSE i + 1) \in DOMAIN pool
                      /\ (IF i < at THEN i ELSE i + 1) # at
  BY <1>1, <1>2
<1>4. p \in Seq(Accounts)
  <2>1. \A i \in 1..n : p[i] \in Accounts
    BY <1>3
  <2> QED
    BY <1>2, <2>1
<1>5. {p[i] : i \in DOMAIN p} = Pooled \ {a}
  <2>1. ASSUME NEW i \in 1..n
        PROVE  p[i] \in Pooled \ {a}
    BY <1>1, <1>3 DEF Pooled
  <2>2. ASSUME NEW b \in Pooled, b # a
        PROVE  \E i \in 1..n : p[i] = b
    <3>1. PICK j \in DOMAIN pool : pool[j] = b
      BY DEF Pooled
    <3>2. j # at
      BY <3>1, <2>2, <1>1
    <3>3. CASE j < at
      BY <3>1, <3>3, <1>1, <1>2
    <3>4. CASE j > at
      <4>1. j - 1 \in 1..n /\ ~(j - 1 < at) /\ (j - 1) + 1 = j
        BY <3>1, <3>4, <1>1, <1>2
      <4> QED
        BY <3>1, <4>1
    <3> QED
      BY <3>1, <3>2, <3>3, <3>4, <1>1, <1>2
  <2>3. {p[i] : i \in 1..n} = Pooled \ {a}
    <3> HIDE DEF p
    <3> QED
      BY <2>1, <2>2
  <2> QED
    BY <2>3
<1>6. \A i, j \in DOMAIN p : i # j => p[i] # p[j]
  <2> SUFFICES ASSUME NEW i \in 1..n, NEW j \in 1..n, i # j
               PROVE  p[i] # p[j]
    OBVIOUS
  <2>1. (IF i < at THEN i ELSE i + 1) # (IF j < at THEN j ELSE j + 1)
    BY <1>1, <1>2
  <2> QED
    BY <2>1, <1>3
<1>7. PoolWithout(a) = p
  BY DEF PoolWithout
<1> QED
  BY <1>4, <1>5, <1>6, <1>7

\* Marking one future as cancelled leaves the queue a queue of futures.
LEMMA CancelledQueue ==
    ASSUME TypeOK, NEW r \in Requests, AbandonWait(r)
    PROVE  /\ waitQueue' \in Seq(Requests \cup {Cancelled})
           /\ DOMAIN waitQueue' = DOMAIN waitQueue
           /\ \A i \in DOMAIN waitQueue :
                waitQueue'[i] = IF waitQueue[i] = r THEN Cancelled ELSE waitQueue[i]
<1> DEFINE n == Len(waitQueue)
           q == [i \in 1..n |-> IF waitQueue[i] = r THEN Cancelled ELSE waitQueue[i]]
<1>1. n \in Nat /\ DOMAIN waitQueue = 1..n
  BY DEF TypeOK
<1>2. \A i \in 1..n : waitQueue[i] \in Requests \cup {Cancelled}
  BY <1>1 DEF TypeOK
<1>3. waitQueue' = q
  BY <1>1 DEF AbandonWait
<1>4. \A i \in 1..n : q[i] \in Requests \cup {Cancelled}
  BY <1>2
<1>5. q \in [1..n -> Requests \cup {Cancelled}]
  BY <1>4
<1>6. q \in Seq(Requests \cup {Cancelled})
  <2> HIDE DEF q, n
  <2> QED
    BY <1>1, <1>5
<1> QED
  BY <1>1, <1>3, <1>6

-----------------------------------------------------------------------------
(* Types.                                                                  *)

LEMMA InitType == Init => TypeOK
<1> SUFFICES ASSUME Init PROVE TypeOK
  OBVIOUS
<1>1. TypeOKBindings
  BY InitTable DEF Init, TableInv
<1>2. 0 \in 0..(CounterPeriod - 1)
  BY PoolAssumption
<1>3. maxConcurrency \in [Accounts -> 0..MaxC]
  BY PoolAssumption DEF Init, InitPoolState
<1>4. /\ pool \in Seq(Accounts) /\ waitQueue \in Seq(Requests \cup {Cancelled})
      /\ counter \in 0..(CounterPeriod - 1)
      /\ active \in [Accounts -> Nat] /\ leaked \in [Accounts -> Nat]
      /\ stage \in [Requests -> Stages]
      /\ slot \in [Requests -> Accounts \cup {None}]
      /\ retired \in SUBSET Accounts
  BY <1>2, PoolAssumption DEF Init, InitPoolState, Stages
<1>5. healthy \in [Accounts -> BOOLEAN] /\ draining \in BOOLEAN /\ raised \in BOOLEAN
  BY Zenon DEF Init, InitPoolState
<1> QED
  BY <1>1, <1>3, <1>4, <1>5, Zenon DEF TypeOK

LEMMA AdvanceType == TypeOK /\ Advance => counter' \in 0..(CounterPeriod - 1)
BY PoolAssumption DEF TypeOK, Advance

LEMMA HandOverType ==
    ASSUME TypeOK, NEW r \in Requests, NEW a \in Accounts,
           NEW st \in Stages, HandOver(r, a, st)
    PROVE  /\ active' \in [Accounts -> Nat]
           /\ slot' \in [Requests -> Accounts \cup {None}]
           /\ stage' \in [Requests -> Stages]
BY DEF TypeOK, HandOver

LEMMA NextType == TypeOK /\ PoolIdsUnique /\ BindingsConsistent /\ [Next]_poolVars => TypeOK'
<1> SUFFICES ASSUME TypeOK, PoolIdsUnique, BindingsConsistent, [Next]_poolVars
             PROVE  TypeOK'
  OBVIOUS
<1> USE DEF Stages
<1>t. UNCHANGED bindingVars => TypeOKBindings'
  BY DEF TypeOK, TypeOKBindings, bindingVars
<1>1. ASSUME NEW r \in Requests, AcquireBound(r)
      PROVE  TypeOK'
  <2>1. PICK a \in BoundEntry(r) : HandOver(r, a, "holding")
    BY <1>1 DEF AcquireBound
  <2> QED
    BY <1>1, <1>t, <2>1, BoundHasRoom, HandOverType DEF AcquireBound, TypeOK
<1>2. ASSUME NEW r \in Requests, AcquireLeastLoaded(r)
      PROVE  TypeOK'
  <2>1. PICK i \in Selected : HandOver(r, pool[i], "holding")
    BY <1>2 DEF AcquireLeastLoaded
  <2> QED
    BY <1>2, <1>t, <2>1, SelectedHasRoom, HandOverType, AdvanceType
       DEF AcquireLeastLoaded, TypeOK
<1>3. ASSUME NEW r \in Requests, Enqueue(r)
      PROVE  TypeOK'
  <2>1. /\ waitQueue' \in Seq(Requests \cup {Cancelled})
        /\ stage' \in [Requests -> Stages]
    BY <1>3 DEF Enqueue, TypeOK
  <2>2. raised' \in BOOLEAN
    BY <1>3, Zenon DEF Enqueue
  <2> QED
    BY <1>3, <1>t, <2>1, <2>2 DEF Enqueue, TypeOK, entryVars
<1>4. ASSUME NEW r \in Requests, AbandonWait(r)
      PROVE  TypeOK'
  <2>1. waitQueue' \in Seq(Requests \cup {Cancelled})
    BY <1>4, CancelledQueue
  <2>2. stage' \in [Requests -> Stages]
    BY <1>4 DEF AbandonWait, TypeOK
  <2> QED
    BY <1>4, <1>t, <2>1, <2>2 DEF AbandonWait, TypeOK, entryVars
<1>5. ASSUME NEW r \in Requests, Resume(r)
      PROVE  TypeOK'
  BY <1>5, <1>t DEF Resume, TypeOK, entryVars
<1>6. ASSUME NEW r \in Requests, Forget(r)
      PROVE  TypeOK'
  <2>1. leaked' \in [Accounts -> Nat]
    BY <1>6, PooledAccounts DEF Forget, TypeOK
  <2>2. /\ stage' \in [Requests -> Stages]
        /\ slot' \in [Requests -> Accounts \cup {None}]
    BY <1>6 DEF Forget, TypeOK
  <2> QED
    BY <1>6, <1>t, <2>1, <2>2 DEF Forget, TypeOK, entryVars
<1>7. ASSUME NEW r \in Requests, Release(r)
      PROVE  TypeOK'
  <2>1. active' \in [Accounts -> Nat]
    BY <1>7, PooledAccounts DEF Release, TypeOK
  <2>2. /\ stage' \in [Requests -> Stages]
        /\ slot' \in [Requests -> Accounts \cup {None}]
    BY <1>7 DEF Release, TypeOK
  <2>3. draining' \in BOOLEAN
    BY <1>7, Zenon DEF Release
  <2> QED
    BY <1>7, <1>t, <2>1, <2>2, <2>3 DEF Release, TypeOK
<1>8. ASSUME DrainGrant
      PROVE  TypeOK'
  <2>1. Head(waitQueue) \in Requests /\ Tail(waitQueue) \in Seq(Requests \cup {Cancelled})
    BY <1>8 DEF DrainGrant, TypeOK
  <2>2. PICK i \in Selected : HandOver(Head(waitQueue), pool[i], "granted")
    BY <1>8 DEF DrainGrant
  <2> QED
    BY <1>8, <1>t, <2>1, <2>2, SelectedHasRoom, HandOverType, AdvanceType
       DEF DrainGrant, TypeOK
<1>9. ASSUME DrainSkip
      PROVE  TypeOK'
  <2>1. Tail(waitQueue) \in Seq(Requests \cup {Cancelled})
    BY <1>9 DEF DrainSkip, TypeOK
  <2> QED
    BY <1>9, <1>t, <2>1, AdvanceType DEF DrainSkip, TypeOK, entryVars
<1>10. ASSUME DrainStop
       PROVE  TypeOK'
  BY <1>10, <1>t DEF DrainStop, TypeOK, entryVars
<1>11. ASSUME NEW a \in Accounts, AddEntry(a)
       PROVE  TypeOK'
  <2>1. maxConcurrency' \in [Accounts -> 0..MaxC]
    BY <1>11, PoolAssumption DEF AddEntry, TypeOK
  <2> QED
    BY <1>11, <1>t, <2>1 DEF AddEntry, TypeOK
<1>12. ASSUME NEW a \in Accounts, NEW h \in BOOLEAN, UpdateHealth(a, h)
       PROVE  TypeOK'
  BY <1>12, <1>t DEF UpdateHealth, TypeOK
<1>13. ASSUME NEW a \in Accounts, NEW m \in 0..MaxC, UpdateMaxConcurrency(a, m)
       PROVE  TypeOK'
  BY <1>13, <1>t DEF UpdateMaxConcurrency, TypeOK
<1>14. ASSUME NEW a \in Accounts, RemoveEntry(a)
       PROVE  TypeOK'
  <2>1. TypeOKBindings'
    BY <1>14, DropKeepsTable DEF RemoveEntry, TypeOK, TableInv
  <2>2. pool' \in Seq(Accounts)
    BY <1>14, PoolWithoutFacts DEF RemoveEntry, TypeOK, PoolIdsUnique
  <2> QED
    BY <1>14, <2>1, <2>2 DEF RemoveEntry, TypeOK
<1>15. ASSUME NEW s \in Sessions, NEW a \in Accounts, Bind(s, a)
       PROVE  TypeOK'
  <2>1. TypeOKBindings'
    BY <1>15, BindKeepsTable DEF Bind, TypeOK, TableInv
  <2> QED
    BY <1>15, <2>1 DEF Bind, TypeOK, entryVars
<1>16. ASSUME NEW s \in Sessions, Unbind(s)
       PROVE  TypeOK'
  <2>1. TypeOKBindings'
    BY <1>16, UnbindKeepsTable DEF Unbind, TypeOK, TableInv
  <2> QED
    BY <1>16, <2>1 DEF Unbind, TypeOK, entryVars
<1>17. CASE UNCHANGED poolVars
  BY <1>17, <1>t DEF poolVars, bindingVars, TypeOK
<1> QED
  BY <1>1, <1>2, <1>3, <1>4, <1>5, <1>6, <1>7, <1>8, <1>9, <1>10, <1>11,
     <1>12, <1>13, <1>14, <1>15, <1>16, <1>17
     DEF Next, Acquire, Drain, Administer, LoseGrant, LoseHeld, UnknownEntry

-----------------------------------------------------------------------------
(* The list of entries and the requests' slots.                            *)

\* Appending a new id keeps the list free of duplicates.
LEMMA AppendFacts ==
    ASSUME pool \in Seq(Accounts), NEW a \in Accounts, a \notin Pooled,
           \A i, j \in DOMAIN pool : i # j => pool[i] # pool[j]
    PROVE  LET p == Append(pool, a)
           IN  /\ {p[i] : i \in DOMAIN p} = Pooled \cup {a}
               /\ \A i, j \in DOMAIN p : i # j => p[i] # p[j]
<1> DEFINE n == Len(pool)
           p == Append(pool, a)
<1>1. /\ n \in Nat /\ DOMAIN pool = 1..n /\ DOMAIN p = 1..(n + 1)
      /\ \A i \in 1..n : p[i] = pool[i]
      /\ p[n + 1] = a
  OBVIOUS
<1>2. {p[i] : i \in 1..(n + 1)} = Pooled \cup {a}
  <2>1. \A i \in 1..(n + 1) : i \in 1..n \/ i = n + 1
    BY <1>1
  <2>2. \A i \in 1..(n + 1) : p[i] \in Pooled \cup {a}
    BY <1>1, <2>1 DEF Pooled
  <2>3. \A b \in Pooled \cup {a} : \E i \in 1..(n + 1) : p[i] = b
    <3>1. a = p[n + 1] /\ n + 1 \in 1..(n + 1)
      BY <1>1
    <3>2. ASSUME NEW b \in Pooled
          PROVE  \E i \in 1..(n + 1) : p[i] = b
      BY <1>1 DEF Pooled
    <3> QED
      BY <3>1, <3>2
  <2> HIDE DEF p, n
  <2> QED
    BY <2>2, <2>3
<1>3. \A i, j \in DOMAIN p : i # j => p[i] # p[j]
  BY <1>1 DEF Pooled
<1> QED
  BY <1>1, <1>2, <1>3

\* Every step but add_entry and remove_entry keeps the list of entries, and
\* hands out entries of that list only.
LEMMA EntriesStep ==
    ASSUME TypeOK, [Next]_poolVars,
           \A a \in Accounts : ~AddEntry(a) /\ ~RemoveEntry(a)
    PROVE  /\ pool' = pool /\ retired' = retired
           /\ \A r \in Requests : slot'[r] \in {slot[r], None} \cup Pooled
           /\ \A a \in Accounts \ Pooled : leaked'[a] = leaked[a]
<1>1. ASSUME NEW r \in Requests, NEW a \in Pooled, NEW st, HandOver(r, a, st)
      PROVE  \A q \in Requests : slot'[q] \in {slot[q], None} \cup Pooled
  BY <1>1 DEF HandOver, TypeOK
<1>2. ASSUME NEW r \in Requests, AcquireBound(r)
      PROVE  \A q \in Requests : slot'[q] \in {slot[q], None} \cup Pooled
  BY <1>1, <1>2, BoundHasRoom DEF AcquireBound
<1>3. ASSUME NEW r \in Requests, AcquireLeastLoaded(r)
      PROVE  \A q \in Requests : slot'[q] \in {slot[q], None} \cup Pooled
  BY <1>1, <1>3, SelectedHasRoom DEF AcquireLeastLoaded
<1>4. ASSUME DrainGrant
      PROVE  \A q \in Requests : slot'[q] \in {slot[q], None} \cup Pooled
  <2>1. Head(waitQueue) \in Requests
    BY <1>4 DEF DrainGrant, TypeOK
  <2> QED
    BY <1>1, <1>4, <2>1, SelectedHasRoom DEF DrainGrant
<1>5. ASSUME NEW r \in Requests, Forget(r)
      PROVE  /\ \A q \in Requests : slot'[q] \in {slot[q], None} \cup Pooled
             /\ \A a \in Accounts \ Pooled : leaked'[a] = leaked[a]
  BY <1>5 DEF Forget, TypeOK
<1>6. ASSUME NEW r \in Requests, Release(r)
      PROVE  \A q \in Requests : slot'[q] \in {slot[q], None} \cup Pooled
  BY <1>6 DEF Release, TypeOK
<1>7. ASSUME UNCHANGED slot
      PROVE  \A q \in Requests : slot'[q] \in {slot[q], None} \cup Pooled
  BY <1>7
<1>8. pool' = pool /\ retired' = retired
  BY DEF Next, Acquire, AcquireBound, AcquireLeastLoaded, Enqueue, AbandonWait,
         Resume, LoseGrant, LoseHeld, Forget, Release, Drain, DrainGrant,
         DrainSkip, DrainStop, Administer, UpdateHealth, UpdateMaxConcurrency,
         UnknownEntry, Bind, Unbind, entryVars, poolVars
<1>9. \A q \in Requests : slot'[q] \in {slot[q], None} \cup Pooled
  BY <1>2, <1>3, <1>4, <1>5, <1>6, <1>7
     DEF Next, Acquire, Enqueue, AbandonWait,
         Resume, LoseGrant, LoseHeld, Drain,
         DrainSkip, DrainStop, Administer, UpdateHealth, UpdateMaxConcurrency,
         UnknownEntry, Bind, Unbind, poolVars
<1>10. \A a \in Accounts \ Pooled : leaked'[a] = leaked[a]
  BY <1>5
     DEF Next, Acquire, AcquireBound, AcquireLeastLoaded, Enqueue, AbandonWait,
         Resume, LoseGrant, LoseHeld, Release, Drain, DrainGrant,
         DrainSkip, DrainStop, Administer, UpdateHealth, UpdateMaxConcurrency,
         UnknownEntry, Bind, Unbind, poolVars
<1> QED
  BY <1>8, <1>9, <1>10

\* What add_entry and remove_entry do to the set of pooled ids.
LEMMA AddedEntry ==
    ASSUME TypeOK, PoolIdsUnique, NEW a \in Accounts, AddEntry(a)
    PROVE  /\ Pooled' = Pooled \cup {a}
           /\ \A i, j \in DOMAIN pool' : i # j => pool'[i] # pool'[j]
<1> DEFINE p == Append(pool, a)
<1>1. pool' = p /\ a \notin Pooled /\ pool \in Seq(Accounts)
  BY DEF AddEntry, TypeOK
<1>2. /\ {p[i] : i \in DOMAIN p} = Pooled \cup {a}
      /\ \A i, j \in DOMAIN p : i # j => p[i] # p[j]
  BY <1>1, AppendFacts DEF PoolIdsUnique
<1>3. Pooled' = {p[i] : i \in DOMAIN p}
  BY <1>1 DEF Pooled
<1> QED
  BY <1>1, <1>2, <1>3

LEMMA RemovedEntry ==
    ASSUME TypeOK, PoolIdsUnique, NEW a \in Accounts, RemoveEntry(a)
    PROVE  /\ Pooled' = Pooled \ {a}
           /\ \A i, j \in DOMAIN pool' : i # j => pool'[i] # pool'[j]
<1> DEFINE p == PoolWithout(a)
<1>1. pool' = p /\ a \in Pooled /\ pool \in Seq(Accounts)
  BY DEF RemoveEntry, TypeOK
<1>2. /\ {p[i] : i \in DOMAIN p} = Pooled \ {a}
      /\ \A i, j \in DOMAIN p : i # j => p[i] # p[j]
  BY <1>1, PoolWithoutFacts DEF PoolIdsUnique
<1>3. Pooled' = {p[i] : i \in DOMAIN p}
  BY <1>1 DEF Pooled
<1> QED
  BY <1>1, <1>2, <1>3

LEMMA NextIdsUnique ==
    ASSUME TypeOK, PoolIdsUnique, [Next]_poolVars
    PROVE  PoolIdsUnique'
<1>1. ASSUME NEW a \in Accounts, AddEntry(a)
      PROVE  PoolIdsUnique'
  <2>1. /\ Pooled' = Pooled \cup {a}
        /\ \A i, j \in DOMAIN pool' : i # j => pool'[i] # pool'[j]
    BY <1>1, AddedEntry
  <2> QED
    BY <1>1, <2>1 DEF AddEntry, PoolIdsUnique, Holders
<1>2. ASSUME NEW a \in Accounts, RemoveEntry(a)
      PROVE  PoolIdsUnique'
  <2>1. /\ Pooled' = Pooled \ {a}
        /\ \A i, j \in DOMAIN pool' : i # j => pool'[i] # pool'[j]
    BY <1>2, RemovedEntry
  <2> QED
    BY <1>2, <2>1 DEF RemoveEntry, PoolIdsUnique, Holders, TypeOK
<1>3. CASE \A a \in Accounts : ~AddEntry(a) /\ ~RemoveEntry(a)
  BY <1>3, EntriesStep, BindingsAssumption DEF PoolIdsUnique, Holders, Pooled
<1> QED
  BY <1>1, <1>2, <1>3

LEMMA NextSlotMatches ==
    ASSUME TypeOK, SlotMatchesStage, [Next]_poolVars
    PROVE  SlotMatchesStage'
<1> USE DEF SlotMatchesStage
<1>1. ASSUME NEW r \in Requests, NEW a \in Accounts,
             NEW st \in {"granted", "holding"}, HandOver(r, a, st)
      PROVE  SlotMatchesStage'
  BY <1>1, BindingsAssumption DEF HandOver, TypeOK
<1>2. ASSUME NEW r \in Requests, AcquireBound(r)
      PROVE  SlotMatchesStage'
  BY <1>1, <1>2, BoundHasRoom DEF AcquireBound
<1>3. ASSUME NEW r \in Requests, AcquireLeastLoaded(r)
      PROVE  SlotMatchesStage'
  BY <1>1, <1>3, SelectedHasRoom DEF AcquireLeastLoaded
<1>4. ASSUME DrainGrant
      PROVE  SlotMatchesStage'
  <2>1. Head(waitQueue) \in Requests
    BY <1>4 DEF DrainGrant, TypeOK
  <2> QED
    BY <1>1, <1>4, <2>1, SelectedHasRoom DEF DrainGrant
<1>5. ASSUME NEW r \in Requests,
             Enqueue(r) \/ AbandonWait(r) \/ Resume(r) \/ Forget(r) \/ Release(r)
      PROVE  SlotMatchesStage'
  BY <1>5 DEF Enqueue, AbandonWait, Resume, Forget, Release, TypeOK
<1>6. ASSUME UNCHANGED <<slot, stage>>
      PROVE  SlotMatchesStage'
  BY <1>6
<1> QED
  BY <1>2, <1>3, <1>4, <1>5, <1>6
     DEF Next, Acquire, LoseGrant, LoseHeld, Drain, DrainSkip, DrainStop,
         Administer, AddEntry, RemoveEntry, UpdateHealth, UpdateMaxConcurrency,
         UnknownEntry, Bind, Unbind, poolVars

-----------------------------------------------------------------------------
(* Counting the holders of an entry.                                       *)

LEMMA HoldersFinite ==
    ASSUME NEW a
    PROVE  /\ IsFiniteSet(Holders(a)) /\ Cardinality(Holders(a)) \in Nat
           /\ IsFiniteSet(Holders(a)') /\ Cardinality(Holders(a)') \in Nat
<1>1. Holders(a) \in SUBSET Requests /\ Holders(a)' \in SUBSET Requests
  BY DEF Holders
<1> QED
  BY <1>1, PoolAssumption, FS_Subset, FS_CardinalityType

\* A request that is handed an entry adds one holder to it.
LEMMA HolderAdded ==
    ASSUME TypeOK, NEW r \in Requests, NEW a \in Accounts, slot[r] = None,
           slot' = [slot EXCEPT ![r] = a], NEW b \in Accounts
    PROVE  Cardinality(Holders(b)') =
              Cardinality(Holders(b)) + (IF b = a THEN 1 ELSE 0)
<1>1. CASE b = a
  <2>1. Holders(b)' = Holders(b) \cup {r} /\ r \notin Holders(b)
    BY <1>1, BindingsAssumption DEF Holders, TypeOK
  <2> QED
    BY <1>1, <2>1, HoldersFinite, FS_AddElement
<1>2. CASE b # a
  <2>1. Holders(b)' = Holders(b)
    BY <1>2, BindingsAssumption DEF Holders, TypeOK
  <2> QED
    BY <1>2, <2>1, HoldersFinite
<1> QED
  BY <1>1, <1>2

\* A request that leaves its entry removes one holder, which was there.
LEMMA HolderDropped ==
    ASSUME TypeOK, NEW r \in Requests, slot[r] # None,
           slot' = [slot EXCEPT ![r] = None], NEW b \in Accounts
    PROVE  /\ Cardinality(Holders(b)') =
                 Cardinality(Holders(b)) - (IF b = slot[r] THEN 1 ELSE 0)
           /\ b = slot[r] => Cardinality(Holders(b)) > 0
<1>1. CASE b = slot[r]
  <2>1. Holders(b)' = Holders(b) \ {r} /\ r \in Holders(b)
    BY <1>1, BindingsAssumption DEF Holders, TypeOK
  <2>2. Cardinality(Holders(b)') = Cardinality(Holders(b)) - 1
    BY <2>1, HoldersFinite, FS_RemoveElement
  <2> QED
    BY <1>1, <2>2, HoldersFinite
<1>2. CASE b # slot[r]
  <2>1. Holders(b)' = Holders(b)
    BY <1>2, BindingsAssumption DEF Holders, TypeOK
  <2> QED
    BY <1>2, <2>1, HoldersFinite
<1> QED
  BY <1>1, <1>2

\* HandOver keeps the count of the entry exact.
LEMMA HandOverCounts ==
    ASSUME TypeOK, SlotAccounting, NEW r \in Requests, NEW a \in Accounts, NEW st,
           slot[r] = None, HandOver(r, a, st), UNCHANGED <<pool, leaked>>
    PROVE  SlotAccounting'
<1> SUFFICES ASSUME NEW b \in Pooled
             PROVE  active'[b] = Cardinality(Holders(b)') + leaked[b]
  BY DEF SlotAccounting, Pooled, Holders
<1>1. b \in Accounts
  BY PooledAccounts
<1>2. active[b] = Cardinality(Holders(b)) + leaked[b]
  BY DEF SlotAccounting
<1>3. Cardinality(Holders(b)') = Cardinality(Holders(b)) + (IF b = a THEN 1 ELSE 0)
  BY <1>1, HolderAdded DEF HandOver
<1>4. active'[b] = active[b] + (IF b = a THEN 1 ELSE 0)
  BY <1>1 DEF HandOver, TypeOK
<1> QED
  BY <1>1, <1>2, <1>3, <1>4, HoldersFinite DEF TypeOK

LEMMA NextAccounting ==
    ASSUME TypeOK, PoolIdsUnique, SlotMatchesStage, QueueMatchesWaiters,
           SlotAccounting, [Next]_poolVars
    PROVE  SlotAccounting'
<1>1. ASSUME NEW r \in Requests, AcquireBound(r)
      PROVE  SlotAccounting'
  BY <1>1, BoundHasRoom, HandOverCounts DEF AcquireBound, SlotMatchesStage
<1>2. ASSUME NEW r \in Requests, AcquireLeastLoaded(r)
      PROVE  SlotAccounting'
  BY <1>2, SelectedHasRoom, HandOverCounts DEF AcquireLeastLoaded, SlotMatchesStage
<1>3. ASSUME DrainGrant
      PROVE  SlotAccounting'
  <2>1. Head(waitQueue) \in Requests /\ slot[Head(waitQueue)] = None
    <3>1. 1 \in DOMAIN waitQueue /\ Head(waitQueue) = waitQueue[1]
      BY <1>3 DEF DrainGrant, TypeOK
    <3>2. Head(waitQueue) \in Waiting
      BY <1>3, <3>1 DEF DrainGrant, QueueMatchesWaiters
    <3> QED
      BY <3>2 DEF Waiting, SlotMatchesStage
  <2> QED
    BY <1>3, <2>1, SelectedHasRoom, HandOverCounts DEF DrainGrant
<1>4. ASSUME NEW r \in Requests, stage[r] \in {"granted", "holding"}, Forget(r)
      PROVE  SlotAccounting'
  <2> SUFFICES ASSUME NEW b \in Pooled
               PROVE  active[b] = Cardinality(Holders(b)') + leaked'[b]
    BY <1>4 DEF SlotAccounting, Pooled, Holders, Forget, entryVars
  <2>1. b \in Accounts /\ slot[r] # None
    BY <1>4, PooledAccounts DEF SlotMatchesStage
  <2>2. /\ Cardinality(Holders(b)') =
              Cardinality(Holders(b)) - (IF b = slot[r] THEN 1 ELSE 0)
        /\ b = slot[r] => Cardinality(Holders(b)) > 0
    BY <1>4, <2>1, HolderDropped DEF Forget
  <2>3. leaked'[b] = leaked[b] + (IF b = slot[r] THEN 1 ELSE 0)
    BY <1>4, <2>1, PooledAccounts DEF Forget, TypeOK
  <2> QED
    BY <2>1, <2>2, <2>3, HoldersFinite DEF SlotAccounting, TypeOK
<1>5. ASSUME NEW r \in Requests, Release(r)
      PROVE  SlotAccounting'
  <2> SUFFICES ASSUME NEW b \in Pooled
               PROVE  active'[b] = Cardinality(Holders(b)') + leaked[b]
    BY <1>5 DEF SlotAccounting, Pooled, Holders, Release
  <2>1. b \in Accounts /\ slot[r] # None
    BY <1>5, PooledAccounts DEF SlotMatchesStage, Release
  <2>2. /\ Cardinality(Holders(b)') =
              Cardinality(Holders(b)) - (IF b = slot[r] THEN 1 ELSE 0)
        /\ b = slot[r] => Cardinality(Holders(b)) > 0
    BY <1>5, <2>1, HolderDropped DEF Release
  <2>3. active[b] = Cardinality(Holders(b)) + leaked[b] /\ leaked[b] \in Nat
    BY <2>1 DEF SlotAccounting, TypeOK
  <2>4. active'[b] = active[b] - (IF b = slot[r] THEN 1 ELSE 0)
    BY SMTT(30), <1>5, <2>1, <2>2, <2>3, PooledAccounts, HoldersFinite DEF Release, TypeOK
  <2> QED
    BY <2>2, <2>3, <2>4, HoldersFinite
<1>6. ASSUME NEW a \in Accounts, AddEntry(a)
      PROVE  SlotAccounting'
  <2>1. Pooled' = Pooled \cup {a}
    BY <1>6, AddedEntry
  <2>2. \A b \in Pooled' : Holders(b)' = Holders(b) /\ leaked'[b] = leaked[b]
    BY <1>6 DEF AddEntry, Holders
  <2>3. Holders(a) = {} /\ leaked[a] = 0
    BY <1>6 DEF AddEntry, PoolIdsUnique
  <2>4. active'[a] = Cardinality(Holders(a)) + leaked[a]
    BY <1>6, <2>3, FS_EmptySet DEF AddEntry, TypeOK
  <2>5. \A b \in Pooled : active'[b] = Cardinality(Holders(b)) + leaked[b]
    BY <1>6, PooledAccounts DEF AddEntry, TypeOK, SlotAccounting
  <2> QED
    BY <2>1, <2>2, <2>4, <2>5 DEF SlotAccounting
<1>7. ASSUME NEW a \in Accounts, RemoveEntry(a)
      PROVE  SlotAccounting'
  <2>1. Pooled' = Pooled \ {a}
    BY <1>7, RemovedEntry
  <2>2. \A b \in Pooled' : /\ Holders(b)' = Holders(b)
                           /\ leaked'[b] = leaked[b]
                           /\ active'[b] = active[b]
    BY <1>7, <2>1, PooledAccounts DEF RemoveEntry, Holders, TypeOK
  <2> QED
    BY <2>1, <2>2 DEF SlotAccounting
<1>8. ASSUME UNCHANGED <<pool, active, slot, leaked>>
      PROVE  SlotAccounting'
  BY <1>8 DEF SlotAccounting, Pooled, Holders
<1> QED
  BY <1>1, <1>2, <1>3, <1>4, <1>5, <1>6, <1>7, <1>8
     DEF Next, Acquire, LoseGrant, LoseHeld, Enqueue, AbandonWait, Resume, Drain,
         DrainSkip, DrainStop, Administer, UpdateHealth, UpdateMaxConcurrency,
         UnknownEntry, Bind, Unbind, entryVars, poolVars

-----------------------------------------------------------------------------
(* The queue of waiting requests.                                          *)

\* Dropping the head of the queue keeps the rest in place.
LEMMA QueueTail ==
    ASSUME TypeOK, waitQueue # <<>>, waitQueue' = Tail(waitQueue)
    PROVE  /\ Len(waitQueue) \in Nat /\ Len(waitQueue) > 0
           /\ DOMAIN waitQueue = 1..Len(waitQueue)
           /\ DOMAIN waitQueue' = 1..(Len(waitQueue) - 1)
           /\ \A i \in DOMAIN waitQueue' : waitQueue'[i] = waitQueue[i + 1]
           /\ Head(waitQueue) = waitQueue[1]
BY DEF TypeOK

LEMMA NextQueue ==
    ASSUME TypeOK, QueueMatchesWaiters, [Next]_poolVars
    PROVE  QueueMatchesWaiters'
<1>1. ASSUME NEW r \in Requests, Enqueue(r)
      PROVE  QueueMatchesWaiters'
  <2> DEFINE n == Len(waitQueue)
  <2>1. /\ n \in Nat /\ DOMAIN waitQueue = 1..n
        /\ DOMAIN waitQueue' = 1..(n + 1)
        /\ \A i \in 1..n : waitQueue'[i] = waitQueue[i]
        /\ waitQueue'[n + 1] = r
    BY <1>1 DEF Enqueue, TypeOK
  <2>2. Waiting' = Waiting \cup {r} /\ r \notin Waiting
    BY <1>1 DEF Enqueue, TypeOK, Waiting
  <2>3. \A i \in 1..n : waitQueue[i] # r
    BY <2>1, <2>2, PoolAssumption DEF QueueMatchesWaiters
  <2> HIDE DEF n
  <2>4. \A q \in Waiting' : \E i \in DOMAIN waitQueue' : waitQueue'[i] = q
    <3> SUFFICES ASSUME NEW q \in Waiting'
                 PROVE  \E i \in DOMAIN waitQueue' : waitQueue'[i] = q
      OBVIOUS
    <3>1. CASE q = r
      BY <2>1, <3>1
    <3>2. CASE q \in Waiting
      BY <2>1, <3>2 DEF QueueMatchesWaiters
    <3> QED
      BY <2>2, <3>1, <3>2
  <2>5. ASSUME NEW i \in DOMAIN waitQueue', waitQueue'[i] # Cancelled
        PROVE  /\ waitQueue'[i] \in Waiting'
               /\ \A j \in DOMAIN waitQueue' \ {i} : waitQueue'[j] # waitQueue'[i]
    <3>1. CASE i = n + 1
      BY <2>1, <2>2, <2>3, <3>1
    <3>2. CASE i \in 1..n
      BY <2>1, <2>2, <2>3, <2>5, <3>2 DEF QueueMatchesWaiters
    <3> QED
      BY <2>1, <2>5, <3>1, <3>2
  <2> QED
    BY <2>4, <2>5 DEF QueueMatchesWaiters
<1>2. ASSUME NEW r \in Requests, AbandonWait(r)
      PROVE  QueueMatchesWaiters'
  <2>1. Waiting' = Waiting \ {r}
    BY <1>2 DEF AbandonWait, TypeOK, Waiting
  <2>2. /\ DOMAIN waitQueue' = DOMAIN waitQueue
        /\ \A i \in DOMAIN waitQueue :
             waitQueue'[i] = IF waitQueue[i] = r THEN Cancelled ELSE waitQueue[i]
    BY <1>2, CancelledQueue
  <2> QED
    BY <2>1, <2>2, PoolAssumption DEF QueueMatchesWaiters
<1>3. ASSUME DrainGrant
      PROVE  QueueMatchesWaiters'
  <2> DEFINE r == Head(waitQueue)
             n == Len(waitQueue)
  <2>1. /\ n \in Nat /\ n > 0
        /\ DOMAIN waitQueue = 1..n
        /\ DOMAIN waitQueue' = 1..(n - 1)
        /\ \A i \in 1..(n - 1) : waitQueue'[i] = waitQueue[i + 1]
        /\ r = waitQueue[1]
    BY <1>3, QueueTail DEF DrainGrant
  <2>2. r \in Requests
    BY <1>3 DEF DrainGrant, TypeOK
  <2>3. Waiting' = Waiting \ {r}
    BY <1>3, <2>2 DEF DrainGrant, HandOver, TypeOK, Waiting
  <2>4. \A i \in 1..(n - 1) : i + 1 \in 1..n /\ i + 1 # 1
    BY <2>1
  <2>5. \A i \in 1..n : i # 1 => i - 1 \in 1..(n - 1) /\ (i - 1) + 1 = i
    BY <2>1
  <2>6. r # Cancelled /\ 1 \in 1..n
    BY <1>3, <2>1 DEF DrainGrant
  <2> HIDE DEF r, n
  <2>7. \A q \in Waiting' : \E i \in DOMAIN waitQueue' : waitQueue'[i] = q
    <3> SUFFICES ASSUME NEW q \in Waiting'
                 PROVE  \E i \in DOMAIN waitQueue' : waitQueue'[i] = q
      OBVIOUS
    <3>1. PICK k \in 1..n : waitQueue[k] = q
      BY <2>1, <2>3 DEF QueueMatchesWaiters
    <3>2. k # 1
      BY <3>1, <2>1, <2>3
    <3> QED
      BY <3>1, <3>2, <2>1, <2>5
  <2>8. ASSUME NEW i \in DOMAIN waitQueue', waitQueue'[i] # Cancelled
        PROVE  /\ waitQueue'[i] \in Waiting'
               /\ \A j \in DOMAIN waitQueue' \ {i} : waitQueue'[j] # waitQueue'[i]
    <3>1. waitQueue'[i] = waitQueue[i + 1] /\ i + 1 \in 1..n /\ i + 1 # 1
      BY <2>1, <2>4
    <3>2. /\ waitQueue[i + 1] \in Waiting
          /\ \A j \in 1..n \ {i + 1} : waitQueue[j] # waitQueue[i + 1]
      BY <2>1, <2>8, <3>1 DEF QueueMatchesWaiters
    <3>3. waitQueue[i + 1] # r
      BY <2>1, <2>6, <3>1, <3>2
    <3>4. \A j \in 1..(n - 1) : j # i => j + 1 # i + 1
      BY <2>1
    <3> QED
      BY <2>1, <2>3, <2>4, <3>1, <3>2, <3>3, <3>4
  <2> QED
    BY <2>7, <2>8 DEF QueueMatchesWaiters
<1>4. ASSUME DrainSkip
      PROVE  QueueMatchesWaiters'
  <2> DEFINE n == Len(waitQueue)
  <2>1. /\ n \in Nat /\ n > 0
        /\ DOMAIN waitQueue = 1..n
        /\ DOMAIN waitQueue' = 1..(n - 1)
        /\ \A i \in 1..(n - 1) : waitQueue'[i] = waitQueue[i + 1]
        /\ waitQueue[1] = Cancelled
    BY <1>4, QueueTail DEF DrainSkip
  <2>2. Waiting' = Waiting /\ Waiting \subseteq Requests
    BY <1>4 DEF DrainSkip, Waiting
  <2>3. \A i \in 1..(n - 1) : i + 1 \in 1..n
    BY <2>1
  <2>4. \A i \in 1..n : i # 1 => i - 1 \in 1..(n - 1) /\ (i - 1) + 1 = i
    BY <2>1
  <2>5. \A i, j \in 1..(n - 1) : i # j => i + 1 # j + 1
    BY <2>1
  <2> HIDE DEF n
  <2>6. \A q \in Waiting' : \E i \in DOMAIN waitQueue' : waitQueue'[i] = q
    <3> SUFFICES ASSUME NEW q \in Waiting'
                 PROVE  \E i \in DOMAIN waitQueue' : waitQueue'[i] = q
      OBVIOUS
    <3>1. PICK k \in 1..n : waitQueue[k] = q
      BY <2>1, <2>2 DEF QueueMatchesWaiters
    <3>2. k # 1
      BY <3>1, <2>1, <2>2, PoolAssumption
    <3> QED
      BY <3>1, <3>2, <2>1, <2>4
  <2>7. ASSUME NEW i \in DOMAIN waitQueue', waitQueue'[i] # Cancelled
        PROVE  /\ waitQueue'[i] \in Waiting'
               /\ \A j \in DOMAIN waitQueue' \ {i} : waitQueue'[j] # waitQueue'[i]
    <3>1. waitQueue'[i] = waitQueue[i + 1] /\ i + 1 \in 1..n
      BY <2>1, <2>3
    <3>2. /\ waitQueue[i + 1] \in Waiting
          /\ \A j \in 1..n \ {i + 1} : waitQueue[j] # waitQueue[i + 1]
      BY <2>1, <2>7, <3>1 DEF QueueMatchesWaiters
    <3> QED
      BY <2>1, <2>2, <2>3, <2>5, <3>1, <3>2
  <2> QED
    BY <2>6, <2>7 DEF QueueMatchesWaiters
<1>5. ASSUME UNCHANGED waitQueue, Waiting' = Waiting
      PROVE  QueueMatchesWaiters'
  BY <1>5 DEF QueueMatchesWaiters
<1>6. ASSUME NEW r \in Requests,
             AcquireBound(r) \/ AcquireLeastLoaded(r) \/ Resume(r)
             \/ LoseGrant(r) \/ LoseHeld(r) \/ Release(r)
      PROVE  UNCHANGED waitQueue /\ Waiting' = Waiting
  BY <1>6 DEF AcquireBound, AcquireLeastLoaded, HandOver, Resume, LoseGrant,
              LoseHeld, Forget, Release, Waiting, TypeOK
<1>7. ASSUME UNCHANGED <<waitQueue, stage>>
      PROVE  UNCHANGED waitQueue /\ Waiting' = Waiting
  BY <1>7 DEF Waiting
<1> QED
  BY <1>1, <1>2, <1>3, <1>4, <1>5, <1>6, <1>7
     DEF Next, Acquire, Drain, DrainStop, Administer, AddEntry, RemoveEntry,
         UpdateHealth, UpdateMaxConcurrency, UnknownEntry, Bind, Unbind, poolVars

-----------------------------------------------------------------------------
(* No slot is idle while a request waits.                                  *)

LEMMA NothingAvailable == Available = {} <=> \A a \in Pooled : ~HasRoom(a)
BY DEF Available, Pooled

LEMMA NothingAvailableNext == Available' = {} <=> \A a \in Pooled' : ~HasRoom(a)'
BY DEF Available, Pooled, HasRoom

\* A queue that matches the waiters is not empty while one waits.
LEMMA EmptyQueue ==
    QueueMatchesWaiters /\ waitQueue = <<>> => Waiting = {}
<1> SUFFICES ASSUME QueueMatchesWaiters, waitQueue = <<>>, NEW r \in Waiting
             PROVE  FALSE
  OBVIOUS
<1>1. PICK i \in DOMAIN waitQueue : waitQueue[i] = r
  BY DEF QueueMatchesWaiters
<1> QED
  BY <1>1

\* Who gets an entry without waiting finds room in the pool.
LEMMA DirectAcquireHasRoom ==
    ASSUME TypeOK, NEW r \in Requests,
           AcquireBound(r) \/ AcquireLeastLoaded(r)
    PROVE  Available # {}
<1>1. \E a \in Pooled : HasRoom(a)
  BY BoundHasRoom, SelectedHasRoom DEF AcquireBound, AcquireLeastLoaded
<1> QED
  BY <1>1, NothingAvailable

LEMMA NextNoIdle ==
    ASSUME TypeOK, PoolIdsUnique, QueueMatchesWaiters, NoIdleSlotWhileWaiting,
           [Next]_poolVars
    PROVE  NoIdleSlotWhileWaiting'
<1> USE DEF NoIdleSlotWhileWaiting
<1>1. ASSUME NEW r \in Requests, AcquireBound(r) \/ AcquireLeastLoaded(r)
      PROVE  NoIdleSlotWhileWaiting'
  <2>1. Available # {}
    BY <1>1, DirectAcquireHasRoom
  <2>2. /\ ~draining /\ raised' = raised
        /\ Waiting' = Waiting
    BY <1>1 DEF AcquireBound, AcquireLeastLoaded, HandOver, Waiting, TypeOK
  <2> QED
    BY <2>1, <2>2
<1>2. ASSUME NEW r \in Requests, Enqueue(r)
      PROVE  NoIdleSlotWhileWaiting'
  BY <1>2 DEF Enqueue, Available, HasRoom, entryVars
<1>3. ASSUME NEW r \in Requests,
             AbandonWait(r) \/ Resume(r) \/ LoseGrant(r) \/ LoseHeld(r)
      PROVE  NoIdleSlotWhileWaiting'
  <2>1. /\ Waiting' \subseteq Waiting /\ ~draining /\ raised' = raised
        /\ UNCHANGED entryVars
    BY <1>3 DEF AbandonWait, Resume, LoseGrant, LoseHeld, Forget, Waiting, TypeOK
  <2> QED
    BY <2>1 DEF Available, HasRoom, entryVars
<1>4. ASSUME draining'
      PROVE  NoIdleSlotWhileWaiting'
  BY <1>4
<1>5. ASSUME NEW r \in Requests, Release(r)
      PROVE  draining'
  BY <1>5 DEF Release
<1>6. ASSUME DrainGrant \/ DrainSkip
      PROVE  draining'
  BY <1>6 DEF DrainGrant, DrainSkip, entryVars
<1>7. ASSUME DrainStop
      PROVE  NoIdleSlotWhileWaiting'
  BY <1>7, EmptyQueue DEF DrainStop, Available, HasRoom, Waiting, entryVars
<1>8. ASSUME NEW a \in Accounts, AddEntry(a)
      PROVE  NoIdleSlotWhileWaiting'
  BY <1>8 DEF AddEntry
<1>9. ASSUME ~draining, raised' = raised, Waiting' = Waiting,
             \A a \in Pooled' : a \in Pooled /\ (HasRoom(a)' => HasRoom(a))
      PROVE  NoIdleSlotWhileWaiting'
  BY <1>9, NothingAvailable, NothingAvailableNext
<1>10. ASSUME NEW a \in Accounts, NEW h \in BOOLEAN, UpdateHealth(a, h)
       PROVE  NoIdleSlotWhileWaiting'
  <2>1. CASE h
    BY <1>10, <2>1 DEF UpdateHealth
  <2>2. CASE ~h
    <3>1. /\ ~draining /\ Waiting' = Waiting
          /\ Pooled' = Pooled /\ raised' = raised
      BY <1>10, <2>2 DEF UpdateHealth, Waiting, Pooled, TypeOK
    <3>2. \A b \in Pooled : HasRoom(b)' => HasRoom(b)
      BY <1>10, <2>2, PooledAccounts DEF UpdateHealth, HasRoom, TypeOK
    <3> QED
      BY <1>9, <3>1, <3>2
  <2> QED
    BY <2>1, <2>2
<1>11. ASSUME NEW a \in Accounts, NEW m \in 0..MaxC, UpdateMaxConcurrency(a, m)
       PROVE  NoIdleSlotWhileWaiting'
  <2>1. CASE m > maxConcurrency[a]
    BY <1>11, <2>1 DEF UpdateMaxConcurrency
  <2>2. CASE ~(m > maxConcurrency[a])
    <3>1. /\ ~draining /\ Waiting' = Waiting
          /\ Pooled' = Pooled /\ raised' = raised
      BY <1>11, <2>2 DEF UpdateMaxConcurrency, Waiting, Pooled, TypeOK
    <3>2. \A b \in Pooled : HasRoom(b)' => HasRoom(b)
      BY <1>11, <2>2, PooledAccounts DEF UpdateMaxConcurrency, HasRoom, TypeOK
    <3> QED
      BY <1>9, <3>1, <3>2
  <2> QED
    BY <2>1, <2>2
<1>12. ASSUME NEW a \in Accounts, RemoveEntry(a)
       PROVE  NoIdleSlotWhileWaiting'
  <2>1. Pooled' = Pooled \ {a}
    BY <1>12, RemovedEntry
  <2>2. ~draining /\ Waiting' = Waiting /\ raised' = raised
    BY <1>12 DEF RemoveEntry, Waiting
  <2>3. \A b \in Pooled' : HasRoom(b)' => HasRoom(b)
    BY <1>12, <2>1, PooledAccounts DEF RemoveEntry, HasRoom, TypeOK
  <2> QED
    BY <1>9, <2>1, <2>2, <2>3
<1>13. ASSUME UNCHANGED <<entryVars, stage, draining, raised>>
       PROVE  NoIdleSlotWhileWaiting'
  BY <1>13 DEF Available, HasRoom, Waiting, entryVars
<1> QED
  BY <1>1, <1>2, <1>3, <1>4, <1>5, <1>6, <1>7, <1>8, <1>10, <1>11, <1>12, <1>13
     DEF Next, Acquire, Drain, Administer, UnknownEntry, Bind, Unbind, entryVars,
         poolVars

-----------------------------------------------------------------------------
(* The inductive invariant and what follows from it.                       *)

LEMMA InitInv == Init => PoolInv
<1> SUFFICES ASSUME Init PROVE PoolInv
  OBVIOUS
<1>1. TypeOK
  BY InitType
<1>2. BindingsConsistent
  BY InitTable DEF Init, TableInv
<1>3. \A a : Holders(a) \subseteq {r \in Requests : None = a}
  BY DEF Init, InitPoolState, Holders
<1>4. \A a \in Accounts : Holders(a) = {}
  BY <1>3, BindingsAssumption
<1>5. PoolIdsUnique
  BY <1>4, PoolAssumption DEF Init, InitPoolState, PoolIdsUnique
<1>6. SlotMatchesStage
  BY DEF Init, InitPoolState, SlotMatchesStage
<1>7. SlotAccounting
  <2>1. \A a \in Accounts : active[a] = 0 /\ leaked[a] = 0
    BY DEF Init, InitPoolState
  <2>2. \A a \in Accounts : Cardinality(Holders(a)) = 0
    BY <1>4, FS_EmptySet
  <2> QED
    BY <1>1, <2>1, <2>2, PooledAccounts DEF SlotAccounting
<1>8. QueueMatchesWaiters /\ NoIdleSlotWhileWaiting
  <2>1. Waiting = {} /\ waitQueue = <<>>
    BY DEF Init, InitPoolState, Waiting
  <2> QED
    BY <2>1 DEF QueueMatchesWaiters, NoIdleSlotWhileWaiting
<1> QED
  BY <1>1, <1>2, <1>5, <1>6, <1>7, <1>8 DEF PoolInv

LEMMA NextBindingsConsistent ==
    ASSUME TypeOK, BindingsConsistent, [Next]_poolVars
    PROVE  BindingsConsistent'
<1> TableInv
  BY DEF TableInv, TypeOK
<1>1. ASSUME NEW a \in Accounts, RemoveEntry(a)
      PROVE  TableInv'
  BY <1>1, DropKeepsTable DEF RemoveEntry
<1>2. ASSUME NEW s \in Sessions, NEW a \in Accounts, Bind(s, a)
      PROVE  TableInv'
  BY <1>2, BindKeepsTable DEF Bind
<1>3. ASSUME NEW s \in Sessions, Unbind(s)
      PROVE  TableInv'
  BY <1>3, UnbindKeepsTable DEF Unbind
<1>4. ASSUME UNCHANGED bindingVars
      PROVE  TableInv'
  BY <1>4, StutterKeepsTable
<1> QED
  BY <1>1, <1>2, <1>3, <1>4
     DEF Next, Acquire, AcquireBound, AcquireLeastLoaded, Enqueue, AbandonWait,
         Resume, LoseGrant, LoseHeld, Forget, Release, Drain, DrainGrant,
         DrainSkip, DrainStop, Administer, AddEntry, UpdateHealth,
         UpdateMaxConcurrency, UnknownEntry, poolVars, bindingVars, TableInv

LEMMA NextInv == PoolInv /\ [Next]_poolVars => PoolInv'
BY NextType, NextBindingsConsistent, NextIdsUnique, NextSlotMatches,
   NextAccounting, NextQueue, NextNoIdle DEF PoolInv

\* PoolInv holds in every reachable state of the pool.
THEOREM PoolInvariant == Spec => []PoolInv
BY InitInv, NextInv, PTL DEF Spec

\* Every variable keeps its type.
THEOREM PoolTypes == Spec => []TypeOK
<1>1. PoolInv => TypeOK
  BY DEF PoolInv
<1> QED
  BY <1>1, PoolInvariant, PTL

\* active_count is exact on every pooled entry.
THEOREM PoolCountsExact == Spec => []SlotAccounting
<1>1. PoolInv => SlotAccounting
  BY DEF PoolInv
<1> QED
  BY <1>1, PoolInvariant, PTL

\* Every waiting request is in the queue exactly once.
THEOREM PoolNoLostWaiter == Spec => []QueueMatchesWaiters
<1>1. PoolInv => QueueMatchesWaiters
  BY DEF PoolInv
<1> QED
  BY <1>1, PoolInvariant, PTL

\* No slot is idle while a request waits, unless capacity was added since
\* the last drain.
THEOREM PoolNoIdleSlot == Spec => []NoIdleSlotWhileWaiting
<1>1. PoolInv => NoIdleSlotWhileWaiting
  BY DEF PoolInv
<1> QED
  BY <1>1, PoolInvariant, PTL

-----------------------------------------------------------------------------
(* What a step may never do.                                               *)

\* Entries are handed out within their limit, and only by the affinity
\* path, the least-loaded path and the drain.
LEMMA StepCommits ==
    ASSUME PoolInv, [Next]_poolVars
    PROVE  CommitWithinLimit
<1> TypeOK
  BY DEF PoolInv
<1> USE DEF CommitWithinLimit
<1>1. ASSUME NEW r \in Requests, NEW b \in Pooled, NEW st,
             HasRoom(b), HandOver(r, b, st)
      PROVE  CommitWithinLimit
  BY <1>1, PooledAccounts DEF HasRoom, HandOver, TypeOK
<1>2. ASSUME NEW r \in Requests, AcquireBound(r)
      PROVE  CommitWithinLimit
  BY <1>1, <1>2, BoundHasRoom DEF AcquireBound
<1>3. ASSUME NEW r \in Requests, AcquireLeastLoaded(r)
      PROVE  CommitWithinLimit
  BY <1>1, <1>3, SelectedHasRoom DEF AcquireLeastLoaded
<1>4. ASSUME DrainGrant
      PROVE  CommitWithinLimit
  <2>1. Head(waitQueue) \in Requests
    BY <1>4 DEF DrainGrant, TypeOK
  <2> QED
    BY <1>1, <1>4, <2>1, SelectedHasRoom DEF DrainGrant
<1>5. ASSUME NEW b \in Accounts, RemoveEntry(b)
      PROVE  CommitWithinLimit
  BY <1>5 DEF RemoveEntry, TypeOK
<1>6. ASSUME NEW b \in Accounts, AddEntry(b)
      PROVE  CommitWithinLimit
  BY <1>6 DEF AddEntry, TypeOK
<1>7. ASSUME UNCHANGED active
      PROVE  CommitWithinLimit
  BY <1>7 DEF TypeOK
<1>8. ASSUME NEW r \in Requests, Release(r)
      PROVE  CommitWithinLimit
  BY <1>8 DEF Release, TypeOK
<1> QED
  BY <1>2, <1>3, <1>4, <1>5, <1>6, <1>7, <1>8
     DEF Next, Acquire, Enqueue, AbandonWait, Resume, LoseGrant, LoseHeld, Forget,
         Drain, DrainSkip, DrainStop, Administer, UpdateHealth,
         UpdateMaxConcurrency, UnknownEntry, Bind, Unbind, entryVars, poolVars

\* No entry is ever handed out beyond its limit, out of service or removed.
THEOREM PoolNeverOverCommits == Spec => NeverOverCommit
<1>1. PoolInv /\ [Next]_poolVars => [CommitWithinLimit]_poolVars
  BY StepCommits
<1> QED
  BY <1>1, PoolInvariant, PTL DEF Spec, NeverOverCommit

LEMMA StepServesWaiters ==
    ASSUME PoolInv, [Next]_poolVars
    PROVE  ServeWaitersFirst
<1> SUFFICES ASSUME NEW r \in Requests,
                    stage[r] = "idle", stage'[r] = "holding", ~raised
             PROVE  Waiting = {}
  BY DEF ServeWaitersFirst
<1> TypeOK /\ NoIdleSlotWhileWaiting
  BY DEF PoolInv
<1>1. AcquireBound(r) \/ AcquireLeastLoaded(r)
  <2>1. ASSUME NEW q \in Requests,
               AcquireBound(q) \/ AcquireLeastLoaded(q) \/ Resume(q)
        PROVE  AcquireBound(r) \/ AcquireLeastLoaded(r)
    BY <2>1 DEF AcquireBound, AcquireLeastLoaded, HandOver, Resume, TypeOK
  <2>2. ASSUME NEW q \in Requests,
               Enqueue(q) \/ AbandonWait(q) \/ LoseGrant(q) \/ LoseHeld(q)
               \/ Release(q)
        PROVE  FALSE
    BY <2>2 DEF Enqueue, AbandonWait, LoseGrant, LoseHeld, Forget, Release, TypeOK
  <2>3. ~DrainGrant
    BY DEF DrainGrant, HandOver, TypeOK
  <2> QED
    BY <2>1, <2>2, <2>3
       DEF Next, Acquire, Drain, DrainSkip, DrainStop, Administer, AddEntry,
           UpdateHealth, UpdateMaxConcurrency, RemoveEntry, UnknownEntry, Bind,
           Unbind, poolVars
<1>2. Available # {}
  BY <1>1, DirectAcquireHasRoom
<1> QED
  BY <1>1, <1>2 DEF NoIdleSlotWhileWaiting, AcquireBound, AcquireLeastLoaded

\* A new request never overtakes a waiting one, unless capacity was added
\* since the last drain.
THEOREM PoolFirstComeFirstServed == Spec => NoBarging
<1>1. PoolInv /\ [Next]_poolVars => [ServeWaitersFirst]_poolVars
  BY StepServesWaiters
<1> QED
  BY <1>1, PoolInvariant, PTL DEF Spec, NoBarging

-----------------------------------------------------------------------------
(* The pool implements the ledger of slots.                                *)

\* The load the ledger counts is active_count.
LEMMA LoadIsActive ==
    ASSUME PoolInv, NEW a \in Pooled
    PROVE  Ledger!Load(a) = active[a]
<1>1. Ledger!Cardinality({r \in Requests : slot[r] = a})
        = Cardinality({r \in Requests : slot[r] = a})
  BY DEF Ledger!Cardinality, Cardinality
<1> QED
  BY <1>1 DEF PoolInv, SlotAccounting, Holders, Ledger!Load

LEMMA LimitType == TypeOK => ServiceLimit \in [Accounts -> 0..MaxC]
<1> SUFFICES ASSUME TypeOK, NEW a \in Accounts
             PROVE  (IF a \in Pooled /\ healthy[a] THEN maxConcurrency[a] ELSE 0)
                       \in 0..MaxC
  BY DEF ServiceLimit
<1> QED
  BY PoolAssumption DEF TypeOK

LEMMA NextLimitType == TypeOK' => ServiceLimit' \in [Accounts -> 0..MaxC]
<1> SUFFICES ASSUME TypeOK', NEW a \in Accounts
             PROVE  (IF a \in Pooled' /\ healthy'[a] THEN maxConcurrency'[a] ELSE 0)
                       \in 0..MaxC
  BY DEF ServiceLimit
<1> QED
  BY PoolAssumption DEF TypeOK

\* Handing an entry to a request that has none is taking a slot.
LEMMA HandOverTakes ==
    ASSUME PoolInv, NEW r \in Requests, NEW a \in Pooled, NEW st,
           slot[r] = None, HasRoom(a), HandOver(r, a, st),
           UNCHANGED <<pool, maxConcurrency, healthy, retired, leaked>>
    PROVE  Ledger!Next
<1>1. a \in Accounts /\ a \notin retired
  BY PooledAccounts DEF PoolInv, PoolIdsUnique
<1>2. Ledger!Load(a) < ServiceLimit[a]
  BY <1>1, LoadIsActive DEF HasRoom, ServiceLimit
<1>3. ServiceLimit' = ServiceLimit
  BY DEF ServiceLimit, Pooled
<1>4. Ledger!Take(r, a)
  BY <1>1, <1>2, <1>3 DEF Ledger!Take, HandOver
<1> QED
  BY <1>1, <1>4 DEF Ledger!Next

\* Every step of the pool is a step of the ledger or leaves it unchanged.
LEMMA StepImplements ==
    ASSUME PoolInv, [Next]_poolVars
    PROVE  [Ledger!Next]_(Ledger!ledgerVars)
<1> TypeOK /\ SlotMatchesStage /\ PoolIdsUnique /\ QueueMatchesWaiters
  BY DEF PoolInv
<1>1. ASSUME NEW r \in Requests, AcquireBound(r)
      PROVE  Ledger!Next
  <2>1. slot[r] = None
    BY <1>1 DEF AcquireBound, SlotMatchesStage
  <2> QED
    BY <1>1, <2>1, BoundHasRoom, HandOverTakes DEF AcquireBound
<1>2. ASSUME NEW r \in Requests, AcquireLeastLoaded(r)
      PROVE  Ledger!Next
  <2>1. slot[r] = None
    BY <1>2 DEF AcquireLeastLoaded, SlotMatchesStage
  <2> QED
    BY <1>2, <2>1, SelectedHasRoom, HandOverTakes DEF AcquireLeastLoaded
<1>3. ASSUME DrainGrant
      PROVE  Ledger!Next
  <2>1. 1 \in DOMAIN waitQueue /\ Head(waitQueue) = waitQueue[1]
    BY <1>3 DEF DrainGrant, TypeOK
  <2>2. Head(waitQueue) \in Waiting
    BY <1>3, <2>1 DEF DrainGrant, QueueMatchesWaiters
  <2>3. Head(waitQueue) \in Requests /\ slot[Head(waitQueue)] = None
    BY <2>2 DEF Waiting, SlotMatchesStage
  <2> QED
    BY <1>3, <2>3, SelectedHasRoom, HandOverTakes DEF DrainGrant
<1>4. ASSUME NEW r \in Requests, Release(r)
      PROVE  Ledger!Next
  <2>1. slot[r] # None
    BY <1>4 DEF Release, SlotMatchesStage
  <2>2. ServiceLimit' = ServiceLimit
    BY <1>4 DEF Release, ServiceLimit, Pooled
  <2>3. Ledger!Return(r)
    BY <1>4, <2>1, <2>2 DEF Release, Ledger!Return
  <2> QED
    BY <2>3 DEF Ledger!Next
<1>5. ASSUME NEW r \in Requests, stage[r] \in {"granted", "holding"}, Forget(r)
      PROVE  Ledger!Next
  <2>1. slot[r] # None /\ slot[r] \in Accounts
    BY <1>5 DEF SlotMatchesStage, TypeOK
  <2>2. slot[r] \in Pooled <=> slot[r] \notin retired
    <3>1. r \in Holders(slot[r])
      BY DEF Holders
    <3> QED
      BY <2>1, <3>1 DEF PoolIdsUnique
  <2>3. ServiceLimit' = ServiceLimit
    BY <1>5 DEF Forget, ServiceLimit, Pooled, entryVars
  <2>4. Ledger!Lose(r)
    BY <1>5, <2>1, <2>2, <2>3 DEF Forget, Ledger!Lose, entryVars
  <2> QED
    BY <2>4 DEF Ledger!Next
<1>6. ASSUME NEW a \in Accounts, a \notin retired,
             UNCHANGED <<slot, leaked, retired>>,
             \A b \in Accounts \ {a} : /\ b \in Pooled' <=> b \in Pooled
                                       /\ healthy'[b] = healthy[b]
                                       /\ maxConcurrency'[b] = maxConcurrency[b],
             TypeOK'
      PROVE  Ledger!Next
  <2> DEFINE m == ServiceLimit'[a]
  <2>1. ServiceLimit \in [Accounts -> 0..MaxC] /\ ServiceLimit' \in [Accounts -> 0..MaxC]
    <3>1. ServiceLimit \in [Accounts -> 0..MaxC]
      BY LimitType
    <3> QED
      BY <1>6, <3>1, NextLimitType
  <2>2. \A b \in Accounts \ {a} : ServiceLimit'[b] = ServiceLimit[b]
    BY <1>6 DEF ServiceLimit
  <2>3. ServiceLimit' = [ServiceLimit EXCEPT ![a] = m] /\ m \in 0..MaxC
    BY <2>1, <2>2
  <2> HIDE DEF m
  <2>4. Ledger!Resize(a, m)
    BY <1>6, <2>3 DEF Ledger!Resize
  <2> QED
    BY <2>3, <2>4 DEF Ledger!Next
<1>t. TypeOK'
  BY NextType DEF PoolInv
<1>7. ASSUME NEW a \in Accounts, AddEntry(a)
      PROVE  Ledger!Next
  <2>1. Pooled' = Pooled \cup {a}
    BY <1>7, AddedEntry
  <2>2. leaked' = leaked
    BY <1>7 DEF AddEntry
  <2> QED
    BY <1>6, <1>7, <1>t, <2>1, <2>2 DEF AddEntry, TypeOK
<1>8. ASSUME NEW a \in Accounts, NEW h \in BOOLEAN, UpdateHealth(a, h)
      PROVE  Ledger!Next
  <2>1. a \notin retired /\ Pooled' = Pooled
    BY <1>8 DEF UpdateHealth, PoolIdsUnique, Pooled
  <2> QED
    BY <1>6, <1>8, <1>t, <2>1 DEF UpdateHealth, TypeOK
<1>9. ASSUME NEW a \in Accounts, NEW m \in 0..MaxC, UpdateMaxConcurrency(a, m)
      PROVE  Ledger!Next
  <2>1. a \notin retired /\ Pooled' = Pooled
    BY <1>9 DEF UpdateMaxConcurrency, PoolIdsUnique, Pooled
  <2> QED
    BY <1>6, <1>9, <1>t, <2>1 DEF UpdateMaxConcurrency, TypeOK
<1>10. ASSUME NEW a \in Accounts, RemoveEntry(a)
       PROVE  Ledger!Next
  <2>1. Pooled' = Pooled \ {a} /\ a \notin retired
    BY <1>10, RemovedEntry DEF RemoveEntry, PoolIdsUnique
  <2>2. ServiceLimit' = [ServiceLimit EXCEPT ![a] = 0]
    BY <1>10, <2>1 DEF RemoveEntry, ServiceLimit
  <2>3. Ledger!Retire(a)
    BY <1>10, <2>1, <2>2 DEF RemoveEntry, Ledger!Retire
  <2> QED
    BY <2>3 DEF Ledger!Next
<1>11. ASSUME UNCHANGED <<pool, maxConcurrency, healthy, retired, slot, leaked>>
       PROVE  UNCHANGED Ledger!ledgerVars
  BY <1>11 DEF Ledger!ledgerVars, ServiceLimit, Pooled
<1> QED
  BY <1>1, <1>2, <1>3, <1>4, <1>5, <1>7, <1>8, <1>9, <1>10, <1>11
     DEF Next, Acquire, Enqueue, AbandonWait, Resume, LoseGrant, LoseHeld, Drain,
         DrainSkip, DrainStop, Administer, UnknownEntry, Bind, Unbind, entryVars,
         poolVars

\* AccountPool implements SlotLedger.
THEOREM PoolImplementsLedger == Spec => ImplementsLedger
<1>1. Init => Ledger!Init
  <2>1. Init => TypeOK
    BY InitType
  <2> QED
    BY <2>1, LimitType DEF Init, InitPoolState, Ledger!Init
<1>2. PoolInv /\ [Next]_poolVars => [Ledger!Next]_(Ledger!ledgerVars)
  BY StepImplements
<1> QED
  BY <1>1, <1>2, PoolInvariant, PTL DEF Spec, ImplementsLedger, Ledger!Spec
=============================================================================
