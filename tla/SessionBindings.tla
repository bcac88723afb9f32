-------------------------- MODULE SessionBindings --------------------------
(***************************************************************************)
(* The session-affinity table of AccountPool (app/services/account_pool.py):*)
(*                                                                         *)
(*   _session_bindings   an OrderedDict session_id -> account_id           *)
(*   _account_sessions   its inverse, account_id -> set of session ids     *)
(*                                                                         *)
(* Every method below is synchronous, so each is one action.  The order of *)
(* the OrderedDict only decides which binding is evicted, so it is kept as *)
(* the relation insertedBefore on the bound sessions.  A missing key of    *)
(* _account_sessions and an empty set behave alike in every method and are *)
(* both the empty set here.                                                *)
(***************************************************************************)
EXTENDS Integers, FiniteSets

CONSTANTS
    Accounts,            \* account ids
    Sessions,            \* session ids (non-empty strings in the code)
    None,                \* "no account"
    MaxSessionBindings   \* _max_session_bindings, 10000 in the code

ASSUME BindingsAssumption ==
    /\ None \notin Accounts
    /\ MaxSessionBindings \in Nat \ {0}
    /\ IsFiniteSet(Sessions)

VARIABLES
    sessionBindings,     \* session -> the account it is bound to, or None
    insertedBefore,      \* <<s, t>>: the key s precedes the key t
    accountSessions      \* account -> sessions filed under it

bindingVars == <<sessionBindings, insertedBefore, accountSessions>>

BoundSessions == {s \in Sessions : sessionBindings[s] # None}

\* What popitem(last=False) can return: the first key of the OrderedDict.
OldestBindings ==
    {s \in BoundSessions :
        \A t \in BoundSessions \ {s} : <<s, t>> \in insertedBefore}

-----------------------------------------------------------------------------
InitBindings ==
    /\ sessionBindings = [s \in Sessions |-> None]
    /\ insertedBefore = {}
    /\ accountSessions = [a \in Accounts |-> {}]

\* What the eviction loop of bind_session removes.  The loop runs while
\* len >= max; it never runs twice, because the table never exceeds max.
EvictionChoices ==
    IF Cardinality(BoundSessions) >= MaxSessionBindings
    THEN {{o} : o \in OldestBindings}
    ELSE {{}}

\* The session sets once the sessions in dropped are discarded, each from
\* the set of the account it is bound to.
SessionSetsWithout(dropped) ==
    [b \in Accounts |->
        accountSessions[b] \ {t \in dropped : sessionBindings[t] = b}]

OrderWithin(S) == insertedBefore \cap (S \X S)

\* Mutant of BindSession: the session stays filed under its old account.
BindKeepingOldAccount(s, a) ==
    \E evicted \in EvictionChoices :
        LET kept == BoundSessions \ evicted
            sets == SessionSetsWithout(evicted)
        IN  /\ sessionBindings' =
                 [t \in Sessions |-> IF t = s THEN a
                                     ELSE IF t \in evicted THEN None
                                     ELSE sessionBindings[t]]
            /\ insertedBefore' =
                 OrderWithin(kept) \cup
                 (IF s \in kept THEN {} ELSE kept \X {s})
            /\ accountSessions' = [sets EXCEPT ![a] = @ \cup {s}]

\* bind_session.  Assigning to a key that is still present keeps its place
\* in the OrderedDict; the evicted key may be s itself.
BindSession(s, a) ==
    \E evicted \in EvictionChoices :
        LET kept == BoundSessions \ evicted
            sets == SessionSetsWithout(evicted \cup {s})
        IN  /\ sessionBindings' =
                 [t \in Sessions |-> IF t = s THEN a
                                     ELSE IF t \in evicted THEN None
                                     ELSE sessionBindings[t]]
            /\ insertedBefore' =
                 OrderWithin(kept) \cup
                 (IF s \in kept THEN {} ELSE kept \X {s})
            /\ accountSessions' = [sets EXCEPT ![a] = @ \cup {s}]

\* unbind_session.
UnbindSession(s) ==
    /\ sessionBindings' = [sessionBindings EXCEPT ![s] = None]
    /\ insertedBefore' = OrderWithin(BoundSessions \ {s})
    /\ accountSessions' = SessionSetsWithout({s})

\* The clean-up in remove_entry: every session filed under the account
\* loses its binding, and the account's set is deleted.
DropAccountSessions(a) ==
    /\ sessionBindings' =
         [s \in Sessions |-> IF s \in accountSessions[a] THEN None
                             ELSE sessionBindings[s]]
    /\ insertedBefore' = OrderWithin(BoundSessions \ accountSessions[a])
    /\ accountSessions' = [accountSessions EXCEPT ![a] = {}]

NextBindings ==
    \/ \E s \in Sessions, a \in Accounts : BindSession(s, a)
    \/ \E s \in Sessions : UnbindSession(s)
    \/ \E a \in Accounts : DropAccountSessions(a)

SpecBindings == InitBindings /\ [][NextBindings]_bindingVars

-----------------------------------------------------------------------------
\* Type invariant of the table.
TypeOKBindings ==
    /\ sessionBindings \in [Sessions -> Accounts \cup {None}]
    /\ insertedBefore \subseteq Sessions \X Sessions
    /\ accountSessions \in [Accounts -> SUBSET Sessions]

\* The two dictionaries are inverse to each other after every sequence of
\* bind, unbind, eviction and account removal: remove_entry unbinds exactly
\* the sessions bound to the account, never one that moved on or a stale one.
BindingsConsistent ==
    \A s \in Sessions, a \in Accounts :
        s \in accountSessions[a] <=> sessionBindings[s] = a

\* The OrderedDict never holds more than _max_session_bindings keys.
BindingsBounded == Cardinality(BoundSessions) <= MaxSessionBindings
=============================================================================
