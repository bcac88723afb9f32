----------------------------- MODULE SlotLedger -----------------------------
(***************************************************************************)
(* What AccountPool promises its callers: a ledger of who owns a slot of   *)
(* which account.  There are no counters, queues, timers or bindings; only *)
(* the owner of each slot, the limit of each account, and the slots lost   *)
(* with an owner that never gave them back.                                *)
(***************************************************************************)
EXTENDS Integers, FiniteSets

CONSTANTS Requests, Accounts, None, MaxC

VARIABLES
    owner,      \* request -> the account whose slot it owns, or None
    capacity,   \* account -> slots it may give out: 0 unless in service
    lost,       \* account -> slots that never come back
    gone        \* accounts taken out for good

ledgerVars == <<owner, capacity, lost, gone>>

Load(a) == Cardinality({r \in Requests : owner[r] = a}) + lost[a]

Init ==
    /\ owner = [r \in Requests |-> None]
    /\ capacity \in [Accounts -> 0..MaxC]
    /\ lost = [a \in Accounts |-> 0]
    /\ gone = {}

\* A slot is taken only below the limit the account has at that moment.
Take(r, a) ==
    /\ owner[r] = None
    /\ a \notin gone
    /\ Load(a) < capacity[a]
    /\ owner' = [owner EXCEPT ![r] = a]
    /\ UNCHANGED <<capacity, lost, gone>>

Return(r) ==
    /\ owner[r] # None
    /\ owner' = [owner EXCEPT ![r] = None]
    /\ UNCHANGED <<capacity, lost, gone>>

\* The owner disappears and its slot stays occupied.
Lose(r) ==
    /\ owner[r] # None
    /\ owner' = [owner EXCEPT ![r] = None]
    /\ lost' = IF owner[r] \in gone THEN lost
               ELSE [lost EXCEPT ![owner[r]] = @ + 1]
    /\ UNCHANGED <<capacity, gone>>

Resize(a, m) ==
    /\ a \notin gone
    /\ capacity' = [capacity EXCEPT ![a] = m]
    /\ UNCHANGED <<owner, lost, gone>>

Retire(a) ==
    /\ a \notin gone
    /\ gone' = gone \cup {a}
    /\ capacity' = [capacity EXCEPT ![a] = 0]
    /\ lost' = [lost EXCEPT ![a] = 0]
    /\ UNCHANGED owner

Next ==
    \/ \E r \in Requests : \/ \E a \in Accounts : Take(r, a)
                           \/ Return(r)
                           \/ Lose(r)
    \/ \E a \in Accounts : \/ \E m \in 0..MaxC : Resize(a, m)
                           \/ Retire(a)

Spec == Init /\ [][Next]_ledgerVars
=============================================================================
