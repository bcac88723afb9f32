------------------------- MODULE ConfigStoreProofs -------------------------
(***************************************************************************)
(* Proofs about ConfigStore, for every set of keys, templates, coroutines  *)
(* and requests, every quota, limit and bound: the queue of saves fits its *)
(* callers, nothing is forgotten on the way to config.json, the key check  *)
(* never answers from an old list, and the two limits that are checked     *)
(* first, counted later and edited meanwhile are overrun by no more than   *)
(* the others under way and what an edit has left over.                    *)
(***************************************************************************)
EXTENDS ConfigStore, NaturalsInduction, WellFoundedInduction, FiniteSetTheorems, TLAPS

----------------------------------------------------------------------------
(* Numbers.  The induction principle is stated for a set, because a theorem *)
(* about an operator cannot be instantiated by the provers.                *)

\* A set of numbers that holds 0 and every successor holds them all.
LEMMA Induct ==
    ASSUME NEW T, 0 \in T, \A n \in Nat : n \in T => n + 1 \in T
    PROVE  Nat \subseteq T
<1>1. SUFFICES ASSUME Nat \ T # {} PROVE FALSE
  BY Zenon
<1> DEFINE R == OpToRel(<, Nat)
<1>2. IsWellFoundedOn(R, Nat)
  BY NatLessThanWellFounded, Zenon
<1>3. \A p \in Nat \X Nat : p[1] < p[2] => p \in R
  BY Zenon DEF OpToRel
<1> HIDE DEF R
<1>4. \A x, y \in Nat : x < y => <<x, y>> \in R
  BY <1>3
<1>5. PICK x \in Nat \ T : \A y \in Nat \ T : <<y, x>> \notin R
  <2>1. Nat \ T \subseteq Nat
    BY Zenon
  <2>2. QED
    BY <1>1, <1>2, <2>1, WFMin, Zenon
<1>6. x \in Nat /\ x # 0
  BY <1>5
<1>7. x - 1 \in Nat /\ x - 1 < x /\ (x - 1) + 1 = x
  BY <1>6
<1>8. x - 1 \in T
  BY <1>4, <1>5, <1>6, <1>7, Zenon
<1>9. QED
  BY <1>5, <1>7, <1>8

\* A non-empty set of numbers below a bound has a greatest one.
LEMMA Greatest ==
    ASSUME NEW m \in Nat, NEW P \in SUBSET (1..m), P # {}
    PROVE  \E x \in P : \A y \in P : y <= x
<1> DEFINE T == {n \in Nat : \A Q \in SUBSET (1..n) :
                                Q # {} => \E x \in Q : \A y \in Q : y <= x}
<1>1. 0 \in T
  <2>1. 1..0 = {}
    OBVIOUS
  <2>2. \A Q \in SUBSET (1..0) : Q = {}
    BY <2>1
  <2>3. QED
    BY <2>2
<1>2. ASSUME NEW n \in Nat, n \in T PROVE n + 1 \in T
  <2>1. SUFFICES ASSUME NEW Q \in SUBSET (1..(n + 1)), Q # {}
                 PROVE  \E x \in Q : \A y \in Q : y <= x
    OBVIOUS
  <2>2. CASE n + 1 \in Q
    BY <2>2
  <2>3. CASE n + 1 \notin Q
    <3>1. Q \in SUBSET (1..n)
      BY <2>3
    <3>2. QED
      BY <1>2, <2>1, <3>1
  <2>4. QED
    BY <2>2, <2>3
<1>3. m \in T
  <2> HIDE DEF T
  <2>1. QED
    BY <1>1, <1>2, Induct
<1>4. QED
  BY <1>3

----------------------------------------------------------------------------
(* The list of keys                                                        *)

LEMMA ConfigParts ==
    ASSUME NEW c \in Configs
    PROVE  /\ c.keys \in Seq(Entries) /\ Len(c.keys) \in Nat
           /\ DOMAIN c.keys = 1..Len(c.keys)
           /\ \A i \in DOMAIN c.keys : /\ c.keys[i] \in Entries
                                       /\ c.keys[i].key \in Key /\ c.keys[i].usage \in Nat
           /\ c.templates \in [Template -> Claimable]
           /\ \A p \in Template : c.templates[p].used \in Nat
<1>1. c.keys \in Seq(Entries) /\ c.templates \in [Template -> Claimable]
  BY DEF Configs
<1>2. /\ Len(c.keys) \in Nat /\ DOMAIN c.keys = 1..Len(c.keys)
      /\ \A i \in DOMAIN c.keys : c.keys[i] \in Entries
  BY <1>1
<1>3. \A e \in Entries : e.key \in Key /\ e.usage \in Nat
  BY DEF Entries
<1>4. \A p \in Template : c.templates[p].used \in Nat
  BY <1>1 DEF Claimable
<1>5. QED
  BY <1>1, <1>2, <1>3, <1>4

\* The index holds a position of the key, and the last one.
LEMMA LastIsLast ==
    ASSUME NEW c \in Configs, NEW k \in KeysOf(c)
    PROVE  /\ LastOf(c, k) \in DOMAIN c.keys /\ c.keys[LastOf(c, k)].key = k
           /\ \A j \in DOMAIN c.keys : c.keys[j].key = k => j <= LastOf(c, k)
<1> DEFINE P == PositionsOf(c, k)
<1>1. Len(c.keys) \in Nat /\ DOMAIN c.keys = 1..Len(c.keys)
  BY ConfigParts
<1>2. P \in SUBSET (1..Len(c.keys)) /\ P # {}
  BY <1>1 DEF PositionsOf, KeysOf
<1>3. \E x \in P : \A y \in P : y <= x
  <2> HIDE DEF P
  <2>1. QED
    BY <1>1, <1>2, Greatest
<1>4. LastOf(c, k) \in P /\ \A y \in P : y <= LastOf(c, k)
  BY <1>3, Zenon DEF LastOf
<1>5. QED
  BY <1>4 DEF PositionsOf

\* A position of the key with none after it is the one the index holds.
LEMMA LastIsUnique ==
    ASSUME NEW c \in Configs, NEW i \in DOMAIN c.keys,
           \A j \in DOMAIN c.keys : c.keys[j].key = c.keys[i].key => j <= i
    PROVE  c.keys[i].key \in KeysOf(c) /\ LastOf(c, c.keys[i].key) = i
<1> DEFINE k == c.keys[i].key
<1>1. k \in KeysOf(c)
  BY DEF KeysOf
<1>2. LastOf(c, k) <= i /\ i <= LastOf(c, k)
  BY <1>1, LastIsLast
<1>3. i \in Nat /\ LastOf(c, k) \in Nat
  BY <1>1, LastIsLast, ConfigParts
<1>4. QED
  BY <1>1, <1>2, <1>3

\* What the comprehension of remove_api_key builds, entry by entry.
Prefixes(s, k, m, h) ==
    h = [n \in 0..m |-> IF n = 0 THEN <<>>
                        ELSE IF s[n].key = k THEN h[n - 1] ELSE Append(h[n - 1], s[n])]

LEMMA PrefixesExist ==
    ASSUME NEW s, NEW k
    PROVE  \A m \in Nat : \E h : Prefixes(s, k, m, h)
<1> DEFINE T == {m \in Nat : \E h : Prefixes(s, k, m, h)}
<1>1. 0 \in T
  <2>1. Prefixes(s, k, 0, [n \in 0..0 |-> <<>>])
    BY DEF Prefixes
  <2>2. QED
    BY <2>1
<1>2. ASSUME NEW m \in Nat, m \in T PROVE m + 1 \in T
  <2>1. PICK h : Prefixes(s, k, m, h)
    BY <1>2
  <2> DEFINE x == IF s[m + 1].key = k THEN h[m] ELSE Append(h[m], s[m + 1])
             g == [n \in 0..(m + 1) |-> IF n = m + 1 THEN x ELSE h[n]]
  <2>2. ASSUME NEW n \in 0..(m + 1)
        PROVE  g[n] = IF n = 0 THEN <<>>
                      ELSE IF s[n].key = k THEN g[n - 1] ELSE Append(g[n - 1], s[n])
    <3>1. CASE n = m + 1
      BY <3>1
    <3>2. CASE n # m + 1
      <4>1. n \in 0..m /\ g[n] = h[n] /\ (n # 0 => g[n - 1] = h[n - 1])
        BY <3>2
      <4> HIDE DEF g
      <4>2. QED
        BY <4>1, <2>1 DEF Prefixes
    <3>3. QED
      BY <3>1, <3>2
  <2>3. Prefixes(s, k, m + 1, g)
    BY <2>2 DEF Prefixes
  <2>4. QED
    BY <2>3
<1>3. Nat \subseteq T
  <2> HIDE DEF T
  <2>1. QED
    BY <1>1, <1>2, Induct
<1>4. QED
  BY <1>3

LEMMA WithoutIs ==
    ASSUME NEW s, NEW k, Len(s) \in Nat
    PROVE  \E h : Prefixes(s, k, Len(s), h) /\ Without(s, k) = h[Len(s)]
<1> DEFINE g == CHOOSE h : Prefixes(s, k, Len(s), h)
<1>1. Prefixes(s, k, Len(s), g)
  BY PrefixesExist, Zenon
<1>2. Without(s, k) = g[Len(s)]
  BY Zenon DEF Prefixes, Without
<1>3. QED
  BY <1>1, <1>2, Zenon

\* w consists of the entries of s[1..n] that are not of key k, in their order: f tells where
\* each of them comes from.
Picks(w, s, k, n, f) ==
    /\ f \in [1..Len(w) -> {i \in 1..n : s[i].key # k}]
    /\ \A i \in 1..Len(w) : w[i] = s[f[i]]
    /\ \A i, j \in 1..Len(w) : i < j => f[i] < f[j]
    /\ \A i \in 1..n : s[i].key # k => \E j \in 1..Len(w) : f[j] = i

LEMMA PickNext ==
    ASSUME NEW s \in Seq(Entries), NEW k, NEW n \in Nat, n + 1 <= Len(s), s[n + 1].key # k,
           NEW w \in Seq(Entries), NEW f, Picks(w, s, k, n, f)
    PROVE  \E g : Picks(Append(w, s[n + 1]), s, k, n + 1, g)
<1> DEFINE v == Append(w, s[n + 1])
           g == [i \in 1..Len(v) |-> IF i = Len(v) THEN n + 1 ELSE f[i]]
<1>1. s[n + 1] \in Entries /\ Len(w) \in Nat
  OBVIOUS
<1>2. /\ Len(v) = Len(w) + 1 /\ v[Len(v)] = s[n + 1]
      /\ \A i \in 1..Len(w) : v[i] = w[i]
  BY <1>1
<1> HIDE DEF v
<1>3. \A i \in 1..Len(w) : g[i] = f[i] /\ f[i] \in 1..n /\ s[f[i]].key # k
  BY <1>1, <1>2 DEF Picks
<1>4. g[Len(v)] = n + 1 /\ DOMAIN g = 1..Len(v)
  BY <1>1, <1>2
<1>5. g = [i \in 1..Len(v) |-> g[i]]
  OBVIOUS
<1> HIDE DEF g
<1>6. \A i \in 1..Len(v) : i = Len(v) \/ i \in 1..Len(w)
  BY <1>1, <1>2
<1>7. g \in [1..Len(v) -> {i \in 1..(n + 1) : s[i].key # k}]
  <2>1. n + 1 \in {i \in 1..(n + 1) : s[i].key # k}
    OBVIOUS
  <2>2. \A i \in 1..Len(w) : g[i] \in {j \in 1..(n + 1) : s[j].key # k}
    BY <1>3
  <2>3. \A i \in 1..Len(v) : g[i] \in {j \in 1..(n + 1) : s[j].key # k}
    BY <1>4, <1>6, <2>1, <2>2
  <2>4. QED
    BY <1>5, <2>3, Zenon
<1>8. \A i \in 1..Len(v) : v[i] = s[g[i]]
  BY <1>2, <1>3, <1>4, <1>6 DEF Picks
<1>9. \A i, j \in 1..Len(v) : i < j => g[i] < g[j]
  <2>1. SUFFICES ASSUME NEW i \in 1..Len(v), NEW j \in 1..Len(v), i < j
                 PROVE  g[i] < g[j]
    OBVIOUS
  <2>2. i \in 1..Len(w) /\ g[i] = f[i] /\ f[i] \in 1..n
    BY <1>1, <1>2, <1>3, <2>1
  <2>3. CASE j = Len(v)
    BY <1>4, <2>2, <2>3
  <2>4. CASE j \in 1..Len(w)
    <3>1. g[j] = f[j] /\ f[i] < f[j]
      BY <1>3, <2>1, <2>2, <2>4 DEF Picks
    <3>2. QED
      BY <2>2, <3>1
  <2>5. QED
    BY <1>6, <2>3, <2>4
<1>10. ASSUME NEW i \in 1..(n + 1), s[i].key # k PROVE \E j \in 1..Len(v) : g[j] = i
  <2>1. CASE i = n + 1
    <3>1. Len(v) \in 1..Len(v)
      BY <1>1, <1>2
    <3>2. QED
      BY <1>4, <2>1, <3>1
  <2>2. CASE i \in 1..n
    <3>1. PICK j \in 1..Len(w) : f[j] = i
      BY <1>10, <2>2 DEF Picks
    <3>2. j \in 1..Len(v) /\ g[j] = i
      BY <1>1, <1>2, <1>3, <3>1
    <3>3. QED
      BY <3>2
  <2>3. QED
    BY <2>1, <2>2
<1>11. Picks(v, s, k, n + 1, g)
  BY <1>7, <1>8, <1>9, <1>10 DEF Picks
<1>12. QED
  BY <1>11, Zenon DEF v

\* The list without a key is a list, of exactly the other entries in their order.
LEMMA WithoutPicks ==
    ASSUME NEW s \in Seq(Entries), NEW k
    PROVE  /\ Without(s, k) \in Seq(Entries)
           /\ \E f : Picks(Without(s, k), s, k, Len(s), f)
<1>1. Len(s) \in Nat
  OBVIOUS
<1>2. PICK h : Prefixes(s, k, Len(s), h) /\ Without(s, k) = h[Len(s)]
  BY <1>1, WithoutIs
<1> DEFINE T == {n \in Nat : n <= Len(s) =>
                    h[n] \in Seq(Entries) /\ \E f : Picks(h[n], s, k, n, f)}
<1>3. 0 \in T
  <2>1. h[0] = <<>>
    BY <1>1, <1>2 DEF Prefixes
  <2>2. Picks(<<>>, s, k, 0, <<>>)
    BY DEF Picks
  <2>3. <<>> \in Seq(Entries)
    OBVIOUS
  <2>4. QED
    BY <2>1, <2>2, <2>3
<1>4. ASSUME NEW n \in Nat, n \in T PROVE n + 1 \in T
  <2>1. SUFFICES ASSUME n + 1 <= Len(s)
                 PROVE  h[n + 1] \in Seq(Entries) /\ \E f : Picks(h[n + 1], s, k, n + 1, f)
    OBVIOUS
  <2>2. h[n] \in Seq(Entries) /\ \E f : Picks(h[n], s, k, n, f)
    BY <1>1, <1>4, <2>1
  <2>3. h[n + 1] = IF s[n + 1].key = k THEN h[n] ELSE Append(h[n], s[n + 1])
    <3>1. n + 1 \in 0..Len(s) /\ n + 1 # 0 /\ (n + 1) - 1 = n
      BY <1>1, <2>1
    <3>2. \A i \in 0..Len(s) :
             h[i] = IF i = 0 THEN <<>>
                    ELSE IF s[i].key = k THEN h[i - 1] ELSE Append(h[i - 1], s[i])
      BY <1>2 DEF Prefixes
    <3>3. QED
      BY <3>1, <3>2
  <2>4. s[n + 1] \in Entries
    BY <1>1, <2>1
  <2>5. CASE s[n + 1].key = k
    <3>1. PICK f : Picks(h[n], s, k, n, f)
      BY <2>2
    <3>2. Picks(h[n], s, k, n + 1, f)
      BY <2>2, <2>5, <3>1 DEF Picks
    <3>3. QED
      BY <2>2, <2>3, <2>5, <3>2
  <2>6. CASE s[n + 1].key # k
    BY <2>1, <2>2, <2>3, <2>4, <2>6, PickNext
  <2>7. QED
    BY <2>5, <2>6
<1>5. Len(s) \in T
  <2> HIDE DEF T
  <2>1. QED
    BY <1>1, <1>3, <1>4, Induct
<1>6. QED
  BY <1>1, <1>2, <1>5

----------------------------------------------------------------------------
(* What the operations do to the uses that are counted                     *)

\* Every number of uses is within some overrun, and the one that Excess gives will do.
LEMMA ExcessIs ==
    ASSUME NEW S, IsFiniteSet(S), NEW n \in Nat, NEW limit \in Nat \cup {NoLimit}
    PROVE  /\ Excess(n, limit, S) \in Nat
           /\ limit # NoLimit => n < limit + Excess(n, limit, S) + Cardinality(S)
<1>1. Cardinality(S) \in Nat
  BY FS_CardinalityType
<1>2. CASE limit = NoLimit
  BY <1>2 DEF Excess
<1>3. CASE limit # NoLimit
  BY <1>1, <1>3 DEF Excess
<1>4. QED
  BY <1>2, <1>3

\* The bound that the two limits are shown to keep: for an entry of the list, for a template.
UsesWithin(k, e) ==
    e.quota # NoLimit =>
        e.usage + Cardinality(Admitted(k)) < e.quota + e.over + Cardinality(Request)

ClaimsWithin(p, r) ==
    r.limit # NoLimit =>
        r.used + Cardinality(Claimants(p)) < r.limit + r.over + Cardinality(Task)

LEMMA ActorsAreNumbers ==
    /\ IsFiniteSet(Task) /\ IsFiniteSet(Request)
    /\ Cardinality(Task) \in Nat \ {0} /\ Cardinality(Request) \in Nat \ {0}
    /\ \A k : Admitted(k) \in SUBSET Request /\ Cardinality(Admitted(k)) \in Nat
    /\ \A p : Claimants(p) \in SUBSET Task /\ Cardinality(Claimants(p)) \in Nat
<1>1. IsFiniteSet(Task) /\ IsFiniteSet(Request) /\ Task # {} /\ Request # {}
  BY ConfigAssumption
<1>2. \A k : Admitted(k) \in SUBSET Request
  BY DEF Admitted
<1>3. \A p : Claimants(p) \in SUBSET Task
  BY DEF Claimants
<1>4. \A A \in SUBSET Request : Cardinality(A) \in Nat
  BY <1>1, FS_Subset, FS_CardinalityType
<1>5. \A A \in SUBSET Task : Cardinality(A) \in Nat
  BY <1>1, FS_Subset, FS_CardinalityType
<1>6. Cardinality(Task) # 0 /\ Cardinality(Request) # 0
  BY <1>1, FS_EmptySet
<1>7. QED
  BY <1>1, <1>2, <1>3, <1>4, <1>5, <1>6

LEMMA EntryIs ==
    ASSUME NEW k \in Key, NEW b \in BOOLEAN, NEW q \in Nat \cup {NoLimit}, NEW u \in Nat
    PROVE  /\ Entry(k, b, q, u) \in Entries
           /\ Entry(k, b, q, u).key = k /\ Entry(k, b, q, u).enabled = b
           /\ Entry(k, b, q, u).quota = q /\ Entry(k, b, q, u).usage = u
           /\ UsesWithin(k, Entry(k, b, q, u))
<1> DEFINE n == u + Cardinality(Admitted(k))
           x == Excess(n, q, Request)
<1>1. n \in Nat
  BY ActorsAreNumbers
<1>2. x \in Nat /\ (q # NoLimit => n < q + x + Cardinality(Request))
  <2> HIDE DEF n
  <2>1. QED
    BY <1>1, ActorsAreNumbers, ExcessIs
<1>3. Entry(k, b, q, u) = [key |-> k, enabled |-> b, quota |-> q, usage |-> u, over |-> x]
  BY DEF Entry
<1> HIDE DEF x
<1>4. QED
  BY <1>2, <1>3 DEF Entries, UsesWithin

LEMMA ClaimsIs ==
    ASSUME NEW p \in Template, NEW st \in {"new", "on", "off", "gone"},
           NEW l \in Nat \cup {NoLimit}, NEW u \in Nat
    PROVE  Claims(p, st, l, u) \in Claimable /\ ClaimsWithin(p, Claims(p, st, l, u))
<1> DEFINE n == u + Cardinality(Claimants(p))
           x == Excess(n, l, Task)
<1>1. n \in Nat
  BY ActorsAreNumbers
<1>2. x \in Nat /\ (l # NoLimit => n < l + x + Cardinality(Task))
  <2> HIDE DEF n
  <2>1. QED
    BY <1>1, ActorsAreNumbers, ExcessIs
<1>3. Claims(p, st, l, u) = [status |-> st, limit |-> l, used |-> u, over |-> x]
  BY DEF Claims
<1> HIDE DEF x
<1>4. QED
  BY <1>2, <1>3 DEF Claimable, ClaimsWithin

\* From c to d no count has changed, except that there may be new entries without a use, and an
\* entry that has changed is within its quota and what that left over.
KeepsUsage(c, d) ==
    /\ d \in Configs
    /\ \A i \in DOMAIN d.keys : d.keys[i].usage > 0 => Holds(c, d.keys[i])
    /\ \A k \in KeysOf(d) : \/ UsesWithin(k, Indexed(d, k))
                            \/ k \in KeysOf(c) /\ Indexed(d, k) = Indexed(c, k)

LEMMA EntriesMakeSeq ==
    ASSUME NEW n \in Nat, NEW s, s = [j \in 1..n |-> s[j]], \A j \in 1..n : s[j] \in Entries
    PROVE  s \in Seq(Entries)
OBVIOUS

\* The same keys and counts at the same places.
LEMMA SamePlacesKeep ==
    ASSUME NEW c \in Configs, NEW d \in Configs, DOMAIN d.keys = DOMAIN c.keys,
           \A i \in DOMAIN c.keys :
              /\ d.keys[i].key = c.keys[i].key /\ d.keys[i].usage = c.keys[i].usage
              /\ d.keys[i] = c.keys[i] \/ UsesWithin(c.keys[i].key, d.keys[i])
    PROVE  KeepsUsage(c, d) /\ KeysOf(d) = KeysOf(c)
<1>1. KeysOf(d) = KeysOf(c)
  BY DEF KeysOf
<1>2. ASSUME NEW k \in KeysOf(c)
      PROVE  UsesWithin(k, Indexed(d, k)) \/ Indexed(d, k) = Indexed(c, k)
  <2>1. PositionsOf(d, k) = PositionsOf(c, k)
    BY DEF PositionsOf
  <2>2. LastOf(d, k) = LastOf(c, k)
    BY <2>1, Zenon DEF LastOf
  <2>3. LastOf(c, k) \in DOMAIN c.keys /\ c.keys[LastOf(c, k)].key = k
    BY <1>2, LastIsLast
  <2>4. QED
    BY <2>2, <2>3 DEF Indexed
<1>3. \A i \in DOMAIN d.keys : Holds(c, d.keys[i])
  BY DEF Holds
<1>4. QED
  BY <1>1, <1>2, <1>3 DEF KeepsUsage

LEMMA WithKeyKeeps ==
    ASSUME NEW c \in Configs, NEW k \in Key, NEW quota \in Nat \cup {NoLimit}
    PROVE  /\ KeepsUsage(c, WithKey(c, k, quota))
           /\ WithKey(c, k, quota).templates = c.templates
<1> DEFINE new == Entry(k, TRUE, quota, 0)
           d == WithKey(c, k, quota)
           n == Len(c.keys)
<1>1. d.keys = Append(c.keys, new) /\ d.templates = c.templates
  BY DEF WithKey, Configs
<1>2. new \in Entries /\ new.key = k /\ new.usage = 0 /\ UsesWithin(k, new)
  <2>1. TRUE \in BOOLEAN /\ 0 \in Nat
    OBVIOUS
  <2>2. new \in Entries
    BY <2>1, EntryIs, Zenon
  <2>3. new.key = k
    BY DEF Entry
  <2>4. new.usage = 0
    BY DEF Entry
  <2>5. UsesWithin(k, new)
    BY <2>1, EntryIs, Zenon
  <2>6. QED
    BY <2>2, <2>3, <2>4, <2>5
<1> HIDE DEF new
<1>3. d \in Configs
  <2>1. Append(c.keys, new) \in Seq(Entries)
    BY <1>2, ConfigParts
  <2>2. QED
    BY <2>1, Zenon DEF WithKey, Configs, new
<1>4. /\ n \in Nat /\ DOMAIN c.keys = 1..n /\ DOMAIN d.keys = 1..(n + 1)
      /\ \A i \in 1..n : d.keys[i] = c.keys[i]
      /\ d.keys[n + 1] = new
  BY <1>1, <1>2, ConfigParts
<1> HIDE DEF d
<1>5. ASSUME NEW i \in DOMAIN d.keys, d.keys[i].usage > 0 PROVE Holds(c, d.keys[i])
  BY <1>2, <1>4, <1>5 DEF Holds
<1>6. ASSUME NEW q \in KeysOf(d), q # k
      PROVE  q \in KeysOf(c) /\ Indexed(d, q) = Indexed(c, q)
  <2>1. q \in KeysOf(c)
    BY <1>2, <1>4, <1>6 DEF KeysOf
  <2> DEFINE i == LastOf(c, q)
  <2>2. i \in 1..n /\ c.keys[i].key = q /\ \A j \in 1..n : c.keys[j].key = q => j <= i
    BY <1>4, <2>1, LastIsLast
  <2> HIDE DEF i
  <2>3. i \in DOMAIN d.keys /\ d.keys[i].key = q
    BY <1>4, <2>2
  <2>4. \A j \in DOMAIN d.keys : d.keys[j].key = q => j <= i
    BY <1>2, <1>4, <1>6, <2>2
  <2>5. LastOf(d, q) = i
    BY <1>3, <2>3, <2>4, LastIsUnique
  <2>6. QED
    BY <1>4, <2>1, <2>2, <2>5 DEF Indexed, i
<1>7. UsesWithin(k, Indexed(d, k))
  <2>1. n + 1 \in DOMAIN d.keys /\ d.keys[n + 1].key = k
    BY <1>2, <1>4
  <2>2. \A j \in DOMAIN d.keys : d.keys[j].key = k => j <= n + 1
    BY <1>4
  <2>3. LastOf(d, k) = n + 1
    BY <1>3, <2>1, <2>2, LastIsUnique
  <2>4. QED
    BY <1>2, <1>4, <2>3 DEF Indexed
<1>8. QED
  BY <1>1, <1>3, <1>5, <1>6, <1>7 DEF KeepsUsage, d

LEMMA WithoutKeeps ==
    ASSUME NEW c \in Configs, NEW k
    PROVE  KeepsUsage(c, [c EXCEPT !.keys = Without(@, k)])
<1> DEFINE d == [c EXCEPT !.keys = Without(@, k)]
           s == c.keys
           w == Without(s, k)
<1>1. s \in Seq(Entries) /\ w \in Seq(Entries) /\ Len(s) \in Nat /\ Len(w) \in Nat
  BY ConfigParts, WithoutPicks
<1>2. d.keys = w
  BY DEF Configs
<1>3. d \in Configs
  BY <1>1, Zenon DEF Configs
<1>4. PICK f : Picks(w, s, k, Len(s), f)
  BY ConfigParts, WithoutPicks
<1>5. DOMAIN d.keys = 1..Len(w) /\ DOMAIN c.keys = 1..Len(s)
  BY <1>1, <1>2
<1> HIDE DEF d, w
<1>6. \A i \in 1..Len(w) : f[i] \in 1..Len(s) /\ s[f[i]].key # k /\ d.keys[i] = s[f[i]]
  BY <1>2, <1>4 DEF Picks
<1>7. ASSUME NEW i \in DOMAIN d.keys PROVE Holds(c, d.keys[i])
  BY <1>5, <1>6, Zenon DEF Holds
<1>8. ASSUME NEW q \in KeysOf(d) PROVE q \in KeysOf(c) /\ Indexed(d, q) = Indexed(c, q)
  <2>1. PICK m \in 1..Len(w) : d.keys[m].key = q
    BY <1>5, <1>8 DEF KeysOf
  <2>2. q # k /\ q \in KeysOf(c)
    BY <1>5, <1>6, <2>1 DEF KeysOf
  <2> DEFINE last == LastOf(c, q)
  <2>3. last \in 1..Len(s) /\ s[last].key = q /\ \A j \in 1..Len(s) : s[j].key = q => j <= last
    BY <1>5, <2>2, LastIsLast
  <2> HIDE DEF last
  <2>4. PICK i \in 1..Len(w) : f[i] = last
    BY <1>4, <2>2, <2>3 DEF Picks
  <2>5. i \in DOMAIN d.keys /\ d.keys[i].key = q
    BY <1>5, <1>6, <2>3, <2>4
  <2>6. ASSUME NEW j \in DOMAIN d.keys, d.keys[j].key = q PROVE j <= i
    <3>1. j \in 1..Len(w) /\ f[j] \in 1..Len(s) /\ s[f[j]].key = q
      BY <1>5, <1>6, <2>6
    <3>2. f[j] <= f[i]
      BY <2>3, <2>4, <3>1
    <3>3. i < j => f[i] < f[j]
      BY <1>4, <3>1 DEF Picks
    <3>4. QED
      BY <1>1, <2>3, <2>4, <3>1, <3>2, <3>3
  <2>7. LastOf(d, q) = i
    BY <1>3, <2>5, <2>6, LastIsUnique
  <2>8. QED
    BY <1>6, <2>2, <2>4, <2>7 DEF Indexed, last
<1>9. QED
  BY <1>3, <1>7, <1>8 DEF KeepsUsage, d

LEMMA EntryKeeps ==
    ASSUME NEW c \in Configs, NEW i, NEW b \in BOOLEAN, NEW q \in Nat \cup {NoLimit}
    PROVE  LET d == [c EXCEPT !.keys[i] = Entry(@.key, b, q, @.usage)]
           IN  KeepsUsage(c, d) /\ KeysOf(d) = KeysOf(c) /\ d.templates = c.templates
<1> DEFINE x == Entry(c.keys[i].key, b, q, c.keys[i].usage)
           s == [c.keys EXCEPT ![i] = x]
           d == [c EXCEPT !.keys[i] = Entry(@.key, b, q, @.usage)]
<1>1. /\ Len(c.keys) \in Nat /\ DOMAIN c.keys = 1..Len(c.keys)
      /\ \A j \in DOMAIN c.keys : /\ c.keys[j] \in Entries
                                  /\ c.keys[j].key \in Key /\ c.keys[j].usage \in Nat
  BY ConfigParts
<1>2. d = [c EXCEPT !.keys = s]
  OBVIOUS
<1>3. i \in DOMAIN c.keys => /\ x \in Entries /\ x.key = c.keys[i].key
                             /\ x.usage = c.keys[i].usage
                             /\ UsesWithin(c.keys[i].key, x)
  BY <1>1, EntryIs
<1> HIDE DEF x, d
<1>4. /\ DOMAIN s = DOMAIN c.keys /\ s = [j \in 1..Len(c.keys) |-> s[j]]
      /\ \A j \in DOMAIN c.keys : s[j] = IF j = i THEN x ELSE c.keys[j]
  BY <1>1
<1> HIDE DEF s
<1>5. \A j \in DOMAIN c.keys :
         /\ s[j] \in Entries
         /\ s[j].key = c.keys[j].key /\ s[j].usage = c.keys[j].usage
         /\ s[j] = c.keys[j] \/ UsesWithin(c.keys[j].key, s[j])
  BY <1>1, <1>3, <1>4
<1>6. s \in Seq(Entries)
  BY <1>1, <1>4, <1>5, EntriesMakeSeq
<1>7. d \in Configs /\ d.keys = s /\ d.templates = c.templates
  BY <1>2, <1>6 DEF Configs
<1>8. KeepsUsage(c, d) /\ KeysOf(d) = KeysOf(c)
  BY <1>4, <1>5, <1>7, SamePlacesKeep
<1>9. QED
  BY <1>7, <1>8 DEF d

\* The key counts one more, the others what they did.
LEMMA CountOne ==
    ASSUME NEW c \in Configs, NEW k \in KeysOf(c)
    PROVE  LET d == [c EXCEPT !.keys[LastOf(c, k)].usage = @ + 1]
           IN  /\ d \in Configs /\ KeysOf(d) = KeysOf(c)
               /\ DOMAIN d.keys = DOMAIN c.keys
               /\ \A j \in DOMAIN c.keys : d.keys[j].key = c.keys[j].key
                                           /\ d.keys[j].enabled = c.keys[j].enabled
                                           /\ d.keys[j].quota = c.keys[j].quota
               /\ d.templates = c.templates
               /\ \A q \in KeysOf(c) : q # k => Indexed(d, q) = Indexed(c, q)
               /\ Indexed(d, k).usage = Indexed(c, k).usage + 1
               /\ Indexed(d, k).quota = Indexed(c, k).quota
               /\ Indexed(d, k).over = Indexed(c, k).over
<1> DEFINE i == LastOf(c, k)
           d == [c EXCEPT !.keys[i].usage = @ + 1]
<1>1. /\ Len(c.keys) \in Nat /\ DOMAIN c.keys = 1..Len(c.keys)
      /\ \A j \in DOMAIN c.keys : c.keys[j] \in Entries
  BY ConfigParts
<1>2. i \in DOMAIN c.keys /\ c.keys[i].key = k
  BY LastIsLast
<1>3. d.keys = [c.keys EXCEPT ![i] = [c.keys[i] EXCEPT !.usage = c.keys[i].usage + 1]] /\ d.templates = c.templates
  <2> HIDE DEF i
  <2> DEFINE s == [c.keys EXCEPT ![i] = [c.keys[i] EXCEPT !.usage = c.keys[i].usage + 1]]
  <2>1. d = [c EXCEPT !.keys = s]
    BY Zenon
  <2> HIDE DEF d, s
  <2>2. d.keys = s /\ d.templates = c.templates
    BY <2>1 DEF Configs
  <2>3. QED
    BY <2>2 DEF s
<1>4. DOMAIN d.keys = DOMAIN c.keys
  BY <1>3
<1> HIDE DEF i
<1>5. ASSUME NEW j \in DOMAIN c.keys
      PROVE  /\ d.keys[j] \in Entries
             /\ d.keys[j].key = c.keys[j].key /\ d.keys[j].enabled = c.keys[j].enabled
             /\ d.keys[j].quota = c.keys[j].quota /\ d.keys[j].over = c.keys[j].over
             /\ j = i => d.keys[j].usage = c.keys[j].usage + 1
             /\ j # i => d.keys[j] = c.keys[j]
  <2>1. c.keys[j] \in Entries
    BY <1>1
  <2>2. d.keys[j] = IF j = i THEN [c.keys[j] EXCEPT !.usage = c.keys[j].usage + 1] ELSE c.keys[j]
    <3> HIDE DEF d
    <3>1. CASE j = i
      BY <1>3, <3>1
    <3>2. CASE j # i
      BY <1>3, <3>2
    <3>3. QED
      BY <3>1, <3>2
  <2>3. QED
    BY <2>1, <2>2 DEF Entries
<1>6. d \in Configs
  <2>1. d.keys \in Seq(Entries)
    <3>1. d.keys = [j \in 1..Len(c.keys) |-> d.keys[j]]
      <4> DEFINE e == d.keys
      <4>1. \E x : e = [c.keys EXCEPT ![i] = x]
        BY <1>3, Zenon
      <4> HIDE DEF e
      <4>2. e = [j \in 1..Len(c.keys) |-> e[j]]
        BY <1>1, <4>1
      <4>3. QED
        BY <4>2, Zenon DEF e
    <3> HIDE DEF d
    <3>2. QED
      BY <1>1, <1>5, <3>1, EntriesMakeSeq
  <2>2. [c EXCEPT !.keys = d.keys] \in Configs
    BY <2>1, Zenon DEF Configs
  <2>3. d = [c EXCEPT !.keys = d.keys]
    <3> DEFINE s == [c.keys EXCEPT ![i].usage = @ + 1]
    <3>1. d = [c EXCEPT !.keys = s] /\ s = d.keys
      BY <1>3, Zenon
    <3>2. QED
      BY <3>1
  <2>4. QED
    BY <2>2, <2>3
<1>7. KeysOf(d) = KeysOf(c)
  <2> HIDE DEF d
  <2>1. QED
    BY <1>4, <1>5 DEF KeysOf
<1>8. ASSUME NEW q \in KeysOf(c)
      PROVE  /\ q # k => Indexed(d, q) = Indexed(c, q)
             /\ q = k => /\ Indexed(d, q).usage = Indexed(c, q).usage + 1
                         /\ Indexed(d, q).quota = Indexed(c, q).quota
                         /\ Indexed(d, q).over = Indexed(c, q).over
  <2> HIDE DEF d
  <2>1. PositionsOf(d, q) = PositionsOf(c, q)
    BY <1>4, <1>5 DEF PositionsOf
  <2>2. LastOf(d, q) = LastOf(c, q)
    BY <2>1, Zenon DEF LastOf
  <2>3. LastOf(c, q) \in DOMAIN c.keys /\ c.keys[LastOf(c, q)].key = q
    BY <1>8, LastIsLast
  <2>4. LastOf(c, q) = i <=> q = k
    BY <1>2, <2>3 DEF i
  <2>5. QED
    BY <1>5, <2>2, <2>3, <2>4 DEF Indexed
<1>9. QED
  BY <1>3, <1>4, <1>5, <1>6, <1>7, <1>8 DEF i

\* The new month leaves no count.
LEMMA UnusedIs ==
    ASSUME NEW c \in Configs
    PROVE  LET d == Unused(c)
           IN  /\ d \in Configs /\ KeysOf(d) = KeysOf(c) /\ d.templates = c.templates
               /\ DOMAIN d.keys = DOMAIN c.keys
               /\ \A j \in DOMAIN c.keys : /\ d.keys[j].key = c.keys[j].key
                                           /\ d.keys[j].enabled = c.keys[j].enabled
                                           /\ d.keys[j].quota = c.keys[j].quota
                                           /\ d.keys[j].usage = 0
               /\ \A k \in KeysOf(d) : UsesWithin(k, Indexed(d, k))
<1> DEFINE d == Unused(c)
           s == [i \in DOMAIN c.keys |->
                    Entry(c.keys[i].key, c.keys[i].enabled, c.keys[i].quota, 0)]
<1>1. /\ Len(c.keys) \in Nat /\ DOMAIN c.keys = 1..Len(c.keys)
      /\ \A j \in DOMAIN c.keys : c.keys[j] \in Entries
  BY ConfigParts
<1>2. d.keys = s /\ d.templates = c.templates
  BY DEF Unused, Configs
<1>3. \A j \in DOMAIN c.keys : /\ s[j] \in Entries
                               /\ s[j].key = c.keys[j].key /\ s[j].enabled = c.keys[j].enabled
                               /\ s[j].quota = c.keys[j].quota /\ s[j].usage = 0
                               /\ UsesWithin(s[j].key, s[j])
  <2>1. SUFFICES ASSUME NEW j \in DOMAIN c.keys
                 PROVE  /\ s[j] \in Entries
                        /\ s[j].key = c.keys[j].key /\ s[j].enabled = c.keys[j].enabled
                        /\ s[j].quota = c.keys[j].quota /\ s[j].usage = 0
                        /\ UsesWithin(s[j].key, s[j])
    OBVIOUS
  <2>2. /\ c.keys[j].key \in Key /\ c.keys[j].enabled \in BOOLEAN
        /\ c.keys[j].quota \in Nat \cup {NoLimit} /\ 0 \in Nat
    BY <1>1 DEF Entries
  <2>3. s[j] = Entry(c.keys[j].key, c.keys[j].enabled, c.keys[j].quota, 0)
    OBVIOUS
  <2>4. /\ s[j].key = c.keys[j].key /\ s[j].enabled = c.keys[j].enabled
        /\ s[j].quota = c.keys[j].quota /\ s[j].usage = 0
    BY <2>3 DEF Entry
  <2> HIDE DEF s
  <2> DEFINE x == Entry(c.keys[j].key, c.keys[j].enabled, c.keys[j].quota, 0)
  <2>5. x \in Entries
    BY <2>2, EntryIs, Zenon
  <2>6. UsesWithin(c.keys[j].key, x)
    BY <2>2, EntryIs, Zenon
  <2> HIDE DEF x
  <2>7. s[j] = x
    BY <2>3 DEF x
  <2>8. QED
    BY <2>4, <2>5, <2>6, <2>7
<1>4. s \in Seq(Entries) /\ DOMAIN s = DOMAIN c.keys
  <2>1. s = [j \in 1..Len(c.keys) |-> s[j]] /\ DOMAIN s = DOMAIN c.keys
    BY <1>1
  <2> HIDE DEF s
  <2>2. QED
    BY <1>1, <1>3, <2>1, EntriesMakeSeq
<1>5. d \in Configs
  <2>1. d = [c EXCEPT !.keys = s]
    BY Zenon DEF Unused
  <2> HIDE DEF s, d
  <2>2. QED
    BY <1>4, <2>1, Zenon DEF Configs
<1> HIDE DEF d, s
<1>6. KeysOf(d) = KeysOf(c)
  BY <1>2, <1>3, <1>4 DEF KeysOf
<1>7. ASSUME NEW k \in KeysOf(d) PROVE UsesWithin(k, Indexed(d, k))
  <2>1. LastOf(d, k) \in DOMAIN d.keys /\ d.keys[LastOf(d, k)].key = k
    BY <1>5, <1>7, LastIsLast
  <2>2. QED
    BY <1>2, <1>3, <1>4, <2>1 DEF Indexed
<1>8. QED
  BY <1>2, <1>3, <1>4, <1>5, <1>6, <1>7 DEF d

----------------------------------------------------------------------------
(* Types, and the queue of saves                                           *)

InQueue(s, x) == \E i \in DOMAIN s : s[i] = x
WaitsOnce(s) == \A i, j \in DOMAIN s : s[i] = s[j] => i = j

LEMMA AppendQueue ==
    ASSUME NEW s \in Seq(Savers), NEW x \in Savers
    PROVE  /\ Append(s, x) \in Seq(Savers) /\ Append(s, x) # <<>>
           /\ Len(Append(s, x)) = Len(s) + 1
           /\ \A y : InQueue(Append(s, x), y) <=> InQueue(s, y) \/ y = x
           /\ WaitsOnce(s) /\ ~InQueue(s, x) => WaitsOnce(Append(s, x))
<1> DEFINE v == Append(s, x)
<1>1. /\ v \in Seq(Savers) /\ Len(s) \in Nat /\ Len(v) = Len(s) + 1
      /\ DOMAIN v = 1..(Len(s) + 1) /\ DOMAIN s = 1..Len(s)
      /\ v[Len(s) + 1] = x /\ \A i \in 1..Len(s) : v[i] = s[i]
  OBVIOUS
<1> HIDE DEF v
<1>2. v # <<>>
  BY <1>1
<1>3. \A i \in DOMAIN v : i = Len(s) + 1 \/ i \in DOMAIN s
  BY <1>1
<1>4. \A y : InQueue(v, y) <=> InQueue(s, y) \/ y = x
  BY <1>1, <1>3 DEF InQueue
<1>5. WaitsOnce(s) /\ ~InQueue(s, x) => WaitsOnce(v)
  BY <1>1, <1>3 DEF InQueue, WaitsOnce
<1>6. QED
  BY <1>1, <1>2, <1>4, <1>5 DEF v

LEMMA TailQueue ==
    ASSUME NEW s \in Seq(Savers), s # <<>>
    PROVE  /\ Head(s) \in Savers /\ Tail(s) \in Seq(Savers) /\ Len(Tail(s)) = Len(s) - 1
           /\ InQueue(s, Head(s))
           /\ WaitsOnce(s) => /\ WaitsOnce(Tail(s))
                              /\ \A y : InQueue(Tail(s), y) <=> InQueue(s, y) /\ y # Head(s)
<1> DEFINE v == Tail(s)
<1>1. /\ v \in Seq(Savers) /\ Len(s) \in Nat \ {0} /\ Len(v) = Len(s) - 1
      /\ DOMAIN v = 1..(Len(s) - 1) /\ DOMAIN s = 1..Len(s)
      /\ Head(s) = s[1] /\ \A i \in 1..(Len(s) - 1) : v[i] = s[i + 1]
  OBVIOUS
<1>2. Head(s) \in Savers /\ 1 \in DOMAIN s
  BY <1>1
<1> HIDE DEF v
<1>3. ASSUME WaitsOnce(s)
      PROVE  WaitsOnce(v) /\ \A y : InQueue(v, y) <=> InQueue(s, y) /\ y # Head(s)
  <2>1. \A i \in DOMAIN v : i + 1 \in DOMAIN s /\ i + 1 # 1 /\ v[i] = s[i + 1]
    BY <1>1
  <2>2. \A i \in DOMAIN s : i # 1 => i - 1 \in DOMAIN v /\ v[i - 1] = s[i]
    BY <1>1
  <2>3. WaitsOnce(v)
    BY <1>1, <1>3, <2>1 DEF WaitsOnce
  <2>4. ASSUME NEW y, InQueue(v, y) PROVE InQueue(s, y) /\ y # Head(s)
    BY <1>1, <1>2, <1>3, <2>1, <2>4 DEF InQueue, WaitsOnce
  <2>5. ASSUME NEW y, InQueue(s, y), y # Head(s) PROVE InQueue(v, y)
    BY <1>1, <2>2, <2>5 DEF InQueue
  <2>6. QED
    BY <2>3, <2>4, <2>5
<1>4. QED
  BY <1>1, <1>2, <1>3 DEF v, InQueue

ConfigTypes ==
    /\ mem \in Configs /\ disk \in Configs /\ image \in Configs \cup {NoImage}
    /\ saves \in Seq(Savers) /\ task \in [Task -> Jobs]
    /\ request \in [Request -> Key \cup {NoKey}]
    /\ keySet \in (SUBSET Key) \cup {NoCache} /\ dirty \in BOOLEAN /\ failed \in BOOLEAN
    /\ flushTask \in {"none", "sleeping", "saving"} /\ stage \in {"up", "stopping", "down"}
    /\ edits \in Nat

QueueFits ==
    /\ WaitsOnce(saves)
    /\ \A t \in Task : InQueue(saves, t) <=> task[t] # Idle
    /\ InQueue(saves, "flush") <=> flushTask = "saving"
    /\ InQueue(saves, "shutdown") => stage = "stopping"
    /\ image # NoImage => saves # <<>>

LEMMA ConfigInvParts == ConfigInv <=> ConfigTypes /\ QueueFits
BY DEF ConfigInv, ConfigTypes, QueueFits, WaitsOnce, InQueue

\* A route that edits keys changes no count and no template.
LEMMA KeyRoutesKeep ==
    ASSUME mem \in Configs, NEW t \in Task, KeyRoutes(t)
    PROVE  EditKeys(t, mem') /\ KeepsUsage(mem, mem') /\ mem'.templates = mem.templates
<1>0. Quotas \subseteq Nat \cup {NoLimit}
  BY ConfigAssumption
<1>1. PICK k \in Key : \/ RemoveKey(t, k)
                       \/ \E quota \in Quotas :
                             \/ AddKey(t, k, quota)
                             \/ \E enabled \in BOOLEAN : UpdateKey(t, k, enabled, quota)
  BY DEF KeyRoutes
<1>2. ASSUME NEW quota \in Quotas, AddKey(t, k, quota)
      PROVE  EditKeys(t, mem') /\ KeepsUsage(mem, mem') /\ mem'.templates = mem.templates
  <2>1. EditKeys(t, WithKey(mem, k, quota))
    BY <1>2 DEF AddKey
  <2>2. mem' = WithKey(mem, k, quota)
    BY <2>1 DEF EditKeys
  <2>3. QED
    BY <1>0, <2>1, <2>2, WithKeyKeeps
<1>3. CASE RemoveKey(t, k)
  <2> DEFINE d == [mem EXCEPT !.keys = Without(@, k)]
  <2>1. EditKeys(t, d)
    BY <1>3, Zenon DEF RemoveKey
  <2>2. mem' = d
    BY <2>1, Zenon DEF EditKeys
  <2>3. d.templates = mem.templates
    BY DEF Configs
  <2>4. KeepsUsage(mem, d)
    BY WithoutKeeps, Zenon
  <2> HIDE DEF d
  <2>5. QED
    BY <2>1, <2>2, <2>3, <2>4
<1>4. ASSUME NEW quota \in Quotas, NEW b \in BOOLEAN, UpdateKey(t, k, b, quota)
      PROVE  EditKeys(t, mem') /\ KeepsUsage(mem, mem') /\ mem'.templates = mem.templates
  <2> DEFINE i == FirstOf(mem, k)
             d == [mem EXCEPT !.keys[i] = Entry(@.key, b, quota, @.usage)]
  <2>1. EditKeys(t, d)
    BY <1>4, Zenon DEF UpdateKey
  <2>2. mem' = d
    BY <2>1, Zenon DEF EditKeys
  <2> HIDE DEF i
  <2>3. quota \in Nat \cup {NoLimit}
    BY <1>0
  <2>4. KeepsUsage(mem, d) /\ d.templates = mem.templates
    BY <2>3, EntryKeeps
  <2> HIDE DEF d
  <2>5. QED
    BY <2>1, <2>2, <2>4
<1>5. QED
  BY <1>1, <1>2, <1>3, <1>4

LEMMA TemplateChanged ==
    ASSUME NEW c \in Configs, NEW p \in Template, NEW r \in Claimable
    PROVE  LET d == [c EXCEPT !.templates[p] = r]
           IN  /\ d \in Configs /\ d.keys = c.keys /\ d.templates[p] = r
               /\ \A q \in Template : q # p => d.templates[q] = c.templates[q]
<1> DEFINE ts == [c.templates EXCEPT ![p] = r]
           d == [c EXCEPT !.templates[p] = r]
<1>1. c.templates \in [Template -> Claimable] /\ c.keys \in Seq(Entries)
  BY ConfigParts
<1>2. /\ ts \in [Template -> Claimable] /\ ts[p] = r
      /\ \A q \in Template : q # p => ts[q] = c.templates[q]
  BY <1>1
<1>3. d = [c EXCEPT !.templates = ts]
  OBVIOUS
<1> HIDE DEF d, ts
<1>4. d \in Configs /\ d.templates = ts /\ d.keys = c.keys
  BY <1>2, <1>3 DEF Configs
<1>5. QED
  BY <1>2, <1>4 DEF d

\* Whoever claims a key claims it from a template.
ClaimsFromTemplate == \A t \in Task :
    task[t].op \in {"attempt", "mint"} => task[t].template \in Template

QueueInv == ConfigTypes /\ QueueFits /\ ClaimsFromTemplate

\* A route that edits a template leaves it within its limit and what that left over, and edits
\* nothing else.
EditedTemplate(t) ==
    /\ task[t] = Idle /\ stage = "up"
    /\ mem' \in Configs /\ mem'.keys = mem.keys
    /\ \A q \in Template : \/ mem'.templates[q] = mem.templates[q]
                           \/ ClaimsWithin(q, mem'.templates[q])
    /\ task' = [task EXCEPT ![t] = [Idle EXCEPT !.op = "edit"]]
    /\ edits' = edits + 1
    /\ Save(t)
    /\ UNCHANGED <<disk, image, request, keySet, dirty, flushTask, stage, failed>>

LEMMA TemplateRoutesKeep ==
    ASSUME ConfigTypes, NEW t \in Task, TemplateRoutes(t)
    PROVE  EditedTemplate(t)
<1> USE DEF ConfigTypes
<1>1. PICK p \in Template : \/ AddTemplate(t, p)
                            \/ UpdateTemplate(t, p)
                            \/ RemoveTemplate(t, p)
                            \/ ResetClaimCodeUsage(t, p)
  BY DEF TemplateRoutes
<1>0. mem.templates[p] \in Claimable /\ Limits \subseteq Nat \cup {NoLimit}
  BY ConfigParts, ConfigAssumption
<1>2. \E st \in {"new", "on", "off", "gone"}, l \in Nat \cup {NoLimit}, u \in Nat :
         \E from : EditTemplate(t, p, from, st, l, u)
  <2> DEFINE r == mem.templates[p]
  <2>1. /\ r.status \in {"new", "on", "off", "gone"} /\ r.limit \in Nat \cup {NoLimit}
        /\ r.used \in Nat
    BY <1>0 DEF Claimable
  <2>2. CASE AddTemplate(t, p)
    <3>1. PICK on \in {"on", "off"}, l \in Limits : EditTemplate(t, p, {"new"}, on, l, 0)
      BY <2>2 DEF AddTemplate
    <3>2. on \in {"new", "on", "off", "gone"} /\ l \in Nat \cup {NoLimit} /\ 0 \in Nat
      BY <1>0
    <3>3. QED
      BY <3>1, <3>2, Zenon
  <2>3. CASE UpdateTemplate(t, p)
    <3>1. PICK on \in {"on", "off"}, l \in Limits :
             EditTemplate(t, p, {"on", "off"}, on, l, r.used)
      BY <2>3 DEF UpdateTemplate
    <3>2. on \in {"new", "on", "off", "gone"} /\ l \in Nat \cup {NoLimit}
      BY <1>0
    <3>3. QED
      BY <2>1, <3>1, <3>2, Zenon
  <2>4. CASE RemoveTemplate(t, p)
    <3>1. EditTemplate(t, p, {"on", "off"}, "gone", r.limit, r.used)
      BY <2>4 DEF RemoveTemplate
    <3>2. "gone" \in {"new", "on", "off", "gone"}
      OBVIOUS
    <3>3. QED
      BY <2>1, <3>1, <3>2, Zenon
  <2>5. CASE ResetClaimCodeUsage(t, p)
    <3>1. EditTemplate(t, p, {r.status} \cap {"on", "off"}, r.status, r.limit, 0)
      BY <2>5 DEF ResetClaimCodeUsage
    <3>2. 0 \in Nat
      OBVIOUS
    <3>3. QED
      BY <2>1, <3>1, <3>2, Zenon
  <2>6. QED
    BY <1>1, <2>2, <2>3, <2>4, <2>5
<1>3. PICK st \in {"new", "on", "off", "gone"}, l \in Nat \cup {NoLimit}, u \in Nat :
         \E from : EditTemplate(t, p, from, st, l, u)
  BY <1>2, Zenon
<1> DEFINE new == Claims(p, st, l, u)
<1>4. new \in Claimable /\ ClaimsWithin(p, new)
  BY ClaimsIs
<1>5. mem' = [mem EXCEPT !.templates[p] = new]
  BY <1>3, Zenon DEF EditTemplate
<1> HIDE DEF new
<1>6. /\ mem' \in Configs /\ mem'.keys = mem.keys /\ mem'.templates[p] = new
      /\ \A q \in Template : q # p => mem'.templates[q] = mem.templates[q]
  <2>1. mem \in Configs
    OBVIOUS
  <2> HIDE DEF ConfigTypes
  <2>2. QED
    BY <1>4, <1>5, <2>1, TemplateChanged
<1>7. \A q \in Template : \/ mem'.templates[q] = mem.templates[q]
                          \/ ClaimsWithin(q, mem'.templates[q])
  BY <1>4, <1>6
<1>8. QED
  BY <1>3, <1>6, <1>7 DEF EditTemplate, EditedTemplate

\* What the caller at the head of the queue may do at the end of its save.
Minted(t) ==
    /\ task[t].op = "attempt"
    /\ KeepsUsage(mem, mem') /\ mem'.templates = mem.templates
    /\ task' = [task EXCEPT ![t].op = "mint"]
    /\ saves' = Append(Tail(saves), t)

Counted(t) ==
    /\ task[t].op = "mint"
    /\ mem' \in Configs /\ mem'.keys = mem.keys
    /\ \A q \in Template : mem'.templates[q] =
          IF q = task[t].template
          THEN [mem.templates[q] EXCEPT !.used = mem.templates[q].used + 1]
          ELSE mem.templates[q]
    /\ task' = [task EXCEPT ![t].op = "count"]
    /\ saves' = Append(Tail(saves), t)

LEMMA GoOnCases ==
    ASSUME QueueInv, NEW t \in Task, GoOn(t)
    PROVE  Minted(t) \/ Counted(t) \/ Answer(t)
<1> USE DEF QueueInv, ConfigTypes
<1>1. CASE MintKey(t)
  <2>0. Quotas \subseteq Nat \cup {NoLimit}
    BY ConfigAssumption
  <2>1. SUFFICES ASSUME NEW k \in Key, NEW quota \in Quotas, mem' = WithKey(mem, k, quota),
                        task' = [task EXCEPT ![t].op = "mint"],
                        saves' = Append(Tail(saves), t)
                 PROVE  Minted(t)
    BY <1>1, Zenon DEF MintKey
  <2>2. QED
    <3>1. mem \in Configs /\ quota \in Nat \cup {NoLimit}
      BY <2>0
    <3>2. KeepsUsage(mem, mem') /\ mem'.templates = mem.templates
      BY <2>1, <3>1, WithKeyKeeps, Zenon
    <3>3. QED
      BY <1>1, <2>1, <3>2, Zenon DEF Minted, MintKey
<1>2. CASE CountClaim(t)
  <2> DEFINE p == task[t].template
             d == [mem EXCEPT !.templates[p].used = @ + 1]
  <2>1. SUFFICES ASSUME mem' = d, task' = [task EXCEPT ![t].op = "count"],
                        saves' = Append(Tail(saves), t)
                 PROVE  Counted(t)
    BY <1>2, Zenon DEF CountClaim
  <2>2. task[t].op = "mint"
    BY <1>2 DEF CountClaim
  <2>3. p \in Template
    BY <2>2 DEF ClaimsFromTemplate
  <2> DEFINE r == [mem.templates[p] EXCEPT !.used = mem.templates[p].used + 1]
  <2>4. r \in Claimable
    <3>1. mem.templates[p] \in Claimable
      BY <2>3, ConfigParts
    <3>2. QED
      BY <3>1 DEF Claimable
  <2>5. d = [mem EXCEPT !.templates[p] = r]
    OBVIOUS
  <2> HIDE DEF p, d, r
  <2>6. /\ d \in Configs /\ d.keys = mem.keys /\ d.templates[p] = r
        /\ \A q \in Template : q # p => d.templates[q] = mem.templates[q]
    <3>1. mem \in Configs
      OBVIOUS
    <3> HIDE DEF QueueInv, ConfigTypes
    <3>2. QED
      BY <2>3, <2>4, <2>5, <3>1, TemplateChanged, Zenon
  <2>7. \A q \in Template : mem'.templates[q] =
          IF q = p THEN [mem.templates[q] EXCEPT !.used = mem.templates[q].used + 1]
          ELSE mem.templates[q]
    BY <2>1, <2>6 DEF r
  <2>8. QED
    BY <2>1, <2>2, <2>6, <2>7 DEF Counted, p
<1>3. QED
  BY <1>1, <1>2 DEF GoOn

LEMMA RejoinQueue ==
    ASSUME NEW s \in Seq(Savers), s # <<>>, WaitsOnce(s)
    PROVE  /\ Append(Tail(s), Head(s)) \in Seq(Savers)
           /\ Append(Tail(s), Head(s)) # <<>>
           /\ WaitsOnce(Append(Tail(s), Head(s)))
           /\ \A y : InQueue(Append(Tail(s), Head(s)), y) <=> InQueue(s, y)
<1>1. /\ Head(s) \in Savers /\ Tail(s) \in Seq(Savers) /\ InQueue(s, Head(s))
      /\ WaitsOnce(Tail(s))
      /\ \A y : InQueue(Tail(s), y) <=> InQueue(s, y) /\ y # Head(s)
  BY TailQueue
<1>2. QED
  BY <1>1, AppendQueue

\* The edits of keys, as far as the queue, the types and the counts are concerned.
EditedKeys(t) ==
    EditKeys(t, mem') /\ KeepsUsage(mem, mem') /\ mem'.templates = mem.templates

\* The end of a save.
SaveEnded ==
    /\ Written
    /\ failed' = FALSE
    /\ UNCHANGED <<request, dirty, edits>>

CallerGoesOn(t) ==
    /\ SaveEnded /\ t = Head(saves) /\ t \in Task
    /\ Minted(t) \/ Counted(t) \/ Answer(t)
    /\ UNCHANGED <<flushTask, stage>>

BackgroundSaved ==
    /\ SaveEnded /\ Head(saves) \notin Task
    /\ saves' = Tail(saves)
    /\ flushTask' = IF Head(saves) = "flush" THEN "none" ELSE flushTask
    /\ stage' = IF Head(saves) = "shutdown" THEN "down" ELSE stage
    /\ UNCHANGED <<mem, task>>

\* The steps of the store, with what the lemmas above say of them.
LEMMA StepCases ==
    ASSUME QueueInv, [Next]_configVars
    PROVE  \/ \E t \in Task : \/ EditedKeys(t) \/ EditedTemplate(t)
                              \/ \E p \in Template : ClaimKey(t, p)
                              \/ CallerGoesOn(t)
           \/ \E r \in Request : \/ Drop(r) \/ IncrementUsage(r)
                                 \/ \E k \in Key : Admit(r, k)
           \/ Dump \/ BackgroundSaved \/ FailSave
           \/ WakeFlush \/ Shutdown \/ MonthBegins \/ Restart
           \/ UNCHANGED configVars
<1>1. ASSUME NEW t \in Task, KeyRoutes(t) PROVE EditedKeys(t)
  BY <1>1, KeyRoutesKeep DEF EditedKeys, QueueInv, ConfigTypes
<1>2. ASSUME NEW t \in Task, TemplateRoutes(t) PROVE EditedTemplate(t)
  BY <1>2, TemplateRoutesKeep DEF QueueInv
<1>3. ASSUME NEW t \in Task, ClaimRoute(t) PROVE \E p \in Template : ClaimKey(t, p)
  BY <1>3 DEF ClaimRoute
<1>4. ASSUME EndSave PROVE BackgroundSaved \/ \E t \in Task : CallerGoesOn(t)
  <2>1. SaveEnded
    BY <1>4 DEF EndSave, SaveEnded
  <2>2. CASE Head(saves) \in Task
    <3>1. GoOn(Head(saves)) /\ UNCHANGED <<flushTask, stage>>
      BY <1>4, <2>2 DEF EndSave
    <3>2. CallerGoesOn(Head(saves))
      BY <2>1, <2>2, <3>1, GoOnCases DEF CallerGoesOn
    <3>3. QED
      BY <2>2, <3>2
  <2>3. CASE Head(saves) \notin Task
    BY <1>4, <2>1, <2>3 DEF EndSave, BackgroundSaved
  <2>4. QED
    BY <2>2, <2>3
<1>5. ASSUME NEW r \in Request, Proxied(r)
      PROVE  Drop(r) \/ IncrementUsage(r) \/ \E k \in Key : Admit(r, k)
  BY <1>5 DEF Proxied
<1>6. CASE Next
  <2>1. CASE \E t \in Task : KeyRoutes(t) \/ TemplateRoutes(t) \/ ClaimRoute(t)
    BY <1>1, <1>2, <1>3, <2>1, Zenon
  <2>2. CASE \E r \in Request : Proxied(r)
    BY <1>5, <2>2, Zenon
  <2>3. CASE Dump \/ EndSave \/ FailSave \/ WakeFlush \/ Shutdown \/ MonthBegins \/ Restart
    BY <1>4, <2>3, Zenon
  <2>4. QED
    BY <1>6, <2>1, <2>2, <2>3, Zenon DEF Next
<1>7. QED
  BY <1>6, Zenon

\* Somebody idle begins a save.
LEMMA JoinKeeps ==
    ASSUME QueueInv, NEW t \in Task, task[t] = Idle, NEW j \in Jobs, j # Idle,
           j.op \in {"attempt", "mint"} => j.template \in Template,
           task' = [task EXCEPT ![t] = j], Save(t), UNCHANGED <<image, flushTask, stage>>
    PROVE  /\ saves' \in Seq(Savers) /\ task' \in [Task -> Jobs]
           /\ QueueFits' /\ ClaimsFromTemplate'
<1> USE DEF QueueInv, ConfigTypes
<1>1. t \in Savers /\ t \notin {"flush", "shutdown"}
  BY ConfigAssumption DEF Savers
<1>2. ~InQueue(saves, t)
  BY DEF QueueFits
<1>3. saves' = Append(saves, t)
  BY DEF Save
<1>4. /\ saves' \in Seq(Savers) /\ saves' # <<>> /\ WaitsOnce(saves')
      /\ \A y : InQueue(saves', y) <=> InQueue(saves, y) \/ y = t
  BY <1>1, <1>2, <1>3, AppendQueue DEF QueueFits
<1>5. /\ task' \in [Task -> Jobs] /\ task'[t] = j
      /\ \A u \in Task : u # t => task'[u] = task[u]
  OBVIOUS
<1>6. QueueFits'
  BY <1>1, <1>4, <1>5 DEF QueueFits
<1>7. ClaimsFromTemplate'
  BY <1>5 DEF ClaimsFromTemplate
<1>8. QED
  BY <1>4, <1>5, <1>6, <1>7

\* The head of the queue leaves it.
LEMMA LeaveKeeps ==
    ASSUME QueueInv, saves # <<>>, saves' = Tail(saves), image' = NoImage,
           \/ Head(saves) \in Task /\ task' = [task EXCEPT ![Head(saves)] = Idle]
              /\ UNCHANGED <<flushTask, stage>>
           \/ /\ Head(saves) \notin Task /\ UNCHANGED task
              /\ flushTask' = IF Head(saves) = "flush" THEN "none" ELSE flushTask
              /\ stage' = IF Head(saves) = "shutdown" THEN "down" ELSE stage
    PROVE  /\ saves' \in Seq(Savers) /\ task' \in [Task -> Jobs]
           /\ QueueFits' /\ ClaimsFromTemplate'
<1> USE DEF QueueInv, ConfigTypes
<1> DEFINE h == Head(saves)
<1>1. /\ h \in Savers /\ InQueue(saves, h) /\ saves' \in Seq(Savers) /\ WaitsOnce(saves')
      /\ \A y : InQueue(saves', y) <=> InQueue(saves, y) /\ y # h
  BY TailQueue DEF QueueFits
<1>2. Idle \in Jobs /\ Idle.op = "idle"
  BY DEF Idle, Jobs
<1>3. \A t \in Task : t \notin {"flush", "shutdown"}
  BY ConfigAssumption
<1> HIDE DEF h
<1>4. task' \in [Task -> Jobs] /\ \A t \in Task : task'[t] = IF t = h THEN Idle ELSE task[t]
  BY <1>2 DEF h
<1>5. ClaimsFromTemplate'
  BY <1>2, <1>4 DEF ClaimsFromTemplate
<1>6. \A t \in Task : InQueue(saves', t) <=> task'[t] # Idle
  BY <1>1, <1>4 DEF QueueFits
<1>7. CASE h \in Task
  BY <1>1, <1>3, <1>6, <1>4, <1>5, <1>7 DEF QueueFits, h
<1>8. CASE h \notin Task
  <2>1. h \in {"flush", "shutdown"}
    BY <1>1, <1>8 DEF Savers
  <2>2. /\ flushTask' = IF h = "flush" THEN "none" ELSE flushTask
        /\ stage' = IF h = "shutdown" THEN "down" ELSE stage
    BY <1>8 DEF h
  <2>3. InQueue(saves', "flush") <=> flushTask' = "saving"
    BY <1>1, <2>1, <2>2 DEF QueueFits
  <2>4. InQueue(saves', "shutdown") => stage' = "stopping"
    BY <1>1, <2>1, <2>2 DEF QueueFits
  <2>5. QED
    BY <1>1, <1>4, <1>5, <1>6, <2>3, <2>4 DEF QueueFits
<1>9. QED
  BY <1>7, <1>8

\* The head of the queue joins it again, at its end.
LEMMA RejoinKeeps ==
    ASSUME QueueInv, saves # <<>>, Head(saves) \in Task,
           saves' = Append(Tail(saves), Head(saves)), image' = NoImage,
           NEW o \in {"mint", "count"}, task' = [task EXCEPT ![Head(saves)].op = o],
           task[Head(saves)].op \in {"attempt", "mint"},
           UNCHANGED <<flushTask, stage>>
    PROVE  /\ saves' \in Seq(Savers) /\ task' \in [Task -> Jobs]
           /\ QueueFits' /\ ClaimsFromTemplate'
<1> USE DEF QueueInv, ConfigTypes
<1> DEFINE h == Head(saves)
<1>1. /\ saves' \in Seq(Savers) /\ WaitsOnce(saves') /\ saves' # <<>>
      /\ \A y : InQueue(saves', y) <=> InQueue(saves, y)
  BY RejoinQueue DEF QueueFits
<1>2. task[h] \in Jobs /\ task[h] # Idle /\ task[h].template \in Template
  BY DEF ClaimsFromTemplate, Idle
<1>3. /\ [task[h] EXCEPT !.op = o] \in Jobs /\ [task[h] EXCEPT !.op = o] # Idle
      /\ [task[h] EXCEPT !.op = o].template \in Template
  BY <1>2 DEF Jobs, Idle
<1>4. task' \in [Task -> Jobs]
  BY <1>3
<1>5. \A t \in Task : task'[t] = IF t = h THEN [task[h] EXCEPT !.op = o] ELSE task[t]
  OBVIOUS
<1>6. ClaimsFromTemplate'
  BY <1>3, <1>5 DEF ClaimsFromTemplate
<1>7. QueueFits'
  BY <1>1, <1>2, <1>3, <1>5 DEF QueueFits
<1>8. QED
  BY <1>1, <1>4, <1>6, <1>7

\* Every step keeps the types, and the queue and its callers in agreement.
LEMMA QueueStep ==
    ASSUME QueueInv, [Next]_configVars
    PROVE  QueueInv'
<1> USE DEF QueueInv
<1>1. ASSUME NEW t \in Task, EditedKeys(t) PROVE QueueInv'
  <2> DEFINE j == [Idle EXCEPT !.op = "edit"]
  <2>1. j \in Jobs /\ j # Idle /\ j.op = "edit"
    BY DEF Idle, Jobs
  <2>2. /\ task[t] = Idle /\ task' = [task EXCEPT ![t] = j] /\ Save(t) /\ edits' = edits + 1
        /\ mem' \in Configs /\ keySet' = NoCache
        /\ UNCHANGED <<disk, image, request, dirty, flushTask, stage, failed>>
    BY <1>1 DEF EditedKeys, EditKeys, KeepsUsage
  <2> HIDE DEF j
  <2>3. /\ saves' \in Seq(Savers) /\ task' \in [Task -> Jobs]
        /\ QueueFits' /\ ClaimsFromTemplate'
    BY <2>1, <2>2, JoinKeeps
  <2>4. QED
    BY <2>2, <2>3 DEF ConfigTypes
<1>2. ASSUME NEW t \in Task, EditedTemplate(t) PROVE QueueInv'
  <2> DEFINE j == [Idle EXCEPT !.op = "edit"]
  <2>1. j \in Jobs /\ j # Idle /\ j.op = "edit"
    BY DEF Idle, Jobs
  <2>2. /\ task[t] = Idle /\ task' = [task EXCEPT ![t] = j] /\ Save(t) /\ edits' = edits + 1
        /\ mem' \in Configs
        /\ UNCHANGED <<disk, image, request, keySet, dirty, flushTask, stage, failed>>
    BY <1>2 DEF EditedTemplate
  <2> HIDE DEF j
  <2>3. /\ saves' \in Seq(Savers) /\ task' \in [Task -> Jobs]
        /\ QueueFits' /\ ClaimsFromTemplate'
    BY <2>1, <2>2, JoinKeeps
  <2>4. QED
    BY <2>2, <2>3 DEF ConfigTypes
<1>3. ASSUME NEW t \in Task, NEW p \in Template, ClaimKey(t, p) PROVE QueueInv'
  <2> DEFINE j == [op |-> "attempt", template |-> p]
  <2>1. j \in Jobs /\ j # Idle /\ j.template \in Template
    BY DEF Idle, Jobs
  <2>2. /\ task[t] = Idle /\ task' = [task EXCEPT ![t] = j] /\ Save(t)
        /\ UNCHANGED <<mem, disk, image, request, keySet, dirty, flushTask, stage, edits, failed>>
    BY <1>3 DEF ClaimKey
  <2> HIDE DEF j
  <2>3. /\ saves' \in Seq(Savers) /\ task' \in [Task -> Jobs]
        /\ QueueFits' /\ ClaimsFromTemplate'
    BY <2>1, <2>2, JoinKeeps
  <2>4. QED
    BY <2>2, <2>3 DEF ConfigTypes
<1>4. ASSUME NEW t \in Task, CallerGoesOn(t) PROVE QueueInv'
  <2>1. /\ t = Head(saves) /\ Head(saves) \in Task
        /\ Minted(t) \/ Counted(t) \/ Answer(t)
        /\ UNCHANGED <<flushTask, stage>>
    BY <1>4 DEF CallerGoesOn
  <2>2. /\ saves # <<>> /\ disk' = image /\ image' = NoImage /\ keySet' = NoCache
        /\ failed' = FALSE /\ UNCHANGED <<request, dirty, edits>> /\ image # NoImage
    BY <1>4 DEF CallerGoesOn, SaveEnded, Written, QueueFits
  <2>3. mem' \in Configs
    BY <2>1 DEF Minted, Counted, Answer, KeepsUsage, ConfigTypes
  <2>4. /\ saves' \in Seq(Savers) /\ task' \in [Task -> Jobs]
        /\ QueueFits' /\ ClaimsFromTemplate'
    <3>1. CASE Minted(t)
      BY <2>1, <2>2, <3>1, RejoinKeeps, Zenon DEF Minted
    <3>2. CASE Counted(t)
      BY <2>1, <2>2, <3>2, RejoinKeeps, Zenon DEF Counted
    <3>3. CASE Answer(t)
      BY <2>1, <2>2, <3>3, LeaveKeeps, Zenon DEF Answer
    <3>4. QED
      BY <2>1, <3>1, <3>2, <3>3
  <2>5. QED
    BY <2>1, <2>2, <2>3, <2>4 DEF ConfigTypes
<1>5. CASE BackgroundSaved
  <2>1. /\ saves # <<>> /\ disk' = image /\ image' = NoImage /\ keySet' = NoCache
        /\ failed' = FALSE /\ UNCHANGED <<request, dirty, edits>> /\ image # NoImage
    BY <1>5 DEF BackgroundSaved, SaveEnded, Written, QueueFits
  <2>2. /\ Head(saves) \notin Task /\ saves' = Tail(saves) /\ UNCHANGED <<mem, task>>
        /\ flushTask' = IF Head(saves) = "flush" THEN "none" ELSE flushTask
        /\ stage' = IF Head(saves) = "shutdown" THEN "down" ELSE stage
    BY <1>5 DEF BackgroundSaved
  <2>3. /\ saves' \in Seq(Savers) /\ task' \in [Task -> Jobs]
        /\ QueueFits' /\ ClaimsFromTemplate'
    BY <2>1, <2>2, LeaveKeeps
  <2>4. QED
    BY <2>1, <2>2, <2>3 DEF ConfigTypes
<1>6. CASE FailSave
  <2>1. /\ saves # <<>> /\ saves' = Tail(saves) /\ image' = NoImage /\ failed' = TRUE
        /\ dirty' \in {TRUE, dirty} /\ UNCHANGED <<mem, disk, request, keySet, edits>>
    BY <1>6 DEF FailSave
  <2>2. \/ Head(saves) \in Task /\ task' = [task EXCEPT ![Head(saves)] = Idle]
           /\ UNCHANGED <<flushTask, stage>>
        \/ /\ Head(saves) \notin Task /\ UNCHANGED task
           /\ flushTask' = IF Head(saves) = "flush" THEN "none" ELSE flushTask
           /\ stage' = IF Head(saves) = "shutdown" THEN "down" ELSE stage
    BY <1>6 DEF FailSave
  <2>3. /\ saves' \in Seq(Savers) /\ task' \in [Task -> Jobs]
        /\ QueueFits' /\ ClaimsFromTemplate'
    BY <2>1, <2>2, LeaveKeeps
  <2>4. QED
    BY <2>1, <2>2, <2>3 DEF ConfigTypes
<1>7. ASSUME NEW r \in Request, NEW k \in Key, Admit(r, k) PROVE QueueInv'
  <2>1. KeysOf(mem) \in SUBSET Key
    BY ConfigParts DEF KeysOf, ConfigTypes
  <2>2. QED
    BY <1>7, <2>1 DEF Admit, ConfigTypes, QueueFits, ClaimsFromTemplate
<1>8. ASSUME NEW r \in Request, Drop(r) PROVE QueueInv'
  BY <1>8 DEF Drop, ConfigTypes, QueueFits, ClaimsFromTemplate
<1>9. ASSUME NEW r \in Request, IncrementUsage(r) PROVE QueueInv'
  <2>1. request[r] \in KeysOf(mem)
    BY <1>9 DEF IncrementUsage
  <2>2. mem' \in Configs
    BY <1>9, <2>1, CountOne DEF IncrementUsage, ConfigTypes
  <2>3. flushTask' \in {"none", "sleeping", "saving"} /\ (flushTask' = "saving" <=> flushTask = "saving")
    BY <1>9 DEF IncrementUsage, Schedule, ConfigTypes
  <2>4. /\ request' = [request EXCEPT ![r] = NoKey] /\ dirty' = TRUE
        /\ UNCHANGED <<disk, saves, image, task, keySet, stage, edits, failed>>
    BY <1>9 DEF IncrementUsage
  <2>5. QED
    BY <2>2, <2>3, <2>4 DEF ConfigTypes, QueueFits, ClaimsFromTemplate
<1>10. CASE Dump
  BY <1>10 DEF Dump, ConfigTypes, QueueFits, ClaimsFromTemplate
<1>11. CASE WakeFlush
  <2>1. flushTask = "sleeping" /\ UNCHANGED <<mem, disk, image, task, request, keySet, stage, edits, failed>>
    BY <1>11 DEF WakeFlush
  <2>2. CASE ~dirty /\ flushTask' = "none" /\ UNCHANGED <<dirty, saves>>
    BY <2>1, <2>2 DEF ConfigTypes, QueueFits, ClaimsFromTemplate
  <2>3. CASE FlushUsage("flush") /\ flushTask' = "saving"
    <3>1. dirty' = FALSE /\ saves' = Append(saves, "flush") /\ flushTask' = "saving"
      BY <2>3 DEF FlushUsage, Save
    <3>2. "flush" \in Savers /\ "flush" \notin Task /\ ~InQueue(saves, "flush")
      BY <2>1, ConfigAssumption DEF Savers, QueueFits
    <3>3. /\ saves' \in Seq(Savers) /\ saves' # <<>> /\ WaitsOnce(saves')
          /\ \A y : InQueue(saves', y) <=> InQueue(saves, y) \/ y = "flush"
      BY <3>1, <3>2, AppendQueue DEF QueueFits, ConfigTypes
    <3>4. QueueFits'
      BY <2>1, <3>1, <3>2, <3>3 DEF QueueFits
    <3>5. QED
      BY <2>1, <3>1, <3>3, <3>4 DEF ConfigTypes, ClaimsFromTemplate
  <2>4. QED
    BY <1>11, <2>2, <2>3 DEF WakeFlush
<1>12. CASE Shutdown
  <2>1. stage = "up" /\ UNCHANGED <<mem, disk, image, task, request, keySet, flushTask, edits, failed>>
    BY <1>12 DEF Shutdown
  <2>2. CASE ~dirty /\ stage' = "down" /\ UNCHANGED <<dirty, saves>>
    BY <2>1, <2>2 DEF ConfigTypes, QueueFits, ClaimsFromTemplate
  <2>3. CASE FlushUsage("shutdown") /\ stage' = "stopping"
    <3>1. dirty' = FALSE /\ saves' = Append(saves, "shutdown") /\ stage' = "stopping"
      BY <2>3 DEF FlushUsage, Save
    <3>2. "shutdown" \in Savers /\ "shutdown" \notin Task /\ ~InQueue(saves, "shutdown")
      BY <2>1, ConfigAssumption DEF Savers, QueueFits
    <3>3. /\ saves' \in Seq(Savers) /\ saves' # <<>> /\ WaitsOnce(saves')
          /\ \A y : InQueue(saves', y) <=> InQueue(saves, y) \/ y = "shutdown"
      BY <3>1, <3>2, AppendQueue DEF QueueFits, ConfigTypes
    <3>4. QueueFits'
      BY <2>1, <3>1, <3>2, <3>3 DEF QueueFits
    <3>5. QED
      BY <2>1, <3>1, <3>3, <3>4 DEF ConfigTypes, ClaimsFromTemplate
  <2>4. QED
    BY <1>12, <2>2, <2>3 DEF Shutdown
<1>13. CASE MonthBegins
  <2>1. mem' \in Configs /\ disk' \in Configs /\ image' \in Configs \cup {NoImage}
    BY <1>13, UnusedIs DEF MonthBegins, ConfigTypes
  <2>2. image' # NoImage => image # NoImage
    BY <1>13 DEF MonthBegins
  <2>3. UNCHANGED <<saves, task, request, keySet, dirty, flushTask, stage, edits, failed>>
    BY <1>13 DEF MonthBegins
  <2>4. QED
    BY <2>1, <2>2, <2>3 DEF ConfigTypes, QueueFits, ClaimsFromTemplate
<1>14. CASE Restart
  <2>1. /\ saves' = <<>> /\ <<>> \in Seq(Savers)
        /\ \A y : ~InQueue(<<>>, y)
        /\ WaitsOnce(<<>>)
    BY <1>14 DEF Restart, InQueue, WaitsOnce
  <2>2. Idle \in Jobs /\ Idle.op = "idle"
    BY DEF Idle, Jobs
  <2>3. /\ mem' = disk /\ image' = NoImage /\ task' = [t \in Task |-> Idle]
        /\ request' = [r \in Request |-> NoKey]
        /\ keySet' = NoCache /\ dirty' = FALSE /\ flushTask' = "none"
        /\ stage' = "up" /\ failed' = FALSE /\ UNCHANGED <<disk, edits>>
    BY <1>14 DEF Restart
  <2>4. QED
    BY <2>1, <2>2, <2>3 DEF ConfigTypes, QueueFits, ClaimsFromTemplate
<1>15. CASE UNCHANGED configVars
  BY <1>15 DEF configVars, ConfigTypes, QueueFits, ClaimsFromTemplate
<1>16. QED
  BY <1>1, <1>2, <1>3, <1>4, <1>5, <1>6, <1>7, <1>8, <1>9, <1>10, <1>11, <1>12, <1>13, <1>14, <1>15,
     StepCases, Zenon

LEMMA QueueInit == Init => QueueInv
<1> SUFFICES ASSUME Init PROVE QueueInv
  OBVIOUS
<1>1. mem \in Configs /\ disk \in Configs
  <2>1. PICK on \in [Template -> {"new", "on"}], limit \in [Template -> Limits] :
          mem = [keys |-> <<>>,
                 templates |-> [p \in Template |-> [status |-> on[p], limit |-> limit[p],
                                                   used |-> 0, over |-> 0]]]
    BY DEF Init
  <2>2. [p \in Template |-> [status |-> on[p], limit |-> limit[p], used |-> 0, over |-> 0]]
           \in [Template -> Claimable]
    BY <2>1, ConfigAssumption DEF Claimable
  <2>3. <<>> \in Seq(Entries)
    OBVIOUS
  <2>4. QED
    BY <2>1, <2>2, <2>3 DEF Init, Configs
<1>2. saves = <<>> /\ <<>> \in Seq(Savers) /\ (\A y : ~InQueue(<<>>, y)) /\ WaitsOnce(<<>>)
  BY DEF Init, Start, InQueue, WaitsOnce
<1>3. Idle \in Jobs /\ Idle.op = "idle"
  BY DEF Idle, Jobs
<1>4. QED
  BY <1>1, <1>2, <1>3 DEF Init, Start, QueueInv, ConfigTypes, QueueFits, ClaimsFromTemplate

LEMMA ConfigQueue == Spec => []QueueInv
<1>1. QueueInv /\ [Next]_configVars => QueueInv'
  BY QueueStep
<1>2. QED
  BY QueueInit, <1>1, PTL DEF Spec

\* The queue of saves, the coroutines that wait in it and the flush task agree.
THEOREM ConfigQueueFits == Spec => []ConfigInv
<1>1. QueueInv => ConfigInv
  BY ConfigInvParts DEF QueueInv
<1>2. QED
  BY ConfigQueue, <1>1, PTL

----------------------------------------------------------------------------
(* The key check                                                           *)

\* Dropped, or the keys and the set as they were.
GateKept ==
    \/ keySet' = NoCache
    \/ UNCHANGED keySet /\ KeysOf(mem') = KeysOf(mem)

\* The cached set of keys is the set of keys: what changes the list drops it.
THEOREM GateNeverStale == Spec => []NoStaleGate
<1>1. Init => NoStaleGate
  BY DEF Init, Start, NoStaleGate
<1>2. ASSUME QueueInv, [Next]_configVars, NoStaleGate PROVE NoStaleGate'
  <2>1. GateKept => NoStaleGate'
    BY <1>2 DEF GateKept, NoStaleGate, KeysOf
  <2>2. UNCHANGED <<mem, keySet>> => GateKept
    BY DEF GateKept
  <2>3. ASSUME NEW t \in Task, \/ EditedKeys(t) \/ EditedTemplate(t)
                               \/ \E p \in Template : ClaimKey(t, p)
                               \/ CallerGoesOn(t)
        PROVE  GateKept
    <3>1. CASE EditedKeys(t)
      BY <3>1 DEF EditedKeys, EditKeys, GateKept
    <3>2. CASE EditedTemplate(t)
      BY <3>2, Zenon DEF EditedTemplate, GateKept, KeysOf
    <3>3. CASE \E p \in Template : ClaimKey(t, p)
      BY <2>2, <3>3, Zenon DEF ClaimKey
    <3>4. CASE CallerGoesOn(t)
      BY <3>4 DEF CallerGoesOn, SaveEnded, Written, GateKept
    <3>5. QED
      BY <2>3, <3>1, <3>2, <3>3, <3>4
  <2>4. ASSUME NEW r \in Request, NEW k \in Key, Admit(r, k) PROVE NoStaleGate'
    BY <1>2, <2>4 DEF Admit, NoStaleGate, KeysOf
  <2>5. ASSUME NEW r \in Request, IncrementUsage(r) PROVE GateKept
    BY <1>2, <2>5, CountOne DEF IncrementUsage, GateKept, QueueInv, ConfigTypes
  <2>6. CASE MonthBegins
    BY <1>2, <2>1, <2>6, UnusedIs DEF MonthBegins, GateKept, QueueInv, ConfigTypes
  <2>7. CASE BackgroundSaved \/ Restart
    <3>1. keySet' = NoCache
      BY <2>7 DEF BackgroundSaved, SaveEnded, Written, Restart
    <3>2. QED
      BY <2>1, <3>1 DEF GateKept
  <2>8. CASE Dump \/ FailSave \/ WakeFlush \/ Shutdown \/ UNCHANGED configVars
    BY <2>1, <2>2, <2>8 DEF Dump, FailSave, WakeFlush, Shutdown, configVars
  <2>9. ASSUME NEW r \in Request, Drop(r) PROVE NoStaleGate'
    BY <2>1, <2>2, <2>9 DEF Drop
  <2>10. QED
    BY <1>2, <2>1, <2>3, <2>4, <2>5, <2>6, <2>7, <2>8, <2>9, StepCases, Zenon
<1>3. QED
  BY ConfigQueue, <1>1, <1>2, PTL DEF Spec

----------------------------------------------------------------------------
(* The way to the file                                                     *)

\* A copy that is being written holds what memory does, or another save follows.
ImageCatchesUp == image # NoImage => SaveToCome \/ Durable(image) = Durable(mem)

DiskInv == MemoryReachesDisk /\ ImageCatchesUp

\* The uses that are counted are no part of what is compared.
LEMMA SameDurable ==
    ASSUME NEW c, NEW d, DOMAIN d.keys = DOMAIN c.keys, d.templates = c.templates,
           \A i \in DOMAIN c.keys : /\ d.keys[i].key = c.keys[i].key
                                    /\ d.keys[i].enabled = c.keys[i].enabled
                                    /\ d.keys[i].quota = c.keys[i].quota
    PROVE  Durable(d) = Durable(c)
<1>1. [i \in DOMAIN d.keys |-> <<d.keys[i].key, d.keys[i].enabled, d.keys[i].quota>>]
         = [i \in DOMAIN c.keys |-> <<c.keys[i].key, c.keys[i].enabled, c.keys[i].quota>>]
  OBVIOUS
<1>2. QED
  BY <1>1, Zenon DEF Durable

LEMMA DiskStep ==
    ASSUME QueueInv, DiskInv, [Next]_configVars
    PROVE  DiskInv'
<1> USE DEF DiskInv, MemoryReachesDisk, ImageCatchesUp, SaveToCome
<1>0. /\ saves \in Seq(Savers) /\ Len(saves) \in Nat /\ (image # NoImage => Len(saves) >= 1)
      /\ mem \in Configs /\ disk \in Configs
  BY DEF QueueInv, QueueFits, ConfigTypes
<1>1. ASSUME NEW x \in Savers, saves' = Append(saves, x), UNCHANGED image PROVE DiskInv'
  <2>1. Len(saves') = Len(saves) + 1
    BY <1>0, <1>1
  <2>2. SaveToCome'
    BY <1>0, <1>1, <2>1
  <2>3. QED
    BY <2>2
<1>2. ASSUME Durable(mem)' = Durable(mem), Durable(disk)' = Durable(disk), UNCHANGED <<saves, failed>>,
             \/ UNCHANGED image
             \/ image # NoImage /\ image' # NoImage /\ Durable(image)' = Durable(image)
      PROVE  DiskInv'
  BY <1>2
<1>3. ASSUME NEW t \in Task, \/ EditedKeys(t) \/ EditedTemplate(t)
                             \/ \E p \in Template : ClaimKey(t, p)
      PROVE  DiskInv'
  <2>1. saves' = Append(saves, t) /\ UNCHANGED image
    BY <1>3 DEF EditedKeys, EditKeys, EditedTemplate, ClaimKey, Save
  <2>2. QED
    BY <1>1, <2>1 DEF Savers
<1>4. ASSUME NEW t \in Task, CallerGoesOn(t) PROVE DiskInv'
  <2>1. image # NoImage /\ disk' = image /\ image' = NoImage
    BY <1>4 DEF CallerGoesOn, SaveEnded, Written
  <2>2. Len(saves) >= 1 /\ Tail(saves) \in Seq(Savers) /\ Len(Tail(saves)) = Len(saves) - 1
    BY <1>0, <2>1
  <2>3. CASE Minted(t) \/ Counted(t)
    <3>1. saves' = Append(Tail(saves), t)
      BY <2>3 DEF Minted, Counted
    <3>2. Len(saves') = Len(saves)
      BY <1>0, <2>2, <3>1
    <3>3. QED
      BY <1>0, <2>1, <2>2, <3>2
  <2>4. CASE Answer(t)
    <3>1. saves' = Tail(saves) /\ mem' = mem
      BY <2>4 DEF Answer
    <3>2. QED
      BY <1>0, <2>1, <2>2, <3>1
  <2>5. QED
    BY <1>4, <2>3, <2>4 DEF CallerGoesOn
<1>5. CASE BackgroundSaved
  <2>1. image # NoImage /\ disk' = image /\ image' = NoImage /\ saves' = Tail(saves) /\ mem' = mem
    BY <1>5 DEF BackgroundSaved, SaveEnded, Written
  <2>2. Len(saves) >= 1 /\ Len(Tail(saves)) = Len(saves) - 1
    BY <1>0, <2>1
  <2>3. QED
    BY <1>0, <2>1, <2>2
<1>6. CASE FailSave
  BY <1>6 DEF FailSave
<1>7. CASE Dump
  BY <1>7 DEF Dump
<1>8. ASSUME NEW r \in Request, IncrementUsage(r) PROVE DiskInv'
  <2>1. Durable(mem') = Durable(mem)
    <3>1. /\ request[r] \in KeysOf(mem)
          /\ mem' = [mem EXCEPT !.keys[LastOf(mem, request[r])].usage = @ + 1]
      BY <1>8 DEF IncrementUsage
    <3>2. /\ DOMAIN mem'.keys = DOMAIN mem.keys /\ mem'.templates = mem.templates
          /\ \A j \in DOMAIN mem.keys : mem'.keys[j].key = mem.keys[j].key
                                        /\ mem'.keys[j].enabled = mem.keys[j].enabled
                                        /\ mem'.keys[j].quota = mem.keys[j].quota
      BY <1>0, <3>1, CountOne
    <3>3. QED
      BY <3>2, SameDurable
  <2>2. UNCHANGED <<disk, saves, image, failed>>
    BY <1>8 DEF IncrementUsage
  <2>3. QED
    BY <1>2, <2>1, <2>2
<1>9. CASE MonthBegins
  <2>1. \A c \in Configs : Durable(Unused(c)) = Durable(c)
    BY UnusedIs, SameDurable
  <2>2. image \in Configs \cup {NoImage}
    BY DEF QueueInv, ConfigTypes
  <2>3. QED
    BY <1>0, <1>9, <2>1, <2>2 DEF MonthBegins
<1>10. CASE WakeFlush \/ Shutdown
  <2>1. UNCHANGED <<mem, disk, image, failed>>
    BY <1>10 DEF WakeFlush, Shutdown
  <2>2. UNCHANGED saves \/ \E x \in Savers : saves' = Append(saves, x)
    BY <1>10 DEF WakeFlush, Shutdown, FlushUsage, Save, Savers
  <2>3. QED
    BY <1>1, <1>2, <2>1, <2>2
<1>11. CASE Restart
  BY <1>11 DEF Restart
<1>12. ASSUME UNCHANGED <<mem, disk, saves, image, failed>> PROVE DiskInv'
  BY <1>12
<1>13. ASSUME NEW r \in Request, Drop(r) \/ \E k \in Key : Admit(r, k) PROVE DiskInv'
  BY <1>12, <1>13 DEF Drop, Admit
<1>14. CASE UNCHANGED configVars
  BY <1>12, <1>14 DEF configVars
<1>15. QED
  BY <1>3, <1>4, <1>5, <1>6, <1>7, <1>8, <1>9, <1>10, <1>11, <1>13, <1>14, StepCases, Zenon

\* Whatever keys and templates memory and config.json differ in, a save that will write them is
\* under way or queued, or the last one has failed.
THEOREM ConfigReachesDisk == Spec => []MemoryReachesDisk
<1>1. Init => DiskInv
  BY DEF Init, Start, DiskInv, MemoryReachesDisk, ImageCatchesUp
<1>2. QueueInv /\ DiskInv /\ [Next]_configVars => DiskInv'
  BY DiskStep
<1>3. DiskInv => MemoryReachesDisk
  BY DEF DiskInv
<1>4. QED
  BY ConfigQueue, <1>1, <1>2, <1>3, PTL DEF Spec

----------------------------------------------------------------------------
(* Uses on the way to the file                                             *)

\* A flush is in the queue; it is behind the save that holds the lock.
FlushQueued(s) == \E j \in DOMAIN s : s[j] \notin Task
FlushBehind(s) == \E j \in DOMAIN s : j # 1 /\ s[j] \notin Task

\* Where the count of entry e is, or by whom it will be written.
CountSafe(e) ==
    \/ Holds(disk, e) \/ dirty \/ FlushBehind(saves)
    \/ FlushQueued(saves) /\ (image # NoImage => Holds(image, e))

\* The same, should the copy that is being written replace the file now.
CountSafeInImage(e) ==
    image # NoImage => Holds(image, e) \/ dirty \/ FlushBehind(saves)

UsageInv == \A e \in Entries :
    e.usage > 0 /\ Holds(mem, e) => CountSafe(e) /\ CountSafeInImage(e)

LEMMA UsageInvHolds ==
    ASSUME QueueInv, UsageInv
    PROVE  UsageNotForgotten
<1>1. SUFFICES ASSUME NEW i \in DOMAIN mem.keys, mem.keys[i].usage > 0,
                      ~Holds(disk, mem.keys[i]), ~dirty
               PROVE  \E j \in DOMAIN saves :
                         /\ saves[j] \notin Task
                         /\ j = 1 /\ image # NoImage => Holds(image, mem.keys[i])
  BY DEF UsageNotForgotten
<1>2. mem.keys[i] \in Entries /\ Holds(mem, mem.keys[i])
  BY ConfigParts DEF QueueInv, ConfigTypes, Holds
<1>3. CountSafe(mem.keys[i])
  BY <1>1, <1>2 DEF UsageInv
<1>4. \/ FlushBehind(saves)
      \/ FlushQueued(saves) /\ (image # NoImage => Holds(image, mem.keys[i]))
  BY <1>1, <1>3 DEF CountSafe
<1>5. QED
  BY <1>4 DEF FlushBehind, FlushQueued

LEMMA AppendFlush ==
    ASSUME NEW s \in Seq(Savers), NEW x \in Savers
    PROVE  /\ FlushBehind(s) => FlushBehind(Append(s, x))
           /\ FlushQueued(s) => FlushQueued(Append(s, x))
           /\ x \notin Task => FlushQueued(Append(s, x))
           /\ x \notin Task /\ s # <<>> => FlushBehind(Append(s, x))
<1> DEFINE v == Append(s, x)
<1>1. /\ Len(s) \in Nat /\ DOMAIN v = 1..(Len(s) + 1) /\ DOMAIN s = 1..Len(s)
      /\ v[Len(s) + 1] = x /\ \A i \in 1..Len(s) : v[i] = s[i]
      /\ s # <<>> => Len(s) # 0
  OBVIOUS
<1> HIDE DEF v
<1>2. QED
  BY <1>1 DEF FlushBehind, FlushQueued, v

LEMMA TailFlush ==
    ASSUME NEW s \in Seq(Savers), s # <<>>
    PROVE  /\ FlushBehind(s) => FlushQueued(Tail(s))
           /\ FlushQueued(s) /\ Head(s) \in Task => FlushBehind(s)
<1> DEFINE v == Tail(s)
<1>1. /\ Len(s) \in Nat /\ DOMAIN v = 1..(Len(s) - 1) /\ DOMAIN s = 1..Len(s)
      /\ Head(s) = s[1] /\ \A i \in 1..(Len(s) - 1) : v[i] = s[i + 1]
  OBVIOUS
<1> HIDE DEF v
<1>2. ASSUME FlushBehind(s) PROVE FlushQueued(v)
  <2>1. PICK j \in DOMAIN s : j # 1 /\ s[j] \notin Task
    BY <1>2 DEF FlushBehind
  <2>2. j - 1 \in DOMAIN v /\ v[j - 1] = s[j]
    BY <1>1, <2>1
  <2>3. QED
    BY <2>1, <2>2 DEF FlushQueued
<1>3. QED
  BY <1>1, <1>2 DEF FlushBehind, FlushQueued, v

\* Entries that count are entries that memory had.
LEMMA KeptHolds ==
    ASSUME NEW c, NEW d, KeepsUsage(c, d), NEW e \in Entries, e.usage > 0, Holds(d, e)
    PROVE  Holds(c, e)
<1>1. PICK i \in DOMAIN d.keys : d.keys[i].key = e.key /\ d.keys[i].usage = e.usage
  BY DEF Holds
<1>2. Holds(c, d.keys[i])
  BY <1>1 DEF KeepsUsage
<1>3. QED
  BY <1>1, <1>2 DEF Holds

LEMMA UsageStep ==
    ASSUME QueueInv, UsageInv, [Next]_configVars
    PROVE  UsageInv'
<1>0. /\ saves \in Seq(Savers) /\ (image # NoImage => saves # <<>>)
      /\ mem \in Configs /\ disk \in Configs
  BY DEF QueueInv, QueueFits, ConfigTypes
<1> SUFFICES ASSUME NEW e \in Entries, e.usage > 0, Holds(mem', e)
             PROVE  CountSafe(e)' /\ CountSafeInImage(e)'
  BY DEF UsageInv, Holds
<1>1. Holds(mem, e) => CountSafe(e) /\ CountSafeInImage(e)
  BY DEF UsageInv
<1>2. \A c, d : c.keys = d.keys => (Holds(c, e) <=> Holds(d, e))
  BY DEF Holds
\* Nothing but the queue grows.
<1>3. ASSUME Holds(mem, e), NEW x \in Savers, saves' = Append(saves, x),
             UNCHANGED <<disk, image>>, dirty' = dirty \/ x \notin Task
      PROVE  CountSafe(e)' /\ CountSafeInImage(e)'
  <2>1. /\ FlushBehind(saves) => FlushBehind(saves')
        /\ FlushQueued(saves) => FlushQueued(saves')
        /\ x \notin Task => FlushQueued(saves')
        /\ x \notin Task /\ saves # <<>> => FlushBehind(saves')
    BY <1>0, <1>3, AppendFlush
  <2>2. CountSafe(e) /\ CountSafeInImage(e)
    BY <1>1, <1>3
  <2>3. QED
    BY <1>0, <1>3, <2>1, <2>2 DEF CountSafe, CountSafeInImage, Holds
<1>4. ASSUME Holds(mem, e), UNCHANGED <<disk, saves, image, dirty>>
      PROVE  CountSafe(e)' /\ CountSafeInImage(e)'
  BY <1>1, <1>4 DEF CountSafe, CountSafeInImage, Holds
<1>5. ASSUME NEW t \in Task, \/ EditedKeys(t) \/ EditedTemplate(t)
                             \/ \E p \in Template : ClaimKey(t, p)
      PROVE  CountSafe(e)' /\ CountSafeInImage(e)'
  <2>1. saves' = Append(saves, t) /\ UNCHANGED <<disk, image, dirty>>
    BY <1>5 DEF EditedKeys, EditKeys, EditedTemplate, ClaimKey, Save
  <2>2. Holds(mem, e)
    <3>1. CASE EditedKeys(t)
      BY <3>1, KeptHolds DEF EditedKeys
    <3>2. CASE EditedTemplate(t) \/ \E p \in Template : ClaimKey(t, p)
      BY <1>2, <3>2, Zenon DEF EditedTemplate, ClaimKey
    <3>3. QED
      BY <1>5, <3>1, <3>2
  <2>3. QED
    BY <1>3, <2>1, <2>2 DEF Savers
<1>6. ASSUME image # NoImage, disk' = image, image' = NoImage, UNCHANGED dirty, Holds(mem, e),
             FlushQueued(Tail(saves)) => FlushQueued(saves')
      PROVE  CountSafe(e)' /\ CountSafeInImage(e)'
  <2>1. Holds(image, e) \/ dirty \/ FlushBehind(saves)
    BY <1>1, <1>6 DEF CountSafeInImage
  <2>2. FlushBehind(saves) => FlushQueued(saves')
    BY <1>0, <1>6, TailFlush
  <2>3. QED
    BY <1>6, <2>1, <2>2 DEF CountSafe, CountSafeInImage, Holds
<1>7. ASSUME NEW t \in Task, CallerGoesOn(t) PROVE CountSafe(e)' /\ CountSafeInImage(e)'
  <2>1. /\ image # NoImage /\ disk' = image /\ image' = NoImage /\ UNCHANGED dirty
        /\ t = Head(saves)
        /\ Minted(t) \/ Counted(t) \/ Answer(t)
    BY <1>7 DEF CallerGoesOn, SaveEnded, Written
  <2>2. Tail(saves) \in Seq(Savers) /\ t \in Savers
    BY <1>0, <2>1, TailQueue
  <2>3. Holds(mem, e)
    <3>1. CASE Minted(t)
      BY <3>1, KeptHolds DEF Minted
    <3>2. CASE Counted(t) \/ Answer(t)
      BY <1>2, <3>2, Zenon DEF Counted, Answer
    <3>3. QED
      BY <2>1, <3>1, <3>2
  <2>4. FlushQueued(Tail(saves)) => FlushQueued(saves')
    <3>1. saves' = Append(Tail(saves), t) \/ saves' = Tail(saves)
      BY <2>1 DEF Minted, Counted, Answer
    <3>2. QED
      BY <2>2, <3>1, AppendFlush
  <2>5. QED
    BY <1>6, <2>1, <2>3, <2>4
<1>8. CASE BackgroundSaved
  <2>1. /\ image # NoImage /\ disk' = image /\ image' = NoImage /\ UNCHANGED <<dirty, mem>>
        /\ saves' = Tail(saves)
    BY <1>8 DEF BackgroundSaved, SaveEnded, Written
  <2>2. QED
    BY <1>6, <2>1
<1>9. CASE FailSave
  <2>1. /\ saves # <<>> /\ saves' = Tail(saves) /\ image' = NoImage /\ UNCHANGED <<mem, disk>>
        /\ Head(saves) \in Task => UNCHANGED dirty
        /\ Head(saves) \notin Task => dirty' = TRUE
    BY <1>9 DEF FailSave
  <2>2. Holds(mem, e)
    BY <2>1
  <2>3. /\ FlushBehind(saves) => FlushQueued(saves')
        /\ FlushQueued(saves) /\ Head(saves) \in Task => FlushBehind(saves)
    BY <1>0, <2>1, TailFlush
  <2>4. QED
    BY <1>1, <2>1, <2>2, <2>3 DEF CountSafe, CountSafeInImage, Holds
<1>10. ASSUME NEW r \in Request, IncrementUsage(r) PROVE CountSafe(e)' /\ CountSafeInImage(e)'
  <2>1. dirty' = TRUE
    BY <1>10 DEF IncrementUsage
  <2>2. QED
    BY <2>1 DEF CountSafe, CountSafeInImage
<1>11. CASE Dump
  <2>1. image' = mem /\ image = NoImage /\ UNCHANGED <<mem, disk, saves, dirty>>
    BY <1>11 DEF Dump
  <2>2. QED
    BY <1>1, <2>1 DEF CountSafe, CountSafeInImage, Holds
<1>12. CASE WakeFlush \/ Shutdown
  <2>1. UNCHANGED <<mem, disk, image>>
    BY <1>12 DEF WakeFlush, Shutdown
  <2>2. \/ UNCHANGED <<saves, dirty>>
        \/ \E x \in Savers \ Task : saves' = Append(saves, x)
    BY <1>12, ConfigAssumption DEF WakeFlush, Shutdown, FlushUsage, Save, Savers
  <2>3. CASE UNCHANGED <<saves, dirty>>
    BY <1>4, <2>1, <2>3
  <2>4. ASSUME NEW x \in Savers, x \notin Task, saves' = Append(saves, x)
        PROVE  CountSafe(e)' /\ CountSafeInImage(e)'
    <3>1. FlushQueued(saves') /\ (saves # <<>> => FlushBehind(saves'))
      BY <1>0, <2>4, AppendFlush
    <3>2. QED
      BY <1>0, <2>1, <3>1 DEF CountSafe, CountSafeInImage
  <2>5. QED
    BY <2>2, <2>3, <2>4
<1>13. CASE MonthBegins
  <2>1. mem' = Unused(mem)
    BY <1>13 DEF MonthBegins
  <2>2. PICK i \in DOMAIN mem'.keys : mem'.keys[i].usage = e.usage
    BY DEF Holds
  <2>3. mem'.keys[i].usage = 0
    BY <1>0, <2>1, <2>2, UnusedIs
  <2>4. QED
    BY <2>2, <2>3
<1>14. CASE Restart
  BY <1>14 DEF Restart, CountSafe, CountSafeInImage, Holds
<1>15. ASSUME NEW r \in Request, Drop(r) \/ \E k \in Key : Admit(r, k)
       PROVE  CountSafe(e)' /\ CountSafeInImage(e)'
  BY <1>4, <1>15 DEF Drop, Admit
<1>16. CASE UNCHANGED configVars
  BY <1>4, <1>16 DEF configVars
<1>17. QED
  BY <1>5, <1>7, <1>8, <1>9, <1>10, <1>11, <1>12, <1>13, <1>14, <1>15, <1>16, StepCases, Zenon

\* No use is taken for saved that is not.
THEOREM ConfigForgetsNoUse == Spec => []UsageNotForgotten
<1>1. Init => UsageInv
  <2>1. Init => mem.keys = <<>>
    BY DEF Init
  <2>2. QED
    BY <2>1 DEF UsageInv, Holds
<1>2. QueueInv /\ UsageInv /\ [Next]_configVars => UsageInv'
  BY UsageStep
<1>3. QueueInv /\ UsageInv => UsageNotForgotten
  BY UsageInvHolds
<1>4. QED
  BY ConfigQueue, <1>1, <1>2, <1>3, PTL DEF Spec

----------------------------------------------------------------------------
(* Checked first, counted later                                            *)

\* S is a set of actors, A those that have passed the check of a limit and are not counted
\* yet, u the count.  The overrun stays within the other actors when nothing is counted and
\* when one who has passed is counted.
LEMMA OverrunKept ==
    ASSUME NEW S, IsFiniteSet(S), NEW limit \in Nat, NEW A \in SUBSET S, NEW B \in SUBSET S,
           NEW u \in Nat, NEW v \in Nat, u + Cardinality(A) < limit + Cardinality(S),
           \/ v = u /\ B \subseteq A
           \/ v = u + 1 /\ \E x \in A : B \subseteq A \ {x}
    PROVE  v + Cardinality(B) < limit + Cardinality(S)
<1>1. /\ IsFiniteSet(A) /\ IsFiniteSet(B)
      /\ Cardinality(A) \in Nat /\ Cardinality(B) \in Nat /\ Cardinality(S) \in Nat
      /\ Cardinality(B) <= Cardinality(S)
  BY FS_Subset, FS_CardinalityType
<1>2. CASE v = u /\ B \subseteq A
  <2>1. Cardinality(B) <= Cardinality(A)
    BY <1>1, <1>2, FS_Subset
  <2>2. QED
    BY <1>1, <1>2, <2>1
<1>4. CASE v = u + 1 /\ \E x \in A : B \subseteq A \ {x}
  <2>1. PICK x \in A : B \subseteq A \ {x}
    BY <1>4
  <2>2. IsFiniteSet(A \ {x}) /\ Cardinality(A \ {x}) = Cardinality(A) - 1
    BY <1>1, <2>1, FS_RemoveElement
  <2>3. Cardinality(B) <= Cardinality(A \ {x})
    BY <2>1, <2>2, FS_Subset
  <2>4. QED
    BY <1>1, <1>4, <2>2, <2>3
<1>5. QED
  BY <1>2, <1>4

\* Nobody passes who is not below the limit.
LEMMA BelowIsWithin ==
    ASSUME NEW S, IsFiniteSet(S), NEW B \in SUBSET S, NEW limit \in Nat, NEW over \in Nat,
           NEW v \in Nat, v < limit
    PROVE  v + Cardinality(B) < limit + over + Cardinality(S)
<1>1. Cardinality(B) \in Nat /\ Cardinality(S) \in Nat /\ Cardinality(B) <= Cardinality(S)
  BY FS_Subset, FS_CardinalityType
<1>2. QED
  BY <1>1

\* Claims

\* In a saved copy nobody is under way.
ClaimsBelow(c) == \A p \in Template :
    LET r == c.templates[p] IN
    r.limit # NoLimit => r.used < r.limit + r.over + Cardinality(Task)

ClaimsInv ==
    /\ \A p \in Template : ClaimsWithin(p, mem.templates[p])
    /\ ClaimsBelow(disk)
    /\ image # NoImage => ClaimsBelow(image)

LEMMA ClaimsBelowMem ==
    ASSUME QueueInv, ClaimsInv
    PROVE  ClaimsBelow(mem)
<1> SUFFICES ASSUME NEW p \in Template, mem.templates[p].limit # NoLimit
             PROVE  mem.templates[p].used < mem.templates[p].limit + mem.templates[p].over
                                            + Cardinality(Task)
  BY DEF ClaimsBelow
<1> DEFINE r == mem.templates[p]
<1>1. r \in Claimable
  BY ConfigParts DEF QueueInv, ConfigTypes
<1>2. r.used + Cardinality(Claimants(p)) < r.limit + r.over + Cardinality(Task)
  BY DEF ClaimsInv, ClaimsWithin
<1> HIDE DEF r
<1>3. r.used \in Nat /\ (r.limit # NoLimit => r.limit \in Nat) /\ r.over \in Nat
  BY <1>1 DEF Claimable
<1>4. r.used < r.limit + r.over + Cardinality(Task)
  <2>1. r.limit \in Nat
    BY <1>3 DEF r
  <2>2. QED
    BY <1>2, <1>3, <2>1, ActorsAreNumbers
<1>5. QED
  BY <1>4 DEF r

\* What may happen to a template, and to those who claim from it.
ClaimsGoOn(p) ==
    LET r == mem.templates[p]
        n == mem'.templates[p]
    IN  \/ n = r /\ Claimants(p)' \subseteq Claimants(p)
        \/ ClaimsWithin(p, n) /\ Claimants(p)' \subseteq Claimants(p)
        \/ n.limit # NoLimit => n.used < n.limit
        \/ n = [r EXCEPT !.used = r.used + 1]
           /\ \E t \in Claimants(p) : Claimants(p)' \subseteq Claimants(p) \ {t}

LEMMA ClaimsStep ==
    ASSUME QueueInv, ClaimsInv, [Next]_configVars
    PROVE  ClaimsInv'
<1>0. /\ mem \in Configs /\ disk \in Configs /\ image \in Configs \cup {NoImage}
      /\ mem' \in Configs
      /\ task \in [Task -> Jobs]
  BY QueueStep DEF QueueInv, ConfigTypes
<1>1. ASSUME \A p \in Template : ClaimsGoOn(p), ClaimsBelow(disk'),
             image' # NoImage => ClaimsBelow(image')
      PROVE  ClaimsInv'
  <2>1. SUFFICES ASSUME NEW p \in Template, mem'.templates[p].limit # NoLimit
                 PROVE  mem'.templates[p].used + Cardinality(Claimants(p)')
                           < mem'.templates[p].limit + mem'.templates[p].over + Cardinality(Task)
    BY <1>1 DEF ClaimsInv, ClaimsBelow, ClaimsWithin
  <2> DEFINE r == mem.templates[p]
             n == mem'.templates[p]
             A == Claimants(p)
             B == Claimants(p)'
             most == n.limit + n.over
  <2>2. r \in Claimable /\ n \in Claimable
    BY <1>0, ConfigParts
  <2>3. A \in SUBSET Task /\ B \in SUBSET Task
    BY DEF Claimants
  <2>4. r.limit # NoLimit => r.used + Cardinality(A) < r.limit + r.over + Cardinality(Task)
    BY DEF ClaimsInv, ClaimsWithin
  <2>5. \/ n = r /\ B \subseteq A
        \/ n.used + Cardinality(A) < most + Cardinality(Task) /\ B \subseteq A
        \/ n.used < n.limit
        \/ n = [r EXCEPT !.used = r.used + 1] /\ \E x \in A : B \subseteq A \ {x}
    BY <1>1, <2>1 DEF ClaimsGoOn, ClaimsWithin
  <2>6. n.limit # NoLimit
    BY <2>1
  <2> HIDE DEF r, n, A, B
  <2>7. n.used \in Nat /\ n.limit \in Nat /\ n.over \in Nat /\ most \in Nat /\ r.used \in Nat
    BY <2>2, <2>6 DEF Claimable
  <2>8. n.used + Cardinality(B) < most + Cardinality(Task)
    <3>1. CASE n.used < n.limit
      BY <2>3, <2>7, <3>1, ActorsAreNumbers, BelowIsWithin
    <3>2. CASE \/ n = r /\ B \subseteq A
               \/ n.used + Cardinality(A) < most + Cardinality(Task) /\ B \subseteq A
      <4>1. n.used + Cardinality(A) < most + Cardinality(Task) /\ B \subseteq A
        BY <2>4, <2>6, <3>2
      <4> HIDE DEF most
      <4>2. QED
        BY <2>3, <2>7, <4>1, ActorsAreNumbers, OverrunKept
    <3>3. CASE n = [r EXCEPT !.used = r.used + 1] /\ \E x \in A : B \subseteq A \ {x}
      <4>1. n.used = r.used + 1 /\ n.limit = r.limit /\ n.over = r.over
        BY <2>2, <3>3 DEF Claimable
      <4>2. r.used + Cardinality(A) < most + Cardinality(Task)
        BY <2>4, <2>6, <4>1
      <4> HIDE DEF most
      <4>3. QED
        BY <2>3, <2>7, <3>3, <4>1, <4>2, ActorsAreNumbers, OverrunKept
    <3>4. QED
      BY <2>5, <3>1, <3>2, <3>3
  <2>9. QED
    BY <2>8 DEF n, B
<1>2. ASSUME mem'.templates = mem.templates, \A p \in Template : Claimants(p)' \subseteq Claimants(p)
      PROVE  \A p \in Template : ClaimsGoOn(p)
  BY <1>2 DEF ClaimsGoOn
<1>3. ASSUME mem'.templates = mem.templates, UNCHANGED <<task, disk, image>>
      PROVE  ClaimsInv'
  <2>1. \A p \in Template : Claimants(p)' = Claimants(p)
    BY <1>3 DEF Claimants
  <2>2. QED
    BY <1>1, <1>2, <1>3, <2>1 DEF ClaimsInv, ClaimsBelow
<1>4. ASSUME NEW t \in Task, NEW j, j.op \notin {"attempt", "mint"}, task' = [task EXCEPT ![t] = j]
      PROVE  \A p \in Template : Claimants(p)' \subseteq Claimants(p)
  BY <1>0, <1>4 DEF Claimants
<1>5. Idle.op \notin {"attempt", "mint"} /\ [Idle EXCEPT !.op = "edit"].op \notin {"attempt", "mint"}
  BY DEF Idle
<1>6. ASSUME NEW t \in Task, EditedKeys(t) PROVE ClaimsInv'
  <2>1. /\ mem'.templates = mem.templates /\ UNCHANGED <<disk, image>>
        /\ task' = [task EXCEPT ![t] = [Idle EXCEPT !.op = "edit"]]
    BY <1>6 DEF EditedKeys, EditKeys
  <2>2. QED
    BY <1>1, <1>2, <1>4, <1>5, <2>1 DEF ClaimsInv, ClaimsBelow
<1>7. ASSUME NEW t \in Task, EditedTemplate(t) PROVE ClaimsInv'
  <2>1. /\ \A q \in Template : \/ mem'.templates[q] = mem.templates[q]
                               \/ ClaimsWithin(q, mem'.templates[q])
        /\ UNCHANGED <<disk, image>>
        /\ task' = [task EXCEPT ![t] = [Idle EXCEPT !.op = "edit"]]
    BY <1>7 DEF EditedTemplate
  <2>2. \A p \in Template : Claimants(p)' \subseteq Claimants(p)
    BY <1>4, <1>5, <2>1
  <2>3. \A p \in Template : ClaimsGoOn(p)
    BY <2>1, <2>2 DEF ClaimsGoOn
  <2>4. QED
    BY <1>1, <2>1, <2>3 DEF ClaimsInv, ClaimsBelow
<1>8. ASSUME NEW t \in Task, NEW p \in Template, ClaimKey(t, p) PROVE ClaimsInv'
  <2>1. /\ mem.templates[p].limit # NoLimit => mem.templates[p].used < mem.templates[p].limit
        /\ UNCHANGED <<mem, disk, image>>
        /\ task' = [task EXCEPT ![t] = [op |-> "attempt", template |-> p]]
    BY <1>8 DEF ClaimKey, MayClaim
  <2>2. \A q \in Template : q # p => Claimants(q)' \subseteq Claimants(q)
    BY <1>0, <2>1 DEF Claimants
  <2>3. \A q \in Template : ClaimsGoOn(q)
    BY <2>1, <2>2 DEF ClaimsGoOn
  <2>4. QED
    BY <1>1, <2>1, <2>3 DEF ClaimsInv, ClaimsBelow
<1>9. ASSUME image # NoImage, disk' = image, image' = NoImage, \A p \in Template : ClaimsGoOn(p)
      PROVE  ClaimsInv'
  BY <1>1, <1>9 DEF ClaimsInv
<1>10. ASSUME NEW t \in Task, CallerGoesOn(t) PROVE ClaimsInv'
  <2>1. image # NoImage /\ disk' = image /\ image' = NoImage
    BY <1>10 DEF CallerGoesOn, SaveEnded, Written
  <2>2. CASE Minted(t)
    <3>1. /\ task[t].op = "attempt" /\ task' = [task EXCEPT ![t].op = "mint"]
          /\ mem'.templates = mem.templates
      BY <2>2 DEF Minted
    <3>2. task[t] \in Jobs
      BY <1>0
    <3>3. \A p \in Template : Claimants(p)' \subseteq Claimants(p)
      BY <1>0, <3>1, <3>2 DEF Claimants, Jobs
    <3>4. QED
      BY <1>2, <1>9, <2>1, <3>1, <3>3
  <2>3. CASE Counted(t)
    <3> DEFINE p == task[t].template
    <3>1. /\ task[t].op = "mint" /\ task' = [task EXCEPT ![t].op = "count"]
          /\ \A q \in Template : mem'.templates[q] =
                IF q = p THEN [mem.templates[q] EXCEPT !.used = mem.templates[q].used + 1]
                ELSE mem.templates[q]
      BY <2>3 DEF Counted
    <3>2. task[t] \in Jobs /\ t \in Claimants(p)
      BY <1>0, <3>1 DEF Claimants
    <3>3. \A q \in Template : Claimants(q)' \subseteq Claimants(q) \ {t}
      BY <1>0, <3>1, <3>2 DEF Claimants, Jobs
    <3> HIDE DEF p
    <3>4. \A q \in Template : ClaimsGoOn(q)
      BY <3>1, <3>2, <3>3 DEF ClaimsGoOn
    <3>5. QED
      BY <1>9, <2>1, <3>4
  <2>4. CASE Answer(t)
    <3>1. task' = [task EXCEPT ![t] = Idle] /\ mem'.templates = mem.templates
      BY <2>4 DEF Answer
    <3>2. QED
      BY <1>2, <1>4, <1>5, <1>9, <2>1, <3>1
  <2>5. QED
    BY <1>10, <2>2, <2>3, <2>4 DEF CallerGoesOn
<1>11. CASE BackgroundSaved
  <2>1. /\ image # NoImage /\ disk' = image /\ image' = NoImage /\ UNCHANGED <<mem, task>>
    BY <1>11 DEF BackgroundSaved, SaveEnded, Written
  <2>2. \A p \in Template : Claimants(p)' = Claimants(p)
    BY <2>1 DEF Claimants
  <2>3. QED
    BY <1>2, <1>9, <2>1, <2>2
<1>12. CASE FailSave
  <2>1. image' = NoImage /\ UNCHANGED <<mem, disk>>
        /\ (task' = task \/ \E t \in Task : task' = [task EXCEPT ![t] = Idle])
    BY <1>12 DEF FailSave
  <2>2. \A p \in Template : Claimants(p)' \subseteq Claimants(p)
    BY <1>4, <1>5, <2>1 DEF Claimants
  <2>3. ClaimsBelow(disk')
    BY <2>1 DEF ClaimsInv
  <2>4. QED
    BY <1>1, <1>2, <2>1, <2>2, <2>3
<1>13. CASE Dump
  <2>1. image' = mem /\ UNCHANGED <<mem, disk, task>>
    BY <1>13 DEF Dump
  <2>2. \A p \in Template : Claimants(p)' = Claimants(p)
    BY <2>1 DEF Claimants
  <2>3. ClaimsBelow(image') /\ ClaimsBelow(disk')
    BY <2>1, ClaimsBelowMem DEF ClaimsInv
  <2>4. QED
    BY <1>1, <1>2, <2>1, <2>2, <2>3
<1>14. ASSUME NEW r \in Request, IncrementUsage(r) PROVE ClaimsInv'
  <2>1. request[r] \in KeysOf(mem) /\ UNCHANGED <<task, disk, image>>
        /\ mem' = [mem EXCEPT !.keys[LastOf(mem, request[r])].usage = @ + 1]
    BY <1>14 DEF IncrementUsage
  <2>2. mem'.templates = mem.templates
    BY <1>0, <2>1, CountOne
  <2>3. QED
    BY <1>3, <2>1, <2>2
<1>15. CASE MonthBegins
  <2>1. \A c \in Configs : Unused(c).templates = c.templates
    BY UnusedIs
  <2>2. /\ mem'.templates = mem.templates /\ disk'.templates = disk.templates
        /\ image' # NoImage => image # NoImage /\ image'.templates = image.templates
    BY <1>0, <1>15, <2>1 DEF MonthBegins
  <2>3. \A p \in Template : Claimants(p)' = Claimants(p)
    BY <1>15 DEF Claimants, MonthBegins
  <2>4. QED
    BY <1>1, <1>2, <2>2, <2>3 DEF ClaimsInv, ClaimsBelow
<1>16. CASE Restart
  <2>1. mem' = disk /\ image' = NoImage /\ UNCHANGED disk /\ task' = [t \in Task |-> Idle]
    BY <1>16 DEF Restart
  <2>2. \A p \in Template : Claimants(p)' = {}
    BY <1>5, <2>1 DEF Claimants
  <2>3. ASSUME NEW p \in Template, mem'.templates[p].limit # NoLimit
        PROVE  mem'.templates[p].used + Cardinality(Claimants(p)')
                  < mem'.templates[p].limit + mem'.templates[p].over + Cardinality(Task)
    <3>1. Cardinality(Claimants(p)') = 0
      BY <2>2, FS_EmptySet
    <3>2. mem'.templates[p].used \in Nat
      BY <1>0, ConfigParts
    <3>3. mem'.templates[p].used < mem'.templates[p].limit + mem'.templates[p].over + Cardinality(Task)
      BY <2>1, <2>3 DEF ClaimsInv, ClaimsBelow
    <3>4. QED
      BY <3>1, <3>2, <3>3
  <2>4. ClaimsBelow(disk')
    BY <2>1 DEF ClaimsInv
  <2>5. QED
    BY <2>1, <2>3, <2>4 DEF ClaimsInv, ClaimsBelow, ClaimsWithin
<1>17. CASE WakeFlush \/ Shutdown \/ UNCHANGED configVars
  BY <1>3, <1>17 DEF WakeFlush, Shutdown, configVars
<1>18. ASSUME NEW r \in Request, Drop(r) \/ \E k \in Key : Admit(r, k) PROVE ClaimsInv'
  BY <1>3, <1>18 DEF Drop, Admit
<1>19. QED
  BY <1>6, <1>7, <1>8, <1>10, <1>11, <1>12, <1>13, <1>14, <1>15, <1>16, <1>17, <1>18,
     StepCases, Zenon

\* A code is claimed too often by no more than the other claims that were under way, and what
\* a lowered limit found.
THEOREM ConfigClaimsBounded == Spec => []ClaimOverrunBounded
<1>1. Init => ClaimsInv
  <2>1. SUFFICES ASSUME Init PROVE ClaimsInv
    OBVIOUS
  <2>8. PICK on \in [Template -> {"new", "on"}], limit \in [Template -> Limits] :
          mem = [keys |-> <<>>,
                 templates |-> [p \in Template |-> [status |-> on[p], limit |-> limit[p],
                                                   used |-> 0, over |-> 0]]]
    BY <2>1 DEF Init
  <2>2. /\ \A p \in Template : /\ mem.templates[p].used = 0 /\ mem.templates[p].over = 0
                              /\ mem.templates[p].limit \in Nat \cup {NoLimit}
        /\ disk = mem /\ image = NoImage /\ task = [t \in Task |-> Idle]
    BY <2>1, <2>8, ConfigAssumption DEF Init, Start
  <2>3. \A p \in Template : Claimants(p) = {}
    BY <2>2 DEF Claimants, Idle
  <2>4. \A p \in Template : Cardinality(Claimants(p)) = 0
    BY <2>3, FS_EmptySet
  <2>5. ClaimsBelow(mem)
    BY <2>2, ActorsAreNumbers DEF ClaimsBelow
  <2>6. \A p \in Template : ClaimsWithin(p, mem.templates[p])
    BY <2>2, <2>4, ActorsAreNumbers DEF ClaimsWithin
  <2>7. QED
    BY <2>2, <2>5, <2>6 DEF ClaimsInv
<1>2. QueueInv /\ ClaimsInv /\ [Next]_configVars => ClaimsInv'
  BY ClaimsStep
<1>3. ClaimsInv => ClaimOverrunBounded
  BY DEF ClaimsInv, ClaimOverrunBounded, ClaimsWithin
<1>4. QED
  BY ConfigQueue, <1>1, <1>2, <1>3, PTL DEF Spec

\* Uses

\* In a saved copy nobody is under way.
UsageBelow(c) == \A k \in KeysOf(c) :
    LET e == Indexed(c, k) IN
    e.quota # NoLimit => e.usage < e.quota + e.over + Cardinality(Request)

QuotaInv ==
    /\ \A k \in KeysOf(mem) : UsesWithin(k, Indexed(mem, k))
    /\ UsageBelow(disk)
    /\ image # NoImage => UsageBelow(image)

LEMMA IndexedIsEntry ==
    ASSUME NEW c \in Configs, NEW k \in KeysOf(c)
    PROVE  /\ Indexed(c, k) \in Entries
           /\ Indexed(c, k).usage \in Nat /\ Indexed(c, k).over \in Nat
           /\ Indexed(c, k).quota # NoLimit => Indexed(c, k).quota \in Nat
<1> DEFINE e == Indexed(c, k)
<1>1. e \in Entries
  BY LastIsLast, ConfigParts DEF Indexed
<1> HIDE DEF e
<1>2. e \in Entries /\ e.usage \in Nat /\ e.over \in Nat /\ (e.quota # NoLimit => e.quota \in Nat)
  BY <1>1 DEF Entries
<1>3. QED
  BY <1>2 DEF e

\* Who is within a bound with those under way is within it without them.
LEMMA WithinIsBelow ==
    ASSUME NEW c \in Configs, \A k \in KeysOf(c) : UsesWithin(k, Indexed(c, k))
    PROVE  UsageBelow(c)
<1> SUFFICES ASSUME NEW k \in KeysOf(c), Indexed(c, k).quota # NoLimit
             PROVE  Indexed(c, k).usage < Indexed(c, k).quota + Indexed(c, k).over
                                          + Cardinality(Request)
  BY DEF UsageBelow
<1> DEFINE e == Indexed(c, k)
<1>1. e.usage + Cardinality(Admitted(k)) < e.quota + e.over + Cardinality(Request)
  BY DEF UsesWithin
<1>2. e.usage \in Nat /\ e.quota \in Nat /\ e.over \in Nat
  BY IndexedIsEntry
<1> HIDE DEF e
<1>3. e.usage < e.quota + e.over + Cardinality(Request)
  BY <1>1, <1>2, ActorsAreNumbers
<1>4. QED
  BY <1>3 DEF e

LEMMA UsageBelowMem ==
    ASSUME QueueInv, QuotaInv
    PROVE  UsageBelow(mem)
BY WithinIsBelow DEF QueueInv, ConfigTypes, QuotaInv

\* What may happen to an entry, and to the requests that were admitted with it.
UsesGoOn(k) ==
    LET e == Indexed(mem, k)
        n == Indexed(mem', k)
    IN  \/ k \in KeysOf(mem) /\ n = e /\ Admitted(k)' \subseteq Admitted(k)
        \/ UsesWithin(k, n) /\ Admitted(k)' \subseteq Admitted(k)
        \/ n.quota # NoLimit => n.usage < n.quota
        \/ /\ k \in KeysOf(mem)
           /\ n.usage = e.usage + 1 /\ n.quota = e.quota /\ n.over = e.over
           /\ \E r \in Admitted(k) : Admitted(k)' \subseteq Admitted(k) \ {r}

LEMMA QuotaStep ==
    ASSUME QueueInv, NoStaleGate, QuotaInv, [Next]_configVars
    PROVE  QuotaInv'
<1>0. /\ mem \in Configs /\ disk \in Configs /\ image \in Configs \cup {NoImage}
      /\ mem' \in Configs
      /\ request \in [Request -> Key \cup {NoKey}]
  BY QueueStep DEF QueueInv, ConfigTypes
<1>1. ASSUME \A k \in KeysOf(mem') : UsesGoOn(k), UsageBelow(disk'),
             image' # NoImage => UsageBelow(image')
      PROVE  QuotaInv'
  <2>1. ASSUME NEW k \in KeysOf(mem'), Indexed(mem', k).quota # NoLimit
        PROVE  Indexed(mem', k).usage + Cardinality(Admitted(k)')
                  < Indexed(mem', k).quota + Indexed(mem', k).over + Cardinality(Request)
    <3> DEFINE e == Indexed(mem, k)
               n == Indexed(mem', k)
               A == Admitted(k)
               B == Admitted(k)'
               most == n.quota + n.over
    <3>1. /\ n.usage \in Nat /\ n.quota \in Nat /\ n.over \in Nat
          /\ A \in SUBSET Request /\ B \in SUBSET Request
      BY <1>0, <2>1, IndexedIsEntry DEF Admitted
    <3>2. k \in KeysOf(mem) =>
             /\ e.usage \in Nat
             /\ e.quota # NoLimit =>
                   e.usage + Cardinality(A) < e.quota + e.over + Cardinality(Request)
      BY <1>0, IndexedIsEntry DEF QuotaInv, UsesWithin
    <3>3. \/ k \in KeysOf(mem) /\ n = e /\ B \subseteq A
          \/ n.usage + Cardinality(A) < most + Cardinality(Request) /\ B \subseteq A
          \/ n.usage < n.quota
          \/ /\ k \in KeysOf(mem)
             /\ n.usage = e.usage + 1 /\ n.quota = e.quota /\ n.over = e.over
             /\ \E r \in A : B \subseteq A \ {r}
      BY <1>1, <2>1 DEF UsesGoOn, UsesWithin
    <3>4. n.quota # NoLimit
      BY <2>1
    <3> HIDE DEF e, n, A, B
    <3>5. most \in Nat
      BY <3>1
    <3>6. n.usage + Cardinality(B) < most + Cardinality(Request)
      <4>1. CASE n.usage < n.quota
        BY <3>1, <4>1, ActorsAreNumbers, BelowIsWithin
      <4>2. CASE \/ k \in KeysOf(mem) /\ n = e /\ B \subseteq A
                 \/ n.usage + Cardinality(A) < most + Cardinality(Request) /\ B \subseteq A
        <5>1. n.usage + Cardinality(A) < most + Cardinality(Request) /\ B \subseteq A
          BY <3>2, <3>4, <4>2
        <5> HIDE DEF most
        <5>2. QED
          BY <3>1, <3>5, <5>1, ActorsAreNumbers, OverrunKept
      <4>3. CASE /\ k \in KeysOf(mem)
                 /\ n.usage = e.usage + 1 /\ n.quota = e.quota /\ n.over = e.over
                 /\ \E r \in A : B \subseteq A \ {r}
        <5>1. e.usage \in Nat /\ e.usage + Cardinality(A) < most + Cardinality(Request)
          BY <3>2, <3>4, <4>3
        <5> HIDE DEF most
        <5>2. QED
          BY <3>1, <3>5, <4>3, <5>1, ActorsAreNumbers, OverrunKept
      <4>4. QED
        BY <3>3, <4>1, <4>2, <4>3
    <3>7. QED
      BY <3>6 DEF n, B
  <2>2. QED
    BY <1>1, <2>1 DEF QuotaInv, UsesWithin, UsageBelow, KeysOf, Indexed, LastOf, PositionsOf
<1>2. ASSUME KeepsUsage(mem, mem'), \A k \in Key : Admitted(k)' \subseteq Admitted(k)
      PROVE  \A k \in KeysOf(mem') : UsesGoOn(k)
  <2>1. KeysOf(mem') \subseteq Key
    BY <1>0, ConfigParts DEF KeysOf
  <2>2. QED
    BY <1>2, <2>1 DEF KeepsUsage, UsesGoOn
<1>3. ASSUME mem'.keys = mem.keys, \A k \in Key : Admitted(k)' \subseteq Admitted(k)
      PROVE  \A k \in KeysOf(mem') : UsesGoOn(k)
  <2>1. KeysOf(mem') = KeysOf(mem) /\ \A k : Indexed(mem', k) = Indexed(mem, k)
    BY <1>3, Zenon DEF KeysOf, Indexed, LastOf, PositionsOf
  <2>2. KeysOf(mem) \subseteq Key
    BY <1>0, ConfigParts DEF KeysOf
  <2>3. QED
    BY <1>3, <2>1, <2>2 DEF UsesGoOn
<1>4. ASSUME UNCHANGED request PROVE \A k \in Key : Admitted(k)' = Admitted(k)
  BY <1>4 DEF Admitted
<1>5. UNCHANGED disk => UsageBelow(disk')
  BY DEF QuotaInv
<1>6. image' \in {image, NoImage} => (image' # NoImage => UsageBelow(image'))
  BY DEF QuotaInv
<1>7. ASSUME NEW t \in Task, \/ EditedKeys(t) \/ EditedTemplate(t)
                             \/ \E p \in Template : ClaimKey(t, p)
      PROVE  QuotaInv'
  <2>1. UNCHANGED <<disk, image, request>>
    BY <1>7 DEF EditedKeys, EditKeys, EditedTemplate, ClaimKey
  <2>2. KeepsUsage(mem, mem') \/ mem'.keys = mem.keys
    BY <1>7 DEF EditedKeys, EditedTemplate, ClaimKey
  <2>3. QED
    BY <1>1, <1>2, <1>3, <1>4, <1>5, <1>6, <2>1, <2>2
<1>8. ASSUME NEW t \in Task, CallerGoesOn(t) PROVE QuotaInv'
  <2>1. image # NoImage /\ disk' = image /\ image' = NoImage /\ UNCHANGED request
    BY <1>8 DEF CallerGoesOn, SaveEnded, Written
  <2>2. KeepsUsage(mem, mem') \/ mem'.keys = mem.keys
    BY <1>8 DEF CallerGoesOn, Minted, Counted, Answer
  <2>3. UsageBelow(disk')
    BY <2>1 DEF QuotaInv
  <2>4. QED
    BY <1>1, <1>2, <1>3, <1>4, <1>6, <2>1, <2>2, <2>3
<1>9. CASE BackgroundSaved
  <2>1. image # NoImage /\ disk' = image /\ image' = NoImage /\ UNCHANGED <<request, mem>>
    BY <1>9 DEF BackgroundSaved, SaveEnded, Written
  <2>2. UsageBelow(disk')
    BY <2>1 DEF QuotaInv
  <2>3. QED
    BY <1>1, <1>3, <1>4, <1>6, <2>1, <2>2
<1>10. CASE Dump
  <2>1. image' = mem /\ UNCHANGED <<mem, disk, request>>
    BY <1>10 DEF Dump
  <2>2. UsageBelow(image')
    BY <2>1, UsageBelowMem
  <2>3. QED
    BY <1>1, <1>3, <1>4, <1>5, <2>1, <2>2
<1>11. ASSUME mem' = mem, UNCHANGED disk, image' \in {image, NoImage},
              \A k \in Key : Admitted(k)' \subseteq Admitted(k)
       PROVE  QuotaInv'
  BY <1>1, <1>3, <1>5, <1>6, <1>11
<1>12. CASE FailSave \/ WakeFlush \/ Shutdown \/ UNCHANGED configVars
  <2>1. UNCHANGED <<mem, disk, request>> /\ image' \in {image, NoImage}
    BY <1>12 DEF FailSave, WakeFlush, Shutdown, configVars
  <2>2. QED
    BY <1>4, <1>11, <2>1
<1>13. ASSUME NEW r \in Request, Drop(r) PROVE QuotaInv'
  <2>1. UNCHANGED <<mem, disk, image>> /\ request' = [request EXCEPT ![r] = NoKey]
    BY <1>13 DEF Drop
  <2>2. \A k \in Key : Admitted(k)' \subseteq Admitted(k)
    BY <1>0, <2>1, ConfigAssumption DEF Admitted
  <2>3. QED
    BY <1>11, <2>1, <2>2
\* Who is admitted is admitted below the quota of the key.
<1>14. ASSUME NEW r \in Request, NEW k \in Key, Admit(r, k) PROVE QuotaInv'
  <2>1. /\ UNCHANGED <<mem, disk, image>> /\ request[r] = NoKey
        /\ request' = [request EXCEPT ![r] = IF Accepts(k) THEN k ELSE NoKey]
    BY <1>14 DEF Admit
  <2>2. Accepts(k) => /\ k \in KeysOf(mem)
                      /\ Indexed(mem, k).quota # NoLimit =>
                            Indexed(mem, k).usage < Indexed(mem, k).quota
    BY DEF Accepts, NoStaleGate
  <2>3. \A q \in Key : (q # k \/ ~Accepts(k)) => Admitted(q)' \subseteq Admitted(q)
    BY <1>0, <2>1, ConfigAssumption DEF Admitted
  <2>4. KeysOf(mem) \subseteq Key
    BY <1>0, ConfigParts DEF KeysOf
  <2>5. mem' = mem
    BY <2>1
  <2>6. \A q \in KeysOf(mem') : UsesGoOn(q)
    BY <2>2, <2>3, <2>4, <2>5 DEF UsesGoOn
  <2>7. QED
    BY <1>1, <1>5, <1>6, <2>1, <2>6
<1>15. ASSUME NEW r \in Request, IncrementUsage(r) PROVE QuotaInv'
  <2> DEFINE k == request[r]
  <2>1. /\ k \in KeysOf(mem) /\ UNCHANGED <<disk, image>>
        /\ mem' = [mem EXCEPT !.keys[LastOf(mem, k)].usage = @ + 1]
        /\ request' = [request EXCEPT ![r] = NoKey]
    BY <1>15 DEF IncrementUsage
  <2>2. KeysOf(mem) \subseteq Key
    BY <1>0, ConfigParts DEF KeysOf
  <2>3. k \in Key /\ k # NoKey /\ r \in Admitted(k)
    BY <2>1, <2>2, ConfigAssumption DEF Admitted
  <2>4. /\ KeysOf(mem') = KeysOf(mem)
        /\ \A q \in KeysOf(mem) : q # k => Indexed(mem', q) = Indexed(mem, q)
        /\ Indexed(mem', k).usage = Indexed(mem, k).usage + 1
        /\ Indexed(mem', k).quota = Indexed(mem, k).quota
        /\ Indexed(mem', k).over = Indexed(mem, k).over
    BY <1>0, <2>1, CountOne
  <2>5. \A q \in Key : /\ Admitted(q)' \subseteq Admitted(q)
                       /\ q = k => Admitted(q)' \subseteq Admitted(q) \ {r}
    BY <1>0, <2>1, <2>3, ConfigAssumption DEF Admitted
  <2> HIDE DEF k
  <2>6. \A q \in KeysOf(mem') : UsesGoOn(q)
    BY <2>2, <2>3, <2>4, <2>5 DEF UsesGoOn
  <2>7. QED
    BY <1>1, <1>5, <1>6, <2>1, <2>6
<1>16. CASE MonthBegins
  <2>1. ASSUME NEW c \in Configs
        PROVE  /\ \A k \in KeysOf(Unused(c)) : UsesWithin(k, Indexed(Unused(c), k))
               /\ UsageBelow(Unused(c))
    BY UnusedIs, WithinIsBelow
  <2>2. /\ mem' = Unused(mem) /\ disk' = Unused(disk) /\ UNCHANGED request
        /\ image' = IF image = NoImage THEN NoImage ELSE Unused(image)
    BY <1>16 DEF MonthBegins
  <2>3. KeysOf(mem') \subseteq Key
    BY <1>0, ConfigParts DEF KeysOf
  <2>4. \A k \in KeysOf(mem') : UsesGoOn(k)
    BY <1>0, <1>4, <2>1, <2>2, <2>3 DEF UsesGoOn
  <2>5. UsageBelow(disk') /\ (image' # NoImage => UsageBelow(image'))
    BY <1>0, <2>1, <2>2
  <2>6. QED
    BY <1>1, <2>4, <2>5
<1>17. CASE Restart
  <2>1. mem' = disk /\ image' = NoImage /\ UNCHANGED disk /\ request' = [r \in Request |-> NoKey]
    BY <1>17 DEF Restart
  <2>2. KeysOf(mem') \subseteq Key
    BY <1>0, ConfigParts DEF KeysOf
  <2>3. ASSUME NEW k \in KeysOf(mem'), Indexed(mem', k).quota # NoLimit
        PROVE  Indexed(mem', k).usage + Cardinality(Admitted(k)')
                  < Indexed(mem', k).quota + Indexed(mem', k).over + Cardinality(Request)
    <3>1. Admitted(k)' = {}
      BY <2>1, <2>2, <2>3, ConfigAssumption DEF Admitted
    <3>2. Cardinality(Admitted(k)') = 0
      BY <3>1, FS_EmptySet
    <3>3. Indexed(mem', k).usage \in Nat
      BY <1>0, <2>3, IndexedIsEntry
    <3>4. Indexed(mem', k).usage
             < Indexed(mem', k).quota + Indexed(mem', k).over + Cardinality(Request)
      BY <2>1, <2>3 DEF QuotaInv, UsageBelow
    <3>5. QED
      BY <3>2, <3>3, <3>4
  <2>4. UsageBelow(disk') /\ image' = NoImage
    BY <1>5, <2>1
  <2>5. QED
    BY <2>3, <2>4 DEF QuotaInv, UsesWithin, UsageBelow, KeysOf, Indexed, LastOf, PositionsOf
<1>18. QED
  BY <1>7, <1>8, <1>9, <1>10, <1>12, <1>13, <1>14, <1>15, <1>16, <1>17, StepCases, Zenon

\* The monthly quota of a key is overrun by no more than the other requests under way, and what
\* a lowered quota found.
THEOREM ConfigQuotaBounded == Spec => []QuotaOverrunBounded
<1>1. Init => QuotaInv
  <2>1. SUFFICES ASSUME Init PROVE QuotaInv
    OBVIOUS
  <2>2. mem.keys = <<>> /\ disk = mem /\ image = NoImage
    BY <2>1 DEF Init, Start
  <2>3. KeysOf(mem) = {}
    BY <2>2 DEF KeysOf
  <2>4. QED
    BY <2>2, <2>3 DEF QuotaInv, UsageBelow
<1>2. QueueInv /\ NoStaleGate /\ QuotaInv /\ [Next]_configVars => QuotaInv'
  BY QuotaStep
<1>3. QuotaInv => QuotaOverrunBounded
  BY DEF QuotaInv, QuotaOverrunBounded, UsesWithin
<1>4. QED
  BY ConfigQueue, GateNeverStale, <1>1, <1>2, <1>3, PTL DEF Spec

=============================================================================
