------------------------ MODULE StreamAdaptersProofs ------------------------
(***************************************************************************)
(* Proofs about StreamAdapters, for any tokens, calls, number of events    *)
(* and number of retries: blocks are well nested, the answer ends once,    *)
(* the stream adds up to the answer that is converted as a whole, and the  *)
(* answer sent back as history becomes the items it came from.             *)
(***************************************************************************)
EXTENDS StreamAdapters, NaturalsInduction, WellFoundedInduction, SequenceTheorems,
        FiniteSetTheorems, TLAPS

----------------------------------------------------------------------------
(* Recursive functions on sequences.                                       *)

\* A set of numbers that holds 0 and every successor holds them all.
LEMMA Induct ==
    ASSUME NEW T, 0 \in T, \A n \in Nat : n \in T => n + 1 \in T
    PROVE  Nat \subseteq T
<1>1. SUFFICES ASSUME Nat \ T # {} PROVE FALSE
  BY Zenon
<1> DEFINE R == OpToRel(<, Nat)
<1>2. IsWellFoundedOn(R, Nat)
  BY NatLessThanWellFounded, Zenon
<1>3. \A p \in Nat \X Nat : p[1] < p[2] => p \in R
  BY Zenon DEF OpToRel
<1> HIDE DEF R
<1>4. \A x, y \in Nat : x < y => <<x, y>> \in R
  BY <1>3
<1>5. PICK x \in Nat \ T : \A y \in Nat \ T : <<y, x>> \notin R
  <2>1. Nat \ T \subseteq Nat
    BY Zenon
  <2>2. QED
    BY <1>1, <1>2, <2>1, WFMin, Zenon
<1>6. x \in Nat /\ x # 0
  BY <1>5
<1>7. x - 1 \in Nat /\ x - 1 < x /\ (x - 1) + 1 = x
  BY <1>6
<1>8. x - 1 \in T
  BY <1>4, <1>5, <1>6, <1>7, Zenon
<1>9. QED
  BY <1>5, <1>7, <1>8

\* What the selection of the positions in I has kept of s, n by n.
KeptRun(s, I, m, h) ==
    h = [n \in 0..m |-> IF n = 0 THEN <<>>
                        ELSE IF n \in I THEN Append(h[n - 1], s[n]) ELSE h[n - 1]]

LEMMA KeptRunExists ==
    ASSUME NEW s, NEW I
    PROVE  \A m \in Nat : \E h : KeptRun(s, I, m, h)
<1> DEFINE T == {m \in Nat : \E h : KeptRun(s, I, m, h)}
<1>1. 0 \in T
  <2>1. KeptRun(s, I, 0, [n \in 0..0 |-> <<>>])
    BY DEF KeptRun
  <2> QED
    BY <2>1
<1>2. ASSUME NEW m \in Nat, m \in T PROVE m + 1 \in T
  <2>1. PICK h : KeptRun(s, I, m, h)
    BY <1>2
  <2> DEFINE x == IF m + 1 \in I THEN Append(h[m], s[m + 1]) ELSE h[m]
             g == [n \in 0..(m + 1) |-> IF n = m + 1 THEN x ELSE h[n]]
  <2>2. ASSUME NEW n \in 0..(m + 1)
        PROVE  g[n] = IF n = 0 THEN <<>>
                      ELSE IF n \in I THEN Append(g[n - 1], s[n]) ELSE g[n - 1]
    <3>1. CASE n = m + 1
      BY <3>1
    <3>2. CASE n # m + 1
      <4>1. n \in 0..m /\ g[n] = h[n] /\ (n # 0 => g[n - 1] = h[n - 1])
        BY <3>2
      <4> HIDE DEF g
      <4> QED
        BY <4>1, <2>1 DEF KeptRun
    <3> QED
      BY <3>1, <3>2
  <2>3. KeptRun(s, I, m + 1, g)
    BY <2>2 DEF KeptRun
  <2> QED
    BY <2>3
<1>3. Nat \subseteq T
  <2> HIDE DEF T
  <2> QED
    BY <1>1, <1>2, Induct
<1> QED
  BY <1>3

LEMMA KeptSteps ==
    ASSUME NEW s, NEW I, NEW h, NEW m \in Nat, KeptRun(s, I, m, h)
    PROVE  /\ h[0] = <<>>
           /\ \A n \in Nat : n < m => h[n + 1] = IF n + 1 \in I THEN Append(h[n], s[n + 1]) ELSE h[n]
<1>1. \A k \in 0..m : h[k] = IF k = 0 THEN <<>>
                             ELSE IF k \in I THEN Append(h[k - 1], s[k]) ELSE h[k - 1]
  BY Zenon DEF KeptRun
<1>2. h[0] = <<>>
  BY <1>1
<1>3. ASSUME NEW n \in Nat, n < m
      PROVE  h[n + 1] = IF n + 1 \in I THEN Append(h[n], s[n + 1]) ELSE h[n]
  <2>1. n + 1 \in 0..m /\ n + 1 # 0 /\ (n + 1) - 1 = n
    BY <1>3
  <2>2. h[n + 1] = IF n + 1 = 0 THEN <<>>
                   ELSE IF n + 1 \in I THEN Append(h[(n + 1) - 1], s[n + 1]) ELSE h[(n + 1) - 1]
    BY <1>1, <2>1
  <2> QED
    BY <2>1, <2>2
<1> QED
  BY <1>2, <1>3

LEMMA KeptIs ==
    ASSUME NEW s, NEW I, Len(s) \in Nat
    PROVE  \E h : KeptRun(s, I, Len(s), h) /\ Kept(s, I) = h[Len(s)]
<1> DEFINE g == CHOOSE h : KeptRun(s, I, Len(s), h)
<1>1. KeptRun(s, I, Len(s), g)
  BY KeptRunExists, Zenon
<1>2. Kept(s, I) = g[Len(s)]
  BY Zenon DEF KeptRun, Kept
<1> QED
  BY <1>1, <1>2, Zenon

SameUpTo(s, I, t, J, m) == \A n \in 1..m : s[n] = t[n] /\ (n \in I <=> n \in J)

\* What is kept of a prefix depends on the prefix only.
LEMMA KeptRunsAgree ==
    ASSUME NEW s, NEW I, NEW f, NEW t, NEW J, NEW g, NEW m, NEW k, NEW l,
           m \in Nat, k \in Nat, l \in Nat,
           KeptRun(s, I, k, f), KeptRun(t, J, l, g), m <= k, m <= l, SameUpTo(s, I, t, J, m)
    PROVE  f[m] = g[m]
<1> DEFINE T == {n \in Nat : n <= m => f[n] = g[n]}
<1>1. 0 \in T
  BY KeptSteps
<1>2. ASSUME NEW n \in Nat, n \in T PROVE n + 1 \in T
  <2>1. SUFFICES ASSUME n + 1 <= m PROVE f[n + 1] = g[n + 1]
    OBVIOUS
  <2>2. f[n] = g[n] /\ n + 1 \in 0..k /\ n + 1 \in 0..l /\ n + 1 \in 1..m /\ (n + 1) - 1 = n
    BY <1>2, <2>1
  <2>n. s[n + 1] = t[n + 1] /\ (n + 1 \in I <=> n + 1 \in J)
    BY <2>2 DEF SameUpTo
  <2>3. f[n + 1] = IF n + 1 \in I THEN Append(f[n], s[n + 1]) ELSE f[n]
    BY <2>1, KeptSteps
  <2>4. g[n + 1] = IF n + 1 \in J THEN Append(g[n], t[n + 1]) ELSE g[n]
    BY <2>1, KeptSteps
  <2> QED
    BY <2>2, <2>n, <2>3, <2>4
<1>3. Nat \subseteq T
  <2> HIDE DEF T
  <2> QED
    BY <1>1, <1>2, Induct
<1> QED
  BY <1>3

LEMMA KeptEmpty == \A I : Kept(<<>>, I) = <<>>
<1> SUFFICES ASSUME NEW I PROVE Kept(<<>>, I) = <<>>
  OBVIOUS
<1>1. Len(<<>>) = 0
  OBVIOUS
<1>2. PICK h : KeptRun(<<>>, I, 0, h) /\ Kept(<<>>, I) = h[0]
  BY <1>1, KeptIs
<1> QED
  BY <1>2 DEF KeptRun

LEMMA KeptAppend ==
    ASSUME NEW S, NEW s \in Seq(S), NEW e \in S, NEW I, NEW J,
           \A n \in 1..Len(s) : n \in I <=> n \in J
    PROVE  Kept(Append(s, e), J) =
             IF Len(s) + 1 \in J THEN Append(Kept(s, I), e) ELSE Kept(s, I)
<1> DEFINE t == Append(s, e)
<1>1. /\ Len(s) \in Nat /\ Len(t) \in Nat /\ Len(t) = Len(s) + 1 /\ t[Len(s) + 1] = e
      /\ \A n \in 1..Len(s) : s[n] = t[n]
  OBVIOUS
<1> HIDE DEF t
<1>2. PICK f : KeptRun(s, I, Len(s), f) /\ Kept(s, I) = f[Len(s)]
  BY <1>1, KeptIs
<1>3. PICK g : KeptRun(t, J, Len(t), g) /\ Kept(t, J) = g[Len(t)]
  BY <1>1, KeptIs
<1>4. f[Len(s)] = g[Len(s)]
  <2>1. Len(s) <= Len(s)
    BY <1>1
  <2>2. Len(s) <= Len(t)
    BY <1>1
  <2>3. SameUpTo(s, I, t, J, Len(s))
    BY <1>1 DEF SameUpTo
  <2>4. Len(s) \in Nat /\ Len(t) \in Nat
    BY <1>1
  <2>5. KeptRun(s, I, Len(s), f)
    BY <1>2
  <2>6. KeptRun(t, J, Len(t), g)
    BY <1>3
  <2> QED
    BY <2>1, <2>2, <2>3, <2>4, <2>5, <2>6, KeptRunsAgree
<1>5. g[Len(s) + 1] = IF Len(s) + 1 \in J THEN Append(g[Len(s)], e) ELSE g[Len(s)]
  BY <1>1, <1>3, KeptSteps
<1>6. Kept(t, J) = IF Len(s) + 1 \in J THEN Append(Kept(s, I), e) ELSE Kept(s, I)
  BY <1>1, <1>2, <1>3, <1>4, <1>5
<1> QED
  BY <1>6 DEF t

LEMMA KeptIn ==
    ASSUME NEW S, NEW s, NEW I, Len(s) \in Nat, \A n \in 1..Len(s) : n \in I => s[n] \in S
    PROVE  Kept(s, I) \in Seq(S)
<1>1. PICK h : KeptRun(s, I, Len(s), h) /\ Kept(s, I) = h[Len(s)]
  BY KeptIs
<1> DEFINE T == {n \in Nat : n <= Len(s) => h[n] \in Seq(S)}
<1>2. 0 \in T
  <2>1. h[0] = <<>>
    BY <1>1, KeptSteps
  <2>2. <<>> \in Seq(S)
    OBVIOUS
  <2> QED
    BY <2>1, <2>2
<1>3. ASSUME NEW n \in Nat, n \in T PROVE n + 1 \in T
  <2>1. SUFFICES ASSUME n + 1 <= Len(s) PROVE h[n + 1] \in Seq(S)
    OBVIOUS
  <2>2. h[n] \in Seq(S) /\ n + 1 \in 1..Len(s) /\ n < Len(s)
    BY <1>3, <2>1
  <2>3. h[n + 1] = IF n + 1 \in I THEN Append(h[n], s[n + 1]) ELSE h[n]
    BY <1>1, <2>2, KeptSteps
  <2>4. n + 1 \in I => s[n + 1] \in S
    BY <2>2
  <2> QED
    BY <2>2, <2>3, <2>4
<1>4. Nat \subseteq T
  <2> HIDE DEF T
  <2> QED
    BY <1>2, <1>3, Induct
<1> QED
  BY <1>1, <1>4

LEMMA KeptTyped == ASSUME NEW S, NEW s \in Seq(S), NEW I PROVE Kept(s, I) \in Seq(S)
<1>1. Len(s) \in Nat /\ \A n \in 1..Len(s) : n \in I => s[n] \in S
  OBVIOUS
<1> QED
  BY <1>1, KeptIn

\* Something is kept exactly if there is something to keep.
LEMMA KeptSome ==
    ASSUME NEW S, NEW s \in Seq(S), NEW I
    PROVE  Kept(s, I) # <<>> <=> \E i \in 1..Len(s) : i \in I
<1>1. Len(s) \in Nat /\ \A n \in 1..Len(s) : s[n] \in S
  OBVIOUS
<1>2. PICK h : KeptRun(s, I, Len(s), h) /\ Kept(s, I) = h[Len(s)]
  BY <1>1, KeptIs
<1> DEFINE Some(n) == \E i \in 1..n : i \in I
           T == {n \in Nat : n <= Len(s) => h[n] \in Seq(S) /\ (h[n] # <<>> <=> Some(n))}
<1>3. 0 \in T
  <2>1. h[0] = <<>>
    BY <1>1, <1>2, KeptSteps
  <2>2. <<>> \in Seq(S) /\ ~Some(0)
    OBVIOUS
  <2> QED
    BY <2>1, <2>2
<1>4. ASSUME NEW n \in Nat, n \in T PROVE n + 1 \in T
  <2>1. SUFFICES ASSUME n + 1 <= Len(s)
                 PROVE  h[n + 1] \in Seq(S) /\ (h[n + 1] # <<>> <=> Some(n + 1))
    OBVIOUS
  <2>2. h[n] \in Seq(S) /\ (h[n] # <<>> <=> Some(n)) /\ n < Len(s) /\ s[n + 1] \in S
    BY <1>1, <1>4, <2>1
  <2>3. h[n + 1] = IF n + 1 \in I THEN Append(h[n], s[n + 1]) ELSE h[n]
    BY <1>1, <1>2, <2>2, KeptSteps
  <2>4. Some(n + 1) <=> Some(n) \/ n + 1 \in I
    OBVIOUS
  <2>5. CASE n + 1 \in I
    <3> HIDE DEF Some
    <3>1. h[n + 1] = Append(h[n], s[n + 1])
      BY <2>3, <2>5
    <3>2. Append(h[n], s[n + 1]) \in Seq(S) /\ Append(h[n], s[n + 1]) # <<>>
      BY <2>2
    <3> QED
      BY <2>4, <2>5, <3>1, <3>2
  <2>6. CASE n + 1 \notin I
    <3> HIDE DEF Some
    <3> QED
      BY <2>2, <2>3, <2>4, <2>6
  <2> QED
    BY <2>5, <2>6
<1>5. Nat \subseteq T
  <2> HIDE DEF T
  <2> QED
    BY <1>3, <1>4, Induct
<1> QED
  BY <1>1, <1>2, <1>5


\* What has been put in a row, n by n.
JoinedRun(ss, m, h) ==
    h = [n \in 0..m |-> IF n = 0 THEN <<>> ELSE h[n - 1] \o ss[n]]

LEMMA JoinedRunExists ==
    ASSUME NEW ss
    PROVE  \A m \in Nat : \E h : JoinedRun(ss, m, h)
<1> DEFINE T == {m \in Nat : \E h : JoinedRun(ss, m, h)}
<1>1. 0 \in T
  <2>1. JoinedRun(ss, 0, [n \in 0..0 |-> <<>>])
    BY DEF JoinedRun
  <2> QED
    BY <2>1
<1>2. ASSUME NEW m \in Nat, m \in T PROVE m + 1 \in T
  <2>1. PICK h : JoinedRun(ss, m, h)
    BY <1>2
  <2> DEFINE g == [n \in 0..(m + 1) |-> IF n = m + 1 THEN h[m] \o ss[m + 1] ELSE h[n]]
  <2>2. ASSUME NEW n \in 0..(m + 1)
        PROVE  g[n] = IF n = 0 THEN <<>> ELSE g[n - 1] \o ss[n]
    <3>1. CASE n = m + 1
      <4>1. m \in 0..(m + 1) /\ m # m + 1 /\ n - 1 = m /\ n # 0
        BY <3>1
      <4>2. g[n - 1] = h[m] /\ g[n] = h[m] \o ss[n]
        BY <3>1, <4>1
      <4> QED
        BY <4>1, <4>2
    <3>2. CASE n # m + 1
      <4>1. n \in 0..m /\ g[n] = h[n] /\ (n # 0 => g[n - 1] = h[n - 1])
        BY <3>2
      <4> HIDE DEF g
      <4> QED
        BY <4>1, <2>1 DEF JoinedRun
    <3> QED
      BY <3>1, <3>2
  <2>3. JoinedRun(ss, m + 1, g)
    BY <2>2 DEF JoinedRun
  <2> QED
    BY <2>3
<1>3. Nat \subseteq T
  <2> HIDE DEF T
  <2> QED
    BY <1>1, <1>2, Induct
<1> QED
  BY <1>3

LEMMA JoinedSteps ==
    ASSUME NEW ss, NEW h, NEW m, m \in Nat, JoinedRun(ss, m, h)
    PROVE  h[0] = <<>> /\ \A n \in Nat : n < m => h[n + 1] = h[n] \o ss[n + 1]
<1>1. \A k \in 0..m : h[k] = IF k = 0 THEN <<>> ELSE h[k - 1] \o ss[k]
  BY Zenon DEF JoinedRun
<1>2. h[0] = <<>>
  BY <1>1
<1>3. ASSUME NEW n \in Nat, n < m PROVE h[n + 1] = h[n] \o ss[n + 1]
  <2>1. n + 1 \in 0..m /\ n + 1 # 0 /\ (n + 1) - 1 = n
    BY <1>3
  <2>2. h[n + 1] = IF n + 1 = 0 THEN <<>> ELSE h[(n + 1) - 1] \o ss[n + 1]
    BY <1>1, <2>1
  <2> QED
    BY <2>1, <2>2
<1> QED
  BY <1>2, <1>3

LEMMA JoinedIs ==
    ASSUME NEW ss, Len(ss) \in Nat
    PROVE  \E h : JoinedRun(ss, Len(ss), h) /\ Joined(ss) = h[Len(ss)]
<1> DEFINE g == CHOOSE h : JoinedRun(ss, Len(ss), h)
<1>1. JoinedRun(ss, Len(ss), g)
  BY JoinedRunExists, Zenon
<1>2. Joined(ss) = g[Len(ss)]
  BY Zenon DEF JoinedRun, Joined
<1> QED
  BY <1>1, <1>2, Zenon

SameParts(ss, tt, m) == \A n \in 1..m : ss[n] = tt[n]

LEMMA JoinedRunsAgree ==
    ASSUME NEW ss, NEW f, NEW tt, NEW g, NEW m, NEW k, NEW l,
           m \in Nat, k \in Nat, l \in Nat,
           JoinedRun(ss, k, f), JoinedRun(tt, l, g), m <= k, m <= l, SameParts(ss, tt, m)
    PROVE  f[m] = g[m]
<1> DEFINE T == {n \in Nat : n <= m => f[n] = g[n]}
<1>1. 0 \in T
  <2>1. f[0] = <<>>
    BY JoinedSteps
  <2>2. g[0] = <<>>
    BY JoinedSteps
  <2> QED
    BY <2>1, <2>2
<1>2. ASSUME NEW n \in Nat, n \in T PROVE n + 1 \in T
  <2>1. SUFFICES ASSUME n + 1 <= m PROVE f[n + 1] = g[n + 1]
    OBVIOUS
  <2>2. f[n] = g[n] /\ n + 1 \in 1..m /\ n < k /\ n < l
    BY <1>2, <2>1
  <2>3. ss[n + 1] = tt[n + 1]
    BY <2>2 DEF SameParts
  <2>4. f[n + 1] = f[n] \o ss[n + 1]
    BY <2>2, JoinedSteps
  <2>5. g[n + 1] = g[n] \o tt[n + 1]
    BY <2>2, JoinedSteps
  <2> QED
    BY <2>2, <2>3, <2>4, <2>5
<1>3. Nat \subseteq T
  <2> HIDE DEF T
  <2> QED
    BY <1>1, <1>2, Induct
<1> QED
  BY <1>3

LEMMA JoinedEmpty == ASSUME NEW ss, Len(ss) = 0 PROVE Joined(ss) = <<>>
<1>0. Len(ss) \in Nat
  OBVIOUS
<1>1. PICK h : JoinedRun(ss, Len(ss), h) /\ Joined(ss) = h[Len(ss)]
  BY <1>0, JoinedIs
<1>2. h[0] = <<>>
  BY <1>0, <1>1, JoinedSteps
<1> QED
  BY <1>1, <1>2

\* The last one comes last.
LEMMA JoinedLast ==
    ASSUME NEW ss, NEW tt, Len(ss) \in Nat, Len(tt) = Len(ss) + 1,
           \A n \in 1..Len(ss) : ss[n] = tt[n]
    PROVE  Joined(tt) = Joined(ss) \o tt[Len(tt)]
<1>1. Len(tt) \in Nat /\ Len(ss) <= Len(tt) /\ Len(ss) < Len(tt)
  OBVIOUS
<1>2. PICK f : JoinedRun(ss, Len(ss), f) /\ Joined(ss) = f[Len(ss)]
  BY JoinedIs
<1>3. PICK g : JoinedRun(tt, Len(tt), g) /\ Joined(tt) = g[Len(tt)]
  BY <1>1, JoinedIs
<1>4. f[Len(ss)] = g[Len(ss)]
  <2>1. Len(ss) <= Len(ss)
    OBVIOUS
  <2>2. JoinedRun(ss, Len(ss), f) /\ JoinedRun(tt, Len(tt), g)
    BY <1>2, <1>3
  <2>3. SameParts(ss, tt, Len(ss))
    BY DEF SameParts
  <2> QED
    BY <1>1, <2>1, <2>2, <2>3, JoinedRunsAgree
<1>5. g[Len(ss) + 1] = g[Len(ss)] \o tt[Len(ss) + 1]
  BY <1>1, <1>3, JoinedSteps
<1> QED
  BY <1>2, <1>3, <1>4, <1>5

LEMMA JoinedTyped ==
    ASSUME NEW S, NEW ss, Len(ss) \in Nat, \A n \in 1..Len(ss) : ss[n] \in Seq(S)
    PROVE  Joined(ss) \in Seq(S)
<1>1. PICK h : JoinedRun(ss, Len(ss), h) /\ Joined(ss) = h[Len(ss)]
  BY JoinedIs
<1> DEFINE T == {n \in Nat : n <= Len(ss) => h[n] \in Seq(S)}
<1>2. 0 \in T
  <2>1. h[0] = <<>>
    BY <1>1, JoinedSteps
  <2>2. <<>> \in Seq(S)
    OBVIOUS
  <2> QED
    BY <2>1, <2>2
<1>3. ASSUME NEW n \in Nat, n \in T PROVE n + 1 \in T
  <2>1. SUFFICES ASSUME n + 1 <= Len(ss) PROVE h[n + 1] \in Seq(S)
    OBVIOUS
  <2>2. h[n] \in Seq(S) /\ ss[n + 1] \in Seq(S) /\ n < Len(ss)
    BY <1>3, <2>1
  <2>3. h[n + 1] = h[n] \o ss[n + 1]
    BY <1>1, <2>2, JoinedSteps
  <2> QED
    BY <2>2, <2>3
<1>4. Nat \subseteq T
  <2> HIDE DEF T
  <2> QED
    BY <1>2, <1>3, Induct
<1> QED
  BY <1>1, <1>4

----------------------------------------------------------------------------
(* Items, and what is selected of them.                                    *)

Items == {i \in [kind : {"message", "function_call"}, call : Call \cup {NoCall}, body : Seq(Token)] :
              ~IsCall(i) => i.call = NoCall}

\* A message without text is no block.
IsBlock(item) == IsCall(item) \/ item.body # <<>>
TextOf(output) == Joined([i \in DOMAIN Texts(output) |-> Texts(output)[i].body])

LEMMA ItemFields ==
    ASSUME NEW i \in Items
    PROVE  /\ i.kind \in {"message", "function_call"} /\ i.body \in Seq(Token)
           /\ i.call \in Call \cup {NoCall} /\ i = Item(i.kind, i.call, i.body)
           /\ IsCall(i) <=> i.kind # "message"
           /\ i.kind = "message" => i.call = NoCall
BY DEF Items, Item, IsCall

LEMMA ItemTyped ==
    ASSUME NEW k \in {"message", "function_call"}, NEW c \in Call \cup {NoCall}, NEW b \in Seq(Token),
           k = "message" => c = NoCall
    PROVE  Item(k, c, b) \in Items
BY DEF Items, Item, IsCall

\* A token goes to the last item.
LEMMA FilledLast ==
    ASSUME NEW s, s \in Seq(Items), s # <<>>, NEW token, token \in Token,
           NEW e, e = LastOf(s), NEW d, d = Item(e.kind, e.call, Append(e.body, token))
    PROVE  /\ e \in Items /\ d \in Items
           /\ \E f \in Seq(Items) : s = Append(f, e) /\ Filled(s, Len(s), token) = Append(f, d)
<1> DEFINE f == [i \in 1..(Len(s) - 1) |-> s[i]]
<1>1. Len(s) \in Nat /\ Len(s) # 0 /\ DOMAIN s = 1..Len(s)
  OBVIOUS
<1>2. e \in Items
  BY <1>1 DEF LastOf
<1>3. d \in Items
  <2>1. Append(e.body, token) \in Seq(Token)
    BY <1>2, ItemFields
  <2> QED
    BY <1>2, <2>1, ItemFields, ItemTyped
<1>4. f \in Seq(Items) /\ Len(f) = Len(s) - 1
  BY <1>1
<1>5. s = Append(f, e)
  BY <1>1, <1>2, <1>4 DEF LastOf
<1>6. Filled(s, Len(s), token) = Append(f, d)
  <2>1. Filled(s, Len(s), token) = [s EXCEPT ![Len(s)] = d]
    BY DEF Filled, LastOf
  <2> QED
    BY <1>1, <1>3, <1>4, <2>1
<1> QED
  BY <1>2, <1>3, <1>4, <1>5, <1>6

LEMMA SelectedEmpty ==
    /\ Blocks(<<>>) = <<>> /\ Calls(<<>>) = <<>> /\ Texts(<<>>) = <<>>
    /\ TextOf(<<>>) = <<>> /\ ~HasCall(<<>>)
<1>1. Blocks(<<>>) = <<>> /\ Calls(<<>>) = <<>> /\ Texts(<<>>) = <<>>
  BY KeptEmpty DEF Blocks, Calls, Texts
<1>2. TextOf(<<>>) = <<>>
  <2>1. Len([i \in DOMAIN <<>> |-> <<>>[i].body]) = 0
    OBVIOUS
  <2> QED
    BY <1>1, <2>1, JoinedEmpty DEF TextOf
<1> QED
  BY <1>1, <1>2 DEF HasCall

LEMMA SelectedTyped ==
    ASSUME NEW s \in Seq(Items)
    PROVE  /\ Blocks(s) \in Seq(Items) /\ Calls(s) \in Seq(Items) /\ Texts(s) \in Seq(Items)
           /\ TextOf(s) \in Seq(Token)
<1>1. Blocks(s) \in Seq(Items) /\ Calls(s) \in Seq(Items) /\ Texts(s) \in Seq(Items)
  BY KeptTyped DEF Blocks, Calls, Texts
<1>2. TextOf(s) \in Seq(Token)
  <2> DEFINE t == Texts(s)
             b == [i \in DOMAIN t |-> t[i].body]
  <2> HIDE DEF t
  <2>1. Len(t) \in Nat /\ DOMAIN t = 1..Len(t) /\ \A i \in 1..Len(t) : t[i] \in Items
    BY <1>1 DEF t
  <2>2. Len(b) = Len(t) /\ \A i \in 1..Len(t) : b[i] \in Seq(Token)
    BY <2>1, ItemFields
  <2> HIDE DEF b
  <2>3. Joined(b) \in Seq(Token)
    BY <2>1, <2>2, JoinedTyped
  <2> QED
    BY <2>3 DEF TextOf, b, t
<1> QED
  BY <1>1, <1>2

LEMMA BlocksAppend ==
    ASSUME NEW s \in Seq(Items), NEW e \in Items
    PROVE  Blocks(Append(s, e)) = IF IsBlock(e) THEN Append(Blocks(s), e) ELSE Blocks(s)
<1> DEFINE t == Append(s, e)
           I == {i \in DOMAIN s : IsCall(s[i]) \/ s[i].body # <<>>}
           J == {i \in DOMAIN t : IsCall(t[i]) \/ t[i].body # <<>>}
<1>1. \A n \in 1..Len(s) : n \in I <=> n \in J
  OBVIOUS
<1>2. Len(s) + 1 \in J <=> IsBlock(e)
  BY DEF IsBlock
<1> HIDE DEF I, J
<1>3. Kept(t, J) = IF Len(s) + 1 \in J THEN Append(Kept(s, I), e) ELSE Kept(s, I)
  BY <1>1, KeptAppend
<1> QED
  BY <1>2, <1>3 DEF Blocks, I, J

LEMMA CallsAppend ==
    ASSUME NEW s \in Seq(Items), NEW e \in Items
    PROVE  Calls(Append(s, e)) = IF IsCall(e) THEN Append(Calls(s), e) ELSE Calls(s)
<1> DEFINE t == Append(s, e)
           I == {i \in DOMAIN s : IsCall(s[i])}
           J == {i \in DOMAIN t : IsCall(t[i])}
<1>1. \A n \in 1..Len(s) : n \in I <=> n \in J
  OBVIOUS
<1>2. Len(s) + 1 \in J <=> IsCall(e)
  OBVIOUS
<1> HIDE DEF I, J
<1>3. Kept(t, J) = IF Len(s) + 1 \in J THEN Append(Kept(s, I), e) ELSE Kept(s, I)
  BY <1>1, KeptAppend
<1> QED
  BY <1>2, <1>3 DEF Calls, I, J

LEMMA TextsAppend ==
    ASSUME NEW s \in Seq(Items), NEW e \in Items
    PROVE  Texts(Append(s, e)) =
             IF ~IsCall(e) /\ e.body # <<>> THEN Append(Texts(s), e) ELSE Texts(s)
<1> DEFINE t == Append(s, e)
           I == {i \in DOMAIN s : ~IsCall(s[i]) /\ s[i].body # <<>>}
           J == {i \in DOMAIN t : ~IsCall(t[i]) /\ t[i].body # <<>>}
<1>1. \A n \in 1..Len(s) : n \in I <=> n \in J
  OBVIOUS
<1>2. Len(s) + 1 \in J <=> ~IsCall(e) /\ e.body # <<>>
  OBVIOUS
<1> HIDE DEF I, J
<1>3. Kept(t, J) = IF Len(s) + 1 \in J THEN Append(Kept(s, I), e) ELSE Kept(s, I)
  BY <1>1, KeptAppend
<1> QED
  BY <1>2, <1>3 DEF Texts, I, J

LEMMA HasCallAppend ==
    ASSUME NEW s \in Seq(Items), NEW e \in Items
    PROVE  HasCall(Append(s, e)) <=> HasCall(s) \/ IsCall(e)
<1> DEFINE t == Append(s, e)
<1>1. /\ DOMAIN s = 1..Len(s) /\ DOMAIN t = 1..(Len(s) + 1) /\ Len(s) \in Nat
      /\ t[Len(s) + 1] = e /\ \A n \in 1..Len(s) : t[n] = s[n]
  OBVIOUS
<1> HIDE DEF t
<1>2. \A n \in DOMAIN t : n = Len(s) + 1 \/ n \in DOMAIN s
  BY <1>1
<1>3. Len(s) + 1 \in DOMAIN t /\ DOMAIN s \subseteq DOMAIN t
  BY <1>1
<1>4. HasCall(t) <=> HasCall(s) \/ IsCall(e)
  BY <1>1, <1>2, <1>3 DEF HasCall
<1> QED
  BY <1>4 DEF t

LEMMA TextAppend ==
    ASSUME NEW s \in Seq(Items), NEW e \in Items
    PROVE  TextOf(Append(s, e)) = IF IsCall(e) THEN TextOf(s) ELSE TextOf(s) \o e.body
<1>1. CASE ~IsCall(e) /\ e.body # <<>>
  <2> DEFINE t == Texts(s)
             u == Append(t, e)
             a == [i \in DOMAIN t |-> t[i].body]
             b == [i \in DOMAIN u |-> u[i].body]
  <2>1. Texts(Append(s, e)) = u
    BY <1>1, TextsAppend
  <2>2. t \in Seq(Items)
    BY SelectedTyped
  <2> HIDE DEF t
  <2>3. /\ Len(t) \in Nat /\ Len(u) = Len(t) + 1 /\ u[Len(t) + 1] = e
        /\ DOMAIN t = 1..Len(t) /\ DOMAIN u = 1..Len(u) /\ \A n \in 1..Len(t) : u[n] = t[n]
    BY <2>2
  <2> HIDE DEF u
  <2>4. /\ Len(a) = Len(t) /\ Len(b) = Len(a) + 1 /\ b[Len(b)] = e.body
        /\ \A n \in 1..Len(a) : a[n] = b[n]
    BY <2>3
  <2>5. Joined(b) = Joined(a) \o b[Len(b)]
    <3> HIDE DEF a, b
    <3> QED
      BY <2>3, <2>4, JoinedLast
  <2> QED
    BY <1>1, <2>1, <2>4, <2>5 DEF TextOf, t, u
<1>2. CASE IsCall(e)
  BY <1>2, TextsAppend DEF TextOf
<1>3. CASE ~IsCall(e) /\ e.body = <<>>
  <2>1. TextOf(s) \in Seq(Token)
    BY SelectedTyped
  <2>2. TextOf(s) \o <<>> = TextOf(s)
    BY <2>1
  <2> QED
    BY <1>3, <2>2, TextsAppend DEF TextOf
<1> QED
  BY <1>1, <1>2, <1>3

----------------------------------------------------------------------------
(* What the client has after some chunks.                                  *)

AfterRun(c, chunks, m, h) ==
    h = [n \in 0..m |-> IF n = 0 THEN c ELSE Received(h[n - 1], chunks[n])]

LEMMA AfterRunExists ==
    ASSUME NEW c, NEW chunks
    PROVE  \A m \in Nat : \E h : AfterRun(c, chunks, m, h)
<1> DEFINE T == {m \in Nat : \E h : AfterRun(c, chunks, m, h)}
<1>1. 0 \in T
  <2>1. AfterRun(c, chunks, 0, [n \in 0..0 |-> c])
    BY DEF AfterRun
  <2> QED
    BY <2>1
<1>2. ASSUME NEW m \in Nat, m \in T PROVE m + 1 \in T
  <2>1. PICK h : AfterRun(c, chunks, m, h)
    BY <1>2
  <2> DEFINE g == [n \in 0..(m + 1) |-> IF n = m + 1 THEN Received(h[m], chunks[m + 1]) ELSE h[n]]
  <2>2. ASSUME NEW n \in 0..(m + 1)
        PROVE  g[n] = IF n = 0 THEN c ELSE Received(g[n - 1], chunks[n])
    <3>1. CASE n = m + 1
      <4>1. m \in 0..(m + 1) /\ m # m + 1 /\ n - 1 = m /\ n # 0
        BY <3>1
      <4>2. g[n - 1] = h[m] /\ g[n] = Received(h[m], chunks[n])
        BY <3>1, <4>1
      <4> QED
        BY <4>1, <4>2
    <3>2. CASE n # m + 1
      <4>1. n \in 0..m /\ g[n] = h[n] /\ (n # 0 => g[n - 1] = h[n - 1])
        BY <3>2
      <4> HIDE DEF g
      <4> QED
        BY <4>1, <2>1 DEF AfterRun
    <3> QED
      BY <3>1, <3>2
  <2>3. AfterRun(c, chunks, m + 1, g)
    BY <2>2 DEF AfterRun
  <2> QED
    BY <2>3
<1>3. Nat \subseteq T
  <2> HIDE DEF T
  <2> QED
    BY <1>1, <1>2, Induct
<1> QED
  BY <1>3

LEMMA AfterSteps ==
    ASSUME NEW c, NEW chunks, NEW h, NEW m, m \in Nat, AfterRun(c, chunks, m, h)
    PROVE  h[0] = c /\ \A n \in Nat : n < m => h[n + 1] = Received(h[n], chunks[n + 1])
<1>1. \A k \in 0..m : h[k] = IF k = 0 THEN c ELSE Received(h[k - 1], chunks[k])
  BY Zenon DEF AfterRun
<1>2. h[0] = c
  BY <1>1
<1>3. ASSUME NEW n \in Nat, n < m PROVE h[n + 1] = Received(h[n], chunks[n + 1])
  <2>1. n + 1 \in 0..m /\ n + 1 # 0 /\ (n + 1) - 1 = n
    BY <1>3
  <2>2. h[n + 1] = IF n + 1 = 0 THEN c ELSE Received(h[(n + 1) - 1], chunks[n + 1])
    BY <1>1, <2>1
  <2> QED
    BY <2>1, <2>2
<1> QED
  BY <1>2, <1>3

LEMMA AssembledIs ==
    ASSUME NEW c, NEW chunks, Len(chunks) \in Nat
    PROVE  \E h : AfterRun(c, chunks, Len(chunks), h) /\ Assembled(c, chunks) = h[Len(chunks)]
<1> DEFINE g == CHOOSE h : AfterRun(c, chunks, Len(chunks), h)
<1>1. AfterRun(c, chunks, Len(chunks), g)
  BY AfterRunExists, Zenon
<1>2. Assembled(c, chunks) = g[Len(chunks)]
  BY Zenon DEF AfterRun, Assembled
<1> QED
  BY <1>1, <1>2, Zenon

\* An event has three chunks at most.
LEMMA AssembledNone == \A c : Assembled(c, <<>>) = c
<1> SUFFICES ASSUME NEW c PROVE Assembled(c, <<>>) = c
  OBVIOUS
<1>1. Len(<<>>) = 0 /\ Len(<<>>) \in Nat
  OBVIOUS
<1>2. PICK h : AfterRun(c, <<>>, Len(<<>>), h) /\ Assembled(c, <<>>) = h[Len(<<>>)]
  BY <1>1, AssembledIs
<1>3. h[0] = c
  BY <1>1, <1>2, AfterSteps
<1> QED
  BY <1>1, <1>2, <1>3

LEMMA AssembledSome ==
    ASSUME NEW c, NEW s, Len(s) \in 1..3
    PROVE  /\ Len(s) = 1 => Assembled(c, s) = Received(c, s[1])
           /\ Len(s) = 2 => Assembled(c, s) = Received(Received(c, s[1]), s[2])
           /\ Len(s) = 3 => Assembled(c, s) = Received(Received(Received(c, s[1]), s[2]), s[3])
<1> DEFINE m == Len(s)
<1>0. Len(s) \in Nat
  OBVIOUS
<1>1. PICK h : AfterRun(c, s, Len(s), h) /\ Assembled(c, s) = h[Len(s)]
  BY <1>0, AssembledIs
<1>2. h[0] = c
  BY <1>0, <1>1, AfterSteps
<1>3. \A n \in Nat : n < m => h[n + 1] = Received(h[n], s[n + 1])
  BY <1>0, <1>1, AfterSteps
<1>4. h[1] = Received(c, s[1])
  BY <1>2, <1>3
<1>5. m >= 2 => h[2] = Received(h[1], s[2])
  <2>1. 1 < m => h[1 + 1] = Received(h[1], s[1 + 1])
    BY <1>3
  <2> QED
    BY <2>1
<1>6. m >= 3 => h[3] = Received(h[2], s[3])
  <2>1. 2 < m => h[2 + 1] = Received(h[2], s[2 + 1])
    BY <1>3
  <2> QED
    BY <2>1
<1>7. CASE m = 1
  BY <1>1, <1>4, <1>7
<1>8. CASE m = 2
  BY <1>1, <1>4, <1>5, <1>8
<1>9. CASE m = 3
  BY <1>1, <1>4, <1>5, <1>6, <1>9
<1> QED
  BY <1>7, <1>8, <1>9

LEMMA AssembledOne == \A c, x : Assembled(c, <<x>>) = Received(c, x)
<1> SUFFICES ASSUME NEW c, NEW x PROVE Assembled(c, <<x>>) = Received(c, x)
  OBVIOUS
<1> DEFINE s == <<x>>
<1>1. Len(s) = 1 /\ s[1] = x
  OBVIOUS
<1> HIDE DEF s
<1>2. Assembled(c, s) = Received(c, x)
  BY <1>1, AssembledSome
<1> QED
  BY <1>2 DEF s

LEMMA AssembledTwo == \A c, x, y : Assembled(c, <<x, y>>) = Received(Received(c, x), y)
<1> SUFFICES ASSUME NEW c, NEW x, NEW y PROVE Assembled(c, <<x, y>>) = Received(Received(c, x), y)
  OBVIOUS
<1> DEFINE s == <<x, y>>
<1>1. Len(s) = 2 /\ s[1] = x /\ s[2] = y
  OBVIOUS
<1> HIDE DEF s
<1>2. Assembled(c, s) = Received(Received(c, x), y)
  BY <1>1, AssembledSome
<1> QED
  BY <1>2 DEF s

LEMMA AssembledThree ==
    \A c, x, y, z : Assembled(c, <<x, y, z>>) = Received(Received(Received(c, x), y), z)
<1> SUFFICES ASSUME NEW c, NEW x, NEW y, NEW z
             PROVE  Assembled(c, <<x, y, z>>) = Received(Received(Received(c, x), y), z)
  OBVIOUS
<1> DEFINE s == <<x, y, z>>
<1>1. Len(s) = 3 /\ s[1] = x /\ s[2] = y /\ s[3] = z
  OBVIOUS
<1> HIDE DEF s
<1>2. Assembled(c, s) = Received(Received(Received(c, x), y), z)
  BY <1>1, AssembledSome
<1> QED
  BY <1>2 DEF s

\* A client by its fields, and what it makes of each chunk.
Client(blocks, text, calls, finish, ends, open) ==
    [blocks |-> blocks, text |-> text, calls |-> calls, finish |-> finish,
     ends |-> ends, open |-> open, broken |-> FALSE]
BrokenClient(blocks, text, calls, finish, ends, open) ==
    [blocks |-> blocks, text |-> text, calls |-> calls, finish |-> finish,
     ends |-> ends, open |-> open, broken |-> TRUE]

\* Block i, counted from 0, is there and of kind k.
Fits(b, i, k) == i < Len(b) /\ b[i + 1].kind = k

LEMMA ReceivedBlocks ==
    ASSUME NEW c, NEW x
    PROVE  /\ x.type = "start" =>
                Received(c, x) = [c EXCEPT !.blocks = Append(@, Item(x.kind, x.call, <<>>)),
                                           !.open = @ \cup {x.index},
                                           !.broken = @ \/ c.open # {} \/ x.index # Len(c.blocks)]
           /\ x.type = "delta" /\ x.index \in c.open /\ Fits(c.blocks, x.index, x.kind) =>
                Received(c, x) = [c EXCEPT !.blocks = Filled(@, x.index + 1, x.token)]
           /\ x.type = "stop" =>
                Received(c, x) = [c EXCEPT !.open = @ \ {x.index},
                                           !.broken = @ \/ x.index \notin c.open]
BY DEF Received, Fits

LEMMA ReceivedRest ==
    ASSUME NEW c, NEW x
    PROVE  /\ x.type = "content" => Received(c, x) = [c EXCEPT !.text = Append(@, x.token)]
           /\ x.type = "call_start" =>
                Received(c, x) = [c EXCEPT !.calls =
                    << Item("function_call", x.call, IF c.calls = <<>> THEN <<>> ELSE c.calls[1].body) >>]
           /\ x.type = "call_args" /\ c.calls # <<>> =>
                Received(c, x) = [c EXCEPT !.calls = Filled(@, 1, x.token)]
           /\ x.type = "result" => Received(c, x) = [c EXCEPT !.blocks = x.output, !.finish = "stop"]
           /\ x.type = "finish" =>
                Received(c, x) = [c EXCEPT !.finish = x.reason,
                                           !.broken = @ \/ (c.open # {} /\ x.reason # "error")]
           /\ x.type = "end" => Received(c, x) = [c EXCEPT !.ends = @ + 1]
BY DEF Received

LEMMA ReceivedStart ==
    ASSUME NEW b, NEW t, NEW c, NEW f, NEW n, NEW o, NEW s, NEW k, NEW g,
           o = {}, s.index = Len(b)
    PROVE  Received(Client(b, t, c, f, n, o), BlockStart(s, k, g)) =
             Client(Append(b, Item(k, g, <<>>)), t, c, f, n, {s.index})
<1> DEFINE q == Client(b, t, c, f, n, o)
           x == BlockStart(s, k, g)
<1>1. x.type = "start" /\ x.kind = k /\ x.call = g /\ x.index = s.index
  BY DEF BlockStart
<1>2. o \cup {s.index} = {s.index} /\ q.open = o /\ q.blocks = b
  BY DEF Client
<1> HIDE DEF q, x
<1>3. Received(q, x) = [q EXCEPT !.blocks = Append(@, Item(x.kind, x.call, <<>>)),
                                 !.open = @ \cup {x.index},
                                 !.broken = @ \/ q.open # {} \/ x.index # Len(q.blocks)]
  BY <1>1, ReceivedBlocks
<1> QED
  BY <1>1, <1>2, <1>3 DEF q, x, Client

LEMMA ReceivedDelta ==
    ASSUME NEW b, NEW t, NEW c, NEW f, NEW n, NEW o, NEW s, NEW k, NEW y, NEW d,
           s.index \in o, Fits(b, s.index, k), d = Filled(b, s.index + 1, y)
    PROVE  Received(Client(b, t, c, f, n, o), BlockDelta(s, k, y)) = Client(d, t, c, f, n, o)
<1> DEFINE q == Client(b, t, c, f, n, o)
           x == BlockDelta(s, k, y)
<1>1. x.type = "delta" /\ x.kind = k /\ x.token = y /\ x.index = s.index
  BY DEF BlockDelta
<1>2. q.open = o /\ q.blocks = b
  BY DEF Client
<1> HIDE DEF q, x
<1>3. Received(q, x) = [q EXCEPT !.blocks = Filled(@, x.index + 1, x.token)]
  BY <1>1, <1>2, ReceivedBlocks
<1> QED
  BY <1>1, <1>3 DEF q, x, Client

LEMMA ReceivedStop ==
    ASSUME NEW b, NEW t, NEW c, NEW f, NEW n, NEW o, NEW i, o = {i}
    PROVE  Received(Client(b, t, c, f, n, o), [type |-> "stop", index |-> i]) =
             Client(b, t, c, f, n, {})
<1> DEFINE q == Client(b, t, c, f, n, o)
           x == [type |-> "stop", index |-> i]
<1>1. x.type = "stop" /\ x.index = i /\ o \ {i} = {} /\ i \in o
  OBVIOUS
<1>2. q.open = o
  BY DEF Client
<1> HIDE DEF q, x
<1>3. Received(q, x) = [q EXCEPT !.open = @ \ {x.index}, !.broken = @ \/ x.index \notin q.open]
  BY <1>1, ReceivedBlocks
<1> QED
  BY <1>1, <1>2, <1>3 DEF q, x, Client

LEMMA ReceivedContent ==
    ASSUME NEW b, NEW t, NEW c, NEW f, NEW n, NEW o, NEW y
    PROVE  Received(Client(b, t, c, f, n, o), [type |-> "content", token |-> y]) =
             Client(b, Append(t, y), c, f, n, o)
<1> DEFINE q == Client(b, t, c, f, n, o)
           x == [type |-> "content", token |-> y]
<1>1. x.type = "content" /\ x.token = y
  OBVIOUS
<1> HIDE DEF q, x
<1>2. Received(q, x) = [q EXCEPT !.text = Append(@, x.token)]
  BY <1>1, ReceivedRest
<1> QED
  BY <1>1, <1>2 DEF q, x, Client

LEMMA ReceivedCall ==
    ASSUME NEW b, NEW t, NEW c, NEW f, NEW n, NEW o, NEW g,
           NEW d, d = Item("function_call", g, IF c = <<>> THEN <<>> ELSE c[1].body)
    PROVE  Received(Client(b, t, c, f, n, o), [type |-> "call_start", index |-> 0, call |-> g]) =
             Client(b, t, <<d>>, f, n, o)
<1> DEFINE q == Client(b, t, c, f, n, o)
           x == [type |-> "call_start", index |-> 0, call |-> g]
<1>1. x.type = "call_start" /\ x.call = g
  OBVIOUS
<1>2. q.calls = c
  BY DEF Client
<1> HIDE DEF q, x
<1>3. Received(q, x) = [q EXCEPT !.calls =
        << Item("function_call", x.call, IF q.calls = <<>> THEN <<>> ELSE q.calls[1].body) >>]
  BY <1>1, ReceivedRest
<1>4. Received(q, x) = [q EXCEPT !.calls = <<d>>]
  BY <1>1, <1>2, <1>3
<1> QED
  BY <1>4 DEF q, x, Client

LEMMA ReceivedArgs ==
    ASSUME NEW b, NEW t, NEW c, NEW f, NEW n, NEW o, NEW y, c # <<>>, NEW d, d = Filled(c, 1, y)
    PROVE  Received(Client(b, t, c, f, n, o), [type |-> "call_args", index |-> 0, token |-> y]) =
             Client(b, t, d, f, n, o)
<1> DEFINE q == Client(b, t, c, f, n, o)
           x == [type |-> "call_args", index |-> 0, token |-> y]
<1>1. x.type = "call_args" /\ x.token = y
  OBVIOUS
<1>2. q.calls = c
  BY DEF Client
<1> HIDE DEF q, x
<1>3. Received(q, x) = [q EXCEPT !.calls = Filled(@, 1, x.token)]
  BY <1>1, <1>2, ReceivedRest
<1>4. Received(q, x) = [q EXCEPT !.calls = d]
  BY <1>1, <1>2, <1>3
<1> QED
  BY <1>4 DEF q, x, Client

LEMMA ReceivedResult ==
    ASSUME NEW b, NEW t, NEW c, NEW f, NEW n, NEW o, NEW y
    PROVE  Received(Client(b, t, c, f, n, o), [type |-> "result", output |-> y]) =
             Client(y, t, c, "stop", n, o)
<1> DEFINE q == Client(b, t, c, f, n, o)
           x == [type |-> "result", output |-> y]
<1>1. x.type = "result" /\ x.output = y
  OBVIOUS
<1> HIDE DEF q, x
<1>2. Received(q, x) = [q EXCEPT !.blocks = x.output, !.finish = "stop"]
  BY <1>1, ReceivedRest
<1> QED
  BY <1>1, <1>2 DEF q, x, Client

LEMMA ReceivedEnd ==
    ASSUME NEW b, NEW t, NEW c, NEW f, NEW n, NEW o
    PROVE  /\ Received(Client(b, t, c, f, n, o), [type |-> "end"]) = Client(b, t, c, f, n + 1, o)
           /\ Received(BrokenClient(b, t, c, f, n, o), [type |-> "end"]) =
                BrokenClient(b, t, c, f, n + 1, o)
<1> DEFINE q == Client(b, t, c, f, n, o)
           r == BrokenClient(b, t, c, f, n, o)
           x == [type |-> "end"]
<1>1. x.type = "end"
  OBVIOUS
<1> HIDE DEF q, r, x
<1>2. Received(q, x) = [q EXCEPT !.ends = @ + 1] /\ Received(r, x) = [r EXCEPT !.ends = @ + 1]
  BY <1>1, ReceivedRest
<1>3. Received(q, x) = Client(b, t, c, f, n + 1, o)
  BY <1>2 DEF q, Client
<1>4. Received(r, x) = BrokenClient(b, t, c, f, n + 1, o)
  BY <1>2 DEF r, BrokenClient
<1> QED
  BY <1>3, <1>4 DEF q, r, x

\* An end inside an open block breaks the rules, unless it reports an error.
LEMMA ReceivedFinish ==
    ASSUME NEW b, NEW t, NEW c, NEW f, NEW n, NEW o, NEW y
    PROVE  /\ o = {} \/ y = "error" =>
                Received(Client(b, t, c, f, n, o), [type |-> "finish", reason |-> y]) =
                  Client(b, t, c, y, n, o)
           /\ o # {} /\ y # "error" =>
                Received(Client(b, t, c, f, n, o), [type |-> "finish", reason |-> y]) =
                  BrokenClient(b, t, c, y, n, o)
<1> DEFINE q == Client(b, t, c, f, n, o)
           x == [type |-> "finish", reason |-> y]
<1>1. x.type = "finish" /\ x.reason = y
  OBVIOUS
<1>2. q.open = o
  BY DEF Client
<1> HIDE DEF q, x
<1>3. Received(q, x) = [q EXCEPT !.finish = x.reason,
                                 !.broken = @ \/ (q.open # {} /\ x.reason # "error")]
  BY <1>1, ReceivedRest
<1>4. ASSUME o = {} \/ y = "error" PROVE Received(q, x) = Client(b, t, c, y, n, o)
  BY <1>1, <1>2, <1>3, <1>4 DEF q, Client
<1>5. ASSUME o # {}, y # "error" PROVE Received(q, x) = BrokenClient(b, t, c, y, n, o)
  BY <1>1, <1>2, <1>3, <1>5 DEF q, Client, BrokenClient
<1> QED
  BY <1>4, <1>5 DEF q, x


LEMMA AssembledStop ==
    ASSUME NEW b, NEW t, NEW c, NEW f, NEW n, NEW o, NEW r
    PROVE  /\ o = {} \/ r = "error" =>
                Assembled(Client(b, t, c, f, n, o), MessageStop(r)) = Client(b, t, c, r, n + 1, o)
           /\ o # {} /\ r # "error" =>
                Assembled(Client(b, t, c, f, n, o), MessageStop(r)) = BrokenClient(b, t, c, r, n + 1, o)
<1> DEFINE finish == [type |-> "finish", reason |-> r]
           end == [type |-> "end"]
           x == Client(b, t, c, f, n, o)
<1>1. Assembled(x, MessageStop(r)) = Received(Received(x, finish), end)
  <2>1. MessageStop(r) = <<finish, end>>
    BY DEF MessageStop
  <2> HIDE DEF x, finish, end
  <2> QED
    BY <2>1, AssembledTwo
<1>2. ASSUME o = {} \/ r = "error"
      PROVE  Received(Received(x, finish), end) = Client(b, t, c, r, n + 1, o)
  <2>1. Received(x, finish) = Client(b, t, c, r, n, o)
    BY <1>2, ReceivedFinish
  <2> QED
    BY <2>1, ReceivedEnd
<1>3. ASSUME o # {}, r # "error"
      PROVE  Received(Received(x, finish), end) = BrokenClient(b, t, c, r, n + 1, o)
  <2>1. Received(x, finish) = BrokenClient(b, t, c, r, n, o)
    BY <1>3, ReceivedFinish
  <2> QED
    BY <2>1, ReceivedEnd
<1> QED
  BY <1>1, <1>2, <1>3

LEMMA ErrorIsStop == ErrorChunks = MessageStop("error")
BY DEF ErrorChunks, MessageStop

AdapterState(i, text, tool) == [index |-> i, text |-> text, tool |-> tool]
States == [index : Nat, text : BOOLEAN, tool : BOOLEAN]
OpenOf(s) == IF s.text \/ s.tool THEN {s.index} ELSE {}

LEMMA ClosedState ==
    ASSUME NEW s \in States, NEW q
    PROVE  /\ q = [s EXCEPT !.text = FALSE, !.index = @ + 1] =>
                q = AdapterState(s.index + 1, FALSE, s.tool)
           /\ q = [s EXCEPT !.tool = FALSE, !.index = @ + 1] =>
                q = AdapterState(s.index + 1, s.text, FALSE)
           /\ q = [s EXCEPT !.text = TRUE] => q = AdapterState(s.index, TRUE, s.tool)
           /\ q = [s EXCEPT !.tool = TRUE] => q = AdapterState(s.index, s.text, TRUE)
           /\ s = AdapterState(s.index, s.text, s.tool)
           /\ s.index \in Nat /\ s.text \in BOOLEAN /\ s.tool \in BOOLEAN
BY DEF States, AdapterState

LEMMA TwoInARow == ASSUME NEW x, NEW y PROVE <<x>> \o <<y>> = <<x, y>>
<1> DEFINE S == {x, y}
           s == <<x>> \o <<y>>
           t == <<x, y>>
<1>1. <<x>> \in Seq(S) /\ <<y>> \in Seq(S) /\ t \in Seq(S)
  OBVIOUS
<1>2. Len(<<x>>) = 1 /\ Len(<<y>>) = 1 /\ Len(t) = 2
  OBVIOUS
<1>3. Len(s) = 2 /\ s \in Seq(S)
  BY <1>1, <1>2
<1>4. s[1] = x /\ s[2] = y
  BY <1>1, <1>2
<1>5. t[1] = x /\ t[2] = y
  OBVIOUS
<1>6. \A i \in 1..2 : s[i] = t[i]
  <2>1. \A i \in 1..2 : i = 1 \/ i = 2
    OBVIOUS
  <2> HIDE DEF s, t
  <2> QED
    BY <1>4, <1>5, <2>1
<1>7. /\ DOMAIN s = 1..2 /\ s = [i \in DOMAIN s |-> s[i]]
      /\ DOMAIN t = 1..2 /\ t = [i \in DOMAIN t |-> t[i]]
  BY <1>1, <1>2, <1>3
<1> HIDE DEF s, t
<1>8. s = t
  BY <1>6, <1>7
<1> QED
  BY <1>8 DEF s, t

LEMMA NotEmpty ==
    /\ \A x : <<x>> # <<>>
    /\ \A x, y : <<x, y>> # <<>>
    /\ \A x, y, z : <<x, y, z>> # <<>>
<1>1. \A x : Len(<<x>>) = 1
  OBVIOUS
<1>2. \A x, y : Len(<<x, y>>) = 2
  OBVIOUS
<1>3. \A x, y, z : Len(<<x, y, z>>) = 3
  OBVIOUS
<1>4. Len(<<>>) = 0
  OBVIOUS
<1> QED
  BY <1>1, <1>2, <1>3, <1>4

LEMMA ThreeInARow == ASSUME NEW x, NEW y, NEW z PROVE <<x>> \o <<y, z>> = <<x, y, z>>
<1> DEFINE S == {x, y, z}
           s == <<x>> \o <<y, z>>
           t == <<x, y, z>>
<1>1. <<x>> \in Seq(S) /\ <<y, z>> \in Seq(S) /\ t \in Seq(S)
  OBVIOUS
<1>2. Len(<<x>>) = 1 /\ Len(<<y, z>>) = 2 /\ Len(t) = 3
  OBVIOUS
<1>3. Len(s) = 3 /\ s \in Seq(S)
  BY <1>1, <1>2
<1>4. s[1] = x /\ s[2] = y /\ s[3] = z
  BY <1>1, <1>2
<1>5. t[1] = x /\ t[2] = y /\ t[3] = z
  OBVIOUS
<1>6. \A i \in 1..3 : s[i] = t[i]
  <2>1. \A i \in 1..3 : i = 1 \/ i = 2 \/ i = 3
    OBVIOUS
  <2> HIDE DEF s, t
  <2> QED
    BY <1>4, <1>5, <2>1
<1>7. /\ DOMAIN s = 1..3 /\ s = [i \in DOMAIN s |-> s[i]]
      /\ DOMAIN t = 1..3 /\ t = [i \in DOMAIN t |-> t[i]]
  BY <1>1, <1>2, <1>3
<1> HIDE DEF s, t
<1>8. s = t
  BY <1>6, <1>7
<1> QED
  BY <1>8 DEF s, t

\* Closing what is open, at most one block.
LEMMA ClosedOne ==
    ASSUME NEW s \in States, ~(s.text /\ s.tool)
    PROVE  LET closed == AdapterState(s.index + 1, FALSE, FALSE)
               stop == [type |-> "stop", index |-> s.index]
           IN  /\ CloseText(Step(s, <<>>)) = IF s.text THEN Step(closed, <<stop>>) ELSE Step(s, <<>>)
               /\ CloseTool(Step(s, <<>>)) = IF s.tool THEN Step(closed, <<stop>>) ELSE Step(s, <<>>)
               /\ CloseTool(CloseText(Step(s, <<>>))) =
                    IF s.text \/ s.tool THEN Step(closed, <<stop>>) ELSE Step(s, <<>>)
<1> DEFINE closed == AdapterState(s.index + 1, FALSE, FALSE)
           stop == [type |-> "stop", index |-> s.index]
<1>1. CASE s.text
  <2>1. [s EXCEPT !.text = FALSE, !.index = @ + 1] = closed
    <3> DEFINE q == [s EXCEPT !.text = FALSE, !.index = @ + 1]
    <3>1. s.tool = FALSE
      BY <1>1, ClosedState
    <3>2. q = [s EXCEPT !.text = FALSE, !.index = @ + 1]
      OBVIOUS
    <3> HIDE DEF q
    <3>3. q = AdapterState(s.index + 1, FALSE, s.tool)
      BY <3>2 DEF States, AdapterState
    <3>4. q = closed
      BY <3>1, <3>3
    <3> QED
      BY <3>4 DEF q
  <2>2. Append(<<>>, stop) = <<stop>>
    OBVIOUS
  <2>3. CloseText(Step(s, <<>>)) = Step(closed, <<stop>>)
    BY <1>1, <2>1, <2>2 DEF CloseText, Step
  <2>4. CloseTool(Step(s, <<>>)) = Step(s, <<>>)
    BY <1>1 DEF CloseTool, Step, States
  <2>5. CloseTool(Step(closed, <<stop>>)) = Step(closed, <<stop>>)
    BY DEF CloseTool, Step, AdapterState
  <2> QED
    BY <1>1, <2>3, <2>4, <2>5
<1>2. CASE s.tool
  <2>1. [s EXCEPT !.tool = FALSE, !.index = @ + 1] = closed
    <3> DEFINE q == [s EXCEPT !.tool = FALSE, !.index = @ + 1]
    <3>1. s.text = FALSE
      BY <1>2, ClosedState
    <3>2. q = [s EXCEPT !.tool = FALSE, !.index = @ + 1]
      OBVIOUS
    <3> HIDE DEF q
    <3>3. q = AdapterState(s.index + 1, s.text, FALSE)
      BY <3>2 DEF States, AdapterState
    <3>4. q = closed
      BY <3>1, <3>3
    <3> QED
      BY <3>4 DEF q
  <2>2. Append(<<>>, stop) = <<stop>>
    OBVIOUS
  <2>3. CloseTool(Step(s, <<>>)) = Step(closed, <<stop>>)
    BY <1>2, <2>1, <2>2 DEF CloseTool, Step
  <2>4. CloseText(Step(s, <<>>)) = Step(s, <<>>)
    BY <1>2 DEF CloseText, Step, States
  <2> QED
    BY <1>2, <2>3, <2>4
<1>3. CASE ~s.text /\ ~s.tool
  BY <1>3 DEF CloseText, CloseTool, Step
<1> QED
  BY <1>1, <1>2, <1>3

LEMMA CompletedSteps ==
    ASSUME NEW s \in States, ~(s.text /\ s.tool), NEW output
    PROVE  LET closed == AdapterState(s.index + 1, FALSE, FALSE)
               stop == [type |-> "stop", index |-> s.index]
               finish == [type |-> "finish", reason |-> StopReason(output)]
               end == [type |-> "end"]
           IN  HandleCompleted(s, CompletedEvent(output)) =
                 IF s.text \/ s.tool THEN Step(closed, <<stop, finish, end>>)
                                     ELSE Step(s, <<finish, end>>)
<1> DEFINE closed == AdapterState(s.index + 1, FALSE, FALSE)
           stop == [type |-> "stop", index |-> s.index]
           finish == [type |-> "finish", reason |-> StopReason(output)]
           end == [type |-> "end"]
<1>1. MessageStop(StopReason(output)) = <<finish, end>>
  BY DEF MessageStop
<1>2. CompletedEvent(output).response.output = output
  BY DEF CompletedEvent
<1> DEFINE q == HandleCompleted(s, CompletedEvent(output))
           r == CloseTool(CloseText(Step(s, <<>>)))
<1>3. q = [r EXCEPT !.chunks = r.chunks \o <<finish, end>>]
  BY <1>1, <1>2, Zenon DEF HandleCompleted
<1>4. CASE s.text \/ s.tool
  <2>1. r = Step(closed, <<stop>>)
    BY <1>4, ClosedOne
  <2> HIDE DEF finish, end, stop, closed, q, r
  <2>2. <<stop>> \o <<finish, end>> = <<stop, finish, end>>
    BY ThreeInARow
  <2>3. q = Step(closed, <<stop, finish, end>>)
    BY <1>3, <2>1, <2>2 DEF Step
  <2> QED
    BY <1>4, <2>3 DEF finish, end, stop, closed, q
<1>5. CASE ~(s.text \/ s.tool)
  <2>1. r = Step(s, <<>>)
    BY <1>5, ClosedOne
  <2> HIDE DEF finish, end, stop, closed, q, r
  <2>2. <<>> \o <<finish, end>> = <<finish, end>>
    OBVIOUS
  <2>3. q = Step(s, <<finish, end>>)
    BY <1>3, <2>1, <2>2 DEF Step
  <2> QED
    BY <1>5, <2>3 DEF finish, end, stop, closed, q
<1> QED
  BY <1>4, <1>5

----------------------------------------------------------------------------
(* Whatever the adapter makes of the events, a client counts the ends.     *)

Shaped(c) == c = [blocks |-> c.blocks, text |-> c.text, calls |-> c.calls, finish |-> c.finish,
                  ends |-> c.ends, open |-> c.open, broken |-> c.broken]
Inner == {"start", "delta", "stop", "finish"}

LEMMA ReceivedShaped ==
    ASSUME NEW c, Shaped(c), NEW x, x.type \in Inner \cup {"end"}
    PROVE  /\ Shaped(Received(c, x))
           /\ Received(c, x).ends = IF x.type = "end" THEN c.ends + 1 ELSE c.ends
<1> DEFINE r == Received(c, x)
           Good == Shaped(r) /\ r.ends = IF x.type = "end" THEN c.ends + 1 ELSE c.ends
<1>1. CASE x.type = "start"
  <2> DEFINE b == Append(c.blocks, Item(x.kind, x.call, <<>>))
             o == c.open \cup {x.index}
             k == c.broken \/ c.open # {} \/ x.index # Len(c.blocks)
  <2>1. r = [c EXCEPT !.blocks = b, !.open = o, !.broken = k]
    BY <1>1, ReceivedBlocks
  <2> HIDE DEF r, b, o, k
  <2>2. Shaped(r) /\ r.ends = c.ends
    BY <2>1 DEF Shaped
  <2> QED
    BY <1>1, <2>2 DEF r
<1>2. CASE x.type = "delta"
  <2> DEFINE b == Filled(c.blocks, x.index + 1, x.token)
  <2>1. r = [c EXCEPT !.blocks = b] \/ r = [c EXCEPT !.broken = TRUE]
    BY <1>2 DEF Received
  <2> HIDE DEF r, b
  <2>2. Shaped(r) /\ r.ends = c.ends
    BY <2>1 DEF Shaped
  <2> QED
    BY <1>2, <2>2 DEF r
<1>3. CASE x.type = "stop"
  <2> DEFINE o == c.open \ {x.index}
             k == c.broken \/ x.index \notin c.open
  <2>1. r = [c EXCEPT !.open = o, !.broken = k]
    BY <1>3, ReceivedBlocks
  <2> HIDE DEF r, o, k
  <2>2. Shaped(r) /\ r.ends = c.ends
    BY <2>1 DEF Shaped
  <2> QED
    BY <1>3, <2>2 DEF r
<1>4. CASE x.type = "finish"
  <2> DEFINE k == c.broken \/ (c.open # {} /\ x.reason # "error")
  <2>1. r = [c EXCEPT !.finish = x.reason, !.broken = k]
    BY <1>4, ReceivedRest
  <2> HIDE DEF r, k
  <2>2. Shaped(r) /\ r.ends = c.ends
    BY <2>1 DEF Shaped
  <2> QED
    BY <1>4, <2>2 DEF r
<1>5. CASE x.type = "end"
  <2> DEFINE n == c.ends + 1
  <2>1. r = [c EXCEPT !.ends = n]
    BY <1>5, ReceivedRest
  <2> HIDE DEF r, n
  <2>2. Shaped(r) /\ r.ends = n
    BY <2>1 DEF Shaped
  <2> QED
    BY <1>5, <2>2 DEF r, n
<1> QED
  BY <1>1, <1>2, <1>3, <1>4, <1>5 DEF Inner

\* Inner chunks do not end the answer.
LEMMA RunShaped ==
    ASSUME NEW c, Shaped(c), NEW s, Len(s) \in Nat, NEW m \in Nat, m <= Len(s),
           \A n \in 1..m : s[n].type \in Inner,
           NEW h, AfterRun(c, s, Len(s), h)
    PROVE  Shaped(h[m]) /\ h[m].ends = c.ends
<1> DEFINE T == {n \in Nat : n <= m => Shaped(h[n]) /\ h[n].ends = c.ends}
<1>1. 0 \in T
  <2>1. h[0] = c
    BY AfterSteps
  <2> QED
    BY <2>1
<1>2. ASSUME NEW n \in Nat, n \in T PROVE n + 1 \in T
  <2>1. SUFFICES ASSUME n + 1 <= m PROVE Shaped(h[n + 1]) /\ h[n + 1].ends = c.ends
    OBVIOUS
  <2>2. Shaped(h[n]) /\ h[n].ends = c.ends /\ n < Len(s) /\ n + 1 \in 1..m
    BY <1>2, <2>1
  <2>3. h[n + 1] = Received(h[n], s[n + 1])
    BY <2>2, AfterSteps
  <2>4. s[n + 1].type \in Inner /\ s[n + 1].type # "end"
    BY <2>2 DEF Inner
  <2> QED
    BY <2>2, <2>3, <2>4, ReceivedShaped
<1>3. Nat \subseteq T
  <2> HIDE DEF T
  <2> QED
    BY <1>1, <1>2, Induct
<1> QED
  BY <1>3

LEMMA AssembledInner ==
    ASSUME NEW c, Shaped(c), NEW s, Len(s) \in Nat, \A n \in 1..Len(s) : s[n].type \in Inner
    PROVE  Shaped(Assembled(c, s)) /\ Assembled(c, s).ends = c.ends
<1>1. PICK h : AfterRun(c, s, Len(s), h) /\ Assembled(c, s) = h[Len(s)]
  BY AssembledIs
<1> QED
  BY <1>1, RunShaped

LEMMA AssembledToEnd ==
    ASSUME NEW c, Shaped(c), NEW s, NEW m \in Nat, Len(s) = m + 1, s[m + 1].type = "end",
           \A n \in 1..m : s[n].type \in Inner
    PROVE  Shaped(Assembled(c, s)) /\ Assembled(c, s).ends = c.ends + 1
<1>1. Len(s) \in Nat /\ m < Len(s) /\ m <= Len(s)
  OBVIOUS
<1>2. PICK h : AfterRun(c, s, Len(s), h) /\ Assembled(c, s) = h[Len(s)]
  BY <1>1, AssembledIs
<1>3. Shaped(h[m]) /\ h[m].ends = c.ends
  BY <1>1, <1>2, RunShaped
<1>4. h[m + 1] = Received(h[m], s[m + 1])
  BY <1>1, <1>2, AfterSteps
<1> QED
  BY <1>2, <1>3, <1>4, ReceivedShaped

LEMMA ShapedStop ==
    ASSUME NEW c, Shaped(c), NEW r
    PROVE  LET d == Assembled(c, MessageStop(r)) IN Shaped(d) /\ d.ends = c.ends + 1
<1> DEFINE finish == [type |-> "finish", reason |-> r]
           end == [type |-> "end"]
           s == <<finish, end>>
<1>1. MessageStop(r) = s
  BY DEF MessageStop
<1>2. Len(s) = 1 + 1 /\ s[1 + 1] = end /\ s[1] = finish
  OBVIOUS
<1>3. end.type = "end" /\ finish.type \in Inner
  BY DEF Inner
<1> HIDE DEF s, finish, end
<1>4. \A n \in 1..1 : s[n].type \in Inner
  BY <1>2, <1>3
<1> QED
  BY <1>1, <1>2, <1>3, <1>4, AssembledToEnd

\* Closing adds stops, two at most.
LEMMA ClosingStops ==
    ASSUME NEW s, NEW r, r = CloseTool(CloseText(Step(s, <<>>)))
    PROVE  /\ Len(r.chunks) \in Nat /\ \A n \in 1..Len(r.chunks) : r.chunks[n].type = "stop"
           /\ r = Step(r.state, r.chunks)
           /\ \E S : r.chunks \in Seq(S)
<1> DEFINE a == CloseText(Step(s, <<>>))
           x == [type |-> "stop", index |-> s.index]
           y == [type |-> "stop", index |-> a.state.index]
           S == {x, y}
<1>1. /\ x \in S /\ y \in S /\ \A z \in S : z.type = "stop"
      /\ <<>> \in Seq(S)
  OBVIOUS
<1>2. /\ Step(s, <<>>).state = s /\ Step(s, <<>>).chunks = <<>>
  BY DEF Step
<1>3. a = Step(a.state, a.chunks) /\ (a.chunks = <<>> \/ a.chunks = Append(<<>>, x))
  BY <1>2 DEF CloseText, Step
<1>4. r = Step(r.state, r.chunks) /\ (r.chunks = a.chunks \/ r.chunks = Append(a.chunks, y))
  <2> DEFINE b == [a.state EXCEPT !.tool = FALSE, !.index = @ + 1]
             f == Append(a.chunks, y)
  <2>1. r = CloseTool(a)
    OBVIOUS
  <2>2. r = a \/ r = Step(b, f)
    <3> HIDE DEF a, x
    <3> QED
      BY <2>1 DEF CloseTool
  <2>3. f = Append(a.chunks, y)
    OBVIOUS
  <2> HIDE DEF a, b, f, x, y
  <2>4. ASSUME r = Step(b, f) PROVE r.chunks = f /\ r = Step(r.state, r.chunks)
    BY <2>4 DEF Step
  <2> QED
    BY <1>3, <2>2, <2>3, <2>4
<1> HIDE DEF a, x, y, S
<1>5. r.chunks \in Seq(S)
  <2>0. Append(<<>>, x) \in Seq(S)
    BY <1>1
  <2>1. a.chunks \in Seq(S)
    BY <1>1, <1>3, <2>0
  <2> QED
    BY <1>1, <1>4, <2>1
<1>6. Len(r.chunks) \in Nat /\ \A n \in 1..Len(r.chunks) : r.chunks[n] \in S
  BY <1>5
<1> QED
  BY <1>1, <1>4, <1>5, <1>6

\* Only completed ends the message.
LEMMA CountsEnds ==
    ASSUME NEW s, NEW c, Shaped(c), NEW e, NEW q, q = MessagesEvent(s, e)
    PROVE  /\ Shaped(Assembled(c, q.chunks))
           /\ Assembled(c, q.chunks).ends = IF e.type = "completed" THEN c.ends + 1 ELSE c.ends
           /\ q.chunks = <<>> => q.state = s
           /\ e.type = "completed" => q.chunks # <<>>
<1> DEFINE None == q = Step(s, <<>>)
           One == \E t, x : q = Step(t, <<x>>) /\ x.type \in Inner
           Two == \E t, x, y : q = Step(t, <<y, x>>) /\ x.type \in Inner /\ y.type \in Inner
<1>1. ASSUME e.type # "completed" PROVE None \/ One \/ Two
  <2>1. CASE e.type = "item_added"
    <3>1. q = HandleOutputItemAdded(s, e)
      BY <2>1 DEF MessagesEvent
    <3> DEFINE x == BlockStart(s, "function_call", e.call)
               t == [s EXCEPT !.tool = TRUE]
    <3>2. q = Step(t, <<x>>) \/ None
      BY <3>1 DEF HandleOutputItemAdded
    <3>3. x.type \in Inner
      BY DEF BlockStart, Inner
    <3> HIDE DEF x, t
    <3> QED
      BY <3>2, <3>3
  <2>2. CASE e.type = "text_delta"
    <3>1. q = HandleTextDelta(s, e)
      BY <2>2 DEF MessagesEvent
    <3> DEFINE x == BlockDelta(s, "message", e.token)
               y == BlockStart(s, "message", NoCall)
               t == [s EXCEPT !.text = TRUE]
    <3>2. q = Step(t, (IF s.text THEN <<>> ELSE <<y>>) \o <<x>>)
      BY <3>1 DEF HandleTextDelta
    <3>3. x.type \in Inner /\ y.type \in Inner
      BY DEF BlockStart, BlockDelta, Inner
    <3> HIDE DEF x, y, t
    <3>4. <<>> \o <<x>> = <<x>> /\ <<y>> \o <<x>> = <<y, x>>
      BY TwoInARow
    <3>5. q = Step(t, <<x>>) \/ q = Step(t, <<y, x>>)
      BY <3>2, <3>4
    <3> QED
      BY <3>3, <3>5
  <2>3. CASE e.type = "args_delta"
    <3> DEFINE x == BlockDelta(s, "function_call", e.token)
    <3>1. q = Step(s, <<x>>)
      BY <2>3 DEF MessagesEvent
    <3>2. x.type \in Inner
      BY DEF BlockDelta, Inner
    <3> HIDE DEF x
    <3> QED
      BY <3>1, <3>2
  <2>4. CASE e.type \in {"text_done", "args_done"}
    <3> DEFINE x == [type |-> "stop", index |-> s.index]
               t == [s EXCEPT !.text = FALSE, !.index = @ + 1]
               u == [s EXCEPT !.tool = FALSE, !.index = @ + 1]
    <3>1. q = CloseText(Step(s, <<>>)) \/ q = CloseTool(Step(s, <<>>))
      BY <2>4 DEF MessagesEvent
    <3>2. Append(<<>>, x) = <<x>>
      OBVIOUS
    <3>3. None \/ q = Step(t, <<x>>) \/ q = Step(u, <<x>>)
      BY <3>1, <3>2 DEF CloseText, CloseTool, Step
    <3>4. x.type \in Inner
      BY DEF Inner
    <3> HIDE DEF x, t, u
    <3> QED
      BY <3>3, <3>4
  <2>5. CASE e.type \notin {"item_added", "text_delta", "args_delta", "text_done", "args_done"}
    BY <1>1, <2>5 DEF MessagesEvent
  <2> QED
    BY <2>1, <2>2, <2>3, <2>4, <2>5
<1>2. ASSUME None \/ One \/ Two
      PROVE  /\ Shaped(Assembled(c, q.chunks)) /\ Assembled(c, q.chunks).ends = c.ends
             /\ q.chunks = <<>> => q.state = s
  <2>1. CASE None
    BY <2>1, AssembledNone DEF Step
  <2>2. CASE One
    <3>1. PICK t, x : q = Step(t, <<x>>) /\ x.type \in Inner
      BY <2>2
    <3>2. q.chunks = <<x>> /\ Assembled(c, q.chunks) = Received(c, x) /\ q.chunks # <<>>
      BY <3>1, AssembledOne, NotEmpty DEF Step
    <3>3. x.type # "end"
      BY <3>1 DEF Inner
    <3> QED
      BY <3>1, <3>2, <3>3, ReceivedShaped
  <2>3. CASE Two
    <3>1. PICK t, x, y : q = Step(t, <<y, x>>) /\ x.type \in Inner /\ y.type \in Inner
      BY <2>3
    <3>2. q.chunks = <<y, x>> /\ q.chunks # <<>>
      BY <3>1, NotEmpty DEF Step
    <3>3. Assembled(c, q.chunks) = Received(Received(c, y), x)
      BY <3>2, AssembledTwo
    <3>4. x.type # "end" /\ y.type # "end"
      BY <3>1 DEF Inner
    <3> QED
      BY <3>1, <3>2, <3>3, <3>4, ReceivedShaped
  <2> QED
    BY <1>2, <2>1, <2>2, <2>3
<1>3. ASSUME e.type = "completed"
      PROVE  /\ Shaped(Assembled(c, q.chunks)) /\ Assembled(c, q.chunks).ends = c.ends + 1
             /\ q.chunks # <<>>
  <2> DEFINE r == CloseTool(CloseText(Step(s, <<>>)))
             finish == [type |-> "finish", reason |-> StopReason(e.response.output)]
             end == [type |-> "end"]
             w == r.chunks \o <<finish, end>>
             m == Len(r.chunks) + 1
  <2>1. q = [r EXCEPT !.chunks = r.chunks \o <<finish, end>>]
    <3>1. q = HandleCompleted(s, e)
      BY <1>3 DEF MessagesEvent
    <3> QED
      BY <3>1, Zenon DEF HandleCompleted, MessageStop
  <2>2. finish.type \in Inner /\ end.type = "end" /\ "stop" \in Inner
    BY DEF Inner
  <2>3. /\ Len(r.chunks) \in Nat /\ \A n \in 1..Len(r.chunks) : r.chunks[n].type = "stop"
        /\ r = Step(r.state, r.chunks)
    BY ClosingStops
  <2>4. PICK S : r.chunks \in Seq(S)
    BY ClosingStops
  <2> HIDE DEF r, finish, end
  <2>5. q.chunks = w
    BY <2>1, <2>3 DEF Step
  <2>6. /\ Len(w) = m + 1 /\ m \in Nat /\ w[m] = finish /\ w[m + 1] = end
        /\ \A n \in 1..Len(r.chunks) : w[n] = r.chunks[n]
    <3> DEFINE U == S \cup {finish, end}
               v == r.chunks
    <3>1. v \in Seq(U) /\ <<finish, end>> \in Seq(U) /\ Len(<<finish, end>>) = 2
      BY <2>4
    <3>2. <<finish, end>>[1] = finish /\ <<finish, end>>[2] = end
      OBVIOUS
    <3> DEFINE g == <<finish, end>>
    <3> HIDE DEF v, g, U
    <3>3. Len(v) \in Nat /\ Len(v \o g) = Len(v) + 2
      BY <3>1 DEF g
    <3>4. (v \o g)[Len(v) + 1] = g[1] /\ (v \o g)[Len(v) + 2] = g[2]
      BY <3>1 DEF g
    <3>5. \A n \in 1..Len(v) : (v \o g)[n] = v[n]
      BY <3>1 DEF g
    <3> QED
      BY <3>2, <3>3, <3>4, <3>5 DEF v, g
  <2>7. \A n \in 1..m : w[n].type \in Inner
    <3>1. \A n \in 1..m : n \in 1..Len(r.chunks) \/ n = m
      BY <2>3
    <3> HIDE DEF w, m
    <3> QED
      BY <2>2, <2>3, <2>6, <3>1
  <2>8. w # <<>>
    <3> HIDE DEF w, m
    <3>1. Len(<<>>) = 0
      OBVIOUS
    <3> QED
      BY <2>6, <3>1
  <2> HIDE DEF w, m
  <2>9. Shaped(Assembled(c, w)) /\ Assembled(c, w).ends = c.ends + 1
    BY <2>2, <2>6, <2>7, AssembledToEnd
  <2> QED
    BY <2>5, <2>8, <2>9
<1> HIDE DEF None, One, Two
<1> QED
  BY <1>1, <1>2, <1>3

----------------------------------------------------------------------------
(* What each route's client has made of the events so far, as a function   *)
(* of the backend's stream u; s is the adapter's state, c the client.      *)

Upstream(u) ==
    /\ u.output \in Seq(Items)
    /\ u.open => u.output # <<>>
    /\ ~(u.completed /\ u.failed)

\* The last block is open exactly if the adapter has announced it.
MessagesView(u, s, c) ==
    /\ s \in States
    /\ u.completed =>
          /\ ~s.text /\ ~s.tool /\ s.index = Len(Blocks(u.output))
          /\ c = Client(Blocks(u.output), <<>>, <<>>, StopReason(u.output), 1, {})
    /\ ~u.completed =>
          /\ s.text <=> u.open /\ ~IsCall(LastOf(u.output)) /\ LastOf(u.output).body # <<>>
          /\ s.tool <=> u.open /\ IsCall(LastOf(u.output))
          /\ IF s.text \/ s.tool THEN s.index + 1 = Len(Blocks(u.output))
                                 ELSE s.index = Len(Blocks(u.output))
          /\ c = Client(Blocks(u.output), <<>>, <<>>, "none", 0, OpenOf(s))

\* Once a block is overtaken, the ends are all that is known.
OvertakenView(u, c) == Shaped(c) /\ c.ends = IF u.completed THEN 1 ELSE 0

\* All calls have index 0, so that only one of them is kept.
ChatView(u, c) ==
    /\ c.calls \in Seq(Items)
    /\ c.calls # <<>> <=> HasCall(u.output)
    /\ Len(Calls(u.output)) <= 1 => c.calls = Calls(u.output)
    /\ ~u.extra => c.text = TextOf(u.output)
    /\ c = Client(<<>>, c.text, c.calls,
                  IF u.completed THEN StopReason(u.output) ELSE "none", 0, {})

FailedClient == Client(<<>>, <<>>, <<>>, "error", 1, {})
ResponsesView(u, c) ==
    /\ u.completed => c = Client(u.output, <<>>, <<>>, "stop", 1, {})
    /\ ~u.completed => c = IF u.failed THEN FailedClient ELSE NewClient

\* Until a block is overtaken the client is what MessagesView says.
LEMMA NotYetOvertaken ==
    ASSUME NEW u, NEW s, NEW c, MessagesView(u, s, c)
    PROVE  OvertakenView(u, c)
<1> DEFINE B == Blocks(u.output)
           f == StopReason(u.output)
           O == OpenOf(s)
<1>1. \/ u.completed /\ c = Client(B, <<>>, <<>>, f, 1, {})
      \/ ~u.completed /\ c = Client(B, <<>>, <<>>, "none", 0, O)
  BY DEF MessagesView
<1> HIDE DEF B, f, O
<1> QED
  BY <1>1 DEF OvertakenView, Shaped, Client

LEMMA LastAppended ==
    ASSUME NEW S, NEW s \in Seq(S), NEW e \in S
    PROVE  LastOf(Append(s, e)) = e /\ Append(s, e) \in Seq(S) /\ Append(s, e) # <<>>
BY DEF LastOf

LEMMA FilledAppended ==
    ASSUME NEW s \in Seq(Items), NEW e \in Items, NEW token \in Token
    PROVE  /\ Filled(Append(s, e), Len(s) + 1, token) =
                Append(s, Item(e.kind, e.call, Append(e.body, token)))
           /\ Append(s, e)[Len(s) + 1] = e
<1> DEFINE t == Append(s, e)
<1>1. /\ t \in Seq(Items) /\ t # <<>> /\ Len(t) = Len(s) + 1 /\ LastOf(t) = e
      /\ t[Len(s) + 1] = e
  BY DEF LastOf
<1> DEFINE d == Item(e.kind, e.call, Append(e.body, token))
<1> HIDE DEF t
<1>2. PICK f \in Seq(Items) : t = Append(f, e) /\ Filled(t, Len(t), token) = Append(f, d)
  <2>1. d = Item(e.kind, e.call, Append(e.body, token))
    OBVIOUS
  <2> HIDE DEF d
  <2> QED
    BY <1>1, <2>1, FilledLast
<1>3. f = s
  <2>1. Append(f, e) = Append(s, e)
    BY <1>2 DEF t
  <2>2. Len(f) = Len(s)
    BY <2>1
  <2>3. \A i \in 1..Len(s) : f[i] = s[i]
    <3> SUFFICES ASSUME NEW i \in 1..Len(s) PROVE f[i] = s[i]
      OBVIOUS
    <3>1. Append(f, e)[i] = f[i] /\ Append(s, e)[i] = s[i]
      BY <2>2
    <3> QED
      BY <2>1, <3>1
  <2> QED
    BY <2>2, <2>3
<1>4. t[Len(s) + 1] = e
  BY <1>1
<1> QED
  BY <1>1, <1>2, <1>3, <1>4 DEF t, d

LEMMA MessagesAdded ==
    ASSUME NEW u, NEW v, NEW s, NEW c, Upstream(u), MessagesView(u, s, c),
           NEW kind \in {"message", "function_call"}, NEW call \in Call \cup {NoCall},
           kind = "message" => call = NoCall,
           c.open = {}, ~u.completed, v.open, ~v.completed,
           v.output = Append(u.output, Item(kind, call, <<>>)),
           NEW q, q = MessagesEvent(s, [type |-> "item_added", kind |-> kind, call |-> call])
    PROVE  MessagesView(v, q.state, Assembled(c, q.chunks)) /\ (q.chunks = <<>> => q.state = s)
<1> DEFINE e == Item(kind, call, <<>>)
           o == u.output
<1>1. e \in Items /\ o \in Seq(Items) /\ (IsCall(e) <=> kind = "function_call") /\ e.body = <<>>
  <2>1. <<>> \in Seq(Token)
    OBVIOUS
  <2>2. e \in Items
    BY <2>1, ItemTyped
  <2> QED
    BY <2>2 DEF Upstream, IsCall, Item
<1>2. v.output = Append(o, e) /\ LastOf(v.output) = e
  BY <1>1, LastAppended
<1>3. /\ s \in States /\ ~s.text /\ ~s.tool /\ s.index = Len(Blocks(o))
      /\ c = Client(Blocks(o), <<>>, <<>>, "none", 0, {})
  <2> DEFINE B == Blocks(o)
             O == OpenOf(s)
  <2>1. /\ s \in States /\ c = Client(B, <<>>, <<>>, "none", 0, O)
        /\ IF s.text \/ s.tool THEN s.index + 1 = Len(B) ELSE s.index = Len(B)
    BY DEF MessagesView
  <2>2. O = {}
    <3> HIDE DEF B, O
    <3> QED
      BY <2>1 DEF Client
  <2>3. ~s.text /\ ~s.tool
    BY <2>2 DEF OpenOf
  <2> HIDE DEF B, O
  <2> QED
    BY <2>1, <2>2, <2>3 DEF B
<1>4. Blocks(v.output) = IF IsBlock(e) THEN Append(Blocks(o), e) ELSE Blocks(o)
  BY <1>1, <1>2, BlocksAppend
<1>b. Blocks(o) \in Seq(Items)
  BY <1>1, SelectedTyped
<1>5. CASE kind = "function_call"
  <2> DEFINE t == [s EXCEPT !.tool = TRUE]
             x == BlockStart(s, "function_call", call)
  <2>1. q = Step(t, <<x>>)
    BY <1>5 DEF MessagesEvent, HandleOutputItemAdded
  <2>2. t = AdapterState(s.index, s.text, TRUE)
    BY <1>3, ClosedState
  <2>3. Received(c, x) = Client(Append(Blocks(o), e), <<>>, <<>>, "none", 0, {s.index})
    <3>1. e = Item("function_call", call, <<>>)
      BY <1>5
    <3> DEFINE B == Blocks(o)
    <3> HIDE DEF e, B
    <3>2. Received(Client(B, <<>>, <<>>, "none", 0, {}), x) =
            Client(Append(B, Item("function_call", call, <<>>)), <<>>, <<>>, "none", 0, {s.index})
      BY <1>3, ReceivedStart DEF B
    <3> QED
      BY <1>3, <3>1, <3>2 DEF B
  <2> HIDE DEF t, x
  <2>4. q.state = t /\ q.chunks = <<x>>
    BY <2>1 DEF Step
  <2>5. Assembled(c, q.chunks) = Received(c, x)
    BY <2>4, AssembledOne
  <2>6. t \in States /\ ~t.text /\ t.tool /\ t.index = s.index /\ OpenOf(t) = {s.index}
    BY <1>3, <2>2 DEF AdapterState, States, OpenOf
  <2>7. Blocks(v.output) = Append(Blocks(o), e) /\ Len(Blocks(v.output)) = s.index + 1
    BY <1>1, <1>3, <1>4, <1>5, <1>b DEF IsBlock
  <2>8. q.chunks # <<>>
    BY <2>4, NotEmpty
  <2>9. MessagesView(v, t, Received(c, x))
    BY <1>1, <1>2, <1>5, <2>3, <2>6, <2>7 DEF MessagesView
  <2> QED
    BY <2>4, <2>5, <2>8, <2>9
<1>6. CASE kind = "message"
  <2>1. q = Step(s, <<>>)
    BY <1>6 DEF MessagesEvent, HandleOutputItemAdded
  <2>2. q.state = s /\ q.chunks = <<>> /\ Assembled(c, q.chunks) = c
    BY <2>1, AssembledNone DEF Step
  <2>3. Blocks(v.output) = Blocks(o)
    BY <1>1, <1>4, <1>6 DEF IsBlock
  <2>4. OpenOf(s) = {}
    BY <1>3 DEF OpenOf
  <2>5. MessagesView(v, s, c)
    BY <1>1, <1>2, <1>3, <1>6, <2>3, <2>4 DEF MessagesView
  <2> QED
    BY <2>2, <2>5
<1> QED
  BY <1>5, <1>6

LEMMA MessagesFilled ==
    ASSUME NEW u, NEW v, NEW s, NEW c, Upstream(u), MessagesView(u, s, c), NEW token \in Token,
           u.open, ~u.completed, v.open, ~v.completed,
           v.output = Filled(u.output, Len(u.output), token),
           NEW q, q = MessagesEvent(s, [type |-> IF LastOf(u.output).kind = "message"
                                                 THEN "text_delta" ELSE "args_delta",
                                        token |-> token])
    PROVE  MessagesView(v, q.state, Assembled(c, q.chunks)) /\ q.chunks # <<>>
<1> DEFINE e == LastOf(u.output)
           d == Item(e.kind, e.call, Append(e.body, token))
<1>0. /\ e = LastOf(u.output) /\ d = Item(e.kind, e.call, Append(e.body, token))
      /\ u.output \in Seq(Items) /\ u.output # <<>>
  BY DEF Upstream
<1>1. e \in Items /\ d \in Items
  <2> HIDE DEF e, d
  <2> QED
    BY <1>0, FilledLast
<1>2. PICK f \in Seq(Items) : u.output = Append(f, e) /\ v.output = Append(f, d)
  <2> DEFINE o == u.output
  <2>1. /\ e = LastOf(o) /\ d = Item(e.kind, e.call, Append(e.body, token))
        /\ o \in Seq(Items) /\ o # <<>>
    BY <1>0
  <2>2. u.output = o /\ v.output = Filled(o, Len(o), token)
    OBVIOUS
  <2> HIDE DEF e, d, o
  <2>3. PICK f \in Seq(Items) : o = Append(f, e) /\ Filled(o, Len(o), token) = Append(f, d)
    BY <2>1, FilledLast
  <2> QED
    BY <2>2, <2>3
<1>3. LastOf(v.output) = d /\ (IsCall(d) <=> IsCall(e)) /\ d.body # <<>> /\ IsBlock(d)
  <2>1. LastOf(v.output) = d
    BY <1>1, <1>2, LastAppended
  <2>2. e.body \in Seq(Token)
    BY <1>1, ItemFields
  <2>3. Append(e.body, token) # <<>>
    BY <2>2
  <2> QED
    BY <2>1, <2>3 DEF Item, IsCall, IsBlock
<1> DEFINE B == Blocks(f)
<1>4. B \in Seq(Items) /\ Len(B) \in Nat
  <2>1. B \in Seq(Items)
    BY SelectedTyped
  <2> QED
    BY <2>1
<1>5. Blocks(u.output) = IF IsBlock(e) THEN Append(B, e) ELSE B
  BY <1>1, <1>2, BlocksAppend
<1>6. Blocks(v.output) = Append(B, d) /\ Len(Blocks(v.output)) = Len(B) + 1
  <2>1. Blocks(v.output) = Append(B, d)
    BY <1>1, <1>2, <1>3, BlocksAppend
  <2> QED
    BY <1>1, <1>4, <2>1
<1>7. /\ s \in States /\ s.index \in Nat
      /\ s.text <=> ~IsCall(e) /\ e.body # <<>>
      /\ s.tool <=> IsCall(e)
      /\ IF s.text \/ s.tool THEN s.index + 1 = Len(Blocks(u.output))
                             ELSE s.index = Len(Blocks(u.output))
      /\ c = Client(Blocks(u.output), <<>>, <<>>, "none", 0, OpenOf(s))
  BY DEF MessagesView, States
<1>8. s.index = Len(B)
  <2>1. CASE IsBlock(e)
    <3>1. Len(Append(B, e)) = Len(B) + 1
      BY <1>1, <1>4
    <3> QED
      BY <1>4, <1>5, <1>7, <2>1, <3>1 DEF IsBlock
  <2>2. CASE ~IsBlock(e)
    BY <1>5, <1>7, <2>2 DEF IsBlock
  <2> QED
    BY <2>1, <2>2
\* An item that is announced already gets the token where it stands.
<1>9. ASSUME IsBlock(e), NEW k, k = e.kind
      PROVE  Received(c, BlockDelta(s, k, token)) =
               Client(Blocks(v.output), <<>>, <<>>, "none", 0, {s.index})
  <2>1. OpenOf(s) = {s.index}
    BY <1>7, <1>9 DEF OpenOf, IsBlock
  <2>2. /\ Append(B, e)[s.index + 1] = e /\ Len(Append(B, e)) = Len(B) + 1
        /\ Filled(Append(B, e), s.index + 1, token) = Append(B, d)
    <3>1. Len(Append(B, e)) = Len(B) + 1
      BY <1>1, <1>4
    <3> QED
      BY <1>1, <1>4, <1>8, <3>1, FilledAppended
  <2>3. s.index \in {s.index} /\ s.index < Len(Append(B, e))
    BY <1>4, <1>8, <2>2
  <2>4. c = Client(Append(B, e), <<>>, <<>>, "none", 0, {s.index})
    BY <1>5, <1>7, <1>9, <2>1
  <2> QED
    <3> DEFINE b == Append(B, e)
    <3>1. Append(B, d) = Filled(b, s.index + 1, token) /\ Fits(b, s.index, k)
      BY <1>9, <2>2, <2>3 DEF Fits
    <3> HIDE DEF B, d, e, b
    <3>2. Received(Client(b, <<>>, <<>>, "none", 0, {s.index}), BlockDelta(s, k, token)) =
            Client(Append(B, d), <<>>, <<>>, "none", 0, {s.index})
      BY <2>3, <3>1, ReceivedDelta
    <3> QED
      BY <1>6, <2>4, <3>2 DEF b
<1>10. CASE IsCall(e)
  <2> DEFINE x == BlockDelta(s, "function_call", token)
  <2>1. e.kind = "function_call" /\ IsBlock(e)
    BY <1>10 DEF IsCall, IsBlock
  <2>2. q = Step(s, <<x>>)
    BY <2>1 DEF MessagesEvent
  <2>3. Received(c, x) = Client(Blocks(v.output), <<>>, <<>>, "none", 0, {s.index})
    BY <1>9, <2>1
  <2> HIDE DEF x
  <2>4. q.state = s /\ q.chunks = <<x>> /\ q.chunks # <<>>
    BY <2>2, NotEmpty DEF Step
  <2>5. Assembled(c, q.chunks) = Received(c, x)
    BY <2>4, AssembledOne
  <2>6. OpenOf(s) = {s.index} /\ s.index + 1 = Len(Blocks(v.output))
    BY <1>6, <1>7, <1>8, <1>10 DEF OpenOf
  <2>7. MessagesView(v, s, Received(c, x))
    <3> HIDE DEF e, d, B
    <3> QED
      BY <1>3, <1>7, <1>10, <2>3, <2>6 DEF MessagesView
  <2> QED
    BY <2>4, <2>5, <2>7
<1>11. CASE ~IsCall(e)
  <2> DEFINE t == [s EXCEPT !.text = TRUE]
             x == BlockDelta(s, "message", token)
             y == BlockStart(s, "message", NoCall)
  <2>1. e.kind = "message" /\ e.call = NoCall
    BY <1>1, <1>11, ItemFields
  <2>2. q = Step(t, (IF s.text THEN <<>> ELSE <<y>>) \o <<x>>)
    BY <2>1 DEF MessagesEvent, HandleTextDelta
  <2>3. t \in States /\ t.text /\ ~t.tool /\ t.index = s.index /\ OpenOf(t) = {s.index}
    <3>1. t = AdapterState(s.index, TRUE, s.tool)
      BY <1>7, ClosedState
    <3> QED
      BY <1>7, <1>11, <3>1 DEF AdapterState, States, OpenOf
  <2>4. /\ q.chunks # <<>>
        /\ Assembled(c, q.chunks) = Client(Blocks(v.output), <<>>, <<>>, "none", 0, {s.index})
    <3>1. CASE s.text
      <4>1. Received(c, x) = Client(Blocks(v.output), <<>>, <<>>, "none", 0, {s.index})
        BY <1>7, <1>9, <2>1, <3>1 DEF IsBlock
      <4> HIDE DEF x, y, t
      <4>2. <<>> \o <<x>> = <<x>>
        OBVIOUS
      <4>3. q.chunks = <<x>>
        BY <2>2, <3>1, <4>2 DEF Step
      <4>4. Assembled(c, <<x>>) = Received(c, x) /\ <<x>> # <<>>
        BY AssembledOne, NotEmpty
      <4> QED
        BY <4>1, <4>3, <4>4
    <3>2. CASE ~s.text
      <4> DEFINE g == Item("message", NoCall, <<>>)
      <4>1. e.body = <<>> /\ e = g
        BY <1>1, <1>7, <1>11, <2>1, <3>2, ItemFields
      <4>2. /\ Blocks(u.output) = B
            /\ OpenOf(s) = {}
        BY <1>5, <1>7, <1>11, <3>2, <4>1 DEF IsBlock, OpenOf
      <4>3. c = Client(B, <<>>, <<>>, "none", 0, {})
        BY <1>7, <4>2
      <4>4. Received(c, y) = Client(Append(B, g), <<>>, <<>>, "none", 0, {s.index})
        <5> HIDE DEF B
        <5>1. Received(Client(B, <<>>, <<>>, "none", 0, {}), y) =
                Client(Append(B, Item("message", NoCall, <<>>)), <<>>, <<>>, "none", 0, {s.index})
          BY <1>8, ReceivedStart
        <5> QED
          BY <4>3, <5>1
      <4>5. /\ Append(B, e)[s.index + 1] = e /\ Len(Append(B, e)) = Len(B) + 1
            /\ Filled(Append(B, e), s.index + 1, token) = Append(B, d)
        <5>1. Len(Append(B, e)) = Len(B) + 1
          BY <1>1, <1>4
        <5> QED
          BY <1>1, <1>4, <1>8, <5>1, FilledAppended
      <4>6. s.index \in {s.index} /\ s.index < Len(Append(B, e))
        BY <1>4, <1>8, <4>5
      <4>7. Received(Client(Append(B, e), <<>>, <<>>, "none", 0, {s.index}), x) =
              Client(Append(B, d), <<>>, <<>>, "none", 0, {s.index})
        <5> DEFINE b == Append(B, e)
        <5>1. Append(B, d) = Filled(b, s.index + 1, token) /\ Fits(b, s.index, "message")
          BY <2>1, <4>5, <4>6 DEF Fits
        <5> HIDE DEF B, d, e, b
        <5> QED
          BY <4>6, <5>1, ReceivedDelta DEF b
      <4>8. Received(Received(c, y), x) = Client(Blocks(v.output), <<>>, <<>>, "none", 0, {s.index})
        BY <1>6, <4>1, <4>4, <4>7
      <4> HIDE DEF x, y, t
      <4>9. <<y>> \o <<x>> = <<y, x>>
        BY TwoInARow
      <4>10. q.chunks = <<y, x>>
        BY <2>2, <3>2, <4>9 DEF Step
      <4>11. Assembled(c, <<y, x>>) = Received(Received(c, y), x) /\ <<y, x>> # <<>>
        BY AssembledTwo, NotEmpty
      <4> QED
        BY <4>8, <4>10, <4>11
    <3> QED
      BY <3>1, <3>2
  <2>5. q.state = t
    <3> HIDE DEF t, x, y
    <3> QED
      BY <2>2 DEF Step
  <2>6. t.index + 1 = Len(Blocks(v.output))
    BY <1>6, <1>8, <2>3
  <2>7. MessagesView(v, q.state, Assembled(c, q.chunks))
    <3> HIDE DEF e, d, B, t, x, y
    <3> QED
      BY <1>3, <1>11, <2>3, <2>4, <2>5, <2>6 DEF MessagesView
  <2> QED
    BY <2>4, <2>7
<1> QED
  BY <1>10, <1>11

\* Events that the adapter has nothing to make of.
LEMMA MessagesSame ==
    ASSUME NEW u, NEW v, NEW s, NEW c, MessagesView(u, s, c), ~u.completed, ~v.completed,
           v.output = u.output, v.open = u.open,
           NEW e, e.type \in {"failed", "other"}, NEW q, q = MessagesEvent(s, e)
    PROVE  MessagesView(v, q.state, Assembled(c, q.chunks)) /\ (q.chunks = <<>> => q.state = s)
<1>1. q = Step(s, <<>>)
  BY DEF MessagesEvent
<1>2. q.state = s /\ q.chunks = <<>> /\ Assembled(c, q.chunks) = c
  BY <1>1, AssembledNone DEF Step
<1>3. MessagesView(v, s, c)
  BY DEF MessagesView
<1> QED
  BY <1>2, <1>3

LEMMA LastTyped ==
    ASSUME NEW u, Upstream(u), u.open
    PROVE  LastOf(u.output) \in Items
BY DEF Upstream, LastOf

LEMMA NotBoth ==
    ASSUME NEW u, NEW s, NEW c, MessagesView(u, s, c)
    PROVE  s \in States /\ s.index \in Nat /\ ~(s.text /\ s.tool)
BY DEF MessagesView, States

LEMMA MessagesDone ==
    ASSUME NEW u, NEW v, NEW s, NEW c, Upstream(u), MessagesView(u, s, c),
           u.open, ~u.completed, ~v.open, ~v.completed, v.output = u.output,
           NEW q, q = MessagesEvent(s, [type |-> IF LastOf(u.output).kind = "message"
                                                 THEN "text_done" ELSE "args_done"])
    PROVE  MessagesView(v, q.state, Assembled(c, q.chunks)) /\ (q.chunks = <<>> => q.state = s)
<1> DEFINE closed == AdapterState(s.index + 1, FALSE, FALSE)
           stop == [type |-> "stop", index |-> s.index]
           B == Blocks(u.output)
<1>1. s \in States /\ s.index \in Nat /\ ~(s.text /\ s.tool)
  BY NotBoth
<1>2. IsCall(LastOf(u.output)) <=> LastOf(u.output).kind # "message"
  BY LastTyped, ItemFields
<1>3. q = IF s.text \/ s.tool THEN Step(closed, <<stop>>) ELSE Step(s, <<>>)
  <2>1. CASE IsCall(LastOf(u.output))
    <3>1. q = CloseTool(Step(s, <<>>))
      BY <1>2, <2>1 DEF MessagesEvent
    <3>2. s.tool /\ ~s.text
      BY <2>1 DEF MessagesView
    <3> QED
      BY <1>1, <3>1, <3>2, ClosedOne
  <2>2. CASE ~IsCall(LastOf(u.output))
    <3>1. q = CloseText(Step(s, <<>>))
      BY <1>2, <2>2 DEF MessagesEvent
    <3>2. ~s.tool
      BY <2>2 DEF MessagesView
    <3> QED
      BY <1>1, <3>1, <3>2, ClosedOne
  <2> QED
    BY <2>1, <2>2
<1>4. /\ c = Client(B, <<>>, <<>>, "none", 0, OpenOf(s))
      /\ IF s.text \/ s.tool THEN s.index + 1 = Len(B) ELSE s.index = Len(B)
  BY DEF MessagesView
<1>5. CASE s.text \/ s.tool
  <2>1. q.state = closed /\ q.chunks = <<stop>>
    <3> HIDE DEF closed, stop
    <3> QED
      BY <1>3, <1>5 DEF Step
  <2>2. OpenOf(s) = {s.index}
    BY <1>5 DEF OpenOf
  <2>3. Received(c, stop) = Client(B, <<>>, <<>>, "none", 0, {})
    <3> HIDE DEF B
    <3> QED
      BY <1>4, <2>2, ReceivedStop
  <2>4. /\ closed \in States /\ ~closed.text /\ ~closed.tool /\ closed.index = s.index + 1
        /\ OpenOf(closed) = {}
    BY <1>1 DEF AdapterState, States, OpenOf
  <2>5. MessagesView(v, closed, Received(c, stop))
    <3> HIDE DEF closed, stop
    <3> QED
      BY <1>4, <1>5, <2>3, <2>4 DEF MessagesView
  <2>6. Assembled(c, <<stop>>) = Received(c, stop) /\ <<stop>> # <<>>
    <3> HIDE DEF stop
    <3> QED
      BY AssembledOne, NotEmpty
  <2> QED
    BY <2>1, <2>5, <2>6
<1>6. CASE ~(s.text \/ s.tool)
  <2>1. q.state = s /\ q.chunks = <<>>
    BY <1>3, <1>6 DEF Step
  <2>2. Assembled(c, <<>>) = c
    BY AssembledNone
  <2>3. MessagesView(v, s, c)
    <3> HIDE DEF B
    <3> QED
      BY <1>1, <1>4, <1>6 DEF MessagesView, B
  <2> QED
    BY <2>1, <2>2, <2>3
<1> QED
  BY <1>5, <1>6

LEMMA MessagesCompleted ==
    ASSUME NEW u, NEW v, NEW s, NEW c, Upstream(u), MessagesView(u, s, c),
           ~u.completed, v.completed, v.output = u.output,
           NEW q, q = MessagesEvent(s, CompletedEvent(u.output))
    PROVE  MessagesView(v, q.state, Assembled(c, q.chunks)) /\ q.chunks # <<>>
<1> DEFINE closed == AdapterState(s.index + 1, FALSE, FALSE)
           stop == [type |-> "stop", index |-> s.index]
           reason == StopReason(u.output)
           finish == [type |-> "finish", reason |-> reason]
           end == [type |-> "end"]
           B == Blocks(u.output)
<1>1. s \in States /\ s.index \in Nat /\ ~(s.text /\ s.tool)
  BY NotBoth
<1>2. q = HandleCompleted(s, CompletedEvent(u.output))
  <2>1. CompletedEvent(u.output).type = "completed"
    BY DEF CompletedEvent
  <2> QED
    BY <2>1 DEF MessagesEvent
<1>3. q = IF s.text \/ s.tool THEN Step(closed, <<stop, finish, end>>) ELSE Step(s, <<finish, end>>)
  BY <1>1, <1>2, CompletedSteps
<1>4. /\ c = Client(B, <<>>, <<>>, "none", 0, OpenOf(s))
      /\ IF s.text \/ s.tool THEN s.index + 1 = Len(B) ELSE s.index = Len(B)
  BY DEF MessagesView
<1>5. Received(Received(Client(B, <<>>, <<>>, "none", 0, {}), finish), end) =
        Client(B, <<>>, <<>>, reason, 1, {})
  <2> HIDE DEF B, reason
  <2>1. Received(Client(B, <<>>, <<>>, "none", 0, {}), finish) = Client(B, <<>>, <<>>, reason, 0, {})
    BY ReceivedFinish
  <2>2. Received(Client(B, <<>>, <<>>, reason, 0, {}), end) = Client(B, <<>>, <<>>, reason, 0 + 1, {})
    BY ReceivedEnd
  <2> QED
    BY <2>1, <2>2
<1>6. CASE s.text \/ s.tool
  <2>1. q.state = closed /\ q.chunks = <<stop, finish, end>>
    <3> HIDE DEF closed, stop, finish, end
    <3> QED
      BY <1>3, <1>6 DEF Step
  <2>2. OpenOf(s) = {s.index}
    BY <1>6 DEF OpenOf
  <2>3. Received(c, stop) = Client(B, <<>>, <<>>, "none", 0, {})
    <3> HIDE DEF B
    <3> QED
      BY <1>4, <2>2, ReceivedStop
  <2>4. closed \in States /\ ~closed.text /\ ~closed.tool /\ closed.index = s.index + 1
    BY <1>1 DEF AdapterState, States
  <2>5. /\ Assembled(c, <<stop, finish, end>>) = Received(Received(Received(c, stop), finish), end)
        /\ <<stop, finish, end>> # <<>>
    <3> HIDE DEF stop, finish, end
    <3> QED
      BY AssembledThree, NotEmpty
  <2>6. Assembled(c, q.chunks) = Client(B, <<>>, <<>>, reason, 1, {})
    BY <1>5, <2>1, <2>3, <2>5
  <2>7. MessagesView(v, q.state, Assembled(c, q.chunks))
    <3> HIDE DEF closed
    <3> QED
      BY <1>4, <1>6, <2>1, <2>4, <2>6 DEF MessagesView
  <2> QED
    BY <2>1, <2>5, <2>7
<1>7. CASE ~(s.text \/ s.tool)
  <2>1. q.state = s /\ q.chunks = <<finish, end>>
    <3> HIDE DEF finish, end
    <3> QED
      BY <1>3, <1>7 DEF Step
  <2>2. OpenOf(s) = {}
    BY <1>7 DEF OpenOf
  <2>3. /\ Assembled(c, <<finish, end>>) = Received(Received(c, finish), end)
        /\ <<finish, end>> # <<>>
    <3> HIDE DEF finish, end
    <3> QED
      BY AssembledTwo, NotEmpty
  <2>4. Assembled(c, q.chunks) = Client(B, <<>>, <<>>, reason, 1, {})
    BY <1>4, <1>5, <2>1, <2>2, <2>3
  <2>5. MessagesView(v, q.state, Assembled(c, q.chunks))
    BY <1>1, <1>4, <1>7, <2>1, <2>4 DEF MessagesView
  <2> QED
    BY <2>1, <2>3, <2>5
<1> QED
  BY <1>6, <1>7

LEMMA ChatAdded ==
    ASSUME NEW u, NEW v, NEW c, Upstream(u), ChatView(u, c),
           NEW kind \in {"message", "function_call"}, NEW call \in Call \cup {NoCall},
           kind = "message" => call = NoCall,
           ~u.completed, ~v.completed, v.extra = u.extra,
           v.output = Append(u.output, Item(kind, call, <<>>)),
           NEW q, q = ChatEvent([type |-> "item_added", kind |-> kind, call |-> call])
    PROVE  ChatView(v, Assembled(c, q))
<1> DEFINE e == Item(kind, call, <<>>)
           o == u.output
<1>1. e \in Items /\ o \in Seq(Items) /\ (IsCall(e) <=> kind = "function_call") /\ e.body = <<>>
  <2>1. <<>> \in Seq(Token)
    OBVIOUS
  <2>2. e \in Items
    BY <2>1, ItemTyped
  <2> QED
    BY <2>2 DEF Upstream, IsCall, Item
<1> HIDE DEF e
<1>2. v.output = Append(o, e)
  BY DEF e
<1>3. TextOf(v.output) = TextOf(o)
  <2>1. TextOf(o) \in Seq(Token)
    BY <1>1, SelectedTyped
  <2>2. TextOf(o) \o <<>> = TextOf(o)
    BY <2>1
  <2> QED
    BY <1>1, <1>2, <2>2, TextAppend
<1>4. HasCall(v.output) <=> HasCall(o) \/ IsCall(e)
  BY <1>1, <1>2, HasCallAppend
<1>5. Calls(v.output) = IF IsCall(e) THEN Append(Calls(o), e) ELSE Calls(o)
  BY <1>1, <1>2, CallsAppend
<1>6. /\ c.calls \in Seq(Items) /\ (c.calls # <<>> <=> HasCall(o))
      /\ Len(Calls(o)) <= 1 => c.calls = Calls(o)
      /\ ~u.extra => c.text = TextOf(o)
      /\ c = Client(<<>>, c.text, c.calls, "none", 0, {})
  BY DEF ChatView
<1>7. CASE kind = "function_call"
  <2> DEFINE x == [type |-> "call_start", index |-> 0, call |-> call]
             g == Item("function_call", call, IF c.calls = <<>> THEN <<>> ELSE c.calls[1].body)
             r == Received(c, x)
  <2>1. q = <<x>>
    BY <1>7 DEF ChatEvent
  <2>2. r = Client(<<>>, c.text, <<g>>, "none", 0, {})
    <3> DEFINE t == c.text
               l == c.calls
    <3>1. c = Client(<<>>, t, l, "none", 0, {})
      BY <1>6
    <3>2. g = Item("function_call", call, IF l = <<>> THEN <<>> ELSE l[1].body)
      OBVIOUS
    <3> HIDE DEF t, l, g
    <3>3. Received(Client(<<>>, t, l, "none", 0, {}), x) = Client(<<>>, t, <<g>>, "none", 0, {})
      BY <3>2, ReceivedCall
    <3> QED
      BY <3>1, <3>3 DEF t
  <2>3. g \in Items
    <3>1. c.calls # <<>> => c.calls[1] \in Items
      BY <1>6
    <3>2. (IF c.calls = <<>> THEN <<>> ELSE c.calls[1].body) \in Seq(Token)
      BY <3>1, ItemFields
    <3> QED
      BY <1>7, <3>2, ItemTyped
  <2>4. Assembled(c, q) = r
    <3> HIDE DEF x
    <3> QED
      BY <2>1, AssembledOne
  <2> HIDE DEF g, x, r
  <2>5. r.calls = <<g>> /\ r.text = c.text
    BY <2>2 DEF Client
  <2>6. <<g>> \in Seq(Items) /\ <<g>> # <<>>
    BY <2>3, NotEmpty
  <2>7. Len(Calls(v.output)) <= 1 => <<g>> = Calls(v.output)
    <3> SUFFICES ASSUME Len(Calls(v.output)) <= 1 PROVE <<g>> = Calls(v.output)
      OBVIOUS
    <3> DEFINE C == Calls(o)
    <3>1. C \in Seq(Items)
      BY <1>1, SelectedTyped
    <3>2. Calls(v.output) = Append(C, e)
      BY <1>1, <1>5, <1>7
    <3> HIDE DEF C
    <3>3. C = <<>>
      BY <1>1, <3>1, <3>2
    <3>4. c.calls = <<>>
      <4>1. Len(C) <= 1
        BY <3>3
      <4> QED
        BY <1>6, <3>3, <4>1 DEF C
    <3>5. g = e
      BY <1>7, <3>4 DEF g, e
    <3>6. Append(<<>>, e) = <<e>>
      OBVIOUS
    <3> QED
      BY <3>2, <3>3, <3>5, <3>6
  <2> QED
    BY <1>1, <1>3, <1>4, <1>6, <1>7, <2>2, <2>4, <2>5, <2>6, <2>7 DEF ChatView
<1>8. CASE kind = "message"
  <2>1. q = <<>>
    BY <1>8 DEF ChatEvent
  <2>2. Assembled(c, q) = c
    BY <2>1, AssembledNone
  <2> QED
    BY <1>1, <1>3, <1>4, <1>5, <1>6, <1>8, <2>2 DEF ChatView
<1> QED
  BY <1>7, <1>8

LEMMA ChatFilled ==
    ASSUME NEW u, NEW v, NEW c, Upstream(u), ChatView(u, c), NEW token \in Token,
           u.open, ~u.completed, ~v.completed, v.extra = u.extra,
           v.output = Filled(u.output, Len(u.output), token),
           NEW q, q = ChatEvent([type |-> IF LastOf(u.output).kind = "message"
                                          THEN "text_delta" ELSE "args_delta",
                                 token |-> token])
    PROVE  ChatView(v, Assembled(c, q))
<1> DEFINE e == LastOf(u.output)
           d == Item(e.kind, e.call, Append(e.body, token))
           o == u.output
<1>1. /\ e = LastOf(o) /\ d = Item(e.kind, e.call, Append(e.body, token))
      /\ o \in Seq(Items) /\ o # <<>>
  BY DEF Upstream
<1>2. IsCall(d) <=> IsCall(e)
  BY DEF IsCall, Item
<1>3. v.output = Filled(o, Len(o), token)
  OBVIOUS
<1>4. d.body = Append(e.body, token)
  BY DEF Item
<1>k. e.kind = "message" <=> ~IsCall(e)
  <2>1. e \in Items
    BY LastTyped
  <2> QED
    BY <2>1, ItemFields
<1>c. /\ c.calls \in Seq(Items) /\ (c.calls # <<>> <=> HasCall(o))
      /\ Len(Calls(o)) <= 1 => c.calls = Calls(o)
      /\ ~u.extra => c.text = TextOf(o)
      /\ c = Client(<<>>, c.text, c.calls, "none", 0, {})
  BY DEF ChatView
<1>q. q = IF IsCall(e) THEN <<[type |-> "call_args", index |-> 0, token |-> token]>>
          ELSE <<[type |-> "content", token |-> token]>>
  BY <1>k DEF ChatEvent
<1> HIDE DEF e, d, o
<1>5. e \in Items /\ d \in Items
  BY <1>1, FilledLast
<1>6. PICK f \in Seq(Items) : o = Append(f, e) /\ v.output = Append(f, d)
  <2>1. PICK f \in Seq(Items) : o = Append(f, e) /\ Filled(o, Len(o), token) = Append(f, d)
    BY <1>1, FilledLast
  <2> QED
    BY <1>3, <2>1
<1>7. HasCall(v.output) <=> HasCall(o)
  BY <1>2, <1>5, <1>6, HasCallAppend
<1>8. CASE IsCall(e)
  <2> DEFINE x == [type |-> "call_args", index |-> 0, token |-> token]
             l == c.calls
             r == Received(c, x)
             t == c.text
  <2>1. TextOf(v.output) = TextOf(o)
    BY <1>2, <1>5, <1>6, <1>8, TextAppend
  <2>2. l # <<>> /\ l \in Seq(Items)
    <3>1. HasCall(o)
      BY <1>5, <1>6, <1>8, HasCallAppend
    <3> QED
      BY <1>c, <3>1
  <2>3. r = Client(<<>>, t, Filled(l, 1, token), "none", 0, {})
    <3>1. c = Client(<<>>, t, l, "none", 0, {})
      BY <1>c
    <3> HIDE DEF t, l
    <3>2. Received(Client(<<>>, t, l, "none", 0, {}), x) =
            Client(<<>>, t, Filled(l, 1, token), "none", 0, {})
      BY <2>2, ReceivedArgs
    <3> QED
      BY <3>1, <3>2
  <2>4. Assembled(c, q) = r
    <3>1. q = <<x>>
      BY <1>8, <1>q
    <3> HIDE DEF x
    <3> QED
      BY <3>1, AssembledOne
  <2> HIDE DEF x, l, r, t
  <2>5. Filled(l, 1, token) \in Seq(Items) /\ Filled(l, 1, token) # <<>>
    <3> DEFINE h == l[1]
               i == Item(h.kind, h.call, Append(h.body, token))
    <3>1. h \in Items /\ 1 \in 1..Len(l)
      BY <2>2
    <3>2. i \in Items
      <4>1. Append(h.body, token) \in Seq(Token)
        BY <3>1, ItemFields
      <4> QED
        BY <3>1, <4>1, ItemFields, ItemTyped
    <3>3. Filled(l, 1, token) = [l EXCEPT ![1] = i]
      BY DEF Filled
    <3> HIDE DEF h, i
    <3> QED
      BY <2>2, <3>1, <3>2, <3>3
  <2>6. Len(Calls(v.output)) <= 1 => Filled(l, 1, token) = Calls(v.output)
    <3> SUFFICES ASSUME Len(Calls(v.output)) <= 1 PROVE Filled(l, 1, token) = Calls(v.output)
      OBVIOUS
    <3> DEFINE C == Calls(f)
    <3>1. C \in Seq(Items)
      BY SelectedTyped
    <3>2. Calls(v.output) = Append(C, d) /\ Calls(o) = Append(C, e)
      BY <1>2, <1>5, <1>6, <1>8, CallsAppend
    <3> HIDE DEF C
    <3>3. C = <<>>
      BY <1>5, <3>1, <3>2
    <3>4. Len(Append(C, e)) = 1 /\ Len(C) = 0
      BY <1>5, <3>1, <3>3
    <3>5. l = Append(C, e)
      BY <1>c, <3>2, <3>4 DEF l
    <3>6. Filled(Append(C, e), Len(C) + 1, token) = Append(C, d)
      BY <1>1, <1>5, <3>1, FilledAppended
    <3> QED
      BY <3>2, <3>4, <3>5, <3>6
  <2>7. r.calls = Filled(l, 1, token) /\ r.text = t
    BY <2>3 DEF Client
  <2>8. HasCall(v.output)
    BY <1>7, <1>c, <2>2 DEF l
  <2> QED
    BY <1>c, <2>1, <2>3, <2>4, <2>5, <2>6, <2>7, <2>8 DEF ChatView, t
<1>9. CASE ~IsCall(e)
  <2> DEFINE x == [type |-> "content", token |-> token]
             l == c.calls
             t == c.text
             r == Received(c, x)
  <2>1. TextOf(v.output) = Append(TextOf(o), token)
    <3>1. TextOf(v.output) = TextOf(f) \o d.body /\ TextOf(o) = TextOf(f) \o e.body
      BY <1>2, <1>5, <1>6, <1>9, TextAppend
    <3>2. TextOf(f) \in Seq(Token) /\ e.body \in Seq(Token)
      BY <1>5, SelectedTyped, ItemFields
    <3>3. TextOf(f) \o Append(e.body, token) = Append(TextOf(f) \o e.body, token)
      BY <3>2
    <3> QED
      BY <1>4, <3>1, <3>3
  <2>2. Calls(v.output) = Calls(o)
    BY <1>2, <1>5, <1>6, <1>9, CallsAppend
  <2>3. r = Client(<<>>, Append(t, token), l, "none", 0, {})
    <3>1. c = Client(<<>>, t, l, "none", 0, {})
      BY <1>c
    <3> HIDE DEF t, l
    <3>2. Received(Client(<<>>, t, l, "none", 0, {}), x) =
            Client(<<>>, Append(t, token), l, "none", 0, {})
      BY ReceivedContent
    <3> QED
      BY <3>1, <3>2
  <2>4. Assembled(c, q) = r
    <3>1. q = <<x>>
      BY <1>9, <1>q
    <3> HIDE DEF x
    <3> QED
      BY <3>1, AssembledOne
  <2> HIDE DEF x, r, t
  <2>5. r.calls = c.calls /\ r.text = Append(t, token)
    BY <2>3 DEF Client
  <2> QED
    BY <1>7, <1>c, <2>1, <2>2, <2>3, <2>4, <2>5 DEF ChatView, t
<1> QED
  BY <1>8, <1>9

LEMMA ChatSame ==
    ASSUME NEW u, NEW v, NEW c, ChatView(u, c), ~u.completed, ~v.completed, v.output = u.output,
           v.extra = u.extra, NEW e, e.type \in {"text_done", "args_done", "failed"},
           NEW q, q = ChatEvent(e)
    PROVE  ChatView(v, Assembled(c, q))
<1>1. q = <<>>
  BY DEF ChatEvent
<1>2. Assembled(c, q) = c
  BY <1>1, AssembledNone
<1> QED
  BY <1>2 DEF ChatView

\* Text of another event is added to that of the answer.
LEMMA ChatOther ==
    ASSUME NEW u, NEW v, NEW c, ChatView(u, c), ~u.completed, ~v.completed, v.output = u.output,
           v.extra, NEW token, NEW q, q = ChatEvent([type |-> "other", token |-> token])
    PROVE  ChatView(v, Assembled(c, q))
<1> DEFINE x == [type |-> "content", token |-> token]
           t == c.text
           l == c.calls
           r == Received(c, x)
<1>1. q = <<x>>
  BY DEF ChatEvent
<1>2. c = Client(<<>>, t, l, "none", 0, {})
  BY DEF ChatView
<1>3. r = Client(<<>>, Append(t, token), l, "none", 0, {})
  <2> HIDE DEF t, l
  <2>1. Received(Client(<<>>, t, l, "none", 0, {}), x) =
          Client(<<>>, Append(t, token), l, "none", 0, {})
    BY ReceivedContent
  <2> QED
    BY <1>2, <2>1
<1>4. Assembled(c, q) = r
  <2> HIDE DEF x
  <2> QED
    BY <1>1, AssembledOne
<1> HIDE DEF r, t
<1>5. r.calls = c.calls /\ r.text = Append(t, token)
  BY <1>3 DEF Client
<1> QED
  BY <1>3, <1>4, <1>5 DEF ChatView

LEMMA ChatCompleted ==
    ASSUME NEW u, NEW v, NEW c, ChatView(u, c), ~u.completed, v.completed, v.output = u.output,
           v.extra = u.extra,
           NEW q, q = ChatEvent(CompletedEvent(u.output))
    PROVE  ChatView(v, Assembled(c, q)) /\ q # <<>>
<1> DEFINE reason == StopReason(u.output)
           x == [type |-> "finish", reason |-> reason]
           t == c.text
           l == c.calls
           r == Received(c, x)
<1>1. q = <<x>>
  BY DEF ChatEvent, CompletedEvent
<1>2. c = Client(<<>>, t, l, "none", 0, {})
  BY DEF ChatView
<1>3. r = Client(<<>>, t, l, reason, 0, {})
  <2> HIDE DEF t, l, reason
  <2>1. Received(Client(<<>>, t, l, "none", 0, {}), x) = Client(<<>>, t, l, reason, 0, {})
    BY ReceivedFinish
  <2> QED
    BY <1>2, <2>1
<1>4. Assembled(c, q) = r /\ q # <<>>
  <2> HIDE DEF x
  <2> QED
    BY <1>1, AssembledOne, NotEmpty
<1> HIDE DEF r
<1>5. r.calls = c.calls /\ r.text = c.text
  BY <1>3 DEF Client
<1> QED
  BY <1>3, <1>4, <1>5 DEF ChatView

LEMMA NewClientIs == NewClient = Client(<<>>, <<>>, <<>>, "none", 0, {})
BY DEF NewClient, Client

LEMMA ResponsesOther ==
    ASSUME NEW u, NEW v, NEW c, ResponsesView(u, c), ~u.completed, ~v.completed, v.failed = u.failed,
           NEW e, e.type \notin {"completed", "failed"}, NEW q, q = ResponsesEvent(e)
    PROVE  ResponsesView(v, Assembled(c, q))
<1>1. q = <<>>
  BY DEF ResponsesEvent
<1>2. Assembled(c, q) = c
  BY <1>1, AssembledNone
<1> QED
  BY <1>2 DEF ResponsesView

LEMMA ResponsesCompleted ==
    ASSUME NEW output, NEW q, q = ResponsesEvent(CompletedEvent(output))
    PROVE  /\ Assembled(NewClient, q) = Client(output, <<>>, <<>>, "stop", 1, {})
           /\ Assembled(FailedClient, q) = Client(output, <<>>, <<>>, "stop", 2, {})
           /\ q # <<>>
<1> DEFINE x == [type |-> "result", output |-> output]
           end == [type |-> "end"]
<1>1. q = <<x, end>>
  BY DEF ResponsesEvent, CompletedEvent
<1>2. ASSUME NEW f, NEW n
      PROVE  Received(Received(Client(<<>>, <<>>, <<>>, f, n, {}), x), end) =
               Client(output, <<>>, <<>>, "stop", n + 1, {})
  <2>1. Received(Client(<<>>, <<>>, <<>>, f, n, {}), x) = Client(output, <<>>, <<>>, "stop", n, {})
    BY ReceivedResult
  <2>2. Received(Client(output, <<>>, <<>>, "stop", n, {}), end) =
          Client(output, <<>>, <<>>, "stop", n + 1, {})
    BY ReceivedEnd
  <2> QED
    BY <2>1, <2>2
<1>3. \A c : Assembled(c, q) = Received(Received(c, x), end)
  <2> HIDE DEF x, end
  <2> QED
    BY <1>1, AssembledTwo
<1>4. q # <<>>
  <2> HIDE DEF x, end
  <2> QED
    BY <1>1, NotEmpty
<1> HIDE DEF x, end
<1>5. Assembled(NewClient, q) = Client(output, <<>>, <<>>, "stop", 0 + 1, {})
  BY <1>2, <1>3, NewClientIs
<1>6. Assembled(FailedClient, q) = Client(output, <<>>, <<>>, "stop", 1 + 1, {})
  BY <1>2, <1>3 DEF FailedClient
<1> QED
  BY <1>4, <1>5, <1>6

\* A response that failed is an end as well.
LEMMA ResponsesFailed ==
    ASSUME NEW u, NEW v, NEW c, ResponsesView(u, c), ~u.completed, ~u.failed, ~v.completed, v.failed,
           NEW q, q = ResponsesEvent([type |-> "failed"])
    PROVE  ResponsesView(v, Assembled(c, q)) /\ q # <<>>
<1>1. q = ErrorChunks
  BY DEF ResponsesEvent
<1>2. c = Client(<<>>, <<>>, <<>>, "none", 0, {})
  BY NewClientIs DEF ResponsesView
<1>3. Assembled(c, q) = Client(<<>>, <<>>, <<>>, "error", 0 + 1, {})
  BY <1>1, <1>2, AssembledStop, ErrorIsStop
<1>4. q # <<>>
  BY <1>1, NotEmpty DEF ErrorChunks
<1> QED
  BY <1>3, <1>4 DEF ResponsesView, FailedClient

----------------------------------------------------------------------------
(* The inductive invariant.                                                *)

\* What the client and the adapter have while the backend's stream runs.
View(route, u, s, c) ==
    /\ route = "messages" => IF u.overtaken THEN OvertakenView(u, c) ELSE MessagesView(u, s, c)
    /\ route = "chat" => s = NewState /\ ChatView(u, c)
    /\ route = "responses" => s = NewState /\ ResponsesView(u, c)

\* What a client has of an answer that was completed.
Whole(route, u, c) ==
    LET o == u.output
    IN  /\ route = "messages" /\ ~u.overtaken =>
              c = Client(Blocks(o), <<>>, <<>>, StopReason(o), 1, {})
        /\ route = "chat" /\ Len(Calls(o)) <= 1 /\ ~u.extra =>
              c = Client(<<>>, TextOf(o), Calls(o), StopReason(o), 1, {})
        /\ route = "responses" => c = Client(o, <<>>, <<>>, "stop", 1, {})

Routes == {"messages", "chat", "responses"}
RunShape(r) == r = [phase |-> r.phase, attempt |-> r.attempt, events |-> r.events,
                    begun |-> r.begun, disturbed |-> r.disturbed]
Shape(u) == u = [output |-> u.output, open |-> u.open, completed |-> u.completed,
                 failed |-> u.failed, overtaken |-> u.overtaken, extra |-> u.extra,
                 last |-> u.last]

Announced(s, c) ==
    /\ c.open = IF s.text \/ s.tool THEN {s.index} ELSE {}
    /\ s.index + Cardinality(c.open) = Len(c.blocks)

StreamingInv ==
    /\ asked.stream =>
          /\ View(asked.route, up, state, got)
          /\ ~run.begun => got = NewClient /\ state = NewState
    /\ ~asked.stream =>
          /\ got = NewClient /\ state = NewState
          /\ "output" \notin DOMAIN up.last
OverInv ==
    /\ got.ends = IF EndsTwice THEN 2 ELSE 1
    /\ got.broken => up.overtaken \/ (run.phase = "ended" /\ ~up.completed /\ up.open)
    /\ asked.route = "messages" /\ ~up.overtaken => Announced(state, got)
    /\ asked.stream /\ run.phase = "ended" /\ up.completed => Whole(asked.route, up, got)

\* Nothing is said of an answer that was started again after it had begun.
AnswerInv ==
    /\ asked \in [route : Routes, stream : BOOLEAN]
    /\ RunShape(run) /\ run.phase \in {"streaming", "ended", "failed"}
    /\ ~run.disturbed =>
          /\ Upstream(up) /\ Shape(up)
          /\ run.phase = "streaming" => StreamingInv
          /\ run.phase # "streaming" => OverInv

LEMMA StartView ==
    ASSUME NEW route \in Routes
    PROVE  View(route, NoStream, NewState, NewClient)
<1>1. /\ Blocks(<<>>) = <<>> /\ Calls(<<>>) = <<>> /\ TextOf(<<>>) = <<>> /\ ~HasCall(<<>>)
  BY SelectedEmpty
<1>2. /\ NoStream.output = <<>> /\ ~NoStream.open /\ ~NoStream.completed /\ ~NoStream.failed
      /\ ~NoStream.overtaken /\ ~NoStream.extra
      /\ NewState \in States /\ ~NewState.text /\ ~NewState.tool /\ NewState.index = 0
      /\ OpenOf(NewState) = {}
  BY DEF NoStream, NewState, States, OpenOf
<1>3. NewClient = Client(<<>>, <<>>, <<>>, "none", 0, {}) /\ NewClient.calls = <<>>
      /\ NewClient.text = <<>>
  BY NewClientIs DEF NewClient
<1>4. Len(<<>>) = 0 /\ <<>> \in Seq(Items)
  OBVIOUS
<1>5. MessagesView(NoStream, NewState, NewClient)
  BY <1>1, <1>2, <1>3, <1>4 DEF MessagesView
<1>6. ChatView(NoStream, NewClient)
  BY <1>1, <1>2, <1>3, <1>4 DEF ChatView
<1>7. ResponsesView(NoStream, NewClient)
  BY <1>2 DEF ResponsesView
<1> QED
  BY <1>2, <1>5, <1>6, <1>7 DEF View

LEMMA StartStream == Upstream(NoStream) /\ Shape(NoStream) /\ "output" \notin DOMAIN NoStream.last
<1>1. <<>> \in Seq(Items)
  OBVIOUS
<1> QED
  BY <1>1 DEF NoStream, Upstream, Shape, Nothing

LEMMA InitAnswer == Init => AnswerInv
<1> SUFFICES ASSUME Init PROVE AnswerInv
  OBVIOUS
<1>1. /\ asked \in [route : Routes, stream : BOOLEAN]
      /\ up = NoStream /\ state = NewState /\ got = NewClient
  BY DEF Init, Routes
<1>2. RunShape(run) /\ run.phase = "streaming"
  BY DEF Init, RunShape
<1>3. View(asked.route, up, state, got)
  BY <1>1, StartView
<1>4. StreamingInv
  BY <1>1, <1>3, StartStream DEF StreamingInv
<1> QED
  BY <1>1, <1>2, <1>4, StartStream DEF AnswerInv

----------------------------------------------------------------------------
(* The steps.                                                              *)

LEMMA Streamed ==
    ASSUME AnswerInv, ~run.disturbed, asked.stream, More,
           NEW e, NEW v, Upstream(v), Shape(v), Event(e, v),
           NEW q, q = Converted(e), q.chunks = <<>> => q.state = state,
           View(asked.route, v, q.state, Assembled(got, q.chunks))
    PROVE  AnswerInv'
<1> DEFINE begun == run.begun \/ q.chunks # <<>>
<1>1. /\ up' = v /\ state' = q.state /\ got' = Assembled(got, q.chunks) /\ asked' = asked
      /\ run' = [run EXCEPT !.events = run.events + 1, !.begun = run.begun \/ q.chunks # <<>>]
  BY DEF Event
<1>2. RunShape(run) /\ run.phase = "streaming" /\ StreamingInv
  BY DEF AnswerInv, More
<1>3. RunShape(run') /\ run'.phase = "streaming" /\ (run'.begun <=> begun) /\ ~run'.disturbed
  <2> DEFINE n == run.events + 1
             chunks == q.chunks
  <2>1. run' = [run EXCEPT !.events = n, !.begun = run.begun \/ chunks # <<>>]
    BY <1>1
  <2> HIDE DEF n, chunks
  <2>2. /\ RunShape(run') /\ run'.phase = run.phase
        /\ run'.begun <=> run.begun \/ chunks # <<>>
        /\ run'.disturbed <=> run.disturbed
    BY <1>2, <2>1 DEF RunShape
  <2> QED
    BY <1>2, <2>2 DEF chunks
<1>4. ASSUME ~begun PROVE got' = NewClient /\ state' = NewState
  <2>1. got = NewClient /\ state = NewState
    BY <1>2, <1>4 DEF StreamingInv
  <2> QED
    BY <1>1, <1>4, <2>1, AssembledNone
<1>5. View(asked.route, up', state', got')
  BY <1>1
<1>6. StreamingInv'
  <2> HIDE DEF begun
  <2> QED
    BY <1>1, <1>3, <1>4, <1>5 DEF StreamingInv
<1>7. Upstream(up)' /\ Shape(up)'
  BY <1>1
<1> QED
  BY <1>1, <1>3, <1>6, <1>7 DEF AnswerInv

LEMMA Gathered ==
    ASSUME AnswerInv, ~run.disturbed, ~asked.stream, More,
           NEW e, "output" \notin DOMAIN e, NEW v, Upstream(v), Shape(v), Event(e, v)
    PROVE  AnswerInv'
<1>1. /\ up' = [v EXCEPT !.last = e] /\ run' = [run EXCEPT !.events = run.events + 1]
      /\ state' = state /\ got' = got /\ asked' = asked
  BY DEF Event
<1>2. RunShape(run) /\ run.phase = "streaming" /\ StreamingInv
  BY DEF AnswerInv, More
<1>3. RunShape(run') /\ run'.phase = "streaming" /\ ~run'.disturbed
  <2> DEFINE n == run.events + 1
  <2>1. run' = [run EXCEPT !.events = n]
    BY <1>1
  <2> HIDE DEF n
  <2> QED
    BY <1>2, <2>1 DEF RunShape
<1>4. /\ Shape(up') /\ up'.output = v.output /\ (up'.open <=> v.open)
      /\ (up'.completed <=> v.completed) /\ up'.last = e
      /\ (up'.failed <=> v.failed) /\ (up'.overtaken <=> v.overtaken) /\ (up'.extra <=> v.extra)
  BY <1>1 DEF Shape
<1>5. Upstream(up')
  BY <1>4 DEF Upstream
<1>6. StreamingInv'
  BY <1>1, <1>2, <1>4 DEF StreamingInv
<1> QED
  BY <1>1, <1>3, <1>4, <1>5, <1>6 DEF AnswerInv

\* Once a block is overtaken, only the ends are counted.
LEMMA CountsOn ==
    ASSUME NEW u, NEW v, NEW s, NEW c, View("messages", u, s, c), ~u.completed, v.overtaken,
           NEW e, e.type = "completed" <=> v.completed, NEW q, q = MessagesEvent(s, e)
    PROVE  /\ View("messages", v, q.state, Assembled(c, q.chunks))
           /\ q.chunks = <<>> => q.state = s
<1>1. Shaped(c) /\ c.ends = 0
  <2>1. OvertakenView(u, c)
    BY NotYetOvertaken DEF View
  <2> QED
    BY <2>1 DEF OvertakenView
<1>2. /\ Shaped(Assembled(c, q.chunks))
      /\ Assembled(c, q.chunks).ends = IF e.type = "completed" THEN c.ends + 1 ELSE c.ends
      /\ q.chunks = <<>> => q.state = s
  BY <1>1, CountsEnds
<1>3. OvertakenView(v, Assembled(c, q.chunks))
  BY <1>1, <1>2 DEF OvertakenView
<1> QED
  BY <1>2, <1>3 DEF View

LEMMA KeepsAdded ==
    ASSUME AnswerInv, ~run.disturbed, NEW kind \in {"message", "function_call"}, NEW call \in Call \cup {NoCall},
           ItemAdded(kind, call)
    PROVE  AnswerInv'
<1> DEFINE e == [type |-> "item_added", kind |-> kind, call |-> call]
           v == [up EXCEPT !.output = Append(up.output, Item(kind, call, <<>>)), !.open = TRUE,
                       !.overtaken = up.overtaken \/ got.open # {}]
           q == Converted(e)
<1>1. /\ More /\ ~up.completed /\ ~up.failed /\ (kind = "message" => call = NoCall)
      /\ Event(e, v)
  BY DEF ItemAdded, More
<1>2. /\ Upstream(up) /\ Shape(up) /\ asked.route \in Routes
      /\ asked.stream => View(asked.route, up, state, got)
  BY <1>1 DEF AnswerInv, StreamingInv, More
<1>3. /\ Shape(v)
      /\ v.output = Append(up.output, Item(kind, call, <<>>)) /\ v.open /\ ~v.completed
      /\ v.failed = up.failed /\ v.extra = up.extra
      /\ v.overtaken <=> up.overtaken \/ got.open # {}
  <2> DEFINE o == Append(up.output, Item(kind, call, <<>>))
             w == up.overtaken \/ got.open # {}
  <2>1. v = [up EXCEPT !.output = o, !.open = TRUE, !.overtaken = w]
    OBVIOUS
  <2> HIDE DEF o, w, v
  <2> QED
    BY <1>1, <1>2, <2>1 DEF Shape, o, w
<1>4. Upstream(v)
  <2>1. <<>> \in Seq(Token)
    OBVIOUS
  <2> DEFINE i == Item(kind, call, <<>>)
  <2>2. i \in Items
    BY <1>1, <2>1, ItemTyped
  <2> HIDE DEF i, v
  <2>3. Append(up.output, i) \in Seq(Items) /\ Append(up.output, i) # <<>>
    BY <1>2, <2>2, LastAppended DEF Upstream
  <2> QED
    BY <1>1, <1>3, <2>3 DEF Upstream, i
<1>5. CASE asked.stream
  <2> HIDE DEF v
  <2>1. /\ View(asked.route, v, q.state, Assembled(got, q.chunks))
        /\ q.chunks = <<>> => q.state = state
    <3>1. CASE asked.route = "messages"
      <4>1. q = MessagesEvent(state, e) /\ View("messages", up, state, got)
        BY <1>2, <1>5, <3>1 DEF Converted
      <4>2. e.type = "completed" <=> v.completed
        BY <1>3 DEF CompletedEvent
      <4> HIDE DEF e, q
      <4>3. CASE v.overtaken
        <5>1. /\ View("messages", v, q.state, Assembled(got, q.chunks))
              /\ q.chunks = <<>> => q.state = state
          BY <1>1, <4>1, <4>2, <4>3, CountsOn
        <5> QED
          BY <3>1, <5>1
      <4>4. CASE ~v.overtaken
        <5>1. MessagesView(up, state, got) /\ ~up.overtaken /\ got.open = {}
          BY <1>3, <4>1, <4>4 DEF View
        <5>2. MessagesView(v, q.state, Assembled(got, q.chunks)) /\ (q.chunks = <<>> => q.state = state)
          BY <1>1, <1>2, <1>3, <4>1, <5>1, MessagesAdded DEF e
        <5> QED
          BY <3>1, <4>4, <5>2 DEF View
      <4> QED
        BY <4>3, <4>4
    <3>2. CASE asked.route = "chat"
      <4>1. q.state = state /\ q.chunks = ChatEvent(e)
        BY <3>2 DEF Converted, Step
      <4> HIDE DEF e, q
      <4>2. ChatView(v, Assembled(got, q.chunks))
        BY <1>1, <1>2, <1>3, <1>5, <3>2, <4>1, ChatAdded DEF View, e
      <4> QED
        BY <1>2, <1>5, <3>2, <4>1, <4>2 DEF View
    <3>3. CASE asked.route = "responses"
      <4>1. q.state = state /\ q.chunks = ResponsesEvent(e) /\ e.type \notin {"completed", "failed"}
        BY <3>3 DEF Converted, Step
      <4> HIDE DEF e, q
      <4>2. ResponsesView(v, Assembled(got, q.chunks))
        BY <1>1, <1>2, <1>3, <1>5, <3>3, <4>1, ResponsesOther DEF View
      <4> QED
        BY <1>2, <1>5, <3>3, <4>1, <4>2 DEF View
    <3> QED
      BY <1>2, <3>1, <3>2, <3>3 DEF Routes
  <2> HIDE DEF e
  <2> QED
    BY <1>1, <1>3, <1>4, <1>5, <2>1, Streamed
<1>6. CASE ~asked.stream
  <2>1. "output" \notin DOMAIN e
    OBVIOUS
  <2> HIDE DEF e, v
  <2> QED
    BY <1>1, <1>3, <1>4, <1>6, <2>1, Gathered
<1> QED
  BY <1>5, <1>6

LEMMA FilledNonEmpty ==
    ASSUME NEW s, s \in Seq(Items), s # <<>>, NEW token, token \in Token
    PROVE  Filled(s, Len(s), token) \in Seq(Items) /\ Filled(s, Len(s), token) # <<>>
<1> DEFINE e == LastOf(s)
           d == Item(e.kind, e.call, Append(e.body, token))
<1>1. e = LastOf(s) /\ d = Item(e.kind, e.call, Append(e.body, token))
  OBVIOUS
<1> HIDE DEF e, d
<1>2. d \in Items
  BY <1>1, FilledLast
<1>3. PICK f \in Seq(Items) : s = Append(f, e) /\ Filled(s, Len(s), token) = Append(f, d)
  BY <1>1, FilledLast
<1> QED
  BY <1>2, <1>3, LastAppended

LEMMA KeepsFilled ==
    ASSUME AnswerInv, ~run.disturbed, NEW token \in Token, Delta(token)
    PROVE  AnswerInv'
<1> DEFINE e == [type |-> IF LastOf(up.output).kind = "message" THEN "text_delta" ELSE "args_delta",
                 token |-> token]
           v == [up EXCEPT !.output = Filled(up.output, Len(up.output), token)]
           q == Converted(e)
<1>1. /\ More /\ up.open /\ ~up.completed /\ ~up.failed
      /\ Event(e, v)
  BY DEF Delta, More
<1>2. /\ Upstream(up) /\ Shape(up) /\ asked.route \in Routes
      /\ asked.stream => View(asked.route, up, state, got)
  BY <1>1 DEF AnswerInv, StreamingInv, More
<1>3. /\ Shape(v)
      /\ v.output = Filled(up.output, Len(up.output), token) /\ v.open /\ ~v.completed
      /\ v.failed = up.failed /\ v.extra = up.extra /\ v.overtaken = up.overtaken
  <2> DEFINE o == Filled(up.output, Len(up.output), token)
  <2>1. v = [up EXCEPT !.output = o]
    OBVIOUS
  <2> HIDE DEF o, v
  <2> QED
    BY <1>1, <1>2, <2>1 DEF Shape, o
<1>4. Upstream(v)
  <2> HIDE DEF v
  <2>1. v.output \in Seq(Items) /\ v.output # <<>>
    BY <1>1, <1>2, <1>3, FilledNonEmpty DEF Upstream
  <2> QED
    BY <1>3, <2>1 DEF Upstream
<1>5. CASE asked.stream
  <2> HIDE DEF v
  <2>1. /\ View(asked.route, v, q.state, Assembled(got, q.chunks))
        /\ q.chunks = <<>> => q.state = state
    <3>1. CASE asked.route = "messages"
      <4>1. q = MessagesEvent(state, e) /\ View("messages", up, state, got)
        BY <1>2, <1>5, <3>1 DEF Converted
      <4>2. e.type = "completed" <=> v.completed
        BY <1>3 DEF CompletedEvent
      <4> HIDE DEF e, q
      <4>3. CASE v.overtaken
        <5>1. /\ View("messages", v, q.state, Assembled(got, q.chunks))
              /\ q.chunks = <<>> => q.state = state
          BY <1>1, <4>1, <4>2, <4>3, CountsOn
        <5> QED
          BY <3>1, <5>1
      <4>4. CASE ~v.overtaken
        <5>1. MessagesView(up, state, got) /\ ~up.overtaken
          BY <1>3, <4>1, <4>4 DEF View
        <5>2. MessagesView(v, q.state, Assembled(got, q.chunks)) /\ (q.chunks = <<>> => q.state = state)
          BY <1>1, <1>2, <1>3, <4>1, <5>1, MessagesFilled DEF e
        <5> QED
          BY <3>1, <4>4, <5>2 DEF View
      <4> QED
        BY <4>3, <4>4
    <3>2. CASE asked.route = "chat"
      <4>1. q.state = state /\ q.chunks = ChatEvent(e)
        BY <3>2 DEF Converted, Step
      <4> HIDE DEF e, q
      <4>2. ChatView(v, Assembled(got, q.chunks))
        BY <1>1, <1>2, <1>3, <1>5, <3>2, <4>1, ChatFilled DEF View, e
      <4> QED
        BY <1>2, <1>5, <3>2, <4>1, <4>2 DEF View
    <3>3. CASE asked.route = "responses"
      <4>1. q.state = state /\ q.chunks = ResponsesEvent(e) /\ e.type \notin {"completed", "failed"}
        BY <3>3 DEF Converted, Step
      <4> HIDE DEF e, q
      <4>2. ResponsesView(v, Assembled(got, q.chunks))
        BY <1>1, <1>2, <1>3, <1>5, <3>3, <4>1, ResponsesOther DEF View
      <4> QED
        BY <1>2, <1>5, <3>3, <4>1, <4>2 DEF View
    <3> QED
      BY <1>2, <3>1, <3>2, <3>3 DEF Routes
  <2> HIDE DEF e
  <2> QED
    BY <1>1, <1>3, <1>4, <1>5, <2>1, Streamed
<1>6. CASE ~asked.stream
  <2>1. "output" \notin DOMAIN e
    OBVIOUS
  <2> HIDE DEF e, v
  <2> QED
    BY <1>1, <1>3, <1>4, <1>6, <2>1, Gathered
<1> QED
  BY <1>5, <1>6

LEMMA KeepsDone ==
    ASSUME AnswerInv, ~run.disturbed, ItemDone
    PROVE  AnswerInv'
<1> DEFINE e == [type |-> IF LastOf(up.output).kind = "message" THEN "text_done" ELSE "args_done"]
           v == [up EXCEPT !.open = FALSE]
           q == Converted(e)
<1>1. /\ More /\ up.open /\ ~up.completed /\ ~up.failed
      /\ Event(e, v)
  BY DEF ItemDone, More
<1>2. /\ Upstream(up) /\ Shape(up) /\ asked.route \in Routes
      /\ asked.stream => View(asked.route, up, state, got)
  BY <1>1 DEF AnswerInv, StreamingInv, More
<1>3. /\ Shape(v)
      /\ v.output = up.output /\ ~v.open /\ ~v.completed
      /\ v.failed = up.failed /\ v.extra = up.extra /\ v.overtaken = up.overtaken
  <2>1. v = [up EXCEPT !.open = FALSE]
    OBVIOUS
  <2> HIDE DEF v
  <2> QED
    BY <1>1, <1>2, <2>1 DEF Shape
<1>4. Upstream(v)
  <2> HIDE DEF v
  <2> QED
    BY <1>1, <1>2, <1>3 DEF Upstream
<1>5. CASE asked.stream
  <2> HIDE DEF v
  <2>1. /\ View(asked.route, v, q.state, Assembled(got, q.chunks))
        /\ q.chunks = <<>> => q.state = state
    <3>1. CASE asked.route = "messages"
      <4>1. q = MessagesEvent(state, e) /\ View("messages", up, state, got)
        BY <1>2, <1>5, <3>1 DEF Converted
      <4>2. e.type = "completed" <=> v.completed
        BY <1>3 DEF CompletedEvent
      <4> HIDE DEF e, q
      <4>3. CASE v.overtaken
        <5>1. /\ View("messages", v, q.state, Assembled(got, q.chunks))
              /\ q.chunks = <<>> => q.state = state
          BY <1>1, <4>1, <4>2, <4>3, CountsOn
        <5> QED
          BY <3>1, <5>1
      <4>4. CASE ~v.overtaken
        <5>1. MessagesView(up, state, got) /\ ~up.overtaken
          BY <1>3, <4>1, <4>4 DEF View
        <5>2. MessagesView(v, q.state, Assembled(got, q.chunks)) /\ (q.chunks = <<>> => q.state = state)
          BY <1>1, <1>2, <1>3, <4>1, <5>1, MessagesDone DEF e
        <5> QED
          BY <3>1, <4>4, <5>2 DEF View
      <4> QED
        BY <4>3, <4>4
    <3>2. CASE asked.route = "chat"
      <4>1. q.state = state /\ q.chunks = ChatEvent(e)
        BY <3>2 DEF Converted, Step
      <4> HIDE DEF e, q
      <4>2. ChatView(v, Assembled(got, q.chunks))
        BY <1>1, <1>2, <1>3, <1>5, <3>2, <4>1, ChatSame DEF View, e
      <4> QED
        BY <1>2, <1>5, <3>2, <4>1, <4>2 DEF View
    <3>3. CASE asked.route = "responses"
      <4>1. q.state = state /\ q.chunks = ResponsesEvent(e) /\ e.type \notin {"completed", "failed"}
        BY <3>3 DEF Converted, Step
      <4> HIDE DEF e, q
      <4>2. ResponsesView(v, Assembled(got, q.chunks))
        BY <1>1, <1>2, <1>3, <1>5, <3>3, <4>1, ResponsesOther DEF View
      <4> QED
        BY <1>2, <1>5, <3>3, <4>1, <4>2 DEF View
    <3> QED
      BY <1>2, <3>1, <3>2, <3>3 DEF Routes
  <2> HIDE DEF e
  <2> QED
    BY <1>1, <1>3, <1>4, <1>5, <2>1, Streamed
<1>6. CASE ~asked.stream
  <2>1. "output" \notin DOMAIN e
    OBVIOUS
  <2> HIDE DEF e, v
  <2> QED
    BY <1>1, <1>3, <1>4, <1>6, <2>1, Gathered
<1> QED
  BY <1>5, <1>6

LEMMA KeepsCompleted ==
    ASSUME AnswerInv, ~run.disturbed, Completed
    PROVE  AnswerInv'
<1> DEFINE e == CompletedEvent(up.output)
           v == [up EXCEPT !.completed = TRUE]
           q == Converted(e)
<1>1. /\ More /\ ~up.completed /\ ~up.failed
      /\ Event(e, v)
  BY DEF Completed, More
<1>2. /\ Upstream(up) /\ Shape(up) /\ asked.route \in Routes
      /\ asked.stream => View(asked.route, up, state, got)
  BY <1>1 DEF AnswerInv, StreamingInv, More
<1>3. /\ Shape(v)
      /\ v.output = up.output /\ v.open = up.open /\ v.completed
      /\ v.failed = up.failed /\ v.extra = up.extra /\ v.overtaken = up.overtaken
  <2>1. v = [up EXCEPT !.completed = TRUE]
    OBVIOUS
  <2> HIDE DEF v
  <2> QED
    BY <1>1, <1>2, <2>1 DEF Shape
<1>4. Upstream(v)
  <2> HIDE DEF v
  <2> QED
    BY <1>1, <1>2, <1>3 DEF Upstream
<1>5. CASE asked.stream
  <2> HIDE DEF v
  <2>1. /\ View(asked.route, v, q.state, Assembled(got, q.chunks))
        /\ q.chunks = <<>> => q.state = state
    <3>1. CASE asked.route = "messages"
      <4>1. q = MessagesEvent(state, e) /\ View("messages", up, state, got)
        BY <1>2, <1>5, <3>1 DEF Converted
      <4>2. e.type = "completed" <=> v.completed
        BY <1>3 DEF CompletedEvent
      <4> HIDE DEF e, q
      <4>3. CASE v.overtaken
        <5>1. /\ View("messages", v, q.state, Assembled(got, q.chunks))
              /\ q.chunks = <<>> => q.state = state
          BY <1>1, <4>1, <4>2, <4>3, CountsOn
        <5> QED
          BY <3>1, <5>1
      <4>4. CASE ~v.overtaken
        <5>1. MessagesView(up, state, got) /\ ~up.overtaken
          BY <1>3, <4>1, <4>4 DEF View
        <5>2. MessagesView(v, q.state, Assembled(got, q.chunks)) /\ (q.chunks = <<>> => q.state = state)
          BY <1>1, <1>2, <1>3, <4>1, <5>1, MessagesCompleted DEF e
        <5> QED
          BY <3>1, <4>4, <5>2 DEF View
      <4> QED
        BY <4>3, <4>4
    <3>2. CASE asked.route = "chat"
      <4>1. q.state = state /\ q.chunks = ChatEvent(e)
        BY <3>2 DEF Converted, Step
      <4> HIDE DEF e, q
      <4>2. ChatView(v, Assembled(got, q.chunks))
        BY <1>1, <1>2, <1>3, <1>5, <3>2, <4>1, ChatCompleted DEF View, e
      <4> QED
        BY <1>2, <1>5, <3>2, <4>1, <4>2 DEF View
    <3>3. CASE asked.route = "responses"
      <4>1. q.state = state /\ q.chunks = ResponsesEvent(e)
        BY <3>3 DEF Converted, Step
      <4>2. got = NewClient
        BY <1>1, <1>2, <1>5, <3>3 DEF View, ResponsesView
      <4> HIDE DEF e, q
      <4>3. Assembled(got, q.chunks) = Client(up.output, <<>>, <<>>, "stop", 1, {})
        BY <4>1, <4>2, ResponsesCompleted DEF e
      <4>4. ResponsesView(v, Assembled(got, q.chunks))
        BY <1>3, <4>3 DEF ResponsesView
      <4> QED
        BY <1>2, <1>5, <3>3, <4>1, <4>4 DEF View
    <3> QED
      BY <1>2, <3>1, <3>2, <3>3 DEF Routes
  <2> HIDE DEF e
  <2> QED
    BY <1>1, <1>3, <1>4, <1>5, <2>1, Streamed
<1>6. CASE ~asked.stream
  <2>1. "output" \notin DOMAIN e
    BY DEF CompletedEvent
  <2> HIDE DEF e, v
  <2> QED
    BY <1>1, <1>3, <1>4, <1>6, <2>1, Gathered
<1> QED
  BY <1>5, <1>6

LEMMA KeepsFailed ==
    ASSUME AnswerInv, ~run.disturbed, Failed
    PROVE  AnswerInv'
<1> DEFINE e == [type |-> "failed"]
           v == [up EXCEPT !.failed = TRUE]
           q == Converted(e)
<1>1. /\ More /\ ~up.completed /\ ~up.failed
      /\ Event(e, v)
  BY DEF Failed, More
<1>2. /\ Upstream(up) /\ Shape(up) /\ asked.route \in Routes
      /\ asked.stream => View(asked.route, up, state, got)
  BY <1>1 DEF AnswerInv, StreamingInv, More
<1>3. /\ Shape(v)
      /\ v.output = up.output /\ v.open = up.open /\ ~v.completed
      /\ v.failed /\ v.extra = up.extra /\ v.overtaken = up.overtaken
  <2>1. v = [up EXCEPT !.failed = TRUE]
    OBVIOUS
  <2> HIDE DEF v
  <2> QED
    BY <1>1, <1>2, <2>1 DEF Shape
<1>4. Upstream(v)
  <2> HIDE DEF v
  <2> QED
    BY <1>1, <1>2, <1>3 DEF Upstream
<1>5. CASE asked.stream
  <2> HIDE DEF v
  <2>1. /\ View(asked.route, v, q.state, Assembled(got, q.chunks))
        /\ q.chunks = <<>> => q.state = state
    <3>1. CASE asked.route = "messages"
      <4>1. q = MessagesEvent(state, e) /\ View("messages", up, state, got)
        BY <1>2, <1>5, <3>1 DEF Converted
      <4>2. e.type = "completed" <=> v.completed
        BY <1>3 DEF CompletedEvent
      <4> HIDE DEF e, q
      <4>3. CASE v.overtaken
        <5>1. /\ View("messages", v, q.state, Assembled(got, q.chunks))
              /\ q.chunks = <<>> => q.state = state
          BY <1>1, <4>1, <4>2, <4>3, CountsOn
        <5> QED
          BY <3>1, <5>1
      <4>4. CASE ~v.overtaken
        <5>1. MessagesView(up, state, got) /\ ~up.overtaken
          BY <1>3, <4>1, <4>4 DEF View
        <5>2. MessagesView(v, q.state, Assembled(got, q.chunks)) /\ (q.chunks = <<>> => q.state = state)
          BY <1>1, <1>2, <1>3, <4>1, <5>1, MessagesSame DEF e
        <5> QED
          BY <3>1, <4>4, <5>2 DEF View
      <4> QED
        BY <4>3, <4>4
    <3>2. CASE asked.route = "chat"
      <4>1. q.state = state /\ q.chunks = ChatEvent(e)
        BY <3>2 DEF Converted, Step
      <4> HIDE DEF e, q
      <4>2. ChatView(v, Assembled(got, q.chunks))
        BY <1>1, <1>2, <1>3, <1>5, <3>2, <4>1, ChatSame DEF View, e
      <4> QED
        BY <1>2, <1>5, <3>2, <4>1, <4>2 DEF View
    <3>3. CASE asked.route = "responses"
      <4>1. q.state = state /\ q.chunks = ResponsesEvent(e)
        BY <3>3 DEF Converted, Step
      <4> HIDE DEF e, q
      <4>2. ResponsesView(v, Assembled(got, q.chunks))
        BY <1>1, <1>2, <1>3, <1>5, <3>3, <4>1, ResponsesFailed DEF View, e
      <4> QED
        BY <1>2, <1>5, <3>3, <4>1, <4>2 DEF View
    <3> QED
      BY <1>2, <3>1, <3>2, <3>3 DEF Routes
  <2> HIDE DEF e
  <2> QED
    BY <1>1, <1>3, <1>4, <1>5, <2>1, Streamed
<1>6. CASE ~asked.stream
  <2>1. "output" \notin DOMAIN e
    OBVIOUS
  <2> HIDE DEF e, v
  <2> QED
    BY <1>1, <1>3, <1>4, <1>6, <2>1, Gathered
<1> QED
  BY <1>5, <1>6

LEMMA KeepsOther ==
    ASSUME AnswerInv, ~run.disturbed, NEW token \in Token, OtherEvent(token)
    PROVE  AnswerInv'
<1> DEFINE e == [type |-> "other", token |-> token]
           v == [up EXCEPT !.extra = TRUE]
           q == Converted(e)
<1>1. /\ More /\ ~up.completed /\ ~up.failed
      /\ Event(e, v)
  BY DEF OtherEvent, More
<1>2. /\ Upstream(up) /\ Shape(up) /\ asked.route \in Routes
      /\ asked.stream => View(asked.route, up, state, got)
  BY <1>1 DEF AnswerInv, StreamingInv, More
<1>3. /\ Shape(v)
      /\ v.output = up.output /\ v.open = up.open /\ ~v.completed
      /\ v.failed = up.failed /\ v.extra /\ v.overtaken = up.overtaken
  <2>1. v = [up EXCEPT !.extra = TRUE]
    OBVIOUS
  <2> HIDE DEF v
  <2> QED
    BY <1>1, <1>2, <2>1 DEF Shape
<1>4. Upstream(v)
  <2> HIDE DEF v
  <2> QED
    BY <1>1, <1>2, <1>3 DEF Upstream
<1>5. CASE asked.stream
  <2> HIDE DEF v
  <2>1. /\ View(asked.route, v, q.state, Assembled(got, q.chunks))
        /\ q.chunks = <<>> => q.state = state
    <3>1. CASE asked.route = "messages"
      <4>1. q = MessagesEvent(state, e) /\ View("messages", up, state, got)
        BY <1>2, <1>5, <3>1 DEF Converted
      <4>2. e.type = "completed" <=> v.completed
        BY <1>3 DEF CompletedEvent
      <4> HIDE DEF e, q
      <4>3. CASE v.overtaken
        <5>1. /\ View("messages", v, q.state, Assembled(got, q.chunks))
              /\ q.chunks = <<>> => q.state = state
          BY <1>1, <4>1, <4>2, <4>3, CountsOn
        <5> QED
          BY <3>1, <5>1
      <4>4. CASE ~v.overtaken
        <5>1. MessagesView(up, state, got) /\ ~up.overtaken
          BY <1>3, <4>1, <4>4 DEF View
        <5>2. MessagesView(v, q.state, Assembled(got, q.chunks)) /\ (q.chunks = <<>> => q.state = state)
          BY <1>1, <1>2, <1>3, <4>1, <5>1, MessagesSame DEF e
        <5> QED
          BY <3>1, <4>4, <5>2 DEF View
      <4> QED
        BY <4>3, <4>4
    <3>2. CASE asked.route = "chat"
      <4>1. q.state = state /\ q.chunks = ChatEvent(e)
        BY <3>2 DEF Converted, Step
      <4> HIDE DEF e, q
      <4>2. ChatView(v, Assembled(got, q.chunks))
        BY <1>1, <1>2, <1>3, <1>5, <3>2, <4>1, ChatOther DEF View, e
      <4> QED
        BY <1>2, <1>5, <3>2, <4>1, <4>2 DEF View
    <3>3. CASE asked.route = "responses"
      <4>1. q.state = state /\ q.chunks = ResponsesEvent(e) /\ e.type \notin {"completed", "failed"}
        BY <3>3 DEF Converted, Step
      <4> HIDE DEF e, q
      <4>2. ResponsesView(v, Assembled(got, q.chunks))
        BY <1>1, <1>2, <1>3, <1>5, <3>3, <4>1, ResponsesOther DEF View
      <4> QED
        BY <1>2, <1>5, <3>3, <4>1, <4>2 DEF View
    <3> QED
      BY <1>2, <3>1, <3>2, <3>3 DEF Routes
  <2> HIDE DEF e
  <2> QED
    BY <1>1, <1>3, <1>4, <1>5, <2>1, Streamed
<1>6. CASE ~asked.stream
  <2>1. "output" \notin DOMAIN e
    OBVIOUS
  <2> HIDE DEF e, v
  <2> QED
    BY <1>1, <1>3, <1>4, <1>6, <2>1, Gathered
<1> QED
  BY <1>5, <1>6

LEMMA AnnouncedBy ==
    ASSUME NEW u, NEW s, NEW c, MessagesView(u, s, c),
           NEW d, d.open = OpenOf(s), d.blocks = Blocks(u.output)
    PROVE  Announced(s, d)
<1>1. Cardinality({}) = 0 /\ Cardinality({s.index}) = 1
  BY FS_EmptySet, FS_Singleton
<1>2. s.index \in Nat
  BY DEF MessagesView, States
<1>3. CASE s.text \/ s.tool
  <2>1. s.index + 1 = Len(Blocks(u.output))
    BY <1>3 DEF MessagesView
  <2> QED
    BY <1>1, <1>3, <2>1 DEF Announced, OpenOf
<1>4. CASE ~(s.text \/ s.tool)
  <2>1. s.index = Len(Blocks(u.output))
    BY <1>4 DEF MessagesView
  <2> QED
    BY <1>1, <1>2, <1>4, <2>1 DEF Announced, OpenOf
<1> QED
  BY <1>3, <1>4

\* A Messages stream that ends by itself, or with an error.
LEMMA MessagesEnd ==
    ASSUME NEW u, NEW s, NEW c, MessagesView(u, s, c), ~u.completed,
           NEW reason, NEW d, d = Assembled(c, MessageStop(reason))
    PROVE  /\ d.ends = 1 /\ Announced(s, d)
           /\ d.broken => reason # "error" /\ u.open
<1> DEFINE B == Blocks(u.output)
           o == OpenOf(s)
<1>1. c = Client(B, <<>>, <<>>, "none", 0, o)
  BY DEF MessagesView
<1>2. o # {} => u.open
  BY DEF MessagesView, OpenOf
<1>3. /\ o = OpenOf(s) /\ B = Blocks(u.output)
  OBVIOUS
<1> HIDE DEF B, o
<1>4. CASE o = {} \/ reason = "error"
  <2>1. d = Client(B, <<>>, <<>>, reason, 0 + 1, o)
    BY <1>1, <1>4, AssembledStop
  <2>2. d.ends = 1 /\ d.open = o /\ d.blocks = B /\ ~d.broken
    BY <2>1 DEF Client
  <2> QED
    BY <1>3, <2>2, AnnouncedBy
<1>5. CASE o # {} /\ reason # "error"
  <2>1. d = BrokenClient(B, <<>>, <<>>, reason, 0 + 1, o)
    BY <1>1, <1>5, AssembledStop
  <2>2. d.ends = 1 /\ d.open = o /\ d.blocks = B
    BY <2>1 DEF BrokenClient
  <2> QED
    BY <1>2, <1>3, <1>5, <2>2, AnnouncedBy
<1> QED
  BY <1>4, <1>5

LEMMA MessagesOver ==
    ASSUME NEW u, NEW s, NEW c, MessagesView(u, s, c), u.completed
    PROVE  /\ c = Client(Blocks(u.output), <<>>, <<>>, StopReason(u.output), 1, {})
           /\ c.ends = 1 /\ ~c.broken /\ Announced(s, c)
<1>1. c = Client(Blocks(u.output), <<>>, <<>>, StopReason(u.output), 1, {}) /\ OpenOf(s) = {}
  BY DEF MessagesView, OpenOf
<1>2. c.ends = 1 /\ ~c.broken /\ c.open = OpenOf(s) /\ c.blocks = Blocks(u.output)
  BY <1>1 DEF Client
<1> QED
  BY <1>1, <1>2, AnnouncedBy

LEMMA ChatEnd ==
    ASSUME NEW u, NEW c, ChatView(u, c), NEW d, d = Assembled(c, << [type |-> "end"] >>)
    PROVE  /\ d.ends = 1 /\ ~d.broken
           /\ u.completed => Whole("chat", u, d)
<1> DEFINE end == [type |-> "end"]
           f == IF u.completed THEN StopReason(u.output) ELSE "none"
           t == c.text
           l == c.calls
<1>1. c = Client(<<>>, t, l, f, 0, {})
  BY DEF ChatView
<1>2. Received(Client(<<>>, t, l, f, 0, {}), end) = Client(<<>>, t, l, f, 0 + 1, {})
  <2> HIDE DEF t, l, f
  <2> QED
    BY ReceivedEnd
<1>3. d = Received(c, end)
  <2>1. d = Assembled(c, <<end>>)
    OBVIOUS
  <2> HIDE DEF end
  <2> QED
    BY <2>1, AssembledOne
<1>4. d = Client(<<>>, t, l, f, 1, {})
  BY <1>1, <1>2, <1>3
<1>5. d.ends = 1 /\ ~d.broken
  <2> HIDE DEF t, l, f
  <2> QED
    BY <1>4 DEF Client
<1>6. ASSUME u.completed PROVE Whole("chat", u, d)
  BY <1>4, <1>6 DEF Whole, ChatView
<1> QED
  BY <1>5, <1>6

\* A client that has kept to the rules sees an error.
LEMMA FailedEnd ==
    ASSUME NEW b, NEW t, NEW l, NEW o, NEW d,
           d = Assembled(Client(b, t, l, "none", 0, o), ErrorChunks)
    PROVE  d.ends = 1 /\ ~d.broken
<1>1. d = Client(b, t, l, "error", 0 + 1, o)
  BY AssembledStop, ErrorIsStop
<1> QED
  BY <1>1 DEF Client

\* Nor does a message whose block was overtaken end twice.
LEMMA OvertakenEnd ==
    ASSUME NEW u, NEW c, OvertakenView(u, c), ~u.completed, NEW reason
    PROVE  Assembled(c, MessageStop(reason)).ends = 1
BY ShapedStop DEF OvertakenView

LEMMA NewAnnounced == ASSUME NEW d, d.open = {}, d.blocks = <<>> PROVE Announced(NewState, d)
<1>1. Cardinality({}) = 0 /\ Len(<<>>) = 0
  BY FS_EmptySet
<1> QED
  BY <1>1 DEF Announced, NewState

LEMMA KeepsEnd ==
    ASSUME AnswerInv, ~run.disturbed, StreamEnds
    PROVE  AnswerInv'
<1>1. /\ run.phase = "streaming" /\ asked' = asked /\ up' = up /\ state' = state
      /\ run' = [run EXCEPT !.phase = "ended"]
      /\ asked.stream => got' = Assembled(got, Closing)
  BY DEF StreamEnds
<1>2. /\ asked \in [route : Routes, stream : BOOLEAN] /\ asked.route \in Routes
      /\ RunShape(run) /\ Upstream(up) /\ Shape(up) /\ StreamingInv
  BY <1>1 DEF AnswerInv
<1>3. RunShape(run)' /\ run'.phase = "ended" /\ ~run'.disturbed
  BY <1>1, <1>2 DEF RunShape
<1>e. /\ EndsTwice' <=> EndsTwice
      /\ EndsTwice => asked.stream /\ asked.route = "responses" /\ up.failed
      /\ asked.stream /\ asked.route = "responses" /\ up.failed => EndsTwice
  <2>1. asked = [route |-> asked.route, stream |-> asked.stream] /\ asked.stream \in BOOLEAN
    BY <1>2
  <2> QED
    BY <1>1, <2>1 DEF EndsTwice
<1>4. OverInv'
  <2>0. CASE asked.stream /\ asked.route = "messages" /\ up.overtaken
    <3>1. OvertakenView(up, got)
      BY <1>2, <2>0 DEF StreamingInv, View
    <3>2. got'.ends = 1
      <4>1. CASE up.completed
        <5>1. got' = got
          BY <1>1, <2>0, <4>1, AssembledNone DEF Closing
        <5> QED
          BY <3>1, <4>1, <5>1 DEF OvertakenView
      <4>2. CASE ~up.completed
        <5>1. got' = Assembled(got, MessageStop("stop"))
          BY <1>1, <2>0, <4>2 DEF Closing
        <5> QED
          BY <3>1, <4>2, <5>1, OvertakenEnd
      <4> QED
        BY <4>1, <4>2
    <3> QED
      BY <1>1, <2>0, <3>2, <1>e DEF OverInv, Whole
  <2>1. CASE asked.stream /\ asked.route = "messages" /\ ~up.overtaken
    <3>1. MessagesView(up, state, got)
      BY <1>2, <2>1 DEF StreamingInv, View
    <3>2. CASE up.completed
      <4>1. got' = got
        BY <1>1, <2>1, <3>2, AssembledNone DEF Closing
      <4>2. /\ got = Client(Blocks(up.output), <<>>, <<>>, StopReason(up.output), 1, {})
            /\ got.ends = 1 /\ ~got.broken /\ Announced(state, got)
        BY <3>1, <3>2, MessagesOver
      <4> QED
        BY <1>1, <1>3, <1>e, <2>1, <4>1, <4>2 DEF OverInv, Whole
    <3>3. CASE ~up.completed
      <4>1. got' = Assembled(got, MessageStop("stop"))
        BY <1>1, <2>1, <3>3 DEF Closing
      <4>2. got'.ends = 1 /\ Announced(state, got') /\ (got'.broken => up.open)
        BY <3>1, <3>3, <4>1, MessagesEnd
      <4> QED
        BY <1>1, <1>3, <1>e, <2>1, <3>3, <4>2 DEF OverInv
    <3> QED
      BY <3>2, <3>3
  <2>2. CASE asked.stream /\ asked.route = "chat"
    <3>1. ChatView(up, got) /\ got' = Assembled(got, << [type |-> "end"] >>)
      BY <1>1, <1>2, <2>2 DEF StreamingInv, View, Closing
    <3>2. got'.ends = 1 /\ ~got'.broken /\ (up.completed => Whole("chat", up, got'))
      BY <3>1, ChatEnd
    <3> QED
      BY <1>1, <1>3, <1>e, <2>2, <3>2 DEF OverInv
  <2>3. CASE asked.stream /\ asked.route = "responses"
    <3>1. ResponsesView(up, got)
      BY <1>2, <2>3 DEF StreamingInv, View
    <3>2. CASE up.completed
      <4>1. got' = got
        BY <1>1, <2>3, <3>2, AssembledNone DEF Closing
      <4>2. got = Client(up.output, <<>>, <<>>, "stop", 1, {})
        BY <3>1, <3>2 DEF ResponsesView
      <4>3. got.ends = 1 /\ ~got.broken
        BY <4>2 DEF Client
      <4> QED
        BY <1>1, <1>2, <1>3, <1>e, <2>3, <3>2, <4>1, <4>2, <4>3 DEF OverInv, Whole, Upstream
    <3>3. CASE ~up.completed
      <4>1. /\ got' = Assembled(got, ResponsesEvent(CompletedEvent(<<>>)))
            /\ got = IF up.failed THEN FailedClient ELSE NewClient
        BY <1>1, <2>3, <3>1, <3>3 DEF Closing, ResponsesView
      <4>2. got' = Client(<<>>, <<>>, <<>>, "stop", IF up.failed THEN 2 ELSE 1, {})
        BY <4>1, ResponsesCompleted
      <4>3. got'.ends = (IF up.failed THEN 2 ELSE 1) /\ ~got'.broken
        BY <4>2 DEF Client
      <4> QED
        BY <1>1, <1>3, <1>e, <2>3, <3>3, <4>3 DEF OverInv
    <3> QED
      BY <3>2, <3>3
  <2>4. CASE ~asked.stream
    <3> DEFINE answer == Answer(LastResult)
    <3>1. /\ got = NewClient /\ state = NewState /\ LastResult = <<>>
      BY <1>2, <2>4 DEF StreamingInv, LastResult
    <3>2. got' = [NewClient EXCEPT !.blocks = answer.blocks, !.text = answer.text,
                                   !.calls = answer.calls, !.finish = answer.finish, !.ends = 1]
      BY <2>4, <3>1 DEF StreamEnds
    <3>3. asked.route = "messages" => answer.blocks = <<>>
      <4> SUFFICES ASSUME asked.route = "messages" PROVE Answer(<<>>).blocks = <<>>
        BY <3>1
      <4>1. Parsed(<<>>) = <<>>
        BY DEF Parsed
      <4>2. Answer(<<>>) = [NoAnswer EXCEPT !.blocks = Blocks(<<>>), !.finish = StopReason(<<>>)]
        BY <4>1 DEF Answer
      <4> QED
        BY <4>2, SelectedEmpty DEF NoAnswer
    <3> HIDE DEF answer
    <3>4. got'.ends = 1 /\ ~got'.broken /\ got'.open = {} /\ got'.blocks = answer.blocks
      BY <3>2 DEF NewClient
    <3>5. asked.route = "messages" => Announced(state, got')
      BY <3>1, <3>3, <3>4, NewAnnounced
    <3> QED
      BY <1>1, <1>3, <1>e, <2>4, <3>4, <3>5 DEF OverInv
  <2> QED
    BY <1>2, <2>0, <2>1, <2>2, <2>3, <2>4 DEF Routes
<1>5. Upstream(up)' /\ Shape(up)'
  BY <1>1, <1>2
<1> QED
  BY <1>1, <1>2, <1>3, <1>4, <1>5 DEF AnswerInv

LEMMA KeepsFails ==
    ASSUME AnswerInv, ~run.disturbed, NEW retryable \in BOOLEAN, StreamFails(retryable)
    PROVE  AnswerInv'
<1>1. run.phase = "streaming"
  BY DEF StreamFails
<1>2. /\ asked \in [route : Routes, stream : BOOLEAN] /\ asked.route \in Routes
      /\ RunShape(run) /\ Upstream(up) /\ Shape(up) /\ StreamingInv
  BY <1>1 DEF AnswerInv
<1>3. CASE retryable /\ run.attempt < MaxRetries
  <2>1. /\ up' = NoStream /\ asked' = asked /\ state' = state /\ got' = got
        /\ run' = [run EXCEPT !.attempt = run.attempt + 1, !.disturbed = run.disturbed \/ run.begun]
    BY <1>3 DEF StreamFails, Retry
  <2>2. /\ RunShape(run)' /\ run'.phase = "streaming"
        /\ run'.begun <=> run.begun
        /\ run'.disturbed <=> run.begun
    BY <1>1, <1>2, <2>1 DEF RunShape
  <2>3. Upstream(up)' /\ Shape(up)'
    BY <2>1, StartStream
  <2>4. ASSUME ~run.begun PROVE StreamingInv'
    <3>1. got = NewClient /\ state = NewState
      BY <1>2, <2>4 DEF StreamingInv
    <3>2. View(asked.route, up', state', got')
      BY <1>2, <2>1, <3>1, StartView
    <3> QED
      BY <2>1, <3>1, <3>2, StartStream DEF StreamingInv
  <2> QED
    BY <1>2, <2>1, <2>2, <2>3, <2>4 DEF AnswerInv
<1>4. CASE ~(retryable /\ run.attempt < MaxRetries)
  <2>1. /\ up' = up /\ asked' = asked /\ state' = state
        /\ run' = [run EXCEPT !.phase = "failed", !.disturbed = run.disturbed \/ up.completed \/ up.failed]
        /\ got' = IF asked.stream THEN Assembled(got, ErrorChunks)
                                  ELSE [got EXCEPT !.finish = "error", !.ends = 1]
    BY <1>4 DEF StreamFails
  <2>2. RunShape(run)' /\ run'.phase = "failed" /\ (run'.disturbed <=> up.completed \/ up.failed)
    BY <1>2, <2>1 DEF RunShape
  <2>3. Upstream(up)' /\ Shape(up)'
    BY <1>2, <2>1
  <2>e. ~up.failed => ~EndsTwice'
    BY <2>1 DEF EndsTwice
  <2>4. ASSUME ~up.completed, ~up.failed PROVE OverInv'
    <3>0. CASE asked.stream /\ asked.route = "messages" /\ up.overtaken
      <4>1. OvertakenView(up, got) /\ got' = Assembled(got, MessageStop("error"))
        BY <1>2, <2>1, <3>0, ErrorIsStop DEF StreamingInv, View
      <4>2. got'.ends = 1
        BY <2>4, <4>1, OvertakenEnd
      <4> QED
        BY <2>1, <2>2, <2>4, <2>e, <3>0, <4>2 DEF OverInv
    <3>1. CASE asked.stream /\ asked.route = "messages" /\ ~up.overtaken
      <4>1. MessagesView(up, state, got) /\ got' = Assembled(got, MessageStop("error"))
        BY <1>2, <2>1, <3>1, ErrorIsStop DEF StreamingInv, View
      <4>2. got'.ends = 1 /\ Announced(state, got') /\ ~got'.broken
        BY <2>4, <4>1, MessagesEnd
      <4> QED
        BY <2>1, <2>2, <2>4, <2>e, <3>1, <4>2 DEF OverInv
    <3>2. CASE asked.stream /\ asked.route = "chat"
      <4>1. /\ got = Client(<<>>, got.text, got.calls, "none", 0, {})
            /\ got' = Assembled(got, ErrorChunks)
        BY <1>2, <2>1, <2>4, <3>2 DEF StreamingInv, View, ChatView
      <4>2. got'.ends = 1 /\ ~got'.broken
        BY <4>1, FailedEnd
      <4> QED
        BY <2>1, <2>2, <2>4, <2>e, <3>2, <4>2 DEF OverInv
    <3>3. CASE asked.stream /\ asked.route = "responses"
      <4>1. got = NewClient /\ got' = Assembled(got, ErrorChunks)
        BY <1>2, <2>1, <2>4, <3>3 DEF StreamingInv, View, ResponsesView
      <4>2. got'.ends = 1 /\ ~got'.broken
        BY <4>1, NewClientIs, FailedEnd
      <4> QED
        BY <2>1, <2>2, <2>4, <2>e, <3>3, <4>2 DEF OverInv
    <3>4. CASE ~asked.stream
      <4>1. /\ got = NewClient /\ state = NewState
            /\ got' = [NewClient EXCEPT !.finish = "error", !.ends = 1]
        BY <1>2, <2>1, <3>4 DEF StreamingInv
      <4>2. got'.ends = 1 /\ ~got'.broken /\ got'.open = {} /\ got'.blocks = <<>>
        BY <4>1 DEF NewClient
      <4>3. Announced(state, got')
        BY <4>1, <4>2, NewAnnounced
      <4> QED
        BY <2>1, <2>2, <2>4, <2>e, <3>4, <4>2, <4>3 DEF OverInv
    <3> QED
      BY <1>2, <3>0, <3>1, <3>2, <3>3, <3>4 DEF Routes
  <2> QED
    BY <1>2, <2>1, <2>2, <2>3, <2>4 DEF AnswerInv
<1> QED
  BY <1>3, <1>4

LEMMA RunOfEvent ==
    ASSUME RunShape(run), NEW e, NEW v, Event(e, v)
    PROVE  /\ RunShape(run)' /\ run'.phase = run.phase /\ asked' = asked
           /\ run.disturbed => run'.disturbed
<1>1. CASE asked.stream
  <2> DEFINE chunks == Converted(e).chunks
             n == run.events + 1
  <2>1. run' = [run EXCEPT !.events = n, !.begun = run.begun \/ chunks # <<>>] /\ asked' = asked
    BY <1>1 DEF Event
  <2> HIDE DEF chunks, n
  <2> QED
    BY <2>1 DEF RunShape
<1>2. CASE ~asked.stream
  <2> DEFINE n == run.events + 1
  <2>1. run' = [run EXCEPT !.events = n] /\ asked' = asked
    BY <1>2 DEF Event
  <2> HIDE DEF n
  <2> QED
    BY <2>1 DEF RunShape
<1> QED
  BY <1>1, <1>2

\* A disturbed answer stays disturbed.
LEMMA KeepsDisturbed ==
    ASSUME AnswerInv, Next, run.disturbed
    PROVE  AnswerInv'
<1>1. RunShape(run) /\ run.phase \in {"streaming", "ended", "failed"}
  BY DEF AnswerInv
<1> DEFINE Stays == /\ RunShape(run)' /\ run'.phase \in {"streaming", "ended", "failed"}
                    /\ asked' = asked /\ run'.disturbed
<1>2. Stays
  <2>1. ASSUME NEW kind, NEW call, ItemAdded(kind, call) PROVE Stays
    <3>1. PICK e, v : Event(e, v)
      BY <2>1, Zenon DEF ItemAdded
    <3> QED
      BY <1>1, <3>1, RunOfEvent, Zenon
  <2>2. ASSUME NEW token, Delta(token) PROVE Stays
    <3>1. PICK e, v : Event(e, v)
      BY <2>2, Zenon DEF Delta
    <3> QED
      BY <1>1, <3>1, RunOfEvent, Zenon
  <2>3. CASE ItemDone
    <3>1. PICK e, v : Event(e, v)
      BY <2>3, Zenon DEF ItemDone
    <3> QED
      BY <1>1, <3>1, RunOfEvent, Zenon
  <2>4. CASE Completed
    <3>1. PICK e, v : Event(e, v)
      BY <2>4, Zenon DEF Completed
    <3> QED
      BY <1>1, <3>1, RunOfEvent, Zenon
  <2>f. CASE Failed
    <3>1. PICK e, v : Event(e, v)
      BY <2>f, Zenon DEF Failed
    <3> QED
      BY <1>1, <3>1, RunOfEvent, Zenon
  <2>o. ASSUME NEW token, OtherEvent(token) PROVE Stays
    <3>1. PICK e, v : Event(e, v)
      BY <2>o, Zenon DEF OtherEvent
    <3> QED
      BY <1>1, <3>1, RunOfEvent, Zenon
  <2>5. CASE StreamEnds
    BY <1>1, <2>5 DEF StreamEnds, RunShape
  <2>6. ASSUME NEW retryable \in BOOLEAN, StreamFails(retryable) PROVE Stays
    BY <1>1, <2>6 DEF StreamFails, Retry, RunShape
  <2> QED
    BY <2>1, <2>2, <2>3, <2>4, <2>f, <2>o, <2>5, <2>6 DEF Next
<1> QED
  BY <1>1, <1>2 DEF AnswerInv

LEMMA NextKeepsAnswer == AnswerInv /\ Next => AnswerInv'
<1> SUFFICES ASSUME AnswerInv, Next PROVE AnswerInv'
  OBVIOUS
<1>1. CASE run.disturbed
  BY <1>1, KeepsDisturbed
<1>2. CASE ~run.disturbed
  <2>1. ASSUME NEW kind \in {"message", "function_call"}, NEW call \in Call \cup {NoCall},
               ItemAdded(kind, call)
        PROVE  AnswerInv'
    BY <1>2, <2>1, KeepsAdded
  <2>2. ASSUME NEW token \in Token, Delta(token) PROVE AnswerInv'
    BY <1>2, <2>2, KeepsFilled
  <2>3. CASE ItemDone
    BY <1>2, <2>3, KeepsDone
  <2>4. CASE Completed
    BY <1>2, <2>4, KeepsCompleted
  <2>f. CASE Failed
    BY <1>2, <2>f, KeepsFailed
  <2>o. ASSUME NEW token \in Token, OtherEvent(token) PROVE AnswerInv'
    BY <1>2, <2>o, KeepsOther
  <2>5. CASE StreamEnds
    BY <1>2, <2>5, KeepsEnd
  <2>6. ASSUME NEW retryable \in BOOLEAN, StreamFails(retryable) PROVE AnswerInv'
    BY <1>2, <2>6, KeepsFails
  <2> QED
    BY <2>1, <2>2, <2>3, <2>4, <2>f, <2>o, <2>5, <2>6 DEF Next
<1> QED
  BY <1>1, <1>2

\* AnswerInv, the state of the adapter and of the client during a stream and after it, is an
\* invariant of one request (adapters/anthropic_adapter.py, services/chatgpt_adapter.py).
THEOREM AnswerInvariant == Spec => []AnswerInv
<1>1. AnswerInv /\ UNCHANGED streamVars => AnswerInv'
  BY DEF AnswerInv, streamVars, Upstream, Shape, RunShape, StreamingInv, OverInv, EndsTwice
<1> QED
  BY <1>1, InitAnswer, NextKeepsAnswer, PTL DEF Spec

----------------------------------------------------------------------------
(* The properties.                                                         *)

\* The blocks of a client's message are started in order, one at a time, and filled and stopped
\* only while open, and the state of the adapter says what is open, as long as the backend does
\* not begin an item while the block of another is open (up.overtaken); a stream that is cut
\* inside a block leaves it open (adapters/anthropic_adapter.py, convert_stream_event).
THEOREM WellNested == Spec => []BlocksWellNested
<1>1. ASSUME AnswerInv PROVE BlocksWellNested
  <2>1. CASE run.disturbed
    BY <2>1 DEF BlocksWellNested
  <2>2. CASE ~run.disturbed /\ run.phase # "streaming"
    BY <1>1, <2>2 DEF AnswerInv, OverInv, BlocksWellNested, Announced
  <2>o. CASE ~run.disturbed /\ run.phase = "streaming" /\ up.overtaken
    BY <2>o DEF BlocksWellNested
  <2>3. CASE ~run.disturbed /\ run.phase = "streaming" /\ ~up.overtaken
    <3>1. ~got.broken /\ (asked.route = "messages" => Announced(state, got))
      <4>1. CASE asked.stream /\ asked.route = "messages"
        <5>1. MessagesView(up, state, got)
          BY <1>1, <2>3, <4>1 DEF AnswerInv, StreamingInv, View
        <5>2. CASE up.completed
          BY <5>1, <5>2, MessagesOver
        <5>3. CASE ~up.completed
          <6>1. got = Client(Blocks(up.output), <<>>, <<>>, "none", 0, OpenOf(state))
            BY <5>1, <5>3 DEF MessagesView
          <6>2. ~got.broken /\ got.open = OpenOf(state) /\ got.blocks = Blocks(up.output)
            BY <6>1 DEF Client
          <6> QED
            BY <5>1, <6>2, AnnouncedBy
        <5> QED
          BY <5>2, <5>3
      <4>2. CASE asked.stream /\ asked.route = "chat"
        <5>1. PICK f : got = Client(<<>>, got.text, got.calls, f, 0, {})
          BY <1>1, <2>3, <4>2 DEF AnswerInv, StreamingInv, View, ChatView
        <5>2. ~got.broken
          BY <5>1 DEF Client
        <5> QED
          BY <4>2, <5>2
      <4>3. CASE asked.stream /\ asked.route = "responses"
        <5>1. ResponsesView(up, got)
          BY <1>1, <2>3, <4>3 DEF AnswerInv, StreamingInv, View
        <5>2. ~got.broken
          BY <5>1 DEF ResponsesView, Client, FailedClient, NewClient
        <5> QED
          BY <4>3, <5>2
      <4>4. CASE ~asked.stream
        <5>1. got = NewClient /\ state = NewState
          BY <1>1, <2>3, <4>4 DEF AnswerInv, StreamingInv
        <5>2. ~got.broken /\ got.open = {} /\ got.blocks = <<>>
          BY <5>1 DEF NewClient
        <5> QED
          BY <5>1, <5>2, NewAnnounced
      <4> QED
        BY <1>1, <4>1, <4>2, <4>3, <4>4 DEF AnswerInv, Routes
    <3> QED
      BY <3>1 DEF BlocksWellNested, Announced
  <2> QED
    BY <1>1, <2>1, <2>2, <2>o, <2>3 DEF AnswerInv
<1> QED
  BY <1>1, AnswerInvariant, PTL

\* An answer ends once, with its end marker or an error, and not before the backend completed
\* it, reported its failure or stopped; a streamed Responses answer that failed ends twice, with
\* the failure and with a made-up response.completed (main.py, the generators of the routes).
THEOREM OneEnd == Spec => []EndsOnce
<1>1. ASSUME AnswerInv PROVE EndsOnce
  <2>1. CASE run.disturbed
    BY <2>1 DEF EndsOnce
  <2>2. CASE ~run.disturbed /\ run.phase # "streaming"
    BY <1>1, <2>2 DEF AnswerInv, OverInv, EndsOnce
  <2>3. CASE ~run.disturbed /\ run.phase = "streaming"
    <3>1. ASSUME ~up.completed, ~up.failed PROVE got.ends = 0
      <4>1. CASE asked.stream /\ asked.route = "messages"
        <5>1. View("messages", up, state, got)
          BY <1>1, <2>3, <4>1 DEF AnswerInv, StreamingInv
        <5>2. OvertakenView(up, got)
          BY <5>1, NotYetOvertaken DEF View
        <5> QED
          BY <3>1, <5>2 DEF OvertakenView
      <4>2. CASE asked.stream /\ asked.route = "chat"
        <5>1. PICK f : got = Client(<<>>, got.text, got.calls, f, 0, {})
          BY <1>1, <2>3, <4>2 DEF AnswerInv, StreamingInv, View, ChatView
        <5> QED
          BY <5>1 DEF Client
      <4>3. CASE asked.stream /\ asked.route = "responses"
        <5>1. got = NewClient
          BY <1>1, <2>3, <3>1, <4>3 DEF AnswerInv, StreamingInv, View, ResponsesView
        <5> QED
          BY <5>1 DEF NewClient
      <4>4. CASE ~asked.stream
        <5>1. got = NewClient
          BY <1>1, <2>3, <4>4 DEF AnswerInv, StreamingInv
        <5> QED
          BY <5>1 DEF NewClient
      <4> QED
        BY <1>1, <4>1, <4>2, <4>3, <4>4 DEF AnswerInv, Routes
    <3>2. got.ends = 0 => ~(got.ends > 0)
      OBVIOUS
    <3> QED
      BY <2>3, <3>1, <3>2 DEF EndsOnce
  <2> QED
    BY <2>1, <2>2, <2>3
<1> QED
  BY <1>1, AnswerInvariant, PTL

\* The parts of an answer converted as a whole.
LEMMA AnswerIs ==
    ASSUME NEW o, asked.route = "messages" => Parsed(o) = o
    PROVE  /\ asked.route = "messages" =>
                Answer(o) = [blocks |-> Blocks(o), text |-> <<>>, calls |-> <<>>, finish |-> StopReason(o)]
           /\ asked.route = "chat" =>
                Answer(o) = [blocks |-> <<>>, text |-> TextOf(o), calls |-> Calls(o), finish |-> StopReason(o)]
           /\ asked.route = "responses" =>
                Answer(o) = [blocks |-> o, text |-> <<>>, calls |-> <<>>, finish |-> "stop"]
<1>1. ASSUME asked.route = "messages"
      PROVE  Answer(o) = [blocks |-> Blocks(o), text |-> <<>>, calls |-> <<>>, finish |-> StopReason(o)]
  <2>1. Answer(o) = [NoAnswer EXCEPT !.blocks = Blocks(o), !.finish = StopReason(o)]
    BY <1>1 DEF Answer
  <2> QED
    BY <2>1 DEF NoAnswer
<1>2. ASSUME asked.route = "chat"
      PROVE  Answer(o) = [blocks |-> <<>>, text |-> TextOf(o), calls |-> Calls(o), finish |-> StopReason(o)]
  <2>1. Answer(o) = [NoAnswer EXCEPT !.text = TextOf(o), !.calls = Calls(o), !.finish = StopReason(o)]
    BY <1>2 DEF Answer, TextOf
  <2> QED
    BY <2>1 DEF NoAnswer
<1>3. ASSUME asked.route = "responses"
      PROVE  Answer(o) = [blocks |-> o, text |-> <<>>, calls |-> <<>>, finish |-> "stop"]
  <2>1. Answer(o) = [NoAnswer EXCEPT !.blocks = o, !.finish = "stop"]
    BY <1>3 DEF Answer
  <2> QED
    BY <2>1 DEF NoAnswer
<1> QED
  BY <1>1, <1>2, <1>3

LEMMA AllParsed ==
    ASSUME NEW o \in Seq(Items), \A i \in DOMAIN o : Parses(o[i])
    PROVE  Parsed(o) = o
<1>1. o = [i \in DOMAIN o |-> o[i]]
  OBVIOUS
<1>2. Parsed(o) = [i \in DOMAIN o |-> o[i]]
  BY DEF Parsed
<1> QED
  BY <1>1, <1>2

LEMMA SameAnswer ==
    ASSUME NEW a, NEW b, NEW t, NEW l, NEW f, NEW n, NEW o, NEW c,
           a = [blocks |-> b, text |-> t, calls |-> l, finish |-> f],
           c = Client(b, t, l, f, n, o)
    PROVE  \A part \in DOMAIN NoAnswer : c[part] = a[part]
<1>1. DOMAIN NoAnswer = {"blocks", "text", "calls", "finish"}
  BY DEF NoAnswer
<1>2. /\ c["blocks"] = b /\ c["text"] = t /\ c["calls"] = l /\ c["finish"] = f
      /\ a["blocks"] = b /\ a["text"] = t /\ a["calls"] = l /\ a["finish"] = f
  BY DEF Client
<1> QED
  BY <1>1, <1>2

LEMMA WholeAtEnd ==
    ASSUME AnswerInv, asked.stream, run.phase = "ended", up.completed, ~run.disturbed
    PROVE  /\ Whole(asked.route, up, got) /\ up.output \in Seq(Items)
           /\ asked.route \in Routes
BY DEF AnswerInv, OverInv, Upstream

\* What a client assembles from the stream is what the answer converted as a whole would have
\* given it (convert_stream_event against to_anthropic_response and convert_non_stream_response),
\* with the exceptions of SameAsWhole: an overtaken block or arguments that do not parse on the
\* Messages route, several calls or text of other events on the Chat route.
THEOREM StreamIsAnswer == Spec => []StreamMatchesAnswer
<1>1. ASSUME AnswerInv PROVE StreamMatchesAnswer
  <2>1. SUFFICES ASSUME asked.stream, run.phase = "ended", up.completed, ~run.disturbed,
                        SameAsWhole
                 PROVE  \A part \in DOMAIN NoAnswer : got[part] = Answer(up.output)[part]
    BY DEF StreamMatchesAnswer
  <2>2. Whole(asked.route, up, got) /\ asked.route \in Routes /\ up.output \in Seq(Items)
    BY <1>1, <2>1, WholeAtEnd
  <2>p. asked.route = "messages" => Parsed(up.output) = up.output
    BY <2>1, <2>2, AllParsed DEF SameAsWhole
  <2> DEFINE o == up.output
             a == Answer(o)
  <2>3. CASE asked.route = "messages"
    <3>1. /\ got = Client(Blocks(o), <<>>, <<>>, StopReason(o), 1, {})
          /\ a = [blocks |-> Blocks(o), text |-> <<>>, calls |-> <<>>, finish |-> StopReason(o)]
      BY <2>1, <2>2, <2>p, <2>3, AnswerIs DEF Whole, SameAsWhole
    <3> HIDE DEF a
    <3>2. \A part \in DOMAIN NoAnswer : got[part] = a[part]
      BY <3>1, SameAnswer
    <3> QED
      BY <3>2 DEF a
  <2>4. CASE asked.route = "chat"
    <3>1. /\ got = Client(<<>>, TextOf(o), Calls(o), StopReason(o), 1, {})
          /\ a = [blocks |-> <<>>, text |-> TextOf(o), calls |-> Calls(o), finish |-> StopReason(o)]
      BY <2>1, <2>2, <2>p, <2>4, AnswerIs DEF Whole, SameAsWhole
    <3> HIDE DEF a
    <3>2. \A part \in DOMAIN NoAnswer : got[part] = a[part]
      BY <3>1, SameAnswer
    <3> QED
      BY <3>2 DEF a
  <2>5. CASE asked.route = "responses"
    <3>1. /\ got = Client(o, <<>>, <<>>, "stop", 1, {})
          /\ a = [blocks |-> o, text |-> <<>>, calls |-> <<>>, finish |-> "stop"]
      BY <2>2, <2>p, <2>5, AnswerIs DEF Whole
    <3> HIDE DEF a
    <3>2. \A part \in DOMAIN NoAnswer : got[part] = a[part]
      BY <3>1, SameAnswer
    <3> QED
      BY <3>2 DEF a
  <2> QED
    BY <2>2, <2>3, <2>4, <2>5 DEF Routes
<1> QED
  BY <1>1, AnswerInvariant, PTL

----------------------------------------------------------------------------
(* The answer as history.                                                  *)

Turns == [kind : {"message", "function_call"}, call : Call \cup {NoCall}, parts : Seq(Seq(Token))]
NoInput == [items |-> <<>>, pending |-> <<>>]

\* What the adapter has made of the first n blocks.
InputRun(blocks, m, h) ==
    h = [n \in 0..m |-> IF n = 0 THEN NoInput ELSE InputBlock(h[n - 1], blocks[n])]

LEMMA InputRunExists ==
    ASSUME NEW blocks
    PROVE  \A m \in Nat : \E h : InputRun(blocks, m, h)
<1> DEFINE T == {m \in Nat : \E h : InputRun(blocks, m, h)}
<1>1. 0 \in T
  <2>1. InputRun(blocks, 0, [n \in 0..0 |-> NoInput])
    BY DEF InputRun
  <2> QED
    BY <2>1
<1>2. ASSUME NEW m \in Nat, m \in T PROVE m + 1 \in T
  <2>1. PICK h : InputRun(blocks, m, h)
    BY <1>2
  <2> DEFINE g == [n \in 0..(m + 1) |-> IF n = m + 1 THEN InputBlock(h[m], blocks[m + 1]) ELSE h[n]]
  <2>2. ASSUME NEW n \in 0..(m + 1)
        PROVE  g[n] = IF n = 0 THEN NoInput ELSE InputBlock(g[n - 1], blocks[n])
    <3>1. CASE n = m + 1
      <4>1. m \in 0..(m + 1) /\ m # m + 1 /\ n - 1 = m /\ n # 0
        BY <3>1
      <4>2. g[n - 1] = h[m] /\ g[n] = InputBlock(h[m], blocks[n])
        BY <3>1, <4>1
      <4> QED
        BY <4>1, <4>2
    <3>2. CASE n # m + 1
      <4>1. n \in 0..m /\ g[n] = h[n] /\ (n # 0 => g[n - 1] = h[n - 1])
        BY <3>2
      <4> HIDE DEF g
      <4> QED
        BY <4>1, <2>1 DEF InputRun
    <3> QED
      BY <3>1, <3>2
  <2>3. InputRun(blocks, m + 1, g)
    BY <2>2 DEF InputRun
  <2> QED
    BY <2>3
<1>3. Nat \subseteq T
  <2> HIDE DEF T
  <2> QED
    BY <1>1, <1>2, Induct
<1> QED
  BY <1>3

LEMMA InputSteps ==
    ASSUME NEW blocks, NEW h, NEW m, m \in Nat, InputRun(blocks, m, h)
    PROVE  /\ h[0] = NoInput
           /\ \A n \in Nat : n < m => h[n + 1] = InputBlock(h[n], blocks[n + 1])
<1>1. \A k \in 0..m : h[k] = IF k = 0 THEN NoInput ELSE InputBlock(h[k - 1], blocks[k])
  BY Zenon DEF InputRun
<1>2. h[0] = NoInput
  BY <1>1
<1>3. ASSUME NEW n \in Nat, n < m PROVE h[n + 1] = InputBlock(h[n], blocks[n + 1])
  <2>1. n + 1 \in 0..m /\ n + 1 # 0 /\ (n + 1) - 1 = n
    BY <1>3
  <2>2. h[n + 1] = IF n + 1 = 0 THEN NoInput ELSE InputBlock(h[(n + 1) - 1], blocks[n + 1])
    BY <1>1, <2>1
  <2> QED
    BY <2>1, <2>2
<1> QED
  BY <1>2, <1>3

LEMMA MessagesInputIs ==
    ASSUME NEW blocks, Len(blocks) \in Nat
    PROVE  \E h : /\ InputRun(blocks, Len(blocks), h)
                  /\ MessagesInput(blocks) = FlushPending(h[Len(blocks)]).items
<1> DEFINE g == CHOOSE h : InputRun(blocks, Len(blocks), h)
<1>1. InputRun(blocks, Len(blocks), g)
  BY InputRunExists, Zenon
<1>2. MessagesInput(blocks) = FlushPending(g[Len(blocks)]).items
  BY Zenon DEF InputRun, MessagesInput, NoInput
<1> QED
  BY <1>1, <1>2, Zenon

LEMMA PartsAppend ==
    ASSUME NEW items \in Seq(Turns), NEW t \in Turns
    PROVE  Parts(Append(items, t)) = Parts(items) \o PartsOf(t)
<1> DEFINE u == Append(items, t)
           a == [i \in DOMAIN items |-> PartsOf(items[i])]
           b == [i \in DOMAIN u |-> PartsOf(u[i])]
<1>1. /\ Len(items) \in Nat /\ Len(u) = Len(items) + 1 /\ u[Len(items) + 1] = t
      /\ DOMAIN items = 1..Len(items) /\ DOMAIN u = 1..Len(u)
      /\ \A n \in 1..Len(items) : u[n] = items[n]
  OBVIOUS
<1> HIDE DEF u
<1>2. /\ Len(a) = Len(items) /\ Len(b) = Len(a) + 1 /\ b[Len(b)] = PartsOf(t)
      /\ \A n \in 1..Len(a) : a[n] = b[n]
  BY <1>1
<1>3. Joined(b) = Joined(a) \o b[Len(b)]
  <2> HIDE DEF a, b
  <2> QED
    BY <1>1, <1>2, JoinedLast
<1> QED
  BY <1>2, <1>3 DEF Parts, u

LEMMA PartsEmpty == Parts(<<>>) = <<>>
<1>1. Len([i \in DOMAIN <<>> |-> PartsOf(<<>>[i])]) = 0
  OBVIOUS
<1> QED
  BY <1>1, JoinedEmpty DEF Parts

\* Text blocks that wait for the next call.
Waiting(texts) == [j \in DOMAIN texts |-> Item("message", NoCall, texts[j])]

LEMMA WaitingAppend ==
    ASSUME NEW p \in Seq(Seq(Token)), NEW b \in Seq(Token)
    PROVE  /\ Waiting(p) \in Seq(Items)
           /\ Waiting(Append(p, b)) = Append(Waiting(p), Item("message", NoCall, b))
<1> DEFINE i == Item("message", NoCall, b)
           q == Append(p, b)
<1>1. i \in Items /\ \A j \in 1..Len(p) : Item("message", NoCall, p[j]) \in Items
  <2>1. \A j \in 1..Len(p) : p[j] \in Seq(Token)
    OBVIOUS
  <2> QED
    BY <2>1, ItemTyped
<1>2. /\ q \in Seq(Seq(Token)) /\ Len(q) = Len(p) + 1 /\ q[Len(p) + 1] = b
      /\ \A j \in 1..Len(p) : q[j] = p[j]
      /\ DOMAIN p = 1..Len(p) /\ DOMAIN q = 1..(Len(p) + 1) /\ Len(p) \in Nat
  OBVIOUS
<1>3. Waiting(p) \in Seq(Items) /\ Len(Waiting(p)) = Len(p) /\ DOMAIN Waiting(p) = 1..Len(p)
  <2> HIDE DEF q, i
  <2> QED
    BY <1>1, <1>2 DEF Waiting
<1>4. Waiting(q) = Append(Waiting(p), i)
  <2>1. DOMAIN Append(Waiting(p), i) = 1..(Len(p) + 1)
    BY <1>1, <1>3
  <2>2. \A j \in 1..(Len(p) + 1) : Waiting(q)[j] = Append(Waiting(p), i)[j]
    <3>1. Append(Waiting(p), i)[Len(p) + 1] = i
      BY <1>1, <1>3
    <3>2. \A j \in 1..Len(p) : Append(Waiting(p), i)[j] = Waiting(p)[j]
      BY <1>1, <1>3
    <3>3. \A j \in 1..Len(p) : Waiting(q)[j] = Waiting(p)[j]
      <4> HIDE DEF q
      <4> QED
        BY <1>2 DEF Waiting
    <3>4. Waiting(q)[Len(p) + 1] = i
      <4> HIDE DEF q
      <4> QED
        BY <1>2 DEF Waiting
    <3> HIDE DEF q, i
    <3>5. \A j \in 1..(Len(p) + 1) : j \in 1..Len(p) \/ j = Len(p) + 1
      BY <1>2
    <3> QED
      BY <3>1, <3>2, <3>3, <3>4, <3>5
  <2>3. Waiting(q) = [j \in 1..(Len(p) + 1) |-> Waiting(q)[j]]
    <3> HIDE DEF q
    <3> QED
      BY <1>2 DEF Waiting
  <2> DEFINE w == Append(Waiting(p), i)
  <2>4. w = [j \in 1..(Len(p) + 1) |-> w[j]]
    <3>1. w \in Seq(Items)
      BY <1>1, <1>3
    <3> HIDE DEF w, i
    <3>2. w = [j \in DOMAIN w |-> w[j]]
      BY <3>1
    <3>3. DOMAIN w = 1..(Len(p) + 1)
      BY <2>1 DEF w
    <3> QED
      BY <3>2, <3>3
  <2> HIDE DEF q, i
  <2> QED
    BY <2>2, <2>3, <2>4
<1> QED
  BY <1>3, <1>4

\* The items made so far, and the texts that wait, are the blocks read so far.
Covers(acc, blocks) ==
    /\ acc = [items |-> acc.items, pending |-> acc.pending]
    /\ acc.items \in Seq(Turns) /\ acc.pending \in Seq(Seq(Token))
    /\ Parts(acc.items) \in Seq(Items)
    /\ Parts(acc.items) \o Waiting(acc.pending) = blocks

LEMMA WaitingNone == Waiting(<<>>) = <<>>
BY DEF Waiting

LEMMA NothingMore == ASSUME NEW S, NEW s \in Seq(S) PROVE s \o <<>> = s
OBVIOUS

\* The waiting texts become one item.
LEMMA FlushCovers ==
    ASSUME NEW acc, NEW blocks, Covers(acc, blocks)
    PROVE  LET f == FlushPending(acc)
           IN  /\ f.items \in Seq(Turns) /\ Parts(f.items) = blocks
               /\ f = [items |-> f.items, pending |-> <<>>]
<1> DEFINE f == FlushPending(acc)
<1>0. /\ acc = [items |-> acc.items, pending |-> acc.pending]
      /\ acc.items \in Seq(Turns) /\ acc.pending \in Seq(Seq(Token))
      /\ Parts(acc.items) \in Seq(Items)
      /\ Parts(acc.items) \o Waiting(acc.pending) = blocks
  BY DEF Covers
<1>1. CASE acc.pending = <<>>
  <2>1. f = acc
    BY <1>1 DEF FlushPending
  <2>2. Parts(acc.items) \o <<>> = blocks
    BY <1>0, <1>1, WaitingNone
  <2>3. Parts(acc.items) = blocks
    BY <1>0, <2>2, NothingMore
  <2> HIDE DEF f
  <2>4. f.items \in Seq(Turns) /\ Parts(f.items) = blocks
    BY <1>0, <2>1, <2>3
  <2>5. f = [items |-> f.items, pending |-> <<>>]
    BY <1>0, <1>1, <2>1
  <2> QED
    BY <2>4, <2>5 DEF f
<1>2. CASE acc.pending # <<>>
  <2> DEFINE t == [kind |-> "message", call |-> NoCall, parts |-> acc.pending]
             items == acc.items
             g == Append(items, t)
  <2>1. f = [items |-> g, pending |-> <<>>]
    BY <1>2 DEF FlushPending
  <2>2. t \in Turns
    BY <1>0 DEF Turns
  <2>3. PartsOf(t) = Waiting(acc.pending)
    BY DEF PartsOf, Waiting
  <2>4. items \in Seq(Turns) /\ Parts(items) \o PartsOf(t) = blocks
    BY <1>0, <2>3
  <2> HIDE DEF t, f, items
  <2>5. Parts(g) = blocks
    BY <2>2, <2>4, PartsAppend
  <2>6. g \in Seq(Turns)
    BY <2>2, <2>4
  <2> HIDE DEF g
  <2>7. f.items = g /\ f.pending = <<>>
    BY <2>1
  <2> QED
    BY <2>1, <2>5, <2>6, <2>7 DEF f
<1> QED
  BY <1>1, <1>2

LEMMA AppendOne ==
    ASSUME NEW S, NEW s \in Seq(S), NEW t \in Seq(S), NEW e \in S
    PROVE  s \o Append(t, e) = Append(s \o t, e)
OBVIOUS

\* One block more is covered, whatever its kind.
LEMMA BlockCovers ==
    ASSUME NEW acc, NEW p \in Seq(Items), NEW b \in Items, Covers(acc, p)
    PROVE  Covers(InputBlock(acc, b), Append(p, b))
<1> DEFINE x == InputBlock(acc, b)
<1>0. /\ acc = [items |-> acc.items, pending |-> acc.pending]
      /\ acc.items \in Seq(Turns) /\ acc.pending \in Seq(Seq(Token))
      /\ Parts(acc.items) \in Seq(Items)
      /\ Parts(acc.items) \o Waiting(acc.pending) = p
  BY DEF Covers
<1>1. b.body \in Seq(Token) /\ b.call \in Call \cup {NoCall} /\ b = Item(b.kind, b.call, b.body)
  BY ItemFields
<1>2. CASE b.kind = "message"
  <2> DEFINE n == Append(acc.pending, b.body)
  <2>1. x = [acc EXCEPT !.pending = n]
    BY <1>2 DEF InputBlock
  <2>2. n \in Seq(Seq(Token))
    BY <1>0, <1>1
  <2>3. b = Item("message", NoCall, b.body)
    BY <1>1, <1>2, ItemFields
  <2>4. Waiting(acc.pending) \in Seq(Items) /\ Waiting(n) = Append(Waiting(acc.pending), b)
    BY <1>0, <1>1, <2>3, WaitingAppend
  <2>5. Parts(acc.items) \o Waiting(n) = Append(p, b)
    BY <1>0, <2>4, AppendOne
  <2> HIDE DEF n, x
  <2>6. x = [items |-> acc.items, pending |-> n]
    BY <1>0, <2>1
  <2>7. x.items = acc.items /\ x.pending = n
    BY <2>6
  <2> QED
    BY <1>0, <2>2, <2>5, <2>6, <2>7 DEF Covers, x
<1>3. CASE b.kind # "message"
  <2> DEFINE f == FlushPending(acc)
             t == [kind |-> "function_call", call |-> b.call, parts |-> <<b.body>>]
             g == Append(f.items, t)
  <2>1. /\ f.items \in Seq(Turns) /\ Parts(f.items) = p
        /\ f = [items |-> f.items, pending |-> <<>>]
    BY FlushCovers
  <2>2. x = [f EXCEPT !.items = g]
    BY <1>3 DEF InputBlock
  <2>3. t \in Turns
    BY <1>1 DEF Turns
  <2>4. PartsOf(t) = <<b>>
    <3>1. b = Item("function_call", b.call, b.body)
      BY <1>1, <1>3, ItemFields
    <3>2. PartsOf(t) = [j \in 1..1 |-> Item("function_call", b.call, t.parts[j])]
      BY DEF PartsOf
    <3>3. \A j \in 1..1 : Item("function_call", b.call, t.parts[j]) = b
      BY <3>1
    <3> QED
      BY <3>2, <3>3
  <2> HIDE DEF f, t
  <2>5. Parts(g) = p \o <<b>>
    BY <2>1, <2>3, <2>4, PartsAppend
  <2>6. g \in Seq(Turns)
    BY <2>1, <2>3
  <2>7. p \o <<b>> = Append(p, b) /\ Append(p, b) \in Seq(Items) /\ Append(p, b) \o <<>> = Append(p, b)
    OBVIOUS
  <2> HIDE DEF g, x
  <2>8. x = [items |-> g, pending |-> <<>>]
    BY <2>1, <2>2
  <2>9. x.items = g /\ x.pending = <<>>
    BY <2>8
  <2>10. Parts(x.items) \o Waiting(x.pending) = Append(p, b) /\ Parts(x.items) \in Seq(Items)
    BY <2>5, <2>7, <2>9, WaitingNone
  <2>11. x.items \in Seq(Turns) /\ x.pending \in Seq(Seq(Token))
    BY <2>6, <2>9
  <2>12. x = [items |-> x.items, pending |-> x.pending]
    BY <2>8, <2>9
  <2>13. Covers(x, Append(p, b))
    BY <2>10, <2>11, <2>12 DEF Covers
  <2> QED
    BY <2>13 DEF x
<1> QED
  BY <1>2, <1>3

LEMMA NoInputCovers == Covers(NoInput, <<>>)
<1>1. Parts(<<>>) \o Waiting(<<>>) = <<>>
  BY PartsEmpty, WaitingNone
<1>2. NoInput.items = <<>> /\ NoInput.pending = <<>> /\ NoInput = [items |-> <<>>, pending |-> <<>>]
  BY DEF NoInput
<1> HIDE DEF NoInput
<1>3. <<>> \in Seq(Turns) /\ <<>> \in Seq(Seq(Token)) /\ <<>> \in Seq(Items)
  OBVIOUS
<1> QED
  BY <1>1, <1>2, <1>3, PartsEmpty DEF Covers

LEMMA PrefixAppend ==
    ASSUME NEW S, NEW s \in Seq(S), NEW n \in Nat, n < Len(s)
    PROVE  /\ [i \in 1..(n + 1) |-> s[i]] = Append([i \in 1..n |-> s[i]], s[n + 1])
           /\ [i \in 1..n |-> s[i]] \in Seq(S) /\ s[n + 1] \in S
OBVIOUS

\* Blocks come back as the items they are.
LEMMA MessagesInputKeeps ==
    ASSUME NEW s \in Seq(Items)
    PROVE  Parts(MessagesInput(s)) = s
<1>1. Len(s) \in Nat /\ s = [i \in 1..Len(s) |-> s[i]]
  OBVIOUS
<1>2. PICK h : InputRun(s, Len(s), h) /\ MessagesInput(s) = FlushPending(h[Len(s)]).items
  BY <1>1, MessagesInputIs
<1> DEFINE P(n) == [i \in 1..n |-> s[i]]
           T == {n \in Nat : n <= Len(s) => Covers(h[n], P(n))}
<1>3. 0 \in T
  <2>1. P(0) = <<>>
    OBVIOUS
  <2>2. h[0] = NoInput
    BY <1>1, <1>2, InputSteps
  <2> HIDE DEF P
  <2> QED
    BY <2>1, <2>2, NoInputCovers
<1>4. ASSUME NEW n \in Nat, n \in T PROVE n + 1 \in T
  <2>1. SUFFICES ASSUME n + 1 <= Len(s) PROVE Covers(h[n + 1], P(n + 1))
    OBVIOUS
  <2>2. n < Len(s) /\ n <= Len(s)
    BY <1>1, <2>1
  <2>3. P(n + 1) = Append(P(n), s[n + 1]) /\ P(n) \in Seq(Items) /\ s[n + 1] \in Items
    BY <2>2, PrefixAppend
  <2>4. h[n + 1] = InputBlock(h[n], s[n + 1])
    BY <1>1, <1>2, <2>2, InputSteps
  <2> HIDE DEF P
  <2>5. Covers(h[n], P(n))
    BY <1>4, <2>2
  <2> QED
    BY <2>3, <2>4, <2>5, BlockCovers
<1>5. Nat \subseteq T
  <2> HIDE DEF T
  <2> QED
    BY <1>3, <1>4, Induct
<1>6. Covers(h[Len(s)], s)
  <2>1. Covers(h[Len(s)], P(Len(s)))
    <3> HIDE DEF P
    <3> QED
      BY <1>1, <1>5
  <2> QED
    BY <1>1, <2>1
<1> QED
  BY <1>2, <1>6, FlushCovers

LEMMA PartsOne ==
    ASSUME NEW k \in {"message", "function_call"}, NEW c \in Call \cup {NoCall}, NEW b \in Seq(Token),
           k = "message" => c = NoCall
    PROVE  Parts(<< [kind |-> k, call |-> c, parts |-> <<b>>] >>) = << Item(k, c, b) >>
<1> DEFINE t == [kind |-> k, call |-> c, parts |-> <<b>>]
           e == Item(k, c, b)
<1>1. t \in Turns
  BY DEF Turns
<1>2. PartsOf(t) = <<e>>
  <2>1. PartsOf(t) = [j \in 1..1 |-> Item(k, c, t.parts[j])]
    BY DEF PartsOf
  <2>2. \A j \in 1..1 : Item(k, c, t.parts[j]) = e
    OBVIOUS
  <2> HIDE DEF e
  <2> QED
    BY <2>1, <2>2
<1>3. e \in Items
  BY ItemTyped
<1> HIDE DEF t, e
<1>4. Parts(Append(<<>>, t)) = Parts(<<>>) \o PartsOf(t)
  <2>1. <<>> \in Seq(Turns)
    OBVIOUS
  <2> QED
    BY <1>1, <2>1, PartsAppend
<1>5. Append(<<>>, t) = <<t>> /\ <<>> \o <<e>> = <<e>>
  OBVIOUS
<1> QED
  BY <1>2, <1>4, <1>5, PartsEmpty DEF t, e

LEMMA CallsAreCalls ==
    ASSUME NEW s \in Seq(Items), NEW j \in DOMAIN Calls(s)
    PROVE  IsCall(Calls(s)[j])
<1> DEFINE S == {i \in Items : IsCall(i)}
           I == {i \in DOMAIN s : IsCall(s[i])}
<1>1. Len(s) \in Nat /\ \A n \in 1..Len(s) : n \in I => s[n] \in S
  OBVIOUS
<1>2. Kept(s, I) \in Seq(S)
  <2> HIDE DEF S, I
  <2> QED
    BY <1>1, KeptIn
<1>3. Calls(s) \in Seq(S)
  BY <1>2 DEF Calls
<1> QED
  BY <1>3

LEMMA CallsIfAny == ASSUME NEW s \in Seq(Items) PROVE Calls(s) # <<>> <=> HasCall(s)
<1> DEFINE I == {i \in DOMAIN s : IsCall(s[i])}
<1>1. HasCall(s) <=> \E i \in 1..Len(s) : i \in I
  BY DEF HasCall
<1> HIDE DEF I
<1> QED
  BY <1>1, KeptSome DEF Calls, I

\* Nor does the Chat adapter lose what it sends back.
LEMMA ChatInputKeeps ==
    ASSUME NEW text \in Seq(Token), NEW calls \in Seq(Items), Len(calls) <= 1,
           \A j \in DOMAIN calls : IsCall(calls[j])
    PROVE  Parts(ChatInput(text, calls)) =
               IF calls # <<>> THEN calls ELSE << Item("message", NoCall, text) >>
<1>1. CASE calls # <<>>
  <2> DEFINE c == calls[1]
  <2>0. Len(calls) = 1 /\ 1 \in DOMAIN calls
    <3>1. Len(calls) \in Nat /\ Len(calls) # 0 /\ DOMAIN calls = 1..Len(calls)
      BY <1>1
    <3> QED
      BY <3>1
  <2>1. c \in Items /\ IsCall(c) /\ calls = <<c>>
    BY <2>0
  <2>2. c = Item("function_call", c.call, c.body) /\ c.call \in Call \cup {NoCall} /\ c.body \in Seq(Token)
    BY <2>1, ItemFields DEF IsCall
  <2>3. ChatInput(text, calls) = << [kind |-> "function_call", call |-> c.call, parts |-> <<c.body>>] >>
    <3>1. DOMAIN calls = 1..1
      BY <2>0
    <3>2. ChatInput(text, calls) =
            [i \in 1..1 |-> [kind |-> "function_call", call |-> calls[i].call, parts |-> <<calls[i].body>>]]
      BY <1>1, <3>1 DEF ChatInput
    <3> QED
      BY <3>2
  <2> HIDE DEF c
  <2> QED
    BY <1>1, <2>1, <2>2, <2>3, PartsOne
<1>2. CASE calls = <<>>
  <2>1. ChatInput(text, calls) = << [kind |-> "message", call |-> NoCall, parts |-> <<text>>] >>
    BY <1>2 DEF ChatInput
  <2> QED
    BY <1>2, <2>1, PartsOne
<1> QED
  BY <1>1, <1>2

\* An answer the client has read reaches the backend, in its next request, as the items it had
\* come from, in order, with the exceptions of SameAsWhole (_messages_to_input_items of both
\* adapters).
THEOREM HistoryIsKept == Spec => []HistoryKept
<1>1. ASSUME AnswerInv PROVE HistoryKept
  <2> DEFINE o == up.output
  <2>1. SUFFICES ASSUME asked.stream, run.phase = "ended", up.completed, ~run.disturbed, SameAsWhole
                 PROVE  /\ asked.route = "messages" =>
                              Parts(MessagesInput(got.blocks)) = Answer(o).blocks
                        /\ asked.route = "chat" =>
                              Parts(ChatInput(got.text, got.calls)) =
                                  IF HasCall(o) THEN Calls(o)
                                  ELSE << Item("message", NoCall, Answer(o).text) >>
    BY DEF HistoryKept
  <2>2. Whole(asked.route, up, got) /\ o \in Seq(Items) /\ asked.route \in Routes
    BY <1>1, <2>1, WholeAtEnd
  <2>p. asked.route = "messages" => Parsed(o) = o
    BY <2>1, <2>2, AllParsed DEF SameAsWhole
  <2>3. ASSUME asked.route = "messages"
        PROVE  Parts(MessagesInput(got.blocks)) = Answer(o).blocks
    <3>1. got.blocks = Blocks(o)
      BY <2>1, <2>2, <2>3 DEF Whole, SameAsWhole, Client
    <3>2. Answer(o).blocks = Blocks(o)
      BY <2>3, <2>p, AnswerIs
    <3>3. Blocks(o) \in Seq(Items)
      BY <2>2, SelectedTyped
    <3> HIDE DEF o
    <3> QED
      BY <3>1, <3>2, <3>3, MessagesInputKeeps
  <2>4. ASSUME asked.route = "chat"
        PROVE  Parts(ChatInput(got.text, got.calls)) =
                   IF HasCall(o) THEN Calls(o) ELSE << Item("message", NoCall, Answer(o).text) >>
    <3>0. Len(Calls(o)) <= 1
      BY <2>1, <2>4 DEF SameAsWhole
    <3>1. got.text = TextOf(o) /\ got.calls = Calls(o)
      BY <2>1, <2>2, <2>4 DEF Whole, SameAsWhole, Client
    <3>2. Answer(o).text = TextOf(o)
      BY <2>4, AnswerIs
    <3> HIDE DEF o
    <3>3. Calls(o) \in Seq(Items) /\ TextOf(o) \in Seq(Token)
      BY <2>2, SelectedTyped
    <3>4. Calls(o) # <<>> <=> HasCall(o)
      BY <2>2, CallsIfAny
    <3>5. \A j \in DOMAIN Calls(o) : IsCall(Calls(o)[j])
      BY <2>2, CallsAreCalls
    <3>6. Parts(ChatInput(TextOf(o), Calls(o))) =
            IF Calls(o) # <<>> THEN Calls(o) ELSE << Item("message", NoCall, TextOf(o)) >>
      BY <3>0, <3>3, <3>5, ChatInputKeeps
    <3> QED
      BY <3>1, <3>2, <3>4, <3>6
  <2> QED
    BY <2>3, <2>4
<1> QED
  BY <1>1, AnswerInvariant, PTL
=============================================================================
