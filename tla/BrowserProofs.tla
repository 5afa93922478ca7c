---------------------------- MODULE BrowserProofs ----------------------------
(***************************************************************************)
(* The terminal browser, proved for every set of texts, filters and nodes: *)
(* the list shows the newest query's hits in display order and at most one *)
(* query is left running; the cursor stays on the list; the pane settles   *)
(* on the row under the cursor; the micrograph's history is a walk.        *)
(***************************************************************************)
EXTENDS Browser, SequenceTheorems, FiniteSetTheorems, TLAPS

-----------------------------------------------------------------------------
(***************************************************************************)
(* Sequences put end to end.                                               *)
(***************************************************************************)
LEMMA Least ==
  ASSUME NEW S \in SUBSET Nat, S # {}
  PROVE  \E m \in S : \A i \in S : m <= i
<1> DEFINE R == {ss \in Nat \X Nat : ss[1] < ss[2]}
<1>1. IsWellFoundedOn(R, Nat)
  BY NatLessThanWellFounded, Zenon DEF OpToRel
<1>2. PICK m \in S : \A i \in S : ~ (<<i, m>> \in R)
  <2> HIDE DEF R
  <2> QED BY <1>1, WFMin
<1>3. ASSUME NEW i \in S, i < m PROVE FALSE
  <2>1. <<i, m>> \in R
    BY <1>3
  <2> QED BY <1>2, <2>1
<1> QED BY <1>3

\* f[k] is the first k members of s, end to end.
Joins(T, s, f, n) ==
  /\ f \in [0 .. n -> Seq(T)] /\ f[0] = <<>>
  /\ \A i \in 1 .. n : f[i] = f[i - 1] \o s[i]

LEMMA JoinsExist ==
  ASSUME NEW T, NEW s \in Seq(Seq(T)), NEW n \in 0 .. Len(s)
  PROVE  \E f : Joins(T, s, f, n)
<1> DEFINE bad == {m \in 0 .. Len(s) : ~ \E f : Joins(T, s, f, m)}
<1>1. SUFFICES ASSUME bad # {} PROVE FALSE
  OBVIOUS
<1>2. PICK m \in bad : \A i \in bad : m <= i
  <2>1. bad \in SUBSET Nat
    OBVIOUS
  <2> HIDE DEF bad
  <2> QED BY <1>1, <2>1, Least
<1>3. m # 0
  <2>1. Joins(T, s, [i \in 0 .. 0 |-> <<>>], 0)
    BY DEF Joins
  <2> QED BY <2>1
<1>4. m \in Nat /\ m - 1 \in 0 .. Len(s) /\ m \in 1 .. Len(s) /\ ~ (m <= m - 1)
  BY <1>3
<1>5. PICK f : Joins(T, s, f, m - 1)
  BY <1>2, <1>4
<1> DEFINE g == [i \in 0 .. m |-> IF i = m THEN f[m - 1] \o s[m] ELSE f[i]]
<1>6. f[m - 1] \o s[m] \in Seq(T)
  <2>1. f[m - 1] \in Seq(T) /\ s[m] \in Seq(T)
    BY <1>4, <1>5 DEF Joins
  <2> QED BY <2>1
<1>7. Joins(T, s, g, m)
  <2>1. g \in [0 .. m -> Seq(T)]
    BY <1>4, <1>5, <1>6 DEF Joins
  <2>2. g[0] = <<>>
    BY <1>4, <1>5 DEF Joins
  <2>3. ASSUME NEW i \in 1 .. m PROVE g[i] = g[i - 1] \o s[i]
    <3>1. i \in 0 .. m /\ i - 1 \in 0 .. m /\ i - 1 # m
      BY <1>4
    <3>2. g[i - 1] = f[i - 1]
      BY <3>1
    <3>3. CASE i = m
      BY <3>1, <3>2, <3>3
    <3>4. CASE i # m
      <4>1. g[i] = f[i]
        BY <3>1, <3>4
      <4>2. f[i] = f[i - 1] \o s[i]
        <5>1. i \in 1 .. m - 1
          BY <1>4, <3>4
        <5> QED BY <1>5, <5>1 DEF Joins
      <4> QED BY <3>2, <4>1, <4>2
    <3> QED BY <3>3, <3>4
  <2> HIDE DEF g
  <2> QED BY <2>1, <2>2, <2>3 DEF Joins
<1> QED BY <1>7

\* FlattenSeq is such a sequence's last member.
Rec(s, f) == f = [i \in 1 .. Len(s) |-> IF i = 1 THEN s[i] ELSE f[i - 1] \o s[i]]

LEMMA JoinIs ==
  ASSUME NEW T, NEW s \in Seq(Seq(T)), NEW f, Joins(T, s, f, Len(s))
  PROVE  FlattenSeq(s) = f[Len(s)]
<1>1. CASE Len(s) = 0
  <2>1. s = <<>>
    BY <1>1
  <2> QED BY <1>1, <2>1 DEF FlattenSeq, Joins
<1>2. CASE Len(s) # 0
  <2> DEFINE h == [i \in 1 .. Len(s) |-> f[i]]
  <2>1. Rec(s, h)
    <3>1. ASSUME NEW i \in 1 .. Len(s)
          PROVE  h[i] = IF i = 1 THEN s[i] ELSE h[i - 1] \o s[i]
      <4>1. f[i] = f[i - 1] \o s[i]
        BY DEF Joins
      <4>2. CASE i = 1
        <5>1. f[i - 1] = <<>> /\ s[i] \in Seq(T)
          BY <4>2 DEF Joins
        <5> QED BY <4>1, <4>2, <5>1, ConcatEmptySeq
      <4>3. CASE i # 1
        <5>1. i - 1 \in 1 .. Len(s)
          BY <4>3
        <5>2. h[i - 1] = f[i - 1] /\ h[i] = f[i]
          BY <5>1
        <5> HIDE DEF h
        <5> QED BY <4>1, <4>3, <5>2
      <4> QED BY <4>2, <4>3
    <3> QED BY <3>1 DEF Rec
  <2>2. ASSUME NEW g, Rec(s, g) PROVE g = h
    <3> DEFINE bad == {i \in 1 .. Len(s) : g[i] # h[i]}
    <3>1. /\ DOMAIN g = 1 .. Len(s)
          /\ \A i \in 1 .. Len(s) : g[i] = IF i = 1 THEN s[i] ELSE g[i - 1] \o s[i]
          /\ g = [i \in 1 .. Len(s) |-> g[i]]
      BY <2>2 DEF Rec
    <3>2. \A i \in 1 .. Len(s) : h[i] = IF i = 1 THEN s[i] ELSE h[i - 1] \o s[i]
      <4> HIDE DEF h
      <4> QED BY <2>1 DEF Rec
    <3>3. ASSUME bad # {} PROVE FALSE
      <4>1. bad \in SUBSET Nat
        OBVIOUS
      <4>2. PICK m \in bad : \A i \in bad : m <= i
        <5> HIDE DEF bad
        <5> QED BY <3>3, <4>1, Least
      <4>3. m # 1
        BY <3>1, <3>2
      <4>4. m \in 1 .. Len(s) /\ m - 1 \in 1 .. Len(s) /\ ~ (m <= m - 1)
        BY <4>3
      <4>5. g[m - 1] = h[m - 1]
        BY <4>2, <4>4
      <4> HIDE DEF h
      <4>6. g[m] = h[m]
        BY <3>1, <3>2, <4>3, <4>4, <4>5, ZenonT(60)
      <4> QED BY <4>6
    <3>4. \A i \in 1 .. Len(s) : g[i] = h[i]
      <4> HIDE DEF h
      <4> QED BY <3>3
    <3> QED BY <3>1, <3>4
  <2>3. FlattenSeq(s) = h[Len(s)]
    <3> HIDE DEF h
    <3>1. h = CHOOSE g : Rec(s, g)
      BY <2>1, <2>2, Zenon
    <3>2. FlattenSeq(s) =
            (CHOOSE g : g = [i \in 1 .. Len(s) |-> IF i = 1 THEN s[i] ELSE g[i - 1] \o s[i]])[Len(s)]
      BY <1>2, Zenon DEF FlattenSeq
    <3>3. (CHOOSE g : Rec(s, g)) =
            CHOOSE g : g = [i \in 1 .. Len(s) |-> IF i = 1 THEN s[i] ELSE g[i - 1] \o s[i]]
      BY Zenon DEF Rec
    <3> QED BY <3>1, <3>2, <3>3, Zenon
  <2> QED BY <1>2, <2>3
<1> QED BY <1>1, <1>2

LEMMA ListOf ==
  ASSUME NEW S, NEW n \in Nat, NEW f \in [1 .. n -> S]
  PROVE  f \in Seq(S) /\ Len(f) = n
OBVIOUS

\* The first members of a sequence.
LEMMA CutSeq ==
  ASSUME NEW S, NEW s \in Seq(S), NEW k \in 0 .. Len(s)
  PROVE  /\ SubSeq(s, 1, k) \in Seq(S) /\ Len(SubSeq(s, 1, k)) = k
         /\ \A i \in 1 .. k : SubSeq(s, 1, k)[i] = s[i]
<1>1. \A i \in 1 .. k : s[i] \in S
  OBVIOUS
<1>2. /\ SubSeq(s, 1, k) \in Seq(S)
      /\ Len(SubSeq(s, 1, k)) = IF 1 <= k THEN k - 1 + 1 ELSE 0
      /\ \A i \in 1 .. k - 1 + 1 : SubSeq(s, 1, k)[i] = s[1 + i - 1]
  BY <1>1, SubSeqProperties
<1>3. k - 1 + 1 = k /\ (~(1 <= k) => k = 0) /\ \A i \in 1 .. k : 1 + i - 1 = i
  OBVIOUS
<1> QED BY <1>2, <1>3, Zenon

\* What comes before a member does not depend on what follows.
LEMMA PrefixJoins ==
  ASSUME NEW T, NEW s \in Seq(Seq(T)), NEW f, Joins(T, s, f, Len(s)), NEW k \in 0 .. Len(s)
  PROVE  /\ SubSeq(s, 1, k) \in Seq(Seq(T)) /\ Len(SubSeq(s, 1, k)) = k
         /\ \A i \in 1 .. k : SubSeq(s, 1, k)[i] = s[i]
         /\ FlattenSeq(SubSeq(s, 1, k)) = f[k]
<1> DEFINE t == SubSeq(s, 1, k)  h == [i \in 0 .. k |-> f[i]]
<1>1. t \in Seq(Seq(T)) /\ Len(t) = k /\ \A i \in 1 .. k : t[i] = s[i]
  BY CutSeq
<1> HIDE DEF t
<1>2. Joins(T, t, h, k)
  <2>1. ASSUME NEW i \in 1 .. k PROVE h[i] = h[i - 1] \o t[i]
    <3>1. i \in 1 .. Len(s) /\ i \in 0 .. k /\ i - 1 \in 0 .. k
      OBVIOUS
    <3> QED BY <1>1, <3>1 DEF Joins
  <2>2. h \in [0 .. k -> Seq(T)] /\ h[0] = <<>>
    BY SMTT(60) DEF Joins
  <2> HIDE DEF h
  <2> QED BY <2>1, <2>2 DEF Joins
<1>3. FlattenSeq(t) = h[k]
  <2> HIDE DEF h
  <2> QED BY <1>1, <1>2, JoinIs
<1> QED BY <1>1, <1>3 DEF t

\* Where no member is empty, every further one makes the whole longer.
LEMMA Lengthens ==
  ASSUME NEW T, NEW s \in Seq(Seq(T)), \A i \in 1 .. Len(s) : s[i] # <<>>,
         NEW k \in 0 .. Len(s), k < Len(s)
  PROVE  /\ FlattenSeq(s) \in Seq(T) /\ FlattenSeq(SubSeq(s, 1, k)) \in Seq(T)
         /\ Len(FlattenSeq(SubSeq(s, 1, k))) < Len(FlattenSeq(s))
<1>1. PICK f : Joins(T, s, f, Len(s))
  <2>1. Len(s) \in 0 .. Len(s)
    OBVIOUS
  <2> QED BY <2>1, JoinsExist
<1>2. FlattenSeq(s) = f[Len(s)] /\ FlattenSeq(SubSeq(s, 1, k)) = f[k]
  BY <1>1, JoinIs, PrefixJoins
<1>3. ASSUME NEW i \in 0 .. Len(s) PROVE f[i] \in Seq(T) /\ Len(f[i]) \in Nat
  <2>1. f[i] \in Seq(T)
    BY <1>1 DEF Joins
  <2> QED BY <2>1
<1>4. ASSUME NEW i \in 1 .. Len(s) PROVE Len(f[i - 1]) < Len(f[i])
  <2>1. f[i] = f[i - 1] \o s[i]
    BY <1>1 DEF Joins
  <2>2. i - 1 \in 0 .. Len(s) /\ i \in 0 .. Len(s)
    OBVIOUS
  <2>3. f[i - 1] \in Seq(T) /\ Len(f[i - 1]) \in Nat /\ Len(f[i]) \in Nat
    BY <1>3, <2>2
  <2>4. s[i] \in Seq(T) /\ s[i] # <<>>
    OBVIOUS
  <2>5. Len(s[i]) \in Nat \ {0}
    BY <2>4, EmptySeq
  <2>6. Len(f[i]) = Len(f[i - 1]) + Len(s[i])
    BY <2>1, <2>3, <2>4, ConcatProperties
  <2>7. \A a, c \in Nat, b \in Nat \ {0} : c = a + b => a < c
    OBVIOUS
  <2> QED BY <2>3, <2>5, <2>6, <2>7, Zenon
<1> DEFINE bad == {i \in k + 1 .. Len(s) : ~ (Len(f[k]) < Len(f[i]))}
<1>5. ASSUME bad # {} PROVE FALSE
  <2>1. bad \in SUBSET Nat
    OBVIOUS
  <2>2. PICK m \in bad : \A i \in bad : m <= i
    <3> HIDE DEF bad
    <3> QED BY <1>5, <2>1, Least
  <2>3. m \in 1 .. Len(s) /\ m - 1 \in k .. Len(s) /\ ~ (m <= m - 1)
    OBVIOUS
  <2>4. Len(f[m - 1]) < Len(f[m])
    BY <1>4, <2>3
  <2>5. CASE m - 1 = k
    BY <2>4, <2>5
  <2>6. CASE m - 1 # k
    <3>1. m - 1 \in k + 1 .. Len(s) /\ m - 1 \in 0 .. Len(s) /\ m \in 0 .. Len(s)
      BY <2>3, <2>6
    <3>2. Len(f[k]) < Len(f[m - 1])
      BY <2>2, <2>3, <3>1
    <3> QED BY <1>3, <2>4, <3>1, <3>2, SMTT(60)
  <2> QED BY <2>5, <2>6
<1>6. Len(s) \in k + 1 .. Len(s) /\ Len(s) \in 0 .. Len(s)
  OBVIOUS
<1>7. Len(f[k]) < Len(f[Len(s)])
  <2>1. Len(s) \notin bad
    BY <1>5
  <2> QED BY <1>6, <2>1
<1> QED BY <1>2, <1>3, <1>6, <1>7

-----------------------------------------------------------------------------
(***************************************************************************)
(* Orders of finite sets: how many members come before a member tells which *)
(* it is.                                                                  *)
(***************************************************************************)
Orders(S, B) ==
  /\ B \in [S -> SUBSET S]
  /\ \A i \in S : i \notin B[i]
  /\ \A i, j \in S : i = j \/ i \in B[j] \/ j \in B[i]
  /\ \A i, j \in S : i \in B[j] => B[i] \subseteq B[j]

NoGap(S, B) == \A k \in 0 .. Cardinality(S) - 1 : \E i \in S : Cardinality(B[i]) = k

LEMMA Ranked ==
  ASSUME NEW S, IsFiniteSet(S), NEW B, Orders(S, B)
  PROVE  /\ Cardinality(S) \in Nat
         /\ \A i \in S : Cardinality(B[i]) \in 0 .. Cardinality(S) - 1
         /\ \A i, j \in S : i \in B[j] => Cardinality(B[i]) < Cardinality(B[j])
         /\ \A i, j \in S : Cardinality(B[i]) = Cardinality(B[j]) => i = j
         /\ NoGap(S, B)
<1> DEFINE n == Cardinality(S)
<1> USE DEF Orders
<1>1. n \in Nat
  BY FS_CardinalityType
<1>2. ASSUME NEW i \in S
      PROVE  /\ IsFiniteSet(B[i]) /\ Cardinality(B[i]) \in Nat
             /\ Cardinality(B[i]) \in 0 .. n - 1
  <2>1. IsFiniteSet(B[i]) /\ Cardinality(B[i]) <= n /\ (n = Cardinality(B[i]) => S = B[i])
    BY FS_Subset
  <2>2. Cardinality(B[i]) \in Nat
    BY <2>1, FS_CardinalityType
  <2> HIDE DEF n
  <2> QED BY <1>1, <2>1, <2>2
<1>3. ASSUME NEW i \in S, NEW j \in S, i \in B[j]
      PROVE  Cardinality(B[i]) < Cardinality(B[j])
  <2>1. B[i] \in SUBSET B[j] /\ B[i] # B[j]
    BY <1>3
  <2>2. IsFiniteSet(B[j])
    BY <1>2
  <2>3. /\ Cardinality(B[i]) <= Cardinality(B[j])
        /\ Cardinality(B[j]) = Cardinality(B[i]) => B[j] = B[i]
    BY <2>1, <2>2, FS_Subset
  <2> QED BY <1>2, <2>1, <2>3
<1>4. ASSUME NEW i \in S, NEW j \in S, Cardinality(B[i]) = Cardinality(B[j]) PROVE i = j
  <2>1. Cardinality(B[i]) \in Nat /\ Cardinality(B[j]) \in Nat
    BY <1>2
  <2> QED BY <1>3, <1>4, <2>1
<1>5. ASSUME NEW k \in 0 .. n - 1 PROVE \E i \in S : Cardinality(B[i]) = k
  <2> DEFINE rank == [i \in S |-> Cardinality(B[i])]  T == 0 .. n - 1
  <2>1. rank \in [S -> T]
    BY <1>2
  <2>2. rank \in Injection(S, T)
    <3>1. \A i, j \in S : rank[i] = rank[j] => i = j
      BY <1>4
    <3> HIDE DEF rank, T
    <3> QED BY <2>1, <3>1 DEF Injection, IsInjective
  <2>3. IsFiniteSet(T) /\ Cardinality(T) = n
    <3>1. IsFiniteSet(T) /\ Cardinality(T) = IF 0 > n - 1 THEN 0 ELSE (n - 1) - 0 + 1
      <4>1. n - 1 \in Int /\ 0 \in Int
        BY <1>1
      <4> QED BY <4>1, FS_Interval
    <3> HIDE DEF n, T
    <3> QED BY <1>1, <3>1
  <2>4. rank \in Surjection(S, T)
    <3> HIDE DEF rank, T
    <3> QED BY <2>2, <2>3, FS_Injection
  <2>5. k \in T
    BY <1>1
  <2>6. PICK i \in S : rank[i] = k
    <3> HIDE DEF rank, T
    <3> QED BY <2>4, <2>5 DEF Surjection
  <2> QED BY <2>6
<1> QED BY <1>1, <1>2, <1>3, <1>4, <1>5 DEF NoGap

Below(S, i) == {j \in S : j < i}

LEMMA Ascends ==
  ASSUME NEW S \in SUBSET Nat, IsFiniteSet(S)
  PROVE  /\ Cardinality(S) \in Nat
         /\ DOMAIN Ascending(S) = 1 .. Cardinality(S)
         /\ \A k \in 1 .. Cardinality(S) :
              Ascending(S)[k] \in S /\ Cardinality(Below(S, Ascending(S)[k])) = k - 1
         /\ \A i \in S : /\ Cardinality(Below(S, i)) + 1 \in 1 .. Cardinality(S)
                         /\ Ascending(S)[Cardinality(Below(S, i)) + 1] = i
         /\ \A i, j \in S : i < j => Cardinality(Below(S, i)) < Cardinality(Below(S, j))
         /\ \A i, j \in S : Cardinality(Below(S, i)) = Cardinality(Below(S, j)) => i = j
<1>0. /\ \A i \in S : i \notin Below(S, i)
      /\ \A i, j \in S : i = j \/ i \in Below(S, j) \/ j \in Below(S, i)
      /\ \A i, j \in S : i < j => i \in Below(S, j)
  BY DEF Below
<1>8. ASSUME NEW i \in S, NEW j \in S, i \in Below(S, j)
      PROVE  Below(S, i) \subseteq Below(S, j)
  <2>1. ASSUME NEW x \in S, x < i PROVE x < j
    BY <1>8, <2>1 DEF Below
  <2> QED BY <2>1 DEF Below
<1>1. PICK B : Orders(S, B) /\ \A i \in S : B[i] = Below(S, i)
  <2> DEFINE C == [i \in S |-> Below(S, i)]
  <2>1. C \in [S -> SUBSET S] /\ \A i \in S : C[i] = Below(S, i)
    BY DEF Below
  <2> HIDE DEF C
  <2>2. Orders(S, C)
    BY <1>0, <1>8, <2>1 DEF Orders
  <2> QED BY <2>1, <2>2
<1>2. /\ Cardinality(S) \in Nat
      /\ \A i \in S : Cardinality(B[i]) \in 0 .. Cardinality(S) - 1
      /\ \A i, j \in S : i \in B[j] => Cardinality(B[i]) < Cardinality(B[j])
      /\ \A i, j \in S : Cardinality(B[i]) = Cardinality(B[j]) => i = j
      /\ NoGap(S, B)
  <2>1. IsFiniteSet(S) /\ Orders(S, B)
    BY <1>1
  <2>2. NoGap(S, B)
    BY <2>1, Ranked
  <2>3. /\ Cardinality(S) \in Nat
        /\ \A i \in S : Cardinality(B[i]) \in 0 .. Cardinality(S) - 1
    BY <2>1, Ranked
  <2>4. /\ \A i, j \in S : i \in B[j] => Cardinality(B[i]) < Cardinality(B[j])
        /\ \A i, j \in S : Cardinality(B[i]) = Cardinality(B[j]) => i = j
    BY <2>1, Ranked
  <2> QED BY <2>2, <2>3, <2>4
<1>3. \A k \in 1 .. Cardinality(S) :
        Ascending(S)[k] = CHOOSE i \in S : Cardinality(Below(S, i)) = k - 1
  BY DEF Ascending, Below
<1>4. ASSUME NEW k \in 1 .. Cardinality(S)
      PROVE  Ascending(S)[k] \in S /\ Cardinality(Below(S, Ascending(S)[k])) = k - 1
  <2>0. k - 1 \in 0 .. Cardinality(S) - 1
    BY <1>2
  <2>1. \E i \in S : Cardinality(Below(S, i)) = k - 1
    BY <1>1, <1>2, <2>0 DEF NoGap
  <2> QED BY <1>3, <2>1
<1>5. ASSUME NEW i \in S
      PROVE  /\ Cardinality(Below(S, i)) + 1 \in 1 .. Cardinality(S)
             /\ Ascending(S)[Cardinality(Below(S, i)) + 1] = i
  <2> DEFINE k == Cardinality(Below(S, i)) + 1
  <2>1. k \in 1 .. Cardinality(S) /\ k - 1 = Cardinality(Below(S, i))
    BY <1>1, <1>2
  <2> HIDE DEF k
  <2>2. Ascending(S)[k] \in S /\ Cardinality(Below(S, Ascending(S)[k])) = Cardinality(Below(S, i))
    BY <1>4, <2>1
  <2>3. Ascending(S)[k] = i
    BY <1>1, <1>2, <2>2
  <2> QED BY <2>1, <2>3 DEF k
<1>6. DOMAIN Ascending(S) = 1 .. Cardinality(S)
  BY DEF Ascending
<1>7. /\ \A i, j \in S : i < j => Cardinality(Below(S, i)) < Cardinality(Below(S, j))
      /\ \A i, j \in S : Cardinality(Below(S, i)) = Cardinality(Below(S, j)) => i = j
  BY <1>0, <1>1, <1>2
<1> QED BY <1>2, <1>4, <1>5, <1>6, <1>7

\* A greater number comes last.
LEMMA AscendsMore ==
  ASSUME NEW S \in SUBSET Nat, IsFiniteSet(S), NEW n \in Nat, \A i \in S : i < n
  PROVE  /\ Cardinality(S) \in Nat
         /\ Cardinality(S \cup {n}) = Cardinality(S) + 1
         /\ \A k \in 1 .. Cardinality(S) : Ascending(S \cup {n})[k] = Ascending(S)[k]
         /\ Ascending(S \cup {n})[Cardinality(S) + 1] = n
<1> DEFINE U == S \cup {n}
<1>1. n \notin S /\ U \in SUBSET Nat
  OBVIOUS
<1>2. IsFiniteSet(U) /\ Cardinality(U) = Cardinality(S) + 1 /\ Cardinality(S) \in Nat
  BY <1>1, FS_AddElement, FS_CardinalityType
<1>3. Below(U, n) = S
  <2>1. ~ (n < n)
    OBVIOUS
  <2>2. \A i : i \in U /\ i < n <=> i \in S
    BY <2>1
  <2> HIDE DEF U
  <2> QED BY <1>1, <2>2, Zenon DEF Below
<1>4. \A i \in S : Below(U, i) = Below(S, i)
  BY <1>1 DEF Below
<1>5. S \subseteq U /\ n \in U
  OBVIOUS
<1> HIDE DEF U
<1>6. Ascending(U)[Cardinality(S) + 1] = n
  BY <1>1, <1>2, <1>3, <1>5, Ascends
<1>7. ASSUME NEW k \in 1 .. Cardinality(S) PROVE Ascending(U)[k] = Ascending(S)[k]
  <2>1. Ascending(S)[k] \in S /\ Cardinality(Below(S, Ascending(S)[k])) = k - 1
    BY Ascends
  <2>2. Cardinality(Below(U, Ascending(S)[k])) + 1 = k
    <3>1. k - 1 + 1 = k
      BY <1>2
    <3> QED BY <1>4, <2>1, <3>1
  <2> QED BY <1>1, <1>2, <1>5, <2>1, <2>2, Ascends, ZenonT(60)
<1> QED BY <1>2, <1>6, <1>7 DEF U

-----------------------------------------------------------------------------
(***************************************************************************)
(* The groups of a search.                                                 *)
(***************************************************************************)
Positions(hits, rank, n) == {i \in 1 .. n : TypeOf[hits[i]] = rank}

\* The rows of a rank among the first n hits.
RowsUpTo(hits, rank, n) ==
  LET places == Positions(hits, rank, n)
  IN  [k \in 1 .. Cardinality(places) |-> hits[Ascending(places)[k]]]

LEMMA PositionsFinite ==
  ASSUME NEW hits, NEW rank, NEW n \in Nat
  PROVE  /\ Positions(hits, rank, n) \in SUBSET Nat
         /\ IsFiniteSet(Positions(hits, rank, n))
         /\ Cardinality(Positions(hits, rank, n)) \in Nat
<1>1. Positions(hits, rank, n) \in SUBSET (1 .. n)
  BY DEF Positions
<1>2. IsFiniteSet(1 .. n)
  BY FS_Interval
<1>3. IsFiniteSet(Positions(hits, rank, n))
  BY <1>1, <1>2, FS_Subset
<1> QED BY <1>1, <1>3, FS_CardinalityType

LEMMA RowsAreNodes ==
  ASSUME NEW hits \in Seq(Node), NEW rank, NEW n \in 0 .. Len(hits)
  PROVE  /\ RowsUpTo(hits, rank, n) \in Seq(Node)
         /\ Len(RowsUpTo(hits, rank, n)) = Cardinality(Positions(hits, rank, n))
<1> DEFINE P == Positions(hits, rank, n)  s == RowsUpTo(hits, rank, n)
<1>1. P \in SUBSET Nat /\ IsFiniteSet(P) /\ Cardinality(P) \in Nat
  BY PositionsFinite
<1>2. P \subseteq 1 .. Len(hits)
  BY DEF Positions
<1> HIDE DEF P
<1>3. ASSUME NEW k \in 1 .. Cardinality(P) PROVE hits[Ascending(P)[k]] \in Node
  <2>1. Ascending(P)[k] \in P
    BY <1>1, Ascends
  <2>2. Ascending(P)[k] \in 1 .. Len(hits)
    BY <1>2, <2>1
  <2> QED BY <2>2, ElementOfSeq
<1>4. s = [k \in 1 .. Cardinality(P) |-> hits[Ascending(P)[k]]]
  BY DEF RowsUpTo, P
<1> HIDE DEF s
<1>5. s \in [1 .. Cardinality(P) -> Node]
  BY <1>3, <1>4
<1>6. s \in Seq(Node) /\ Len(s) = Cardinality(P)
  BY <1>1, <1>5
<1> QED BY <1>6 DEF s, P

LEMMA NextRow ==
  ASSUME NEW hits \in Seq(Node), NEW rank, NEW n \in 1 .. Len(hits)
  PROVE  RowsUpTo(hits, rank, n) =
           IF TypeOf[hits[n]] = rank THEN Append(RowsUpTo(hits, rank, n - 1), hits[n])
           ELSE RowsUpTo(hits, rank, n - 1)
<1> DEFINE P == Positions(hits, rank, n - 1)  U == Positions(hits, rank, n)
<1>1. n - 1 \in Nat /\ n \in Nat /\ n - 1 \in 0 .. Len(hits) /\ n \in 0 .. Len(hits)
  OBVIOUS
<1>2. CASE TypeOf[hits[n]] # rank
  <2>1. U = P
    BY <1>1, <1>2 DEF Positions
  <2> QED BY <1>2, <2>1 DEF RowsUpTo
<1>3. CASE TypeOf[hits[n]] = rank
  <2>1. U = P \cup {n} /\ \A i \in P : i < n
    BY <1>1, <1>3 DEF Positions
  <2>2. P \in SUBSET Nat /\ IsFiniteSet(P)
    BY <1>1, PositionsFinite
  <2> HIDE DEF P, U
  <2>3. /\ Cardinality(P) \in Nat /\ Cardinality(U) = Cardinality(P) + 1
        /\ \A k \in 1 .. Cardinality(P) : Ascending(U)[k] = Ascending(P)[k]
        /\ Ascending(U)[Cardinality(P) + 1] = n
    BY <1>1, <2>1, <2>2, AscendsMore
  <2> DEFINE s == RowsUpTo(hits, rank, n - 1)  t == RowsUpTo(hits, rank, n)
  <2>4. /\ s \in Seq(Node) /\ t \in Seq(Node)
        /\ Len(s) = Cardinality(P) /\ Len(t) = Cardinality(U)
    BY <1>1, RowsAreNodes DEF P, U
  <2>5. /\ s = [k \in 1 .. Cardinality(P) |-> hits[Ascending(P)[k]]]
        /\ t = [k \in 1 .. Cardinality(U) |-> hits[Ascending(U)[k]]]
    BY DEF RowsUpTo, P, U
  <2> HIDE DEF s, t
  <2>6. hits[n] \in Node
    OBVIOUS
  <2>7. /\ Append(s, hits[n]) \in Seq(Node) /\ Len(Append(s, hits[n])) = Len(s) + 1
        /\ \A k \in 1 .. Len(s) : Append(s, hits[n])[k] = s[k]
        /\ Append(s, hits[n])[Len(s) + 1] = hits[n]
    BY <2>4, <2>6, AppendProperties
  <2>8. ASSUME NEW k \in 1 .. Len(t) PROVE t[k] = Append(s, hits[n])[k]
    <3>1. CASE k \in 1 .. Cardinality(P)
      BY <2>3, <2>4, <2>5, <2>7, <3>1
    <3>2. CASE k = Cardinality(P) + 1
      BY <2>3, <2>4, <2>5, <2>7, <3>2
    <3> QED BY <2>3, <2>4, <3>1, <3>2
  <2>9. t = Append(s, hits[n])
    BY <2>3, <2>4, <2>7, <2>8, SeqEqual
  <2> QED BY <1>3, <2>9 DEF s, t
<1> QED BY <1>2, <1>3

Appends(hits, rank, f) ==
  f = [k \in 0 .. Len(hits) |->
         IF k = 0 THEN <<>>
         ELSE IF TypeOf[hits[k]] = rank THEN Append(f[k - 1], hits[k]) ELSE f[k - 1]]

LEMMA BucketIs ==
  ASSUME NEW hits \in Seq(Node), NEW rank
  PROVE  Bucket(hits, rank) = RowsUpTo(hits, rank, Len(hits))
<1> DEFINE f == [k \in 0 .. Len(hits) |-> RowsUpTo(hits, rank, k)]
<1>1. Len(hits) \in Nat
  OBVIOUS
<1>2. ASSUME NEW k \in 0 .. Len(hits)
      PROVE  f[k] = IF k = 0 THEN <<>>
                    ELSE IF TypeOf[hits[k]] = rank THEN Append(f[k - 1], hits[k]) ELSE f[k - 1]
  <2>1. CASE k = 0
    <3>1. RowsUpTo(hits, rank, 0) \in Seq(Node) /\ Len(RowsUpTo(hits, rank, 0)) = 0
      <4>1. Positions(hits, rank, 0) = {}
        BY DEF Positions
      <4>2. 0 \in 0 .. Len(hits) /\ Cardinality({}) = 0
        BY <1>1, FS_EmptySet
      <4> QED BY <4>1, <4>2, RowsAreNodes
    <3>2. RowsUpTo(hits, rank, 0) = <<>>
      BY <3>1, EmptySeq
    <3> QED BY <2>1, <3>2
  <2>2. CASE k # 0
    <3>1. k \in 1 .. Len(hits) /\ k - 1 \in 0 .. Len(hits)
      BY <2>2
    <3>2. f[k] = RowsUpTo(hits, rank, k) /\ f[k - 1] = RowsUpTo(hits, rank, k - 1)
      BY <3>1
    <3> HIDE DEF f
    <3> QED BY <2>2, <3>1, <3>2, NextRow
  <2> QED BY <2>1, <2>2
<1>3. Appends(hits, rank, f)
  <2>1. DOMAIN f = 0 .. Len(hits) /\ f = [k \in 0 .. Len(hits) |-> f[k]]
    OBVIOUS
  <2> HIDE DEF f
  <2> QED BY <1>2, <2>1 DEF Appends
<1>4. ASSUME NEW g, Appends(hits, rank, g) PROVE g = f
  <2> DEFINE bad == {k \in 0 .. Len(hits) : g[k] # f[k]}
  <2>1. /\ g = [k \in 0 .. Len(hits) |-> g[k]] /\ DOMAIN f = 0 .. Len(hits)
        /\ f = [k \in 0 .. Len(hits) |-> f[k]]
    BY <1>4 DEF Appends
  <2> HIDE DEF f
  <2>2. \A k \in 0 .. Len(hits) :
          g[k] = IF k = 0 THEN <<>>
                 ELSE IF TypeOf[hits[k]] = rank THEN Append(g[k - 1], hits[k]) ELSE g[k - 1]
    BY <1>4 DEF Appends
  <2>3. ASSUME bad # {} PROVE FALSE
    <3>1. bad \in SUBSET Nat
      OBVIOUS
    <3>2. PICK m \in bad : \A k \in bad : m <= k
      <4> HIDE DEF bad
      <4> QED BY <2>3, <3>1, Least
    <3>3. m # 0
      BY <1>2, <2>2
    <3>4. m \in 0 .. Len(hits) /\ m - 1 \in 0 .. Len(hits) /\ ~ (m <= m - 1)
      BY <3>3
    <3>5. g[m - 1] = f[m - 1]
      BY <3>2, <3>4
    <3>6. g[m] = f[m]
      BY <1>2, <2>2, <3>3, <3>4, <3>5
    <3> QED BY <3>6
  <2>4. \A k \in 0 .. Len(hits) : g[k] = f[k]
    BY <2>3
  <2> QED BY <2>1, <2>4
<1>5. Bucket(hits, rank) = f[Len(hits)]
  <2> HIDE DEF f
  <2>1. f = CHOOSE g : Appends(hits, rank, g)
    BY <1>3, <1>4, Zenon
  <2>2. Bucket(hits, rank) =
          (CHOOSE g : g = [k \in 0 .. Len(hits) |->
             IF k = 0 THEN <<>>
             ELSE IF TypeOf[hits[k]] = rank THEN Append(g[k - 1], hits[k]) ELSE g[k - 1]])[Len(hits)]
    BY Zenon DEF Bucket
  <2>3. (CHOOSE g : Appends(hits, rank, g)) =
          CHOOSE g : g = [k \in 0 .. Len(hits) |->
             IF k = 0 THEN <<>>
             ELSE IF TypeOf[hits[k]] = rank THEN Append(g[k - 1], hits[k]) ELSE g[k - 1]]
    BY Zenon DEF Appends
  <2> QED BY <2>1, <2>2, <2>3, Zenon
<1> QED BY <1>1, <1>5

USE BrowserAssumption

(***************************************************************************)
(* What a step does to the queries: it issues one, it cancels all, it      *)
(* takes one answer, it folds a group, or it leaves them alone.            *)
(***************************************************************************)
Issues == \E t \in Texts, c \in Chip, s \in Scopes : IssueQuery(t, c, s)

Folds == /\ \E g \in DOMAIN groups : groups' = [groups EXCEPT ![g].expanded = ~@]
         /\ UNCHANGED <<term, chip, scope, queryGen, asks, held, anchors, failed>>

Ends == /\ asks' = Superseded /\ held' = 0
        /\ UNCHANGED <<term, chip, scope, queryGen, groups, anchors, failed>>

\* Every step is one of these, whatever else it does to the screen.
LEMMA StepKinds ==
  ASSUME BInv, [Next]_vars
  PROVE  \/ UNCHANGED queryVars
         \/ Issues
         \/ SearchEsc
         \/ Folds
         \/ Ends
         \/ \E q \in asks, error \in BOOLEAN : LandQuery(q, error)
<1>1. CASE UNCHANGED vars
  BY <1>1 DEF vars
<1>2. CASE \E c \in Targets : Move(c)
  BY <1>2 DEF Move
<1>3. CASE SwitchFocus
  BY <1>3 DEF SwitchFocus, Goto
<1>4. CASE ClearScope
  <2>1. IssueQuery(term, chip, NoScope)
    BY <1>4 DEF ClearScope
  <2> QED BY <2>1 DEF Issues, BInv, Scopes
<1>5. CASE Widen
  BY <1>5 DEF Widen
<1>6. CASE OpenRow
  BY <1>6 DEF OpenRow
<1>7. CASE \E g \in DOMAIN groups : ToggleGroup(g)
  BY <1>7 DEF ToggleGroup, Folds
<1>8. CASE \E t \in Texts : Type(t)
  <2>1. PICK t \in Texts : IssueQuery(t, chip, scope)
    BY <1>8 DEF Type
  <2> QED BY <2>1 DEF Issues, BInv
<1>9. CASE SearchEsc
  BY <1>9
<1>10. CASE \E c \in Chip : PickChip(c)
  <2>1. PICK c \in Chip : IssueQuery(term, c, scope)
    BY <1>10 DEF PickChip
  <2> QED BY <2>1 DEF Issues, BInv
<1>11. CASE \E s \in IF Scope = {} THEN {scope} ELSE Scope : PickScope(s)
  <2>1. PICK s \in IF Scope = {} THEN {scope} ELSE Scope :
          IssueQuery(term, chip, s)
    BY <1>11 DEF PickScope
  <2> QED BY <2>1 DEF Issues, BInv, Scopes
<1>12. CASE Help
  BY <1>12 DEF Help
<1>13. CASE (\E n \in Known : MicroFollow(n)) \/ MicroBack \/ MicroQuit
  BY <1>13 DEF MicroFollow, MicroBack, MicroQuit
<1>14. CASE Quit
  BY <1>14 DEF Quit, Ends
<1>15. CASE \E q \in asks, error \in BOOLEAN : LandQuery(q, error)
  BY <1>15
<1>16. CASE \E f \in fetches : LandPreview(f)
  BY <1>16 DEF LandPreview
<1> QED
  BY <1>1, <1>2, <1>3, <1>4, <1>5, <1>6, <1>7, <1>8, <1>9, <1>10, <1>11,
     <1>12, <1>13, <1>14, <1>15, <1>16 DEF Next, UserStep, Answer

-----------------------------------------------------------------------------
LEMMA LiveSet ==
  ASSUME NEW q \in Ask, NEW live \in BOOLEAN
  PROVE  LET r == [q EXCEPT !.live = live]
         IN  /\ r \in Ask /\ r.live = live /\ r.gen = q.gen
             /\ r.term = q.term /\ r.chip = q.chip /\ r.scope = q.scope
BY DEF Ask

\* Cancelling keeps every query in flight and what it asks for, and leaves
\* none of them live.
LEMMA CancelAll ==
  ASSUME Generations, OneLiveQuery
  PROVE  /\ Superseded \subseteq Ask
         /\ \A q \in Superseded : ~q.live
         /\ \A q \in Superseded :
              \E r \in asks : /\ q.gen = r.gen /\ q.term = r.term
                              /\ q.chip = r.chip /\ q.scope = r.scope
         /\ \A r \in asks : \E q \in Superseded : q.gen = r.gen
         /\ \A q, r \in Superseded : q.gen = r.gen => q = r
<1> DEFINE C(q) == [q EXCEPT !.live = @ /\ q.gen # held]
<1>1. ASSUME NEW q \in asks
      PROVE  /\ C(q) \in Ask /\ ~C(q).live
             /\ C(q).gen = q.gen /\ C(q).term = q.term
             /\ C(q).chip = q.chip /\ C(q).scope = q.scope
  <2> DEFINE live == q.live /\ q.gen # held
  <2>1. q \in Ask
    BY DEF Generations
  <2>2. ~live
    BY DEF OneLiveQuery
  <2>3. live \in BOOLEAN
    OBVIOUS
  <2>4. C(q) = [q EXCEPT !.live = live]
    OBVIOUS
  <2> HIDE DEF C, live
  <2> QED BY <2>1, <2>2, <2>3, <2>4, LiveSet
<1>2. Superseded = {C(q) : q \in asks}
  BY DEF Superseded
<1> HIDE DEF C
<1>3. \A q, r \in asks : q.gen = r.gen => q = r
  BY DEF Generations
<1>4. ASSUME NEW r \in Superseded
      PROVE  /\ r \in Ask /\ ~r.live
             /\ \E q \in asks : /\ r = C(q) /\ r.gen = q.gen /\ r.term = q.term
                              /\ r.chip = q.chip /\ r.scope = q.scope
  <2>1. PICK q \in asks : r = C(q)
    BY <1>2
  <2> QED BY <1>1, <2>1
<1>5. \A q, r \in Superseded : q.gen = r.gen => q = r
  BY <1>3, <1>4
<1>6. \A r \in asks : \E q \in Superseded : q.gen = r.gen
  BY <1>1, <1>2
<1> QED BY <1>4, <1>5, <1>6

\* Folding a group leaves its rows.
LEMMA FoldKeepsRows ==
  ASSUME NEW g \in DOMAIN groups, GroupsAreRecords,
         groups' = [groups EXCEPT ![g].expanded = ~@]
  PROVE  GroupsAreRecords' /\ RowsOf(groups') = RowsOf(groups)
<1>1. /\ DOMAIN groups' = DOMAIN groups
      /\ \A h \in DOMAIN groups :
           groups'[h] = IF h = g THEN [groups[g] EXCEPT !.expanded = ~@]
                        ELSE groups[h]
  OBVIOUS
<1>2. groups[g] = [type |-> groups[g].type, expanded |-> groups[g].expanded,
                   rows |-> groups[g].rows]
  BY DEF GroupsAreRecords
<1>3. [groups[g] EXCEPT !.expanded = ~@] =
        [type |-> groups[g].type, expanded |-> ~groups[g].expanded,
         rows |-> groups[g].rows]
  BY <1>2
<1>4. \A h \in DOMAIN groups : groups'[h].rows = groups[h].rows
  BY <1>1, <1>3
<1>5. GroupsAreRecords'
  BY <1>1, <1>3 DEF GroupsAreRecords
<1> QED BY <1>1, <1>4, <1>5 DEF RowsOf

\* groupByType builds records.
LEMMA GroupedAreRecords ==
  ASSUME NEW hits, NEW g \in DOMAIN GroupByType(hits)
  PROVE  GroupByType(hits)[g] =
           [type |-> GroupByType(hits)[g].type,
            expanded |-> GroupByType(hits)[g].expanded,
            rows |-> GroupByType(hits)[g].rows]
BY DEF GroupByType

-----------------------------------------------------------------------------
LEMMA InitBInv == Init => BInv
BY DEF Init, BInv, Texts, Scopes, Generations, NewestIsCurrent, OneLiveQuery,
       GroupsAreRecords, GroupsAreCurrent, AnchorsFollowFilters

LEMMA IssueStep ==
  ASSUME BInv, NEW t \in Texts, NEW c \in Chip, NEW s \in Scopes,
         IssueQuery(t, c, s)
  PROVE  BInv'
<1> USE CancelAll DEF BInv
<1>1. CASE t = NoTerm
  <2>1. /\ term' = t /\ chip' = c /\ scope' = s
        /\ asks' = Superseded /\ held' = 0 /\ queryGen' = queryGen
        /\ groups' = <<>> /\ anchors' = Anchors[<<c, s>>]
    BY <1>1 DEF IssueQuery, ShowAnchors
  <2>2. Generations'
    BY <2>1 DEF Generations
  <2>3. OneLiveQuery'
    BY <2>1 DEF OneLiveQuery
  <2> QED
    BY <1>1, <2>1, <2>2, <2>3
    DEF NewestIsCurrent, GroupsAreRecords, GroupsAreCurrent,
        AnchorsFollowFilters
<1>2. CASE t # NoTerm
  <2> DEFINE new == [gen |-> queryGen + 1, term |-> t, chip |-> c, scope |-> s,
                     live |-> TRUE]
  <2>1. /\ term' = t /\ chip' = c /\ scope' = s
        /\ asks' = Superseded \cup {new}
        /\ held' = queryGen + 1 /\ queryGen' = queryGen + 1
        /\ groups' = groups /\ anchors' = anchors
    BY <1>2 DEF IssueQuery
  <2>2. new \in Ask
    BY <1>2 DEF Ask, Texts, Generations
  <2>2a. /\ new.gen = queryGen + 1 /\ new.term = t /\ new.chip = c
        /\ new.scope = s
    OBVIOUS
  <2>3. \A q \in Superseded : q.gen \in Nat /\ q.gen < queryGen + 1
    BY DEF Generations, Ask
  <2> HIDE DEF new
  <2>4. Generations'
    <3>1. asks' \subseteq Ask
      BY <2>1, <2>2
    <3>2. \A q \in asks' : q.gen <= queryGen'
      BY <2>1, <2>3, <2>2a DEF Generations
    <3>3. \A q, r \in asks' : q.gen = r.gen => q = r
      BY <2>1, <2>3, <2>2a DEF Generations
    <3> QED BY <2>1, <3>1, <3>2, <3>3 DEF Generations
  <2>5. NewestIsCurrent'
    BY <2>1, <2>3, <2>2a DEF NewestIsCurrent, Generations
  <2>6. OneLiveQuery'
    BY <1>2, <2>1, <2>3, <2>2a DEF OneLiveQuery
  <2>7. ~Landed'
    BY <2>1, <2>2a DEF Landed
  <2>8. GroupsAreRecords'
    BY <2>1 DEF GroupsAreRecords
  <2> QED
    BY <1>2, <2>1, <2>4, <2>5, <2>6, <2>7, <2>8
    DEF GroupsAreCurrent, AnchorsFollowFilters
<1> QED BY <1>1, <1>2

LEMMA EscStep == ASSUME BInv, SearchEsc PROVE BInv'
<1> USE CancelAll DEF BInv
<1>1. /\ term' = NoTerm /\ chip' = chip /\ scope' = scope
      /\ asks' = Superseded /\ queryGen' = queryGen
      /\ groups' = <<>> /\ anchors' = Anchors[<<chip, scope>>]
  BY DEF SearchEsc, ShowAnchors
<1>2. Generations'
  BY <1>1 DEF Generations
<1>3. OneLiveQuery'
  BY <1>1 DEF OneLiveQuery
<1> QED
  BY <1>1, <1>2, <1>3
  DEF NewestIsCurrent, GroupsAreRecords, GroupsAreCurrent,
      AnchorsFollowFilters, Texts

LEMMA EndStep == ASSUME BInv, Ends PROVE BInv'
<1> USE CancelAll DEF BInv, Ends
<1>1. Generations'
  BY DEF Generations
<1>2. OneLiveQuery'
  BY DEF OneLiveQuery
<1>3. NewestIsCurrent'
  BY DEF NewestIsCurrent
<1>4. Landed' => Landed
  BY DEF Landed
<1>5. GroupsAreCurrent'
  BY <1>4 DEF GroupsAreCurrent
<1> QED
  BY <1>1, <1>2, <1>3, <1>5 DEF GroupsAreRecords, AnchorsFollowFilters

LEMMA FoldStep == ASSUME BInv, Folds PROVE BInv'
<1> USE DEF BInv, Folds
<1>1. GroupsAreRecords' /\ RowsOf(groups') = RowsOf(groups)
  BY FoldKeepsRows
<1>2. Landed' = Landed
  BY DEF Landed
<1>3. GroupsAreCurrent'
  BY <1>1, <1>2 DEF GroupsAreCurrent
<1> QED
  BY <1>1, <1>3
  DEF Generations, NewestIsCurrent, OneLiveQuery, AnchorsFollowFilters

LEMMA LandStep ==
  ASSUME BInv, NEW q \in asks, NEW error \in BOOLEAN, LandQuery(q, error)
  PROVE  BInv'
<1> USE DEF BInv
<1>1. /\ asks' = asks \ {q} /\ anchors' = anchors /\ queryGen' = queryGen
      /\ term' = term /\ chip' = chip /\ scope' = scope
  BY DEF LandQuery
<1>2. Generations' /\ NewestIsCurrent' /\ AnchorsFollowFilters'
  BY <1>1 DEF Generations, NewestIsCurrent, AnchorsFollowFilters
<1>3. CASE OwnGeneration(q)
  <2> DEFINE found == Grouped[<<q.term, q.chip, q.scope>>]
  <2>1. /\ failed' = error /\ held' = 0
        /\ groups' = IF error THEN <<>> ELSE found
    BY <1>3 DEF LandQuery
  <2>2. \A r \in asks' : r.gen # queryGen
    BY <1>1, <1>3 DEF OwnGeneration, Generations
  <2>3. OneLiveQuery'
    BY <1>1, <2>2 DEF OneLiveQuery
  <2>4. GroupsAreRecords'
    <3>1. q.term \in Term /\ q.chip \in Chip /\ q.scope \in Scopes
      BY DEF Generations, Ask
    <3>2. found = GroupByType(Hits[<<q.term, q.chip, q.scope>>])
      BY <3>1 DEF Grouped
    <3> HIDE DEF found
    <3> QED BY <2>1, <3>2, GroupedAreRecords DEF GroupsAreRecords
  <2>5. term # NoTerm => found = Grouped[<<term, chip, scope>>]
    BY <1>3 DEF OwnGeneration, NewestIsCurrent
  <2>6. RowsOf(<<>>) = <<>>
    BY DEF RowsOf
  <2> HIDE DEF found
  <2>7. GroupsAreCurrent'
    BY <1>1, <2>1, <2>5, <2>6 DEF GroupsAreCurrent
  <2> QED BY <1>1, <1>2, <2>3, <2>4, <2>7
<1>4. CASE ~OwnGeneration(q)
  <2>1. failed' = failed /\ held' = held /\ groups' = groups
    BY <1>4 DEF LandQuery
  <2>2. Landed' => Landed
    BY <1>1, <1>4 DEF Landed, OwnGeneration
  <2>3. OneLiveQuery'
    BY <1>1, <2>1 DEF OneLiveQuery
  <2>4. GroupsAreCurrent'
    BY <1>1, <2>1, <2>2 DEF GroupsAreCurrent
  <2> QED BY <1>1, <1>2, <2>1, <2>3, <2>4 DEF GroupsAreRecords
<1> QED BY <1>3, <1>4

LEMMA IdleStep == ASSUME BInv, UNCHANGED queryVars PROVE BInv'
BY DEF BInv, queryVars, Generations, NewestIsCurrent, OneLiveQuery,
       GroupsAreRecords, GroupsAreCurrent, Landed, AnchorsFollowFilters

-----------------------------------------------------------------------------
LEMMA NextBInv == BInv /\ [Next]_vars => BInv'
BY StepKinds, IssueStep, EscStep, EndStep, FoldStep, LandStep, IdleStep
DEF Issues

\* The invariant of the query generations: whatever keys come and in whatever
\* order the goroutines answer, the groups on display hold the rows of the
\* newest query, which asks for the current text, chips and scope.
THEOREM QueriesStayCurrent == Spec => []BInv
BY InitBInv, NextBInv, PTL DEF Spec

\* At most one query is searching without having been told to stop: the newest,
\* and only while there is a search text.
THEOREM OneQueryAtATime == Spec => []OneLiveQuery
<1>1. BInv => OneLiveQuery
  BY DEF BInv
<1> QED BY QueriesStayCurrent, <1>1, PTL

\* Without a search text the anchors on display are those of the filters.
THEOREM AnchorsStayFiltered == Spec => []AnchorsFollowFilters
<1>1. BInv => AnchorsFollowFilters
  BY DEF BInv
<1> QED BY QueriesStayCurrent, <1>1, PTL

-----------------------------------------------------------------------------
\* No step but a cursor move changes the row under the cursor unnoticed.
LEMMA RowKept ==
  ASSUME UNCHANGED <<groups, anchors, cursor>>
  PROVE  FocusedRow' = FocusedRow
BY DEF FocusedRow, RowAt, Lines

LEMMA NoPreviewKeepsPane == ASSUME PaneInv, NoPreview PROVE PaneInv'
<1>1. ~stray' => ~stray /\ FocusedRow' = FocusedRow
  BY Zenon DEF NoPreview
<1>2. pFocus' = pFocus /\ pane' = pane /\ fetches' = fetches
  BY DEF NoPreview, paneVars
<1> QED BY <1>1, <1>2 DEF PaneInv

LEMMA MoveKeepsPane == ASSUME NEW c, PaneInv, Move(c) PROVE PaneInv'
<1>1. groups' = groups /\ anchors' = anchors /\ cursor' = c
  BY DEF Move, queryVars
<1>2. FocusedRow' = RowAt(c)
  BY <1>1 DEF FocusedRow, RowAt, Lines
<1>3. CASE RowAt(c) = None
  BY <1>2, <1>3, BrowserAssumption DEF PaneInv
<1>4. CASE RowAt(c) # None
  <2>1. /\ pFocus' = RowAt(c)
        /\ [num |-> issued + 1, id |-> RowAt(c), live |-> TRUE] \in fetches'
    BY <1>4 DEF Move, IssuePreview
  <2> QED BY <1>2, <2>1 DEF PaneInv
<1> QED BY <1>3, <1>4

LEMMA LandKeepsPane ==
  ASSUME NEW f \in fetches, PaneInv, LandPreview(f)
  PROVE  PaneInv'
<1>1. /\ FocusedRow' = FocusedRow /\ stray' = stray /\ pFocus' = pFocus
      /\ fetches' = fetches \ {f}
  BY RowKept DEF LandPreview, queryVars
<1>2. CASE OwnPreview(f)
  <2>1. pane' = PaneOf(FocusedRow)
    BY <1>2 DEF LandPreview, OwnPreview
  <2> QED BY <1>1, <2>1 DEF PaneInv, PaneOf
<1>3. CASE ~OwnPreview(f)
  <2>1. pane' = pane /\ f.id # FocusedRow
    BY <1>3 DEF LandPreview, OwnPreview
  <2> QED BY <1>1, <2>1 DEF PaneInv
<1> QED BY <1>2, <1>3

\* A step that touches neither the lines nor the pane.
LEMMA ElsewhereKeepsPane ==
  ASSUME PaneInv, UNCHANGED <<groups, anchors, cursor, paneVars, stray>>
  PROVE  PaneInv'
BY RowKept DEF PaneInv, paneVars

LEMMA QuitKeepsPane == ASSUME PaneInv, Quit PROVE PaneInv'
<1>1. /\ FocusedRow' = FocusedRow /\ stray' = stray /\ pFocus' = pFocus
      /\ pane' = pane /\ fetches' = OutdatedPreviews
  BY RowKept DEF Quit
<1>2. ASSUME NEW f \in fetches PROVE \E g \in OutdatedPreviews : g.id = f.id
  <2> DEFINE g == [f EXCEPT !.live = @ /\ f.num # pHeld]
  <2>1. g \in OutdatedPreviews
    BY DEF OutdatedPreviews
  <2>2. g.id = f.id
    OBVIOUS
  <2> HIDE DEF g
  <2> QED BY <2>1, <2>2
<1> QED BY <1>1, <1>2 DEF PaneInv

\* After a cursor move the answers settle on the row under the cursor, in any
\* order, for any number of previews in flight.
THEOREM PaneSettles == Spec => []PreviewSettles
<1>1. Init => PaneInv
  BY DEF Init, PaneInv
<1>2. ASSUME PaneInv, [Next]_vars PROVE PaneInv'
  <2>1. CASE \E c \in Targets : Move(c)
    BY <1>2, <2>1, MoveKeepsPane
  <2>2. CASE ClearScope \/ Widen \/ SearchEsc
    BY <1>2, <2>2, NoPreviewKeepsPane DEF ClearScope, Widen, SearchEsc
  <2>3. CASE \/ \E g \in DOMAIN groups : ToggleGroup(g)
             \/ \E t \in Texts : Type(t)
             \/ \E c \in Chip : PickChip(c)
             \/ \E s \in IF Scope = {} THEN {scope} ELSE Scope : PickScope(s)
             \/ \E q \in asks, error \in BOOLEAN : LandQuery(q, error)
    BY <1>2, <2>3, NoPreviewKeepsPane
    DEF ToggleGroup, Type, PickChip, PickScope, LandQuery
  <2>4. CASE \E f \in fetches : LandPreview(f)
    BY <1>2, <2>4, LandKeepsPane
  <2>5. CASE Quit
    BY <1>2, <2>5, QuitKeepsPane
  <2>6. CASE \/ SwitchFocus \/ OpenRow \/ Help \/ MicroBack \/ MicroQuit
             \/ \E n \in Known : MicroFollow(n)
             \/ UNCHANGED vars
    BY <1>2, <2>6, ElsewhereKeepsPane
    DEF SwitchFocus, Goto, OpenRow, Help, MicroBack, MicroQuit, MicroFollow,
        vars, queryVars
  <2> QED
    BY <1>2, <2>1, <2>2, <2>3, <2>4, <2>5, <2>6 DEF Next, UserStep, Answer
<1>3. PaneInv => PreviewSettles
  BY DEF PaneInv, PreviewSettles
<1> QED BY <1>1, <1>2, <1>3, PTL DEF Spec

-----------------------------------------------------------------------------
(***************************************************************************)
(* The micrograph's history.                                               *)
(***************************************************************************)
WalkInv ==
  /\ micro \in Known \cup {None} /\ history \in Seq(Known)
  /\ HistoryIsWalk

\* Only following a neighbor makes the history longer.
LEMMA FollowKeepsWalk ==
  ASSUME WalkInv, NEW n \in Known, MicroFollow(n)
  PROVE  WalkInv'
<1>1. /\ history' = Append(history, micro) /\ micro' = n /\ chip' = chip
      /\ micro \in Known /\ n \in Adjacent[<<chip, micro>>] /\ n # None
  BY DEF MicroFollow, Follow, WalkInv, queryVars
<1>2. /\ history' \in Seq(Known) /\ Len(history') = Len(history) + 1
      /\ Len(history) \in Nat
  BY <1>1 DEF WalkInv
<1>3. ASSUME NEW i \in 1 .. Len(history')
      PROVE  Append(history', n)[i + 1]
               \in Adjacent[<<chip, Append(history', n)[i]>>]
  <2>1. CASE i \in 1 .. Len(history)
    <3>1. /\ Append(history', n)[i] = Append(history, micro)[i]
          /\ Append(history', n)[i + 1] = Append(history, micro)[i + 1]
      BY <1>1, <1>2, <2>1 DEF WalkInv
    <3>2. Append(history, micro)[i + 1]
            \in Adjacent[<<chip, Append(history, micro)[i]>>]
      BY <1>1, <2>1 DEF WalkInv, HistoryIsWalk
    <3>3. QED
      BY <3>1, <3>2
  <2>2. CASE i = Len(history) + 1
    <3>1. /\ Append(history', n)[i] = micro
          /\ Append(history', n)[i + 1] = n
      BY <1>1, <1>2, <2>2 DEF WalkInv
    <3>2. QED
      BY <1>1, <3>1
  <2>3. i \in 1 .. Len(history) \/ i = Len(history) + 1
    BY <1>2, <1>3
  <2>4. QED
    BY <2>1, <2>2, <2>3
<1>4. QED
  BY <1>1, <1>2, <1>3 DEF WalkInv, HistoryIsWalk

\* Going back drops the last step of the walk, or leaves the micrograph.
LEMMA BackKeepsWalk ==
  ASSUME WalkInv, MicroBack
  PROVE  WalkInv'
<1>1. CASE history = <<>>
  BY <1>1 DEF MicroBack, WalkInv, HistoryIsWalk
<1>2. CASE history # <<>>
  <2> DEFINE m == Len(history)
  <2>1. /\ micro' = history[m] /\ history' = SubSeq(history, 1, m - 1)
        /\ chip' = chip /\ micro # None
    BY <1>2 DEF MicroBack, queryVars, Last, Front
  <2>2. m \in Nat \ {0} /\ history \in Seq(Known)
    BY <1>2 DEF WalkInv
  <2>3. /\ history' \in Seq(Known) /\ Len(history') = m - 1
        /\ \A i \in 1 .. m - 1 : history'[i] = history[i]
    <3>1. m - 1 \in 0 .. Len(history)
      BY <2>2
    <3>2. QED
      BY <2>1, <2>2, <3>1, CutSeq, ZenonT(60)
  <2>4. micro' \in Known
    BY <2>1, <2>2
  <2>5. ASSUME NEW i \in 1 .. Len(history')
        PROVE  Append(history', micro')[i + 1]
                 \in Adjacent[<<chip, Append(history', micro')[i]>>]
    <3>1. /\ i \in 1 .. m - 1 /\ i \in 1 .. m /\ i + 1 \in 1 .. m
          /\ i + 1 \in 1 .. m - 1 \/ i + 1 = m
      BY <2>2, <2>3
    <3>2. /\ Append(history, micro)[i] = history[i]
          /\ Append(history, micro)[i + 1] = history[i + 1]
      BY <2>2, <3>1
    <3>3. Append(history', micro')[i] = history[i]
      BY <2>3, <3>1
    <3>4. Append(history', micro')[i + 1] = history[i + 1]
      <4>1. CASE i + 1 \in 1 .. m - 1
        BY <2>3, <4>1
      <4>2. CASE i + 1 = m
        BY <2>1, <2>2, <2>3, <4>2
      <4>3. QED
        BY <3>1, <4>1, <4>2
    <3>5. history[i + 1] \in Adjacent[<<chip, history[i]>>]
      BY <2>1, <3>1, <3>2 DEF WalkInv, HistoryIsWalk
    <3>6. QED
      BY <3>3, <3>4, <3>5
  <2>6. QED
    BY <2>1, <2>3, <2>4, <2>5 DEF WalkInv, HistoryIsWalk
<1>3. QED
  BY <1>1, <1>2

LEMMA WalkStep == ASSUME WalkInv, [Next]_vars PROVE WalkInv'
<1>1. CASE \E n \in Known : MicroFollow(n)
  BY <1>1, FollowKeepsWalk
<1>2. CASE MicroBack
  BY <1>2, BackKeepsWalk
<1>3. CASE OpenRow
  <2>1. micro' \in Known /\ micro = None /\ history' = history
    BY <1>3 DEF OpenRow, Keys
  <2>2. history' = <<>>
    BY <2>1 DEF WalkInv, HistoryIsWalk
  <2>3. QED
    BY <2>1, <2>2 DEF WalkInv, HistoryIsWalk
<1>4. CASE \E c \in Chip : PickChip(c)
  <2>1. micro = None /\ UNCHANGED <<micro, history>>
    BY <1>4 DEF PickChip, Keys, screenVars
  <2>2. QED
    BY <2>1 DEF WalkInv, HistoryIsWalk
<1>5. CASE UNCHANGED <<chip, micro, history>>
  BY <1>5 DEF WalkInv, HistoryIsWalk
<1>6. \/ \E n \in Known : MicroFollow(n)
      \/ MicroBack \/ OpenRow \/ \E c \in Chip : PickChip(c)
      \/ UNCHANGED <<chip, micro, history>>
  <2>1. CASE \/ ClearScope \/ \E t \in Texts : Type(t)
             \/ \E s \in IF Scope = {} THEN {scope} ELSE Scope : PickScope(s)
    BY <2>1 DEF ClearScope, Type, PickScope, IssueQuery, screenVars
  <2>2. CASE \/ \E c \in Targets : Move(c)
             \/ SwitchFocus \/ Widen
             \/ \E g \in DOMAIN groups : ToggleGroup(g)
             \/ SearchEsc \/ Help \/ MicroQuit \/ Quit
    BY <2>2 DEF Move, SwitchFocus, Goto, Widen, ToggleGroup, SearchEsc, Help,
                MicroQuit, Quit, queryVars, screenVars
  <2>3. CASE Answer
    BY <2>3 DEF Answer, LandQuery, LandPreview, queryVars, screenVars
  <2>4. CASE UNCHANGED vars
    BY <2>4 DEF vars, queryVars, screenVars
  <2>5. QED
    BY <2>1, <2>2, <2>3, <2>4 DEF Next, UserStep
<1>7. QED
  BY <1>1, <1>2, <1>3, <1>4, <1>5, <1>6

\* The micrograph's history is a walk along the edges the chips show, through
\* any following and going back, and leaving it leaves no history: the chips
\* cannot change under it.
THEOREM HistoryWalks == Spec => []HistoryIsWalk
<1>1. Init => WalkInv
  BY DEF Init, WalkInv, HistoryIsWalk
<1>2. WalkInv /\ [Next]_vars => WalkInv'
  BY WalkStep
<1>3. WalkInv => HistoryIsWalk
  BY DEF WalkInv
<1>4. QED
  BY <1>1, <1>2, <1>3, PTL DEF Spec

Ranks(hits) == {TypeOf[hits[i]] : i \in DOMAIN hits}

LEMMA RanksFinite ==
  ASSUME NEW hits \in Seq(Node)
  PROVE  /\ Ranks(hits) \in SUBSET Nat /\ IsFiniteSet(Ranks(hits))
         /\ Cardinality(Ranks(hits)) \in Nat
<1> DEFINE R == Ranks(hits)  D == 1 .. Len(hits)  rank == [i \in D |-> TypeOf[hits[i]]]
<1>1. DOMAIN hits = D /\ Len(hits) \in Nat
  OBVIOUS
<1>2. IsFiniteSet(D)
  BY <1>1, FS_Interval
<1>3. rank \in [D -> R] /\ \A t \in R : \E i \in D : rank[i] = t
  BY <1>1 DEF Ranks
<1>4. rank \in Surjection(D, R)
  <2> HIDE DEF rank, R, D
  <2> QED BY <1>3 DEF Surjection
<1>5. IsFiniteSet(R)
  <2> HIDE DEF rank, R, D
  <2> QED BY <1>2, <1>4, FS_Surjection
<1>6. R \in SUBSET Nat
  <2>1. ASSUME NEW i \in D PROVE TypeOf[hits[i]] \in Nat
    <3>1. hits[i] \in Node
      OBVIOUS
    <3> QED BY <3>1 DEF BrowserAssumption
  <2> QED BY <1>1, <2>1 DEF Ranks
<1> QED BY <1>5, <1>6, FS_CardinalityType

LEMMA GroupsOf ==
  ASSUME NEW hits \in Seq(Node)
  PROVE  /\ GroupByType(hits) \in Seq(Group)
         /\ Len(GroupByType(hits)) = Cardinality(Ranks(hits))
         /\ \A g \in 1 .. Cardinality(Ranks(hits)) :
              GroupByType(hits)[g] =
                [type |-> Ascending(Ranks(hits))[g], expanded |-> TRUE,
                 rows |-> RowsUpTo(hits, Ascending(Ranks(hits))[g], Len(hits))]
<1> DEFINE R == Ranks(hits)  gs == GroupByType(hits)
           G(r) == [type |-> r, expanded |-> TRUE, rows |-> RowsUpTo(hits, r, Len(hits))]
<1>1. R \in SUBSET Nat /\ IsFiniteSet(R) /\ Cardinality(R) \in Nat
  BY RanksFinite
<1>2. gs = [g \in 1 .. Cardinality(R) |-> G(Ascending(R)[g])]
  BY BucketIs DEF GroupByType, Ranks
<1> HIDE DEF gs, R
<1>3. ASSUME NEW g \in 1 .. Cardinality(R) PROVE G(Ascending(R)[g]) \in Group
  <2>1. Ascending(R)[g] \in Nat
    BY <1>1, Ascends
  <2>2. Len(hits) \in 0 .. Len(hits)
    OBVIOUS
  <2>3. RowsUpTo(hits, Ascending(R)[g], Len(hits)) \in Seq(Node)
    BY <2>2, RowsAreNodes
  <2> QED BY <2>1, <2>3 DEF Group
<1> HIDE DEF G
<1>4. gs \in [1 .. Cardinality(R) -> Group]
  BY <1>2, <1>3
<1>5. gs \in Seq(Group) /\ Len(gs) = Cardinality(R)
  BY <1>1, <1>4, ListOf
<1>6. \A g \in 1 .. Cardinality(R) : gs[g] = G(Ascending(R)[g])
  BY <1>2
<1> QED BY <1>5, <1>6 DEF gs, R, G

-----------------------------------------------------------------------------
(***************************************************************************)
(* The lines on display.                                                   *)
(***************************************************************************)
Line == Node \cup {None}
LinesOf(gs) == [i \in DOMAIN gs |-> <<None>> \o (IF gs[i].expanded THEN gs[i].rows ELSE <<>>)]

LEMMA LineSeqs ==
  ASSUME NEW gs \in Seq(Group)
  PROVE  /\ LinesOf(gs) \in Seq(Seq(Line)) /\ Len(LinesOf(gs)) = Len(gs)
         /\ \A i \in 1 .. Len(gs) : LinesOf(gs)[i] # <<>>
         /\ GroupLines(gs) = FlattenSeq(LinesOf(gs))
<1>1. DOMAIN gs = 1 .. Len(gs) /\ Len(gs) \in Nat
  OBVIOUS
<1>2. ASSUME NEW i \in 1 .. Len(gs)
      PROVE  LinesOf(gs)[i] \in Seq(Line) /\ LinesOf(gs)[i] # <<>>
  <2> DEFINE rows == IF gs[i].expanded THEN gs[i].rows ELSE <<>>
  <2>1. rows \in Seq(Node)
    <3>1. gs[i] \in Group
      OBVIOUS
    <3> QED BY <3>1 DEF Group
  <2>2. rows \in Seq(Line)
    <3> HIDE DEF rows
    <3> QED BY <2>1, SeqMonotonic DEF Line
  <2>3. LinesOf(gs)[i] = <<None>> \o rows
    BY <1>1 DEF LinesOf
  <2>4. <<None>> \in Seq(Line) /\ Len(<<None>>) = 1
    BY DEF Line
  <2> HIDE DEF rows
  <2>5. <<None>> \o rows \in Seq(Line) /\ Len(<<None>> \o rows) = 1 + Len(rows)
    BY <2>2, <2>4, ConcatProperties
  <2>6. 1 + Len(rows) # 0
    BY <2>2
  <2> QED BY <2>3, <2>5, <2>6
<1>3. LinesOf(gs) \in [1 .. Len(gs) -> Seq(Line)]
  BY <1>1, <1>2 DEF LinesOf
<1>4. LinesOf(gs) \in Seq(Seq(Line)) /\ Len(LinesOf(gs)) = Len(gs)
  <2> DEFINE s == LinesOf(gs)
  <2> HIDE DEF s
  <2> QED BY <1>1, <1>3, ListOf DEF s
<1> QED BY <1>2, <1>4 DEF GroupLines, LinesOf

\* A group adds a line at least: its header.
LEMMA GroupLinesGrow ==
  ASSUME NEW gs \in Seq(Group), NEW k \in 0 .. Len(gs), k < Len(gs)
  PROVE  /\ GroupLines(gs) \in Seq(Line)
         /\ Len(GroupLines(SubSeq(gs, 1, k))) < Len(GroupLines(gs))
         /\ Len(GroupLines(SubSeq(gs, 1, k))) \in Nat
<1> DEFINE s == LinesOf(gs)  t == SubSeq(gs, 1, k)
<1>1. /\ s \in Seq(Seq(Line)) /\ Len(s) = Len(gs) /\ \A i \in 1 .. Len(s) : s[i] # <<>>
      /\ GroupLines(gs) = FlattenSeq(s)
  BY LineSeqs
<1>2. t \in Seq(Group) /\ Len(t) = k /\ \A i \in 1 .. k : t[i] = gs[i]
  <2>1. Len(gs) \in Nat
    OBVIOUS
  <2> QED BY <2>1, CutSeq
<1>3. LinesOf(t) = SubSeq(s, 1, k) /\ GroupLines(t) = FlattenSeq(LinesOf(t))
  <2>1. /\ LinesOf(t) \in Seq(Seq(Line)) /\ Len(LinesOf(t)) = k
        /\ GroupLines(t) = FlattenSeq(LinesOf(t))
    <3> HIDE DEF t
    <3> QED BY <1>2, LineSeqs
  <2>2. /\ SubSeq(s, 1, k) \in Seq(Seq(Line)) /\ Len(SubSeq(s, 1, k)) = k
        /\ \A i \in 1 .. k : SubSeq(s, 1, k)[i] = s[i]
    <3> HIDE DEF s
    <3> QED BY <1>1, CutSeq
  <2>3. ASSUME NEW i \in 1 .. k PROVE LinesOf(t)[i] = s[i]
    <3>1. i \in DOMAIN gs /\ i \in DOMAIN t /\ t[i] = gs[i]
      <4> HIDE DEF t
      <4> QED BY <1>2
    <3> HIDE DEF t
    <3> QED BY <3>1 DEF LinesOf
  <2> HIDE DEF s, t
  <2> QED BY <2>1, <2>2, <2>3, SeqEqual
<1> HIDE DEF s, t
<1>4. /\ FlattenSeq(s) \in Seq(Line) /\ FlattenSeq(SubSeq(s, 1, k)) \in Seq(Line)
      /\ Len(FlattenSeq(SubSeq(s, 1, k))) < Len(FlattenSeq(s))
  BY <1>1, Lengthens
<1>5. \A l \in Seq(Line) : Len(l) \in Nat
  OBVIOUS
<1>6. GroupLines(gs) = FlattenSeq(s) /\ GroupLines(t) = FlattenSeq(SubSeq(s, 1, k))
  BY <1>1, <1>3
<1> QED BY <1>4, <1>5, <1>6, Zenon DEF t

LEMMA LinesTyped ==
  ASSUME groups \in Seq(Group), anchors \in Seq(Known)
  PROVE  Lines \in Seq(Line)
<1>1. CASE groups = <<>>
  <2>1. Known \subseteq Line
    BY BrowserAssumption DEF Line, BrowserAssumption
  <2>2. anchors \in Seq(Line)
    BY <2>1, SeqMonotonic
  <2> QED BY <1>1, <2>2 DEF Lines
<1>2. CASE groups # <<>>
  <2>1. 0 \in 0 .. Len(groups) /\ 0 < Len(groups)
    BY <1>2
  <2> QED BY <1>2, <2>1, GroupLinesGrow DEF Lines
<1> QED BY <1>1, <1>2

-----------------------------------------------------------------------------
(***************************************************************************)
(* Types, and the cursor.                                                  *)
(***************************************************************************)
\* Grouped results have a line.
LEMMA GroupsHaveLines ==
  ASSUME NEW gs \in Seq(Group)
  PROVE  /\ GroupLines(gs) \in Seq(Line) \/ gs = <<>>
         /\ gs # <<>> => Len(GroupLines(gs)) \in Nat \ {0}
<1>1. CASE gs # <<>>
  <2>1. 0 \in 0 .. Len(gs) /\ 0 < Len(gs)
    BY <1>1, EmptySeq
  <2>2. GroupLines(gs) \in Seq(Line) /\ Len(GroupLines(SubSeq(gs, 1, 0))) < Len(GroupLines(gs))
        /\ Len(GroupLines(SubSeq(gs, 1, 0))) \in Nat
    BY <2>1, GroupLinesGrow
  <2>3. Len(GroupLines(gs)) \in Nat
    BY <2>2, LenProperties
  <2> QED BY <2>2, <2>3
<1> QED BY <1>1

\* Folding a group leaves the lines above it, and its header.
LEMMA FoldKeepsAbove ==
  ASSUME NEW gs \in Seq(Group), NEW g \in DOMAIN gs,
         NEW hs, hs = [gs EXCEPT ![g].expanded = ~@]
  PROVE  /\ hs \in Seq(Group)
         /\ HeaderOf(gs, g) \in Nat /\ HeaderOf(gs, g) < Len(GroupLines(hs))
<1>1. g \in 1 .. Len(gs) /\ Len(gs) \in Nat /\ g - 1 \in 0 .. Len(gs) /\ g - 1 < Len(gs)
  OBVIOUS
<1>2. gs[g] \in Group
  BY <1>1
<1> DEFINE new == [gs[g] EXCEPT !.expanded = ~@]
<1>3. new \in Group
  BY <1>2 DEF Group
<1>4. hs = [gs EXCEPT ![g] = new]
  OBVIOUS
<1> HIDE DEF new
<1>5. hs \in Seq(Group) /\ Len(hs) = Len(gs) /\ \A i \in 1 .. Len(gs) : i # g => hs[i] = gs[i]
  <2>1. /\ [gs EXCEPT ![g] = new] \in Seq(Group) /\ Len([gs EXCEPT ![g] = new]) = Len(gs)
        /\ \A i \in 1 .. Len(gs) : [gs EXCEPT ![g] = new][i] = IF i = g THEN new ELSE gs[i]
    BY <1>1, <1>3, ExceptSeq
  <2> QED BY <1>4, <2>1, Zenon
<1>6. SubSeq(hs, 1, g - 1) = SubSeq(gs, 1, g - 1)
  <2> DEFINE s == SubSeq(hs, 1, g - 1)  t == SubSeq(gs, 1, g - 1)
  <2>1. s \in Seq(Group) /\ Len(s) = g - 1 /\ \A i \in 1 .. g - 1 : s[i] = hs[i]
    BY <1>1, <1>5, CutSeq
  <2>2. t \in Seq(Group) /\ Len(t) = g - 1 /\ \A i \in 1 .. g - 1 : t[i] = gs[i]
    BY <1>1, CutSeq
  <2>3. \A i \in 1 .. g - 1 : i \in 1 .. Len(gs) /\ i # g
    BY <1>1
  <2> HIDE DEF s, t
  <2>4. \A i \in 1 .. Len(s) : s[i] = t[i]
    BY <1>5, <2>1, <2>2, <2>3
  <2>5. s = t
    BY <2>1, <2>2, <2>4, SeqEqual
  <2> QED BY <2>5 DEF s, t
<1>7. g - 1 \in 0 .. Len(hs) /\ g - 1 < Len(hs)
  BY <1>1, <1>5
<1>8. /\ Len(GroupLines(SubSeq(hs, 1, g - 1))) < Len(GroupLines(hs))
      /\ Len(GroupLines(SubSeq(hs, 1, g - 1))) \in Nat
  BY <1>5, <1>7, GroupLinesGrow
<1> QED BY <1>5, <1>6, <1>8 DEF HeaderOf

LEMMA ClampIn ==
  ASSUME NEW c \in Nat, NEW end \in Nat
  PROVE  Clamp(c, end) \in Nat /\ (end # 0 => Clamp(c, end) < end)
BY DEF Clamp

LEMMA LinesSeq ==
  ASSUME TypeOK
  PROVE  Lines \in Seq(Line) /\ Len(Lines) \in Nat
<1>1. Lines \in Seq(Line)
  BY LinesTyped DEF TypeOK
<1> QED BY <1>1, LenProperties

\* Motions stay among the lines.
LEMMA TargetsIn ==
  ASSUME TypeOK, NEW c, c \in Targets
  PROVE  c \in Nat /\ (cursor < Len(Lines) => c < Len(Lines))
<1> DEFINE end == Len(Lines)  Minus(n) == IF n < cursor THEN cursor - n ELSE 0
<1>1. end \in Nat /\ cursor \in Nat /\ HalfPage \in Nat
  BY LinesSeq DEF TypeOK
<1>2. \/ \E n \in 1 .. MaxCount :
           c \in {Minus(n), Clamp(cursor + n, end), Clamp(n - 1, end),
                  Clamp(Minus(HalfPage * n), end), Clamp(cursor + HalfPage * n, end)}
      \/ c \in {0, IF end > 0 THEN end - 1 ELSE cursor}
  <2> DEFINE S == [n \in 1 .. MaxCount |->
                    {Minus(n), Clamp(cursor + n, end), Clamp(n - 1, end),
                     Clamp(Minus(HalfPage * n), end), Clamp(cursor + HalfPage * n, end)}]
             T == {0, IF end > 0 THEN end - 1 ELSE cursor}
  <2>1. Targets = (UNION {S[n] : n \in 1 .. MaxCount}) \cup T
    BY DEF Targets
  <2> HIDE DEF S, T
  <2>2. c \in T \/ \E n \in 1 .. MaxCount : c \in S[n]
    BY <2>1
  <2> QED BY <2>2 DEF S, T
<1> HIDE DEF end
<1>3. CASE c \in {0, IF end > 0 THEN end - 1 ELSE cursor}
  BY <1>1, <1>3 DEF end
<1>4. ASSUME NEW n \in 1 .. MaxCount,
             c \in {Minus(n), Clamp(cursor + n, end), Clamp(n - 1, end),
                    Clamp(Minus(HalfPage * n), end), Clamp(cursor + HalfPage * n, end)}
      PROVE  c \in Nat /\ (cursor < end => c < end)
  <2>1. n \in Nat /\ n - 1 \in Nat /\ cursor + n \in Nat /\ HalfPage * n \in Nat
    BY <1>1
  <2> DEFINE step == HalfPage * n
  <2>2. cursor + step \in Nat /\ step \in Nat
    <3>1. step \in Nat
      BY <2>1
    <3> HIDE DEF step
    <3> QED BY <1>1, <3>1
  <2> HIDE DEF step
  <2>3. Minus(n) \in Nat /\ Minus(step) \in Nat /\ Minus(n) <= cursor
    BY <1>1, <2>1, <2>2
  <2>4. CASE c = Minus(n)
    BY <1>1, <2>3, <2>4
  <2>5. CASE c # Minus(n)
    <3>1. PICK d \in Nat : c = Clamp(d, end)
      BY <1>4, <2>1, <2>2, <2>3, <2>5 DEF step
    <3>2. c \in Nat /\ (end # 0 => c < end)
      BY <1>1, <3>1, ClampIn
    <3> QED BY <1>1, <3>2
  <2> QED BY <2>4, <2>5
<1> QED BY <1>2, <1>3, <1>4 DEF end

QueryTyped ==
  /\ held \in 0 .. queryGen /\ groups \in Seq(Group) /\ anchors \in Seq(Known)
  /\ failed \in BOOLEAN

PaneTyped ==
  /\ issued \in Nat /\ fetches \in SUBSET Fetch /\ pHeld \in 0 .. issued
  /\ pFocus \in Node \cup {None} /\ pane \in Known \cup {None}

\* Where the types come from.
LEMMA Types ==
  TypeOK <=> /\ term \in Texts /\ chip \in Chip /\ scope \in Scopes
             /\ queryGen \in Nat /\ asks \in SUBSET Ask
             /\ QueryTyped /\ cursor \in Nat /\ PaneTyped
             /\ focus \in [part : Part, help : BOOLEAN]
             /\ micro \in Known \cup {None} /\ history \in Seq(Known)
             /\ quit \in BOOLEAN /\ stray \in BOOLEAN
BY DEF TypeOK, QueryTyped, PaneTyped

\* A search finds groups.
LEMMA GroupedTyped ==
  ASSUME NEW t \in Term, NEW c \in Chip, NEW s \in Scopes
  PROVE  Grouped[<<t, c, s>>] \in Seq(Group)
<1>1. <<t, c, s>> \in DOMAIN Hits /\ Hits[<<t, c, s>>] \in Seq(Node)
  OBVIOUS
<1>2. GroupByType(Hits[<<t, c, s>>]) \in Seq(Group)
  BY <1>1, GroupsOf
<1> QED BY <1>1, <1>2 DEF Grouped

LEMMA QueryTypes ==
  ASSUME QueryTyped, BInv, [Next]_vars
  PROVE  QueryTyped'
<1>1. CASE UNCHANGED queryVars
  BY <1>1 DEF queryVars, QueryTyped
<1>2. queryGen \in Nat
  BY DEF BInv, Generations
<1>3. ASSUME NEW c \in Chip, NEW s \in Scopes PROVE Anchors[<<c, s>>] \in Seq(Known)
  OBVIOUS
<1>4. CASE Issues
  <2>1. PICK t \in Texts, c \in Chip, s \in Scopes : IssueQuery(t, c, s)
    BY <1>4 DEF Issues
  <2>2. Anchors[<<c, s>>] \in Seq(Known) /\ <<>> \in Seq(Group)
    BY <1>3
  <2>3. CASE groups' = <<>> /\ anchors' = Anchors[<<c, s>>] /\ held' = 0 /\ queryGen' = queryGen
    BY <1>2, <2>1, <2>2, <2>3 DEF IssueQuery, QueryTyped
  <2>4. CASE UNCHANGED <<groups, anchors>> /\ held' = queryGen + 1 /\ queryGen' = queryGen + 1
    BY <1>2, <2>1, <2>4 DEF IssueQuery, QueryTyped
  <2> QED BY <2>1, <2>3, <2>4 DEF IssueQuery, ShowAnchors
<1>5. CASE SearchEsc
  <2>1. chip \in Chip /\ scope \in Scopes
    BY DEF BInv
  <2> QED BY <1>2, <1>3, <1>5, <2>1 DEF SearchEsc, ShowAnchors, QueryTyped
<1>6. CASE Folds
  <2>1. PICK g \in DOMAIN groups : groups' = [groups EXCEPT ![g].expanded = ~@]
    BY <1>6 DEF Folds
  <2>2. groups' \in Seq(Group)
    BY <2>1, FoldKeepsAbove DEF QueryTyped
  <2> QED BY <1>6, <2>2 DEF Folds, QueryTyped
<1>7. CASE Ends
  BY <1>2, <1>7 DEF Ends, QueryTyped
<1>8. ASSUME NEW q \in asks, NEW error \in BOOLEAN, LandQuery(q, error)
      PROVE  QueryTyped'
  <2>1. q.term \in Term /\ q.chip \in Chip /\ q.scope \in Scopes
    BY DEF BInv, Generations, Ask
  <2> DEFINE found == Grouped[<<q.term, q.chip, q.scope>>]
  <2>2. found \in Seq(Group)
    BY <2>1, GroupedTyped
  <2> HIDE DEF found
  <2>3. groups' \in {<<>>, found, groups}
    BY <1>8 DEF LandQuery, found
  <2>4. groups' \in Seq(Group)
    <3>1. <<>> \in Seq(Group) /\ groups \in Seq(Group)
      BY DEF QueryTyped
    <3> QED BY <2>2, <2>3, <3>1, Zenon
  <2>5. held' \in {0, held} /\ failed' \in {error, failed} /\ queryGen' = queryGen /\ anchors' = anchors
    BY <1>8 DEF LandQuery
  <2> QED BY <1>2, <2>4, <2>5 DEF QueryTyped
<1> QED BY <1>1, <1>4, <1>5, <1>6, <1>7, <1>8, StepKinds

LEMMA RowTyped ==
  ASSUME TypeOK, NEW c \in Nat
  PROVE  RowAt(c) \in Node \cup {None}
<1>1. Lines \in Seq(Line) /\ Len(Lines) \in Nat
  BY LinesSeq
<1>2. CASE c < Len(Lines)
  <2>1. c + 1 \in 1 .. Len(Lines)
    BY <1>1, <1>2
  <2>2. Lines[c + 1] \in Line
    BY <1>1, <2>1, ElementOfSeq
  <2> QED BY <1>2, <2>2 DEF RowAt, Line
<1> QED BY <1>2 DEF RowAt

LEMMA OutdatedTyped ==
  ASSUME fetches \in SUBSET Fetch
  PROVE  OutdatedPreviews \in SUBSET Fetch
<1>1. ASSUME NEW f \in fetches PROVE [f EXCEPT !.live = @ /\ f.num # pHeld] \in Fetch
  <2>1. f \in Fetch
    OBVIOUS
  <2>2. (f.live /\ f.num # pHeld) \in BOOLEAN
    OBVIOUS
  <2> QED BY <2>1, <2>2 DEF Fetch
<1> QED BY <1>1 DEF OutdatedPreviews

LEMMA PaneTypes ==
  ASSUME TypeOK, [Next]_vars
  PROVE  PaneTyped' /\ stray' \in BOOLEAN
<1>1. PaneTyped /\ stray \in BOOLEAN /\ OutdatedPreviews \in SUBSET Fetch
  BY OutdatedTyped DEF TypeOK, PaneTyped
<1>2. CASE UNCHANGED paneVars /\ stray' \in BOOLEAN
  BY <1>1, <1>2 DEF paneVars, PaneTyped
<1>3. ASSUME NEW c \in Targets, Move(c) PROVE PaneTyped' /\ stray' \in BOOLEAN
  <2>1. RowAt(c) \in Node \cup {None}
    BY TargetsIn, RowTyped
  <2>2. IssuePreview(RowAt(c))
    BY <1>3 DEF Move
  <2>3. CASE RowAt(c) = None
    BY <1>1, <2>2, <2>3 DEF IssuePreview, PaneTyped
  <2>4. CASE RowAt(c) # None
    <3>1. [num |-> issued + 1, id |-> RowAt(c), live |-> TRUE] \in Fetch
      BY <1>1, <2>1, <2>4 DEF Fetch, PaneTyped
    <3>2. PICK new \in Fetch : new = [num |-> issued + 1, id |-> RowAt(c), live |-> TRUE]
      BY <3>1
    <3>3. /\ issued' = issued + 1 /\ fetches' = OutdatedPreviews \cup {new} /\ pHeld' = issued + 1
          /\ pFocus' = RowAt(c) /\ pane' = pane /\ stray' = FALSE
      BY <2>2, <2>4, <3>2 DEF IssuePreview
    <3>4. fetches' \in SUBSET Fetch
      BY <1>1, <3>2, <3>3
    <3>5. issued' \in Nat /\ pHeld' \in 0 .. issued'
      BY <1>1, <3>3 DEF PaneTyped
    <3> QED BY <1>1, <2>1, <3>3, <3>4, <3>5 DEF PaneTyped
  <2> QED BY <2>3, <2>4
<1>4. CASE NoPreview
  BY <1>1, <1>2, <1>4 DEF NoPreview
<1>5. CASE Quit
  BY <1>1, <1>5 DEF Quit, PaneTyped
<1>6. ASSUME NEW f \in fetches, LandPreview(f) PROVE PaneTyped' /\ stray' \in BOOLEAN
  <2>1. /\ fetches' = fetches \ {f} /\ issued' = issued /\ pFocus' = pFocus /\ stray' = stray
        /\ pHeld' \in {0, pHeld} /\ pane' \in {pane, PaneOf(f.id)}
    BY <1>6 DEF LandPreview
  <2>2. PaneOf(f.id) \in Known \cup {None}
    BY DEF PaneOf
  <2> QED BY <1>1, <2>1, <2>2 DEF PaneTyped
<1>7. CASE \/ ClearScope \/ Widen \/ SearchEsc
           \/ \E g \in DOMAIN groups : ToggleGroup(g)
           \/ \E t \in Texts : Type(t)
           \/ \E c \in Chip : PickChip(c)
           \/ \E s \in IF Scope = {} THEN {scope} ELSE Scope : PickScope(s)
           \/ \E q \in asks, error \in BOOLEAN : LandQuery(q, error)
  BY <1>4, <1>7
  DEF ClearScope, Widen, SearchEsc, ToggleGroup, Type, PickChip, PickScope, LandQuery
<1>8. CASE \/ SwitchFocus \/ OpenRow \/ Help \/ MicroBack \/ MicroQuit
           \/ \E n \in Known : MicroFollow(n)
           \/ UNCHANGED vars
  BY <1>1, <1>2, <1>8
  DEF SwitchFocus, Goto, OpenRow, Help, MicroBack, MicroQuit, MicroFollow, vars
<1> QED BY <1>3, <1>5, <1>6, <1>7, <1>8 DEF Next, UserStep, Answer

\* The cursor, on a line while grouped results are shown.
CursorInv == cursor \in Nat /\ CursorOnGroups

LEMMA CursorStep ==
  ASSUME TypeOK, CursorInv, QueryTyped', [Next]_vars
  PROVE  CursorInv'
<1>1. cursor \in Nat /\ groups \in Seq(Group) /\ groups' \in Seq(Group) /\ anchors' \in Seq(Known)
  BY DEF TypeOK, QueryTyped
<1>2. groups' # <<>> => Len(Lines') = Len(GroupLines(groups')) /\ Len(Lines') \in Nat \ {0}
  <2>1. PICK gs \in Seq(Group) : gs = groups'
    BY <1>1
  <2>2. gs # <<>> => Len(GroupLines(gs)) \in Nat \ {0}
    BY GroupsHaveLines
  <2> QED BY <2>1, <2>2 DEF Lines
<1>3. CASE groups' = <<>> /\ cursor' = cursor
  BY <1>1, <1>3 DEF CursorInv, CursorOnGroups
<1>4. CASE cursor' = 0
  BY <1>2, <1>4 DEF CursorInv, CursorOnGroups
<1>5. CASE groups' = groups /\ cursor' = cursor
  BY <1>5 DEF CursorInv, CursorOnGroups, Lines
<1>6. ASSUME NEW c \in Targets, Move(c) PROVE CursorInv'
  <2>1. cursor' = c /\ groups' = groups /\ anchors' = anchors
    BY <1>6 DEF Move, queryVars
  <2>2. c \in Nat /\ (cursor < Len(Lines) => c < Len(Lines))
    BY TargetsIn
  <2> QED BY <2>1, <2>2 DEF CursorInv, CursorOnGroups, Lines
<1>7. ASSUME NEW g \in DOMAIN groups, ToggleGroup(g) PROVE CursorInv'
  <2>1. /\ cursor = HeaderOf(groups, g) /\ cursor' = cursor
        /\ groups' = [groups EXCEPT ![g].expanded = ~@]
    BY <1>7 DEF ToggleGroup
  <2>2. cursor < Len(GroupLines(groups'))
    <3>1. PICK gs \in Seq(Group), hs \in Seq(Group) : gs = groups /\ hs = groups'
      BY <1>1
    <3>2. HeaderOf(gs, g) < Len(GroupLines(hs))
      BY <2>1, <3>1, FoldKeepsAbove
    <3> QED BY <2>1, <3>1, <3>2
  <2> QED BY <1>1, <1>2, <2>1, <2>2 DEF CursorInv, CursorOnGroups
<1>8. ASSUME NEW q \in asks, NEW error \in BOOLEAN, LandQuery(q, error) PROVE CursorInv'
  <2>1. CASE OwnGeneration(q)
    <3>1. cursor' = Clamp(cursor, Len(Lines'))
      BY <1>8, <2>1 DEF LandQuery
    <3>2. CASE groups' # <<>>
      <4>1. Len(Lines') \in Nat \ {0}
        BY <1>2, <3>2
      <4> QED BY <1>1, <3>1, <4>1, ClampIn DEF CursorInv, CursorOnGroups
    <3>3. CASE groups' = <<>>
      <4>1. Lines' = anchors'
        BY <3>3 DEF Lines
      <4>2. Len(Lines') \in Nat
        BY <1>1, <4>1
      <4> QED BY <1>1, <3>1, <3>3, <4>2, ClampIn DEF CursorInv, CursorOnGroups
    <3> QED BY <3>2, <3>3
  <2>2. CASE ~OwnGeneration(q)
    BY <1>5, <1>8, <2>2 DEF LandQuery
  <2> QED BY <2>1, <2>2
<1>9. CASE \/ ClearScope
           \/ \E t \in Texts : Type(t)
           \/ \E c \in Chip : PickChip(c)
           \/ \E s \in IF Scope = {} THEN {scope} ELSE Scope : PickScope(s)
  BY <1>3, <1>5, <1>9 DEF ClearScope, Type, PickChip, PickScope, IssueQuery, ShowAnchors
<1>10. CASE Widen \/ SearchEsc
  BY <1>4, <1>10 DEF Widen, SearchEsc
<1>11. CASE \/ SwitchFocus \/ OpenRow \/ Help \/ MicroBack \/ MicroQuit \/ Quit
            \/ \E n \in Known : MicroFollow(n)
            \/ \E f \in fetches : LandPreview(f)
            \/ UNCHANGED vars
  BY <1>5, <1>11
  DEF SwitchFocus, Goto, OpenRow, Help, MicroBack, MicroQuit, Quit, MicroFollow,
      LandPreview, vars, queryVars
<1> QED BY <1>6, <1>7, <1>8, <1>9, <1>10, <1>11 DEF Next, UserStep, Answer

LEMMA FocusTypes ==
  ASSUME focus \in [part : Part, help : BOOLEAN], quit \in BOOLEAN, [Next]_vars
  PROVE  focus' \in [part : Part, help : BOOLEAN] /\ quit' \in BOOLEAN
<1>1. ASSUME NEW part \in Part, focus' = [focus EXCEPT !.part = part]
      PROVE  focus' \in [part : Part, help : BOOLEAN]
  BY <1>1
<1>2. {"list"} \subseteq Part
  BY DEF Part
<1>3. CASE SwitchFocus
  <2>1. PICK part \in Part : focus' = [focus EXCEPT !.part = part]
    BY <1>2, <1>3 DEF SwitchFocus, Goto
  <2> QED BY <1>1, <1>3, <2>1 DEF SwitchFocus, Goto
<1>4. CASE SearchEsc \/ \E s \in IF Scope = {} THEN {scope} ELSE Scope : PickScope(s)
  <2>1. focus' = [focus EXCEPT !.part = "list"] /\ quit' = quit
    BY <1>4 DEF SearchEsc, PickScope
  <2> QED BY <1>1, <1>2, <2>1
<1>5. CASE Help
  BY <1>5 DEF Help
<1>6. CASE MicroQuit \/ Quit
  BY <1>6 DEF MicroQuit, Quit
<1>7. CASE UNCHANGED <<focus, quit>>
  BY <1>7
<1>8. CASE \/ \E c \in Targets : Move(c)
           \/ ClearScope \/ Widen \/ OpenRow
           \/ \E g \in DOMAIN groups : ToggleGroup(g)
           \/ \E t \in Texts : Type(t)
           \/ \E c \in Chip : PickChip(c)
           \/ \E n \in Known : MicroFollow(n)
           \/ MicroBack \/ Answer \/ UNCHANGED vars
  BY <1>7, <1>8
  DEF Move, ClearScope, Widen, OpenRow, ToggleGroup, Type, PickChip, MicroFollow,
      MicroBack, Answer, LandQuery, LandPreview, vars, screenVars
<1> QED BY <1>3, <1>4, <1>5, <1>6, <1>8 DEF Next, UserStep

\* All that the browser keeps.
BrowserInv == TypeOK /\ BInv /\ WalkInv /\ CursorInv

LEMMA BrowserStep == ASSUME BrowserInv, [Next]_vars PROVE BrowserInv'
<1>1. TypeOK /\ BInv /\ WalkInv /\ CursorInv /\ QueryTyped
  BY Types DEF BrowserInv
<1>2. BInv'
  BY <1>1, NextBInv
<1>3. WalkInv'
  BY <1>1, WalkStep
<1>4. QueryTyped'
  BY <1>1, QueryTypes
<1>5. CursorInv'
  BY <1>1, <1>4, CursorStep
<1>6. PaneTyped' /\ stray' \in BOOLEAN
  BY <1>1, PaneTypes
<1>7. focus' \in [part : Part, help : BOOLEAN] /\ quit' \in BOOLEAN
  BY <1>1, FocusTypes DEF TypeOK
<1>8. /\ term' \in Texts /\ chip' \in Chip /\ scope' \in Scopes
      /\ queryGen' \in Nat /\ asks' \in SUBSET Ask
  BY <1>2 DEF BInv, Generations
<1>9. cursor' \in Nat /\ micro' \in Known \cup {None} /\ history' \in Seq(Known)
  BY <1>3, <1>5 DEF CursorInv, WalkInv
<1>10. TypeOK'
  BY <1>4, <1>6, <1>7, <1>8, <1>9 DEF TypeOK, QueryTyped, PaneTyped
<1> QED BY <1>2, <1>3, <1>5, <1>10 DEF BrowserInv

LEMMA InitBrowserInv == Init => BrowserInv
<1> SUFFICES ASSUME Init PROVE BrowserInv
  OBVIOUS
<1>1. BInv
  BY InitBInv
<1>2. WalkInv
  BY DEF Init, WalkInv, HistoryIsWalk
<1>3. CursorInv
  BY DEF Init, CursorInv, CursorOnGroups
<1>4. anchors \in Seq(Known)
  BY DEF Init, Scopes
<1>5. <<>> \in Seq(Group) /\ <<>> \in Seq(Known) /\ 0 \in 0 .. 0
  OBVIOUS
<1>6. QueryTyped
  BY <1>4, <1>5 DEF Init, QueryTyped
<1>7. PaneTyped
  BY <1>5 DEF Init, PaneTyped
<1>8. /\ term \in Texts /\ chip \in Chip /\ scope \in Scopes
      /\ queryGen \in Nat /\ asks \in SUBSET Ask /\ cursor \in Nat
  BY DEF Init, Texts, Scopes
<1>9. focus \in [part : Part, help : BOOLEAN]
  BY DEF Init, Part
<1>10. /\ micro \in Known \cup {None} /\ history \in Seq(Known)
       /\ quit \in BOOLEAN /\ stray \in BOOLEAN
  BY <1>5 DEF Init
<1>11. TypeOK
  BY <1>6, <1>7, <1>8, <1>9, <1>10, Types
<1> QED BY <1>1, <1>2, <1>3, <1>11 DEF BrowserInv

LEMMA AlwaysBrowserInv == Spec => []BrowserInv
BY InitBrowserInv, BrowserStep, PTL DEF Spec

\* The browser's state keeps its types: every row and anchor in it is a node,
\* and what is shown in the pane and the micrograph is one of the loaded graph.
THEOREM BrowserTypes == Spec => []TypeOK
<1>1. BrowserInv => TypeOK
  BY DEF BrowserInv
<1> QED BY AlwaysBrowserInv, <1>1, PTL

\* While grouped results are shown the cursor is on a line of theirs: folding
\* a group, a late answer and a shorter result all leave it on the list.
THEOREM CursorStays == Spec => []CursorOnGroups
<1>1. BrowserInv => CursorOnGroups
  BY DEF BrowserInv, CursorInv
<1> QED BY AlwaysBrowserInv, <1>1, PTL

-----------------------------------------------------------------------------
(***************************************************************************)
(* The groups, one after another, are the display order.                   *)
(***************************************************************************)
\* The hits displayed before hit i, the group it falls in, and the hits of the
\* first g groups.
Earlier(hits) ==
  [i \in DOMAIN hits |->
     {j \in DOMAIN hits : \/ TypeOf[hits[j]] < TypeOf[hits[i]]
                          \/ TypeOf[hits[j]] = TypeOf[hits[i]] /\ j < i}]
GroupNo(hits, i) == Cardinality(Below(Ranks(hits), TypeOf[hits[i]])) + 1
FirstGroups(hits, g) == {i \in 1 .. Len(hits) : GroupNo(hits, i) <= g}

LEMMA DisplayOrder ==
  ASSUME NEW hits \in Seq(Node)
  PROVE  Orders(1 .. Len(hits), Earlier(hits))
<1> DEFINE D == 1 .. Len(hits)  B == Earlier(hits)
<1>1. DOMAIN hits = D /\ D \in SUBSET Nat
  OBVIOUS
<1>2. \A i \in D : TypeOf[hits[i]] \in Nat
  OBVIOUS
<1>3. /\ B \in [D -> SUBSET D]
      /\ \A i, j \in D : j \in B[i] <=> \/ TypeOf[hits[j]] < TypeOf[hits[i]]
                                        \/ TypeOf[hits[j]] = TypeOf[hits[i]] /\ j < i
  BY <1>1 DEF Earlier
<1> HIDE DEF D, B
<1>4. \A i \in D : i \notin B[i]
  BY <1>1, <1>2, <1>3
<1>5. \A i, j \in D : i = j \/ i \in B[j] \/ j \in B[i]
  BY <1>1, <1>2, <1>3
<1>6. ASSUME NEW i \in D, NEW j \in D, i \in B[j], NEW h \in B[i] PROVE h \in B[j]
  <2>1. h \in D /\ i \in Nat /\ j \in Nat /\ h \in Nat
    BY <1>1, <1>3
  <2>2. PICK a \in Nat, b \in Nat, c \in Nat :
          a = TypeOf[hits[h]] /\ b = TypeOf[hits[i]] /\ c = TypeOf[hits[j]]
    BY <1>2, <2>1
  <2>3. (a < b \/ (a = b /\ h < i)) /\ (b < c \/ (b = c /\ i < j))
    BY <1>3, <1>6, <2>1, <2>2
  <2>4. a < c \/ (a = c /\ h < j)
    BY <2>1, <2>3
  <2> QED BY <1>3, <2>1, <2>2, <2>4
<1>7. \A i, j \in D : i \in B[j] => B[i] \subseteq B[j]
  BY <1>6
<1> QED BY <1>3, <1>4, <1>5, <1>7 DEF Orders, D, B

\* Where a hit is displayed.
LEMMA DisplayedAt ==
  ASSUME NEW hits \in Seq(Node)
  PROVE  /\ DOMAIN Displayed(hits) = 1 .. Len(hits)
         /\ \A i \in 1 .. Len(hits) :
              /\ Cardinality(Earlier(hits)[i]) + 1 \in 1 .. Len(hits)
              /\ Displayed(hits)[Cardinality(Earlier(hits)[i]) + 1] = hits[i]
         /\ \A k \in 1 .. Len(hits) : Displayed(hits)[k] \in Node
<1> DEFINE D == 1 .. Len(hits)  B == Earlier(hits)
           At(k) == CHOOSE i \in D : Cardinality(B[i]) = k - 1
<1>1. DOMAIN hits = D /\ Len(hits) \in Nat /\ IsFiniteSet(D) /\ Cardinality(D) = Len(hits)
  <2>1. Len(hits) \in Nat /\ Len(hits) - 1 + 1 = Len(hits) /\ (~ (1 <= Len(hits)) => Len(hits) = 0)
    OBVIOUS
  <2>2. IsFiniteSet(D) /\ Cardinality(D) = IF 1 <= Len(hits) THEN Len(hits) - 1 + 1 ELSE 0
    BY <2>1, FS_Interval, SMTT(60)
  <2> QED BY <2>1, <2>2
<1>2. /\ \A i \in D : Cardinality(B[i]) \in 0 .. Len(hits) - 1
      /\ \A i, j \in D : Cardinality(B[i]) = Cardinality(B[j]) => i = j
      /\ NoGap(D, B)
  <2>1. Orders(D, B)
    BY DisplayOrder
  <2> HIDE DEF D, B
  <2> QED BY <1>1, <2>1, Ranked
<1>3. Displayed(hits) = [k \in D |-> hits[At(k)]]
  <2> DEFINE S(i) == {j \in D : \/ TypeOf[hits[j]] < TypeOf[hits[i]]
                                \/ TypeOf[hits[j]] = TypeOf[hits[i]] /\ j < i}
  <2>1. \A i \in D : B[i] = S(i)
    BY <1>1 DEF Earlier
  <2>2. Displayed(hits) = [k \in D |-> hits[CHOOSE i \in D : Cardinality(S(i)) = k - 1]]
    BY <1>1 DEF Displayed
  <2> HIDE DEF D, B, S
  <2>3. ASSUME NEW k
        PROVE  At(k) = CHOOSE i \in D : Cardinality(S(i)) = k - 1
    <3> DEFINE P(i) == Cardinality(B[i]) = k - 1  Q(i) == Cardinality(S(i)) = k - 1
    <3>1. \A i \in D : P(i) <=> Q(i)
      BY <2>1
    <3> HIDE DEF P, Q
    <3>2. (CHOOSE i \in D : P(i)) = CHOOSE i \in D : Q(i)
      BY <3>1, ZenonT(60)
    <3> QED BY <3>2 DEF P, Q
  <2> HIDE DEF At
  <2> QED BY <2>2, <2>3, ZenonT(60)
<1>4. ASSUME NEW k \in D PROVE At(k) \in D /\ Cardinality(B[At(k)]) = k - 1
  <2>1. k - 1 \in 0 .. Cardinality(D) - 1
    BY <1>1
  <2>2. \E i \in D : Cardinality(B[i]) = k - 1
    BY <1>2, <2>1 DEF NoGap
  <2> HIDE DEF D, B
  <2> QED BY <2>2, Zenon
<1>5. ASSUME NEW i \in D
      PROVE  /\ Cardinality(B[i]) + 1 \in D
             /\ Displayed(hits)[Cardinality(B[i]) + 1] = hits[i]
  <2>1. PICK c \in 0 .. Len(hits) - 1 : c = Cardinality(B[i])
    BY <1>2
  <2>2. PICK p \in D : p = c + 1 /\ p - 1 = c
    <3>1. c + 1 \in D /\ c + 1 - 1 = c
      BY <1>1, <2>1
    <3> QED BY <3>1
  <2>3. At(p) \in D /\ Cardinality(B[At(p)]) = c
    BY <1>4, <2>2
  <2> HIDE DEF At, B, D
  <2>4. At(p) = i
    BY <1>2, <2>1, <2>3
  <2> QED BY <1>3, <2>1, <2>2, <2>4
<1>6. ASSUME NEW k \in D PROVE Displayed(hits)[k] \in Node
  <2>1. At(k) \in D
    BY <1>4
  <2> HIDE DEF At
  <2>2. hits[At(k)] \in Node
    BY <2>1
  <2> QED BY <1>3, <2>2
<1>7. DOMAIN Displayed(hits) = D
  BY <1>3
<1> QED BY <1>5, <1>6, <1>7 DEF D, B

\* A hit's group, and its place in the display order: after the hits of the
\* groups before and the earlier ones of its own.
LEMMA PlaceInGroup ==
  ASSUME NEW hits \in Seq(Node), NEW g \in 1 .. Cardinality(Ranks(hits)),
         NEW k \in 1 .. Cardinality(Positions(hits, Ascending(Ranks(hits))[g], Len(hits)))
  PROVE  LET P == Positions(hits, Ascending(Ranks(hits))[g], Len(hits))
             i == Ascending(P)[k]
         IN  /\ i \in 1 .. Len(hits) /\ Cardinality(Below(P, i)) = k - 1
             /\ Earlier(hits)[i] = FirstGroups(hits, g - 1) \cup Below(P, i)
             /\ FirstGroups(hits, g - 1) \cap Below(P, i) = {}
<1> DEFINE D == 1 .. Len(hits)  R == Ranks(hits)  rank == Ascending(R)[g]
           P == Positions(hits, rank, Len(hits))  i == Ascending(P)[k]
<1>1. R \in SUBSET Nat /\ IsFiniteSet(R) /\ Cardinality(R) \in Nat
  BY RanksFinite
<1>2. P \in SUBSET D /\ P \in SUBSET Nat /\ IsFiniteSet(P)
  <2>1. Len(hits) \in Nat
    OBVIOUS
  <2>2. P \in SUBSET D
    BY DEF Positions
  <2> QED BY <2>1, <2>2, PositionsFinite
<1>3. rank \in R /\ Cardinality(Below(R, rank)) = g - 1
  <2>1. g \in 1 .. Cardinality(R)
    OBVIOUS
  <2> HIDE DEF R
  <2> QED BY <1>1, <2>1, Ascends
<1>4. i \in P /\ Cardinality(Below(P, i)) = k - 1
  <2> HIDE DEF P
  <2> QED BY <1>2, Ascends DEF P
<1>5. \A j \in D : j \in P <=> TypeOf[hits[j]] = rank
  BY DEF Positions
<1>6. \A j \in D : TypeOf[hits[j]] \in R /\ TypeOf[hits[j]] \in Nat
  <2>1. ASSUME NEW j \in D PROVE TypeOf[hits[j]] \in R
    BY DEF Ranks
  <2> QED BY <1>1, <2>1
<1> HIDE DEF P, rank, R
<1>7. ASSUME NEW j \in D
      PROVE  /\ GroupNo(hits, j) \in Nat
             /\ TypeOf[hits[j]] < rank => GroupNo(hits, j) < g
             /\ TypeOf[hits[j]] >= rank => GroupNo(hits, j) >= g
  <2>1. PICK t \in R : t = TypeOf[hits[j]]
    BY <1>6
  <2>2. PICK c \in Nat, d \in Nat : c = Cardinality(Below(R, t)) /\ d = Cardinality(Below(R, rank))
    <3>1. /\ Cardinality(Below(R, t)) + 1 \in 1 .. Cardinality(R)
          /\ IsFiniteSet(Below(R, t)) /\ IsFiniteSet(Below(R, rank))
      <4>1. Below(R, t) \in SUBSET R /\ Below(R, rank) \in SUBSET R
        BY DEF Below
      <4> QED BY <1>1, <2>1, <4>1, Ascends, FS_Subset
    <3> QED BY <3>1, FS_CardinalityType
  <2>3. GroupNo(hits, j) = c + 1 /\ d = g - 1
    BY <1>3, <2>1, <2>2 DEF GroupNo, R
  <2>4. (t < rank => c < d) /\ (rank < t => d < c) /\ (rank = t => c = d)
    BY <1>1, <1>3, <2>1, <2>2, Ascends
  <2>5. t \in Nat /\ rank \in Nat
    BY <1>1, <1>3, <2>1
  <2> QED BY <2>1, <2>2, <2>3, <2>4, <2>5, SMTT(60)
<1>8. rank \in Nat /\ i \in D /\ DOMAIN hits = D /\ D \in SUBSET Nat /\ TypeOf[hits[i]] = rank
  BY <1>1, <1>2, <1>3, <1>4, <1>5
<1>9. ASSUME NEW j \in D
      PROVE  /\ j \in FirstGroups(hits, g - 1) <=> TypeOf[hits[j]] < rank
             /\ j \in Below(P, i) <=> TypeOf[hits[j]] = rank /\ j < i
  <2>1. j \in FirstGroups(hits, g - 1) <=> GroupNo(hits, j) < g
    BY <1>7 DEF FirstGroups
  <2>2. j \in Below(P, i) <=> TypeOf[hits[j]] = rank /\ j < i
    BY <1>5 DEF Below
  <2>3. PICK t \in Nat, n \in Nat : t = TypeOf[hits[j]] /\ n = GroupNo(hits, j)
    BY <1>6, <1>7
  <2>4. (t < rank => n < g) /\ (t >= rank => n >= g)
    BY <1>7, <2>3
  <2>5. n < g <=> t < rank
    BY <1>8, <2>3, <2>4
  <2> QED BY <2>1, <2>2, <2>3, <2>5
<1>10. FirstGroups(hits, g - 1) \subseteq D /\ Below(P, i) \subseteq D
  BY <1>2 DEF FirstGroups, Below
<1>11. \A j \in D : j \in Earlier(hits)[i] <=> \/ TypeOf[hits[j]] < rank
                                               \/ TypeOf[hits[j]] = rank /\ j < i
  BY <1>8 DEF Earlier
<1>12. Earlier(hits)[i] \subseteq D
  BY <1>8 DEF Earlier
<1> HIDE DEF i, D
<1>13. Earlier(hits)[i] = FirstGroups(hits, g - 1) \cup Below(P, i)
  BY <1>9, <1>10, <1>11, <1>12
<1>14. FirstGroups(hits, g - 1) \cap Below(P, i) = {}
  <2>1. ASSUME NEW j \in D, TypeOf[hits[j]] < rank, TypeOf[hits[j]] = rank PROVE FALSE
    BY <1>8, <2>1
  <2> QED BY <1>9, <1>10, <2>1
<1> QED BY <1>4, <1>8, <1>13, <1>14 DEF D, i, P, rank, R

\* The first groups, one by one.
LEMMA NextGroup ==
  ASSUME NEW hits \in Seq(Node)
  PROVE  /\ FirstGroups(hits, 0) = {}
         /\ FirstGroups(hits, Cardinality(Ranks(hits))) = 1 .. Len(hits)
         /\ \A g \in Nat : IsFiniteSet(FirstGroups(hits, g)) /\ Cardinality(FirstGroups(hits, g)) \in Nat
         /\ \A g \in 1 .. Cardinality(Ranks(hits)) :
              Cardinality(FirstGroups(hits, g)) =
                Cardinality(FirstGroups(hits, g - 1))
                + Cardinality(Positions(hits, Ascending(Ranks(hits))[g], Len(hits)))
<1> DEFINE D == 1 .. Len(hits)  R == Ranks(hits)
<1>1. R \in SUBSET Nat /\ IsFiniteSet(R) /\ Cardinality(R) \in Nat
  BY RanksFinite
<1>2. \A j \in D : TypeOf[hits[j]] \in R
  BY DEF Ranks
<1> HIDE DEF R
<1>3. ASSUME NEW j \in D
      PROVE  /\ GroupNo(hits, j) \in 1 .. Cardinality(R)
             /\ Ascending(R)[GroupNo(hits, j)] = TypeOf[hits[j]]
  BY <1>1, <1>2, Ascends DEF GroupNo, R
<1>4. FirstGroups(hits, 0) = {}
  BY <1>1, <1>3 DEF FirstGroups
<1>5. FirstGroups(hits, Cardinality(R)) = D
  BY <1>1, <1>3 DEF FirstGroups
<1>6. ASSUME NEW g \in Nat
      PROVE IsFiniteSet(FirstGroups(hits, g)) /\ Cardinality(FirstGroups(hits, g)) \in Nat
  <2>1. FirstGroups(hits, g) \in SUBSET D /\ IsFiniteSet(D)
    <3>1. Len(hits) \in Nat
      OBVIOUS
    <3> QED BY <3>1, FS_Interval DEF FirstGroups
  <2> QED BY <2>1, FS_Subset, FS_CardinalityType
<1>7. ASSUME NEW g \in 1 .. Cardinality(R)
      PROVE  Cardinality(FirstGroups(hits, g)) =
               Cardinality(FirstGroups(hits, g - 1))
               + Cardinality(Positions(hits, Ascending(R)[g], Len(hits)))
  <2> DEFINE F == FirstGroups(hits, g - 1)  P == Positions(hits, Ascending(R)[g], Len(hits))
  <2>1. g - 1 \in Nat /\ g \in Nat /\ Len(hits) \in Nat
    BY <1>1
  <2>2. IsFiniteSet(F) /\ Cardinality(F) \in Nat /\ IsFiniteSet(P) /\ Cardinality(P) \in Nat
    BY <1>6, <2>1, PositionsFinite
  <2>3. P \subseteq D /\ F \subseteq D
    BY DEF Positions, FirstGroups
  <2>4. ASSUME NEW j \in D PROVE j \in P <=> GroupNo(hits, j) = g
    <3>1. Cardinality(Below(R, Ascending(R)[g])) = g - 1
      BY <1>1, Ascends
    <3>2. CASE TypeOf[hits[j]] = Ascending(R)[g]
      <4>1. GroupNo(hits, j) = g - 1 + 1
        BY <3>1, <3>2 DEF GroupNo, R
      <4> QED BY <2>1, <3>2, <4>1 DEF Positions
    <3>3. CASE TypeOf[hits[j]] # Ascending(R)[g]
      BY <1>3, <3>3 DEF Positions
    <3> QED BY <3>2, <3>3
  <2>5. FirstGroups(hits, g) = F \cup P /\ F \cap P = {}
    <3>1. \A j \in D : /\ j \in F <=> GroupNo(hits, j) <= g - 1
                       /\ j \in FirstGroups(hits, g) <=> GroupNo(hits, j) <= g
      BY DEF FirstGroups
    <3>2. \A j \in D : /\ j \in FirstGroups(hits, g) <=> (j \in F \/ j \in P)
                       /\ ~ (j \in F /\ j \in P)
      BY <1>1, <1>3, <2>1, <2>4, <3>1
    <3>3. FirstGroups(hits, g) \subseteq D
      BY DEF FirstGroups
    <3> HIDE DEF F, P, D
    <3> QED BY <2>3, <3>2, <3>3
  <2> HIDE DEF F, P
  <2>6. Cardinality(F \cup P) = Cardinality(F) + Cardinality(P) - Cardinality(F \cap P)
    BY <2>2, FS_Union
  <2>7. Cardinality(F \cap P) = 0
    BY <2>5, FS_EmptySet
  <2> QED BY <2>2, <2>5, <2>6, <2>7 DEF F, P
<1> QED BY <1>4, <1>5, <1>6, <1>7 DEF R

\* The first g groups, end to end, are the head of the display order.
HeadOf(hits, f, g) ==
  /\ Len(f[g]) = Cardinality(FirstGroups(hits, g))
  /\ \A k \in 1 .. Len(f[g]) : f[g][k] = Displayed(hits)[k]

LEMMA GroupRows ==
  ASSUME NEW hits \in Seq(Node)
  PROVE  /\ RowsOf(GroupByType(hits)) \in Seq(Seq(Node))
         /\ Len(RowsOf(GroupByType(hits))) = Cardinality(Ranks(hits))
         /\ \A g \in 1 .. Cardinality(Ranks(hits)) :
              RowsOf(GroupByType(hits))[g] = RowsUpTo(hits, Ascending(Ranks(hits))[g], Len(hits))
<1> DEFINE gs == GroupByType(hits)  m == Cardinality(Ranks(hits))
           Rows(g) == RowsUpTo(hits, Ascending(Ranks(hits))[g], Len(hits))
<1>1. gs \in Seq(Group) /\ Len(gs) = m /\ \A g \in 1 .. m : gs[g].rows = Rows(g)
  <2>1. gs \in Seq(Group) /\ Len(gs) = m
    BY GroupsOf
  <2>2. ASSUME NEW g \in 1 .. m PROVE gs[g].rows = Rows(g)
    <3>1. gs[g] = [type |-> Ascending(Ranks(hits))[g], expanded |-> TRUE, rows |-> Rows(g)]
      BY GroupsOf
    <3> HIDE DEF gs, Rows
    <3> QED BY <3>1
  <2> QED BY <2>1, <2>2
<1>2. \A g \in 1 .. m : Rows(g) \in Seq(Node)
  <2>1. Len(hits) \in 0 .. Len(hits)
    OBVIOUS
  <2> QED BY <2>1, RowsAreNodes
<1>3. m \in Nat
  BY RanksFinite
<1> HIDE DEF gs, m, Rows
<1>4. RowsOf(gs) \in [1 .. m -> Seq(Node)] /\ \A g \in 1 .. m : RowsOf(gs)[g] = Rows(g)
  <2>1. DOMAIN gs = 1 .. m
    BY <1>1, <1>3
  <2> QED BY <1>1, <1>2, <2>1 DEF RowsOf
<1>5. RowsOf(gs) \in Seq(Seq(Node)) /\ Len(RowsOf(gs)) = m
  <2> DEFINE s == RowsOf(gs)
  <2> HIDE DEF s
  <2> QED BY <1>3, <1>4, ListOf DEF s
<1> QED BY <1>4, <1>5 DEF gs, m, Rows

LEMMA HeadGrows ==
  ASSUME NEW hits \in Seq(Node), NEW f,
         Joins(Node, RowsOf(GroupByType(hits)), f, Cardinality(Ranks(hits))),
         NEW g \in 1 .. Cardinality(Ranks(hits)), HeadOf(hits, f, g - 1)
  PROVE  HeadOf(hits, f, g)
<1> DEFINE s == RowsOf(GroupByType(hits))  m == Cardinality(Ranks(hits))
           rank == Ascending(Ranks(hits))[g]  P == Positions(hits, rank, Len(hits))
           F == FirstGroups(hits, g - 1)  rows == RowsUpTo(hits, rank, Len(hits))
<1>1. m \in Nat /\ g \in 1 .. m /\ g - 1 \in 0 .. m /\ g - 1 \in Nat /\ g \in Nat /\ g \in 0 .. m
  BY RanksFinite
<1>2. s[g] = rows
  BY GroupRows
<1>3. f[g] = f[g - 1] \o rows /\ f[g - 1] \in Seq(Node) /\ f[g] \in Seq(Node)
  BY <1>1, <1>2 DEF Joins
<1>4. /\ rows \in Seq(Node) /\ Len(rows) = Cardinality(P)
      /\ \A k \in 1 .. Cardinality(P) : rows[k] = hits[Ascending(P)[k]]
  <2>1. Len(hits) \in 0 .. Len(hits)
    OBVIOUS
  <2>2. rows \in Seq(Node) /\ Len(rows) = Cardinality(P)
    BY <2>1, RowsAreNodes
  <2>3. \A k \in 1 .. Cardinality(P) : rows[k] = hits[Ascending(P)[k]]
    BY DEF RowsUpTo
  <2> QED BY <2>2, <2>3
<1>5. /\ Cardinality(FirstGroups(hits, g)) = Cardinality(F) + Cardinality(P)
      /\ Cardinality(F) \in Nat /\ IsFiniteSet(F)
  BY <1>1, NextGroup
<1>6. Cardinality(P) \in Nat /\ IsFiniteSet(P)
  BY PositionsFinite
<1>7. /\ Len(f[g - 1]) = Cardinality(F)
      /\ \A k \in 1 .. Cardinality(F) : f[g - 1][k] = Displayed(hits)[k]
  BY DEF HeadOf
<1>8. ASSUME NEW k \in 1 .. Cardinality(P)
      PROVE  Displayed(hits)[Cardinality(F) + k] = rows[k]
  <2> DEFINE i == Ascending(P)[k]
  <2>1. /\ i \in 1 .. Len(hits) /\ Cardinality(Below(P, i)) = k - 1
        /\ Earlier(hits)[i] = F \cup Below(P, i) /\ F \cap Below(P, i) = {}
    BY <1>1, PlaceInGroup
  <2>2. IsFiniteSet(Below(P, i))
    <3>1. Below(P, i) \in SUBSET P
      BY DEF Below
    <3> QED BY <1>6, <3>1, FS_Subset
  <2> HIDE DEF i, P, F
  <2>3. Cardinality(F \cup Below(P, i)) =
          Cardinality(F) + Cardinality(Below(P, i)) - Cardinality(F \cap Below(P, i))
    BY <1>5, <2>2, FS_Union
  <2>4. Cardinality(F \cap Below(P, i)) = 0
    BY <2>1, FS_EmptySet
  <2>5. PICK c \in Nat, p \in Nat : c = Cardinality(F) /\ p = Cardinality(P)
    BY <1>5, <1>6
  <2>6. Cardinality(Earlier(hits)[i]) = c + (k - 1) - 0
    BY <2>1, <2>3, <2>4, <2>5
  <2>7. k \in Nat /\ c + (k - 1) - 0 + 1 = c + k
    BY <2>5
  <2>8. Displayed(hits)[Cardinality(Earlier(hits)[i]) + 1] = hits[i]
    BY <2>1, DisplayedAt
  <2>9. rows[k] = hits[i]
    BY <1>4 DEF i
  <2> QED BY <2>5, <2>6, <2>7, <2>8, <2>9
<1> HIDE DEF F, P, rows, s, m
<1>9. PICK c \in Nat, p \in Nat : c = Cardinality(F) /\ p = Cardinality(P)
  BY <1>5, <1>6
<1>10. /\ Len(f[g]) = c + p
       /\ \A k \in 1 .. c + p : f[g][k] = IF k <= c THEN f[g - 1][k] ELSE rows[k - c]
  <2>1. Len(f[g - 1]) = c /\ Len(rows) = p
    BY <1>4, <1>7, <1>9
  <2>2. /\ Len(f[g - 1] \o rows) = Len(f[g - 1]) + Len(rows)
        /\ \A k \in 1 .. Len(f[g - 1]) + Len(rows) :
             (f[g - 1] \o rows)[k] = IF k <= Len(f[g - 1]) THEN f[g - 1][k]
                                     ELSE rows[k - Len(f[g - 1])]
    <3>1. PICK a \in Seq(Node), b \in Seq(Node) : a = f[g - 1] /\ b = rows
      BY <1>3, <1>4
    <3>2. /\ Len(a \o b) = Len(a) + Len(b)
          /\ \A k \in 1 .. Len(a) + Len(b) :
               (a \o b)[k] = IF k <= Len(a) THEN a[k] ELSE b[k - Len(a)]
      BY ConcatProperties
    <3> QED BY <3>1, <3>2, Zenon
  <2> QED BY <1>3, <2>1, <2>2, Zenon
<1>11. ASSUME NEW k \in 1 .. c + p PROVE f[g][k] = Displayed(hits)[k]
  <2>1. CASE k <= c
    <3>1. k \in 1 .. c
      BY <2>1
    <3> QED BY <1>7, <1>9, <1>10, <2>1, <3>1
  <2>2. CASE ~ (k <= c)
    <3>1. PICK j \in 1 .. p : j = k - c /\ c + j = k
      <4>1. k - c \in 1 .. p /\ c + (k - c) = k
        BY <1>9, <2>2
      <4> QED BY <4>1
    <3>2. Displayed(hits)[c + j] = rows[j]
      BY <1>8, <1>9, <3>1
    <3> QED BY <1>10, <2>2, <3>1, <3>2
  <2> QED BY <2>1, <2>2
<1> QED BY <1>5, <1>9, <1>10, <1>11 DEF HeadOf, F

LEMMA GroupsInOrder ==
  ASSUME NEW hits \in Seq(Node)
  PROVE  FlattenSeq(RowsOf(GroupByType(hits))) = Displayed(hits)
<1> DEFINE s == RowsOf(GroupByType(hits))  m == Cardinality(Ranks(hits))
<1>1. s \in Seq(Seq(Node)) /\ Len(s) = m /\ m \in Nat
  BY GroupRows, RanksFinite
<1>2. PICK f : Joins(Node, s, f, m)
  <2>1. m \in 0 .. Len(s)
    BY <1>1
  <2> HIDE DEF s, m
  <2> QED BY <1>1, <2>1, JoinsExist
<1>3. FlattenSeq(s) = f[m]
  <2> HIDE DEF s, m
  <2> QED BY <1>1, <1>2, JoinIs
<1> DEFINE bad == {g \in 0 .. m : ~ HeadOf(hits, f, g)}
<1>4. ASSUME bad # {} PROVE FALSE
  <2>1. PICK g \in bad : \A h \in bad : g <= h
    <3>1. bad \in SUBSET Nat
      BY <1>1
    <3> HIDE DEF bad
    <3> QED BY <1>4, <3>1, Least
  <2>2. g # 0
    <3>1. f[0] = <<>> /\ Cardinality(FirstGroups(hits, 0)) = 0
      BY <1>2, NextGroup, FS_EmptySet DEF Joins
    <3>2. Len(<<>>) = 0
      OBVIOUS
    <3>3. HeadOf(hits, f, 0)
      BY <3>1, <3>2 DEF HeadOf
    <3> QED BY <3>3
  <2>3. g \in 1 .. m /\ g - 1 \in 0 .. m /\ ~ (g <= g - 1)
    BY <1>1, <2>2
  <2>4. HeadOf(hits, f, g - 1)
    BY <2>1, <2>3
  <2>5. HeadOf(hits, f, g)
    BY <1>2, <2>3, <2>4, HeadGrows
  <2> QED BY <2>5
<1>5. HeadOf(hits, f, m)
  <2>1. m \in 0 .. m
    BY <1>1
  <2> QED BY <1>4, <2>1
<1>6. Cardinality(FirstGroups(hits, m)) = Len(hits)
  <2>1. Len(hits) \in Nat /\ Len(hits) - 1 + 1 = Len(hits) /\ (~ (1 <= Len(hits)) => Len(hits) = 0)
    OBVIOUS
  <2>2. Cardinality(1 .. Len(hits)) = IF 1 <= Len(hits) THEN Len(hits) - 1 + 1 ELSE 0
    BY <2>1, FS_Interval, SMTT(60)
  <2> QED BY <2>1, <2>2, NextGroup
<1>7. f[m] \in Seq(Node)
  <2>1. m \in 0 .. m
    BY <1>1
  <2> QED BY <1>2, <2>1 DEF Joins
<1>8. Displayed(hits) \in Seq(Node) /\ Len(Displayed(hits)) = Len(hits)
  <2> DEFINE d == Displayed(hits)
  <2>1. d = [k \in DOMAIN d |-> d[k]]
    BY DEF Displayed
  <2>2. DOMAIN d = 1 .. Len(hits) /\ \A k \in 1 .. Len(hits) : d[k] \in Node
    BY DisplayedAt
  <2>3. Len(hits) \in Nat
    OBVIOUS
  <2> HIDE DEF d
  <2>4. d \in [1 .. Len(hits) -> Node]
    BY <2>1, <2>2
  <2> QED BY <2>3, <2>4, ListOf DEF d
<1> HIDE DEF m, s
<1>9. Len(f[m]) = Len(hits) /\ \A k \in 1 .. Len(f[m]) : f[m][k] = Displayed(hits)[k]
  BY <1>5, <1>6 DEF HeadOf
<1>10. f[m] = Displayed(hits)
  BY <1>7, <1>8, <1>9, SeqEqual
<1> QED BY <1>3, <1>10 DEF s

\* With a search text, once the newest query has landed, the rows on display
\* are the hits of the current text, chips and scope, in display order, or none
\* after an error: for every search and however the answers were delayed.
THEOREM ListStaysCurrent == Spec => []ListIsCurrent
<1>1. ASSUME BInv PROVE ListIsCurrent
  <2> SUFFICES ASSUME term # NoTerm, Landed PROVE ShowsCurrent
    BY DEF ListIsCurrent
  <2>1. Shown = FlattenSeq(RowsOf(groups))
    BY DEF Shown, RowsOf
  <2>2. CASE failed
    <3>1. RowsOf(groups) = <<>>
      BY <1>1, <2>2 DEF BInv, GroupsAreCurrent
    <3>2. FlattenSeq(<<>>) = <<>>
      BY DEF FlattenSeq
    <3> QED BY <2>1, <2>2, <3>1, <3>2 DEF ShowsCurrent
  <2>3. CASE ~failed
    <3>1. PICK t \in Term, c \in Chip, s \in Scopes : t = term /\ c = chip /\ s = scope
      BY <1>1 DEF BInv, Texts
    <3>2. <<t, c, s>> \in DOMAIN Hits /\ Hits[<<t, c, s>>] \in Seq(Node)
      OBVIOUS
    <3>3. Grouped[<<t, c, s>>] = GroupByType(Hits[<<t, c, s>>])
      BY <3>2 DEF Grouped
    <3>4. Ordered[<<t, c, s>>] = Displayed(Hits[<<t, c, s>>])
      BY <3>2 DEF Ordered
    <3>5. RowsOf(groups) = RowsOf(GroupByType(Hits[<<t, c, s>>]))
      BY <1>1, <2>3, <3>1, <3>3 DEF BInv, GroupsAreCurrent
    <3>6. FlattenSeq(RowsOf(GroupByType(Hits[<<t, c, s>>]))) = Displayed(Hits[<<t, c, s>>])
      BY <3>2, GroupsInOrder
    <3> QED BY <2>1, <2>3, <3>1, <3>4, <3>5, <3>6 DEF ShowsCurrent
  <2> QED BY <2>2, <2>3
<1> QED BY QueriesStayCurrent, <1>1, PTL
=============================================================================
