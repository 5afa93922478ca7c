---------------------------- MODULE WorktreeProofs ----------------------------
(***************************************************************************)
(* Paths as an order: what lies within what, the directory a path is in,   *)
(* and the deepest of the directories around it.  The proofs about the     *)
(* scanner rest on these lemmas and never look into a path themselves.     *)
(***************************************************************************)
EXTENDS Worktree, SequenceTheorems, FiniteSetTheorems, WellFoundedInduction, TLAPS

\* The empty name is what follows a final slash.  (It is a string; the
\* provers do not know that of a literal.)
Names == STRING \cup {""}
Paths == Seq(Names)

-----------------------------------------------------------------------------
(***************************************************************************)
(* Numbers.                                                                *)
(***************************************************************************)
\* A bounded set of numbers has a greatest one.
LEMMA Greatest ==
  ASSUME NEW b \in Nat, NEW S \in SUBSET (0 .. b), S # {}
  PROVE  \E m \in S : \A i \in S : i <= m
<1> DEFINE above(i) == {j \in S : j > i}
           T == {above(i) : i \in S}
           R == StrictSubsetOrdering(S)
<1>1. IsFiniteSet(S)
  BY FS_BoundedSetOfNaturals
<1>2. T \subseteq FiniteSubsetsOf(S) /\ T # {}
  <2>1. T \subseteq SUBSET S /\ T # {}
    OBVIOUS
  <2> QED BY <1>1, <2>1, FS_FiniteSubsetsOfFinite
<1>3. PICK x \in T : \A y \in T : ~ (<<y, x>> \in R)
  <2> HIDE DEF T, R
  <2>1. IsWellFoundedOn(R, FiniteSubsetsOf(S))
    BY FS_StrictSubsetOrderingWellFounded DEF R
  <2> QED BY <1>2, <2>1, WFMin
<1>4. PICK m \in S : x = above(m)
  OBVIOUS
<1>6. \A i \in S : i \in Int
  OBVIOUS
<1>5. ASSUME NEW i \in S, i > m PROVE FALSE
  <2>1. above(i) \subseteq above(m)
    <3> SUFFICES ASSUME NEW j \in S, j > i PROVE j > m
      OBVIOUS
    <3> QED BY <1>5, <1>6
  <2>3. i \in above(m) /\ ~ (i > i)
    BY <1>5, <1>6
  <2>4. i \notin above(i) /\ above(i) # above(m)
    BY <2>3
  <2>2. <<above(i), above(m)>> \in R
    BY <2>1, <2>4 DEF StrictSubsetOrdering
  <2> QED BY <1>3, <1>4, <2>2
<1>7. ASSUME NEW i \in S PROVE i <= m
  BY <1>5, <1>6
<1> QED BY <1>7

\* A set of positions has a first one.
LEMMA Least ==
  ASSUME NEW b \in Nat, NEW S \in SUBSET (0 .. b), S # {}
  PROVE  \E m \in S : \A i \in S : m <= i
<1> DEFINE T == {b - i : i \in S}
<1>1. \A i \in S : i \in 0 .. b /\ b - i \in 0 .. b /\ b - (b - i) = i
  OBVIOUS
<1>2. T \in SUBSET (0 .. b) /\ T # {}
  BY <1>1
<1>3. PICK t \in T : \A x \in T : x <= t
  <2> HIDE DEF T
  <2> QED BY <1>2, Greatest
<1>4. PICK m \in S : t = b - m
  OBVIOUS
<1>5. ASSUME NEW i \in S PROVE m <= i
  <2>1. b - i <= b - m
    BY <1>3, <1>4
  <2> QED BY <1>1, <2>1
<1> QED BY <1>5

-----------------------------------------------------------------------------
(***************************************************************************)
(* The order of paths.                                                     *)
(***************************************************************************)
LEMMA Cut ==
  ASSUME NEW p \in Paths, NEW n \in 0 .. Len(p)
  PROVE  /\ SubSeq(p, 1, n) \in Paths /\ Len(SubSeq(p, 1, n)) = n
         /\ \A i \in 1 .. n : SubSeq(p, 1, n)[i] = p[i]
<1>1. \A i \in 1 .. n : p[i] \in Names
  BY DEF Paths
<1>2. n \in Nat
  BY DEF Paths
<1>3. /\ SubSeq(p, 1, n) \in Seq(Names)
      /\ Len(SubSeq(p, 1, n)) = IF 1 <= n THEN n - 1 + 1 ELSE 0
      /\ \A i \in 1 .. n - 1 + 1 : SubSeq(p, 1, n)[i] = p[1 + i - 1]
  BY <1>1, <1>2, SubSeqProperties
<1>4. n - 1 + 1 = n /\ (~(1 <= n) => n = 0)
  BY <1>2
<1>5. \A i \in 1 .. n : 1 + i - 1 = i
  BY <1>2
<1> QED
  BY <1>3, <1>4, <1>5, Zenon DEF Paths

LEMMA SamePath ==
  ASSUME NEW p \in Paths, NEW q \in Paths, Len(p) = Len(q),
         \A i \in 1 .. Len(p) : p[i] = q[i]
  PROVE  p = q
BY SeqEqual DEF Paths

LEMMA PathLen == \A p \in Paths : Len(p) \in Nat
BY DEF Paths

\* p is within d if d is how p begins.
LEMMA WithinMeans ==
  ASSUME NEW p \in Paths, NEW d \in Paths
  PROVE  Within(p, d) <=> /\ Len(d) <= Len(p)
                          /\ \A i \in 1 .. Len(d) : d[i] = p[i]
<1>1. Len(p) \in Nat /\ Len(d) \in Nat
  BY PathLen
<1> SUFFICES ASSUME Len(d) <= Len(p)
             PROVE  (SubSeq(d, 1, Len(d)) = SubSeq(p, 1, Len(d)))
                      <=> \A i \in 1 .. Len(d) : d[i] = p[i]
  BY DEF Within, IsPrefix
<1> DEFINE a == SubSeq(d, 1, Len(d))
           b == SubSeq(p, 1, Len(d))
<1>2. Len(d) \in 0 .. Len(d) /\ Len(d) \in 0 .. Len(p)
  BY <1>1
<1>3. a \in Paths /\ Len(a) = Len(d) /\ \A i \in 1 .. Len(d) : a[i] = d[i]
  BY <1>2, Cut
<1>4. b \in Paths /\ Len(b) = Len(d) /\ \A i \in 1 .. Len(d) : b[i] = p[i]
  BY <1>2, Cut
<1> HIDE DEF a, b
<1>5. ASSUME \A i \in 1 .. Len(d) : d[i] = p[i] PROVE a = b
  BY <1>3, <1>4, <1>5, SamePath
<1>6. ASSUME a = b PROVE \A i \in 1 .. Len(d) : d[i] = p[i]
  BY <1>3, <1>4, <1>6, Zenon
<1> QED BY <1>5, <1>6 DEF a, b

LEMMA WithinItself == \A p \in Paths : Within(p, p)
<1> SUFFICES ASSUME NEW p \in Paths PROVE Within(p, p)
  OBVIOUS
<1>1. Len(p) <= Len(p)
  BY PathLen
<1> QED BY <1>1, WithinMeans

LEMMA WithinChain ==
  ASSUME NEW p \in Paths, NEW d \in Paths, NEW e \in Paths,
         Within(p, d), Within(d, e)
  PROVE  Within(p, e)
<1>1. Len(p) \in Nat /\ Len(d) \in Nat /\ Len(e) \in Nat
  BY PathLen
<1>2. Len(d) <= Len(p) /\ \A i \in 1 .. Len(d) : d[i] = p[i]
  BY WithinMeans
<1>3. Len(e) <= Len(d) /\ \A i \in 1 .. Len(e) : e[i] = d[i]
  BY WithinMeans
<1>4. Len(e) <= Len(p) /\ \A i \in 1 .. Len(e) : i \in 1 .. Len(d)
  BY <1>1, <1>2, <1>3
<1>5. \A i \in 1 .. Len(e) : e[i] = p[i]
  BY <1>2, <1>3, <1>4
<1> QED BY <1>4, <1>5, WithinMeans

LEMMA WithinEqual ==
  ASSUME NEW p \in Paths, NEW d \in Paths, Within(p, d), Len(p) <= Len(d)
  PROVE  p = d
<1>1. Len(p) = Len(d) /\ \A i \in 1 .. Len(d) : d[i] = p[i]
  BY WithinMeans, PathLen
<1> QED BY <1>1, SamePath

\* Of two directories around a path one is within the other.
LEMMA AroundNest ==
  ASSUME NEW p \in Paths, NEW d \in Paths, NEW e \in Paths,
         Within(p, d), Within(p, e), Len(e) <= Len(d)
  PROVE  Within(d, e)
<1>1. Len(d) \in Nat /\ Len(e) \in Nat
  BY PathLen
<1>2. \A i \in 1 .. Len(d) : d[i] = p[i]
  BY WithinMeans
<1>3. \A i \in 1 .. Len(e) : e[i] = p[i] /\ i \in 1 .. Len(d)
  BY <1>1, WithinMeans
<1>4. \A i \in 1 .. Len(e) : e[i] = d[i]
  BY <1>2, <1>3
<1> QED BY <1>4, WithinMeans

LEMMA WithinRoot == <<>> \in Paths /\ \A p \in Paths : Within(p, <<>>)
<1>1. <<>> \in Paths /\ Len(<<>>) = 0
  BY DEF Paths
<1>2. \A p \in Paths : 0 <= Len(p)
  BY PathLen
<1> QED BY <1>1, <1>2, WithinMeans

LEMMA StrictlyWithin ==
  ASSUME NEW p \in Paths, NEW d \in Paths
  PROVE  /\ IsStrictPrefix(d, p) <=> Within(p, d) /\ p # d
         /\ IsStrictPrefix(d, p) <=> Within(p, d) /\ Len(d) < Len(p)
<1>1. IsStrictPrefix(d, p) <=> Within(p, d) /\ p # d
  BY DEF IsStrictPrefix, Within
<1>2. Len(d) \in Nat /\ Len(p) \in Nat
  BY PathLen
<1>3. ASSUME Within(p, d), p # d PROVE Len(d) < Len(p)
  <2>1. ~(Len(p) <= Len(d))
    BY <1>3, WithinEqual
  <2> QED BY <1>2, <2>1
<1>4. ASSUME Len(d) < Len(p) PROVE p # d
  BY <1>2, <1>4
<1> QED BY <1>1, <1>3, <1>4

-----------------------------------------------------------------------------
(***************************************************************************)
(* Directories and what is in them.                                        *)
(***************************************************************************)
LEMMA FrontPath ==
  ASSUME NEW p \in Paths, p # <<>>
  PROVE  /\ Front(p) \in Paths /\ Len(p) \in Nat \ {0}
         /\ Len(Front(p)) = Len(p) - 1
         /\ Within(p, Front(p)) /\ IsStrictPrefix(Front(p), p)
         /\ Parent(p) = Front(p)
<1>1. Len(p) \in Nat /\ Len(p) # 0
  BY EmptySeq DEF Paths
<1>2. Len(p) - 1 \in 0 .. Len(p) /\ Len(p) - 1 <= Len(p) /\ Len(p) - 1 < Len(p)
  BY <1>1
<1>3. /\ Front(p) \in Paths /\ Len(Front(p)) = Len(p) - 1
      /\ \A i \in 1 .. Len(p) - 1 : Front(p)[i] = p[i]
  BY <1>2, Cut DEF Front
<1> HIDE DEF Front
<1>4. Within(p, Front(p))
  BY <1>2, <1>3, WithinMeans
<1> QED BY <1>1, <1>2, <1>3, <1>4, StrictlyWithin DEF Parent

\* What is strictly above a path is above or at the directory it is in.
LEMMA AboveParent ==
  ASSUME NEW p \in Paths, NEW d \in Paths, IsStrictPrefix(d, p)
  PROVE  p # <<>> /\ Within(Front(p), d)
<1>1. Within(p, d) /\ Len(d) < Len(p) /\ Len(p) \in Nat /\ Len(d) \in Nat
  BY StrictlyWithin, PathLen
<1>2. p # <<>>
  <2>1. Len(<<>>) = 0
    OBVIOUS
  <2> QED BY <1>1, <2>1
<1>3. Front(p) \in Paths /\ Len(Front(p)) = Len(p) - 1 /\ Within(p, Front(p))
  BY <1>2, FrontPath
<1>4. Len(d) <= Len(Front(p))
  BY <1>1, <1>3
<1> QED BY <1>1, <1>2, <1>3, <1>4, AroundNest

\* The way down to a path leads through a child of each directory above it.
LEMMA ChildTowards ==
  ASSUME NEW p \in Paths, NEW d \in Paths, IsStrictPrefix(d, p)
  PROVE  \E c \in Paths : c # <<>> /\ Front(c) = d /\ Within(p, c)
<1>1. Within(p, d) /\ Len(d) < Len(p) /\ Len(p) \in Nat /\ Len(d) \in Nat
  BY StrictlyWithin, PathLen
<1> DEFINE n == Len(d) + 1
           c == SubSeq(p, 1, n)
<1>2. n \in 0 .. Len(p) /\ n - 1 = Len(d) /\ n # 0 /\ n <= Len(p)
  BY <1>1
<1>3. c \in Paths /\ Len(c) = n /\ \A i \in 1 .. n : c[i] = p[i]
  BY <1>2, Cut
<1> HIDE DEF c, n
<1>4. Within(p, c)
  BY <1>2, <1>3, WithinMeans
<1>5. c # <<>>
  <2>1. Len(<<>>) = 0
    OBVIOUS
  <2> QED BY <1>2, <1>3, <2>1
<1>6. Front(c) \in Paths /\ Len(Front(c)) = Len(d) /\ Within(c, Front(c))
  BY <1>2, <1>3, <1>5, FrontPath
<1>7. Within(p, Front(c))
  BY <1>3, <1>4, <1>6, WithinChain
<1>8. Len(Front(c)) <= Len(d)
  BY <1>1, <1>6
<1>9. Within(d, Front(c))
  BY <1>1, <1>6, <1>7, <1>8, AroundNest
<1>10. d = Front(c)
  <2>1. Len(d) <= Len(Front(c))
    BY <1>1, <1>6
  <2> QED BY <1>6, <1>9, <2>1, WithinEqual
<1> QED BY <1>3, <1>4, <1>5, <1>10

-----------------------------------------------------------------------------
(***************************************************************************)
(* The deepest of the directories around a path.                           *)
(***************************************************************************)
IsDeepest(ds, d) == d \in ds /\ \A x \in ds : Len(x) <= Len(d)

LEMMA DeepestFound ==
  ASSUME NEW p \in Paths, NEW ds \in SUBSET Paths, ds # {},
         \A x \in ds : Within(p, x)
  PROVE  IsDeepest(ds, Deepest(ds))
<1> DEFINE S == {Len(x) : x \in ds}
<1>1. Len(p) \in Nat /\ S \in SUBSET (0 .. Len(p)) /\ S # {}
  <2>1. Len(p) \in Nat
    BY PathLen
  <2>2. ASSUME NEW x \in ds PROVE Len(x) \in 0 .. Len(p)
    <3>1. x \in Paths /\ Within(p, x)
      OBVIOUS
    <3> QED BY <2>1, <3>1, WithinMeans, PathLen
  <2> QED BY <2>1, <2>2
<1>2. PICK m \in S : \A i \in S : i <= m
  <2> HIDE DEF S
  <2> QED BY <1>1, Greatest
<1>3. PICK d \in ds : m = Len(d)
  OBVIOUS
<1>4. \A x \in ds : Len(x) <= Len(d)
  BY <1>2, <1>3
<1> QED BY <1>3, <1>4 DEF Deepest, IsDeepest

\* No other is as deep.
LEMMA DeepestIs ==
  ASSUME NEW p \in Paths, NEW ds \in SUBSET Paths, NEW d, IsDeepest(ds, d),
         \A x \in ds : Within(p, x)
  PROVE  Deepest(ds) = d
<1>1. IsDeepest(ds, Deepest(ds))
  BY DEF Deepest, IsDeepest
<1> DEFINE e == Deepest(ds)
<1> HIDE DEF e
<1>2. /\ e \in Paths /\ d \in Paths /\ Within(p, e) /\ Within(p, d)
      /\ Len(d) <= Len(e) /\ Len(e) <= Len(d)
  BY <1>1 DEF IsDeepest, e
<1>3. Within(e, d)
  BY <1>2, AroundNest
<1>4. e = d
  BY <1>2, <1>3, WithinEqual
<1> QED BY <1>4 DEF e

Around(ds, p) == {d \in ds : Within(p, d)}

LEMMA BoundaryFound ==
  ASSUME NEW ds \in SUBSET Paths, <<>> \in ds, NEW p \in Paths
  PROVE  IsDeepest(Around(ds, p), BoundaryFor(ds, p))
<1>1. Around(ds, p) \in SUBSET Paths /\ <<>> \in Around(ds, p)
  BY WithinRoot DEF Around
<1>2. \A x \in Around(ds, p) : Within(p, x)
  BY DEF Around
<1>3. BoundaryFor(ds, p) = Deepest(Around(ds, p))
  BY DEF BoundaryFor, Around
<1> HIDE DEF BoundaryFor, Around, Deepest
<1> QED BY <1>1, <1>2, <1>3, DeepestFound

LEMMA BoundaryIs ==
  ASSUME NEW ds \in SUBSET Paths, NEW p \in Paths, NEW d,
         IsDeepest(Around(ds, p), d)
  PROVE  BoundaryFor(ds, p) = d
<1>1. Around(ds, p) \in SUBSET Paths
  BY DEF Around
<1>2. \A x \in Around(ds, p) : Within(p, x)
  BY DEF Around
<1>3. BoundaryFor(ds, p) = Deepest(Around(ds, p))
  BY DEF BoundaryFor, Around
<1> HIDE DEF BoundaryFor, Around, Deepest
<1> QED BY <1>1, <1>2, <1>3, DeepestIs
=============================================================================
