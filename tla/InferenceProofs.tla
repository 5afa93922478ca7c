--------------------------- MODULE InferenceProofs ---------------------------
(***************************************************************************)
(* Proofs about the inferred edges of Scan, for any campaign and budgets:   *)
(* however the enumeration of pairs is cut or cancelled, each edge stands   *)
(* for something that two nodes share by what the files say, once and no    *)
(* surer than all they share would make it; no more pairs are taken than    *)
(* the budget allows; and where the budgets suffice nothing is missed.      *)
(***************************************************************************)
EXTENDS ScanProofs

-----------------------------------------------------------------------------
(***************************************************************************)
(* What evidence adds up to: a number for each of its kinds.               *)
(***************************************************************************)
EvidenceKinds == {"same_folder", "shared_ancestor", "shared_tag", "shared_frontmatter",
                  "shared_repo_root", "shared_tokens", "artifact_owned"}

OfKind(evidence, kind) == {e \in evidence : e[1] = kind}
Count(evidence, kind) == Cardinality(OfKind(evidence, kind))

Total(evidence) ==
  35 * Count(evidence, "same_folder") + 20 * Count(evidence, "shared_ancestor")
  + 30 * Count(evidence, "shared_tag") + 25 * Count(evidence, "shared_frontmatter")
  + 10 * Count(evidence, "shared_repo_root") + 20 * Count(evidence, "shared_tokens")
  + 25 * Count(evidence, "artifact_owned")

Kinded(evidence) == IsFiniteSet(evidence) /\ \A e \in evidence : e[1] \in EvidenceKinds

LEMMA CountType ==
  ASSUME NEW evidence, IsFiniteSet(evidence), NEW kind
  PROVE  IsFiniteSet(OfKind(evidence, kind)) /\ Count(evidence, kind) \in Nat
BY FS_Subset, FS_CardinalityType DEF OfKind, Count

LEMMA CountStep ==
  ASSUME NEW evidence, Kinded(evidence), NEW x \in evidence, NEW kind
  PROVE  Count(evidence, kind) = Count(evidence \ {x}, kind) + (IF x[1] = kind THEN 1 ELSE 0)
<1> DEFINE all == OfKind(evidence, kind)  rest == OfKind(evidence \ {x}, kind)
<1>1. IsFiniteSet(all) /\ Cardinality(all) \in Nat
  BY CountType, FS_CardinalityType DEF Kinded
<1>2. CASE x[1] = kind
  <2>1. x \in all /\ rest = all \ {x}
    BY <1>2 DEF OfKind
  <2>2. Cardinality(all \ {x}) = Cardinality(all) - 1
    BY <1>1, <2>1, FS_RemoveElement
  <2>3. Count(evidence, kind) = Cardinality(all) /\ Count(evidence \ {x}, kind) = Cardinality(all) - 1
    BY <2>1, <2>2 DEF Count
  <2> HIDE DEF all, rest
  <2> QED BY <1>1, <1>2, <2>3
<1>3. CASE x[1] # kind
  <2>1. rest = all
    BY <1>3 DEF OfKind
  <2>2. Count(evidence, kind) = Cardinality(all) /\ Count(evidence \ {x}, kind) = Cardinality(all)
    BY <2>1 DEF Count
  <2> HIDE DEF all, rest
  <2> QED BY <1>1, <1>3, <2>2
<1> QED BY <1>2, <1>3

LEMMA TotalStep ==
  ASSUME NEW evidence, Kinded(evidence), NEW x \in evidence
  PROVE  /\ Total(evidence \ {x}) \in Nat /\ Weight(x[1]) \in Nat
         /\ Total(evidence) = Weight(x[1]) + Total(evidence \ {x})
<1> DEFINE rest == evidence \ {x}
<1>1. \A kind : Count(rest, kind) \in Nat
  <2>1. IsFiniteSet(rest)
    BY FS_Subset DEF Kinded
  <2> QED BY <2>1, CountType
<1>2. \A kind : Count(evidence, kind) = Count(rest, kind) + (IF x[1] = kind THEN 1 ELSE 0)
  BY CountStep
<1>3. x[1] \in EvidenceKinds
  BY DEF Kinded
<1>4. x[1] = "same_folder" => Weight(x[1]) = 35
  BY DEF Weight
<1>5. x[1] = "shared_ancestor" => Weight(x[1]) = 20
  BY DEF Weight
<1>6. x[1] = "shared_tag" => Weight(x[1]) = 30
  BY DEF Weight
<1>7. x[1] = "shared_frontmatter" => Weight(x[1]) = 25
  BY DEF Weight
<1>8. x[1] = "shared_repo_root" => Weight(x[1]) = 10
  BY DEF Weight
<1>9. x[1] = "shared_tokens" => Weight(x[1]) = 20
  BY DEF Weight
<1>10. x[1] = "artifact_owned" => Weight(x[1]) = 25
  BY DEF Weight
<1> HIDE DEF rest
<1>11. Total(rest) \in Nat
  BY <1>1 DEF Total
<1>12. Weight(x[1]) \in Nat
  BY <1>3, <1>4, <1>5, <1>6, <1>7, <1>8, <1>9, <1>10 DEF EvidenceKinds
<1>13. Total(evidence) = Weight(x[1]) + Total(rest)
  BY <1>1, <1>2, <1>3, <1>4, <1>5, <1>6, <1>7, <1>8, <1>9, <1>10 DEF EvidenceKinds, Total
<1> QED BY <1>11, <1>12, <1>13 DEF rest

LEMMA TotalEmpty == Total({}) = 0
<1>1. \A kind : Count({}, kind) = 0
  BY FS_EmptySet DEF Count, OfKind
<1> QED BY <1>1 DEF Total

First(s) == CHOOSE x \in s : TRUE
Sums(evidence, g) ==
  g = [s \in SUBSET evidence |->
         IF s = {} THEN 0 ELSE Weight(First(s)[1]) + g[s \ {First(s)}]]

LEMMA ScoreSums ==
  ASSUME NEW evidence
  PROVE  Score(evidence) = (CHOOSE g : Sums(evidence, g))[evidence]
BY Zenon DEF Score, FoldSet, MapThenFoldSet, Sums, First

LEMMA SumsAre ==
  ASSUME NEW evidence, Kinded(evidence), NEW g, Sums(evidence, g)
  PROVE  \A s \in SUBSET evidence : g[s] = Total(s)
<1> DEFINE wrong == {s \in SUBSET evidence : g[s] # Total(s)}
           sizes == {Cardinality(s) : s \in wrong}
<1> SUFFICES ASSUME wrong # {} PROVE FALSE
  OBVIOUS
<1>1. \A s \in SUBSET evidence : /\ IsFiniteSet(s) /\ Cardinality(s) \in 0 .. Cardinality(evidence)
                                 /\ Kinded(s)
  BY FS_Subset, FS_CardinalityType DEF Kinded
<1>2. Cardinality(evidence) \in Nat
  BY FS_CardinalityType DEF Kinded
<1>3. PICK m \in sizes : \A i \in sizes : m <= i
  <2>1. sizes \in SUBSET (0 .. Cardinality(evidence)) /\ sizes # {}
    BY <1>1
  <2> HIDE DEF sizes
  <2> QED BY <1>2, <2>1, Least
<1>4. PICK s \in wrong : Cardinality(s) = m
  BY <1>3
<1>5. g[s] = IF s = {} THEN 0 ELSE Weight(First(s)[1]) + g[s \ {First(s)}]
  BY <1>4, Zenon DEF Sums
<1>6. s # {}
  BY <1>4, <1>5, TotalEmpty
<1>7. First(s) \in s
  BY <1>6 DEF First
<1>8. Cardinality(s \ {First(s)}) = Cardinality(s) - 1 /\ Cardinality(s) \in Nat
  BY <1>1, <1>4, <1>7, FS_RemoveElement
<1>9. s \ {First(s)} \notin wrong
  <2>1. ~ (m <= Cardinality(s) - 1)
    BY <1>4, <1>8
  <2> QED BY <1>3, <1>8, <2>1
<1>10. g[s \ {First(s)}] = Total(s \ {First(s)})
  BY <1>4, <1>9
<1>11. Total(s) = Weight(First(s)[1]) + Total(s \ {First(s)})
  BY <1>1, <1>4, <1>7, TotalStep
<1> QED BY <1>4, <1>5, <1>6, <1>10, <1>11

LEMMA ScoreIsTotal ==
  ASSUME NEW evidence, Kinded(evidence)
  PROVE  Score(evidence) = Total(evidence)
<1> DEFINE t == [s \in SUBSET evidence |-> Total(s)]
<1>1. Sums(evidence, t)
  <2>1. ASSUME NEW s \in SUBSET evidence
        PROVE  Total(s) = IF s = {} THEN 0 ELSE Weight(First(s)[1]) + t[s \ {First(s)}]
    <3>1. CASE s = {}
      BY <3>1, TotalEmpty
    <3>2. CASE s # {}
      <4>1. First(s) \in s /\ Kinded(s)
        BY <3>2, FS_Subset DEF First, Kinded
      <4>2. t[s \ {First(s)}] = Total(s \ {First(s)})
        OBVIOUS
      <4> QED BY <3>2, <4>1, <4>2, TotalStep
    <3> QED BY <3>1, <3>2
  <2> QED BY <2>1 DEF Sums
<1>2. Sums(evidence, CHOOSE g : Sums(evidence, g))
  <2> HIDE DEF t
  <2> QED BY <1>1
<1> QED BY <1>2, ScoreSums, SumsAre

LEMMA ScoreGrows ==
  ASSUME NEW some, NEW all, Kinded(all), some \subseteq all
  PROVE  /\ Score(some) \in Nat /\ Score(all) \in Nat
         /\ Score(some) <= Score(all)
         /\ Saturate(Score(some)) <= Saturate(Score(all))
         /\ Saturate(Score(all)) \in 0 .. 10000
<1>1. Kinded(some)
  BY FS_Subset DEF Kinded
<1>2. \A kind : Count(some, kind) \in Nat /\ Count(all, kind) \in Nat
  BY <1>1, CountType DEF Kinded
<1>3. \A kind : Count(some, kind) <= Count(all, kind)
  <2> SUFFICES ASSUME NEW kind PROVE Count(some, kind) <= Count(all, kind)
    OBVIOUS
  <2>1. OfKind(some, kind) \subseteq OfKind(all, kind) /\ IsFiniteSet(OfKind(all, kind))
    BY CountType DEF OfKind, Kinded
  <2> QED BY <2>1, FS_Subset DEF Count
<1>4. Total(some) \in Nat /\ Total(all) \in Nat /\ Total(some) <= Total(all)
  BY <1>2, <1>3 DEF Total
<1>5. Score(some) = Total(some) /\ Score(all) = Total(all)
  BY <1>1, ScoreIsTotal
<1>6. \A x, y \in Nat : x <= y => Saturate(x) <= Saturate(y)
  BY DEF Saturate
<1>7. \A x \in Nat : Saturate(x) \in Int /\ Saturate(x) <= 10000
  BY DEF Saturate
<1>8. Saturate(0) = 0
  BY DEF Saturate
<1> DEFINE u == Total(some)  v == Total(all)
<1>9. Saturate(u) <= Saturate(v) /\ Saturate(v) \in 0 .. 10000
  <2>1. u \in Nat /\ v \in Nat /\ u <= v
    BY <1>4
  <2> HIDE DEF u, v
  <2>2. Saturate(u) <= Saturate(v)
    BY <1>6, <2>1, Zenon
  <2>3. Saturate(v) \in Int /\ Saturate(v) <= 10000
    BY <1>7, <2>1
  <2>4. 0 \in Nat /\ 0 <= v
    BY <2>1
  <2>5. Saturate(0) <= Saturate(v)
    BY <1>6, <2>1, <2>4, Zenon
  <2>6. 0 <= Saturate(v)
    BY <1>8, <2>5, Zenon
  <2>7. PICK z \in Int : z = Saturate(v)
    BY <2>3
  <2>8. 0 <= z
    BY <2>6, <2>7, Zenon
  <2>9. z <= 10000
    BY <2>3, <2>7
  <2>10. z \in 0 .. 10000
    BY <2>8, <2>9
  <2> QED BY <2>2, <2>7, <2>10
<1> HIDE DEF u, v
<1>10. Score(some) = u /\ Score(all) = v /\ u \in Nat /\ v \in Nat /\ u <= v
  BY <1>4, <1>5 DEF u, v
<1> QED BY <1>9, <1>10

-----------------------------------------------------------------------------
(***************************************************************************)
(* Evidence is what the files give.                                        *)
(***************************************************************************)
HasPath(id) ==
  /\ id[1] \in ToSet(Kinds)
  /\ \E p \in Seq(STRING) \cap ToSet(Order) : id = <<id[1]>> \o p

\* A pair of candidates, in order unless it is one of a node and itself, and
\* something that it shares.
Evident(s) ==
  LET a == s[1][1]  b == s[1][2]
  IN  /\ s[1] = <<a, b>> /\ {a, b} \subseteq Candidates(N)
      /\ a = b \/ Earlier(a, b)
      /\ <<s[2], s[3]>> \in Shared(a, b)

CandidatePaths == \A id \in Candidates(N) : HasPath(id)
TagsStated ==
  \A e \in edges : e.type = "references" =>
    e.from[1] = "note" /\ \E t \in TextOf(Tail(e.from)).inline : e.to = <<"tag", t>>
Lists == Posting(pc, N, edges)
TextsTodo ==
  /\ pc = "links" => todo \subseteq NotesIn(N)
  /\ pc \in ToSet(Sources) => todo \subseteq {<<v, Lists[v]>> : v \in DOMAIN Lists}

Unpaired == Unbridged \cup {"code"}
Unaggregated == Unpaired \cup ToSet(Sources) \cup {"aggregate"}

SoundInv ==
  /\ CandidatePaths /\ TagsStated /\ TextsTodo
  /\ pc \in Unpaired => signals = {}
  /\ \A s \in signals : Evident(s)
  /\ pc \in Unaggregated => Inferred = {}
  /\ Inferred \subseteq InferredEdges(signals)

-----------------------------------------------------------------------------
LEMMA KindNames ==
  /\ ToSet(Kinds) = {"attachment", "canvas", "note"}
  /\ \A kind \in ToSet(Kinds) : (CHOOSE k \in DOMAIN Kinds : Kinds[k] = kind) \in Nat
<1>1. ToSet(Kinds) = {"attachment", "canvas", "note"}
  BY DEF ToSet, Kinds
<1>2. \A kind \in ToSet(Kinds) : \E k \in DOMAIN Kinds : Kinds[k] = kind
  BY DEF ToSet
<1>3. DOMAIN Kinds = 1 .. 3
  BY DEF Kinds
<1> QED BY <1>1, <1>2, <1>3

LEMMA PathOf ==
  ASSUME NEW id, HasPath(id)
  PROVE  /\ Tail(id) \in Seq(STRING) \cap ToSet(Order)
         /\ id = <<id[1]>> \o Tail(id)
<1>1. PICK p \in Seq(STRING) \cap ToSet(Order) : id = <<id[1]>> \o p
  BY DEF HasPath
<1>2. Tail(<<id[1]>> \o p) = p
  BY PathId
<1> QED BY <1>1, <1>2

LEMMA Ranked ==
  ASSUME NEW id, HasPath(id)
  PROVE  Rank(id)[1] \in Nat /\ Rank(id)[2] \in Nat
<1>1. (CHOOSE k \in DOMAIN Kinds : Kinds[k] = id[1]) \in Nat
  BY KindNames DEF HasPath
<1>2. \E i \in DOMAIN Order : Order[i] = Tail(id)
  BY PathOf DEF ToSet
<1>3. (CHOOSE i \in DOMAIN Order : Order[i] = Tail(id)) \in Nat
  <2>1. DOMAIN Order \subseteq Nat
    BY ScanAssumption
  <2> QED BY <1>2, <2>1
<1> QED BY <1>1, <1>3 DEF Rank
LEMMA EarlierOnce ==
  ASSUME NEW a, HasPath(a), NEW b, HasPath(b), Earlier(a, b)
  PROVE  a # b /\ ~Earlier(b, a)
<1>1. /\ Rank(a)[1] \in Nat /\ Rank(a)[2] \in Nat
      /\ Rank(b)[1] \in Nat /\ Rank(b)[2] \in Nat
  BY Ranked
<1>2. /\ Rank(a)[1] < Rank(b)[1] \/ (Rank(a)[1] = Rank(b)[1] /\ Rank(a)[2] < Rank(b)[2])
  BY DEF Earlier
<1>3. Earlier(b, a) => Rank(b)[1] < Rank(a)[1] \/ (Rank(b)[1] = Rank(a)[1] /\ Rank(b)[2] < Rank(a)[2])
  BY DEF Earlier
<1>4. ~Earlier(b, a)
  <2> DEFINE r1 == Rank(a)[1]  r2 == Rank(a)[2]  s1 == Rank(b)[1]  s2 == Rank(b)[2]
  <2>1. r1 \in Nat /\ r2 \in Nat /\ s1 \in Nat /\ s2 \in Nat
    BY <1>1
  <2>2. r1 < s1 \/ (r1 = s1 /\ r2 < s2)
    BY <1>2
  <2>3. Earlier(b, a) => s1 < r1 \/ (s1 = r1 /\ s2 < r2)
    BY <1>3
  <2> HIDE DEF r1, r2, s1, s2
  <2> QED BY <2>1, <2>2, <2>3
<1> QED BY <1>4

\* What a member has but once, two members share.
LEMMA OncePair ==
  ASSUME NEW ids, \A id \in ids : HasPath(id),
         NEW x \in Once(ids), NEW y \in Once(ids), Before(x, y)
  PROVE  /\ x[1] \in ids /\ y[1] \in ids
         /\ x[1] # y[1] /\ Earlier(x[1], y[1])
<1>1. x[1] \in ids /\ y[1] \in ids /\ x[2] = 1 /\ y[2] = 1
  BY DEF Once
<1>2. Earlier(x[1], y[1])
  BY <1>1 DEF Before
<1> QED BY <1>1, <1>2, EarlierOnce

TextFor(id) == IF id[1] = "note" THEN TextOf(Tail(id)) ELSE Blank

LEMMA MetaIs ==
  ASSUME NEW id \in Candidates(N)
  PROVE  Meta(N)[id] = TextFor(id)
BY DEF Meta, TextFor

\* The folders above the one a path is in.
LEMMA AboveIs ==
  ASSUME NEW id, Tail(id) \in Seq(STRING)
  PROVE  Above(id) = {SubSeq(Tail(id), 1, i) : i \in 1 .. Len(Tail(id)) - 2}
<1> DEFINE p == Tail(id)
<1>1. CASE p = <<>>
  <2>1. Parent(p) = <<>> /\ Len(p) = 0 /\ Len(Parent(p)) = 0
    BY <1>1 DEF Parent
  <2>2. 1 .. 0 - 1 = {} /\ 1 .. 0 - 2 = {}
    OBVIOUS
  <2>3. Above(id) = {SubSeq(Parent(p), 1, i) : i \in 1 .. Len(Parent(p)) - 1}
    BY DEF Above, Ancestors
  <2>4. Above(id) = {} /\ {SubSeq(p, 1, i) : i \in 1 .. Len(p) - 2} = {}
    <3> HIDE DEF p
    <3> QED BY <2>1, <2>2, <2>3
  <2> QED BY <2>4
<1>2. CASE p # <<>>
  <2>1. Parent(p) = SubSeq(p, 1, Len(p) - 1) /\ Len(p) \in Nat \ {0}
    BY <1>2 DEF Parent, Front
  <2>2. Len(Parent(p)) = Len(p) - 1 /\ Parent(p) \in Seq(STRING)
    BY <1>2, ParentPath, FrontPath, StringPaths DEF Parent
  <2>3. ASSUME NEW i \in 1 .. Len(p) - 2 PROVE SubSeq(Parent(p), 1, i) = SubSeq(p, 1, i)
    <3>1. SubSeq(Parent(p), 1, i) \in Seq(STRING) /\ Len(SubSeq(Parent(p), 1, i)) = i
      BY <2>1, <2>2
    <3>2. SubSeq(p, 1, i) \in Seq(STRING) /\ Len(SubSeq(p, 1, i)) = i
      BY <2>1
    <3>3. \A j \in 1 .. i : SubSeq(Parent(p), 1, i)[j] = SubSeq(p, 1, i)[j]
      BY <2>1, <2>2
    <3> QED BY <3>1, <3>2, <3>3, SeqEqual
  <2>4. Above(id) = {SubSeq(Parent(p), 1, i) : i \in 1 .. Len(Parent(p)) - 1}
    BY DEF Above, Ancestors
  <2>5. Len(Parent(p)) - 1 = Len(p) - 2
    BY <2>1, <2>2
  <2> QED BY <2>3, <2>4, <2>5
<1> QED BY <1>1, <1>2
-----------------------------------------------------------------------------
Cs == Candidates(N)
Refs == References(N, edges)

LEMMA EvidentPair ==
  ASSUME NEW a \in Cs, NEW b \in Cs, a # b, Earlier(a, b),
         NEW source, NEW v, <<source, v>> \in SharedValues(a, b)
  PROVE  Evident(<<<<a, b>>, source, v>>)
BY DEF Evident, Shared, Cs

LEMMA OnceEvident ==
  ASSUME CandidatePaths, NEW ids \in SUBSET Cs,
         NEW x \in Once(ids), NEW y \in Once(ids), Before(x, y), NEW source, NEW v,
         \A a, b \in ids : <<source, v>> \in SharedValues(a, b)
  PROVE  Evident(<<<<x[1], y[1]>>, source, v>>)
<1>1. \A id \in ids : HasPath(id)
  BY DEF CandidatePaths, Cs
<1>2. x[1] \in ids /\ y[1] \in ids /\ x[1] # y[1] /\ Earlier(x[1], y[1])
  BY <1>1, OncePair
<1> QED BY <1>2, EvidentPair

LEMMA FolderEvident ==
  ASSUME CandidatePaths, NEW v \in DOMAIN ByFolder(Cs),
         NEW x \in ByFolder(Cs)[v], NEW y \in ByFolder(Cs)[v], Before(x, y)
  PROVE  Evident(<<<<x[1], y[1]>>, "same_folder", v>>)
<1> DEFINE ids == {id \in Cs : Parent(Tail(id)) = v}
<1>1. ByFolder(Cs)[v] = Once(ids)
  BY DEF ByFolder
<1>2. \A a, b \in ids : <<"same_folder", v>> \in SharedValues(a, b)
  BY DEF SharedValues
<1> QED BY <1>1, <1>2, OnceEvident

LEMMA AncestorEvident ==
  ASSUME CandidatePaths, NEW v \in DOMAIN ByAncestor(Cs),
         NEW x \in ByAncestor(Cs)[v], NEW y \in ByAncestor(Cs)[v], Before(x, y)
  PROVE  Evident(<<<<x[1], y[1]>>, "shared_ancestor", v>>)
<1> DEFINE ids == {id \in Cs : v \in Above(id)}
<1>1. ByAncestor(Cs)[v] = Once(ids)
  BY DEF ByAncestor
<1>2. ASSUME NEW a \in ids, NEW b \in ids
      PROVE  <<"shared_ancestor", v>> \in SharedValues(a, b)
  <2> DEFINE Over(r) == {SubSeq(r, 1, i) : i \in 1 .. Len(r) - 2}
  <2>1. Above(a) = Over(Tail(a)) /\ Above(b) = Over(Tail(b))
    BY AboveIs, PathOf DEF CandidatePaths, Cs
  <2>2. v \in Over(Tail(a)) \cap Over(Tail(b))
    BY <2>1
  <2>3. <<"shared_ancestor", v>> \in
          {<<"shared_ancestor", d>> : d \in Over(Tail(a)) \cap Over(Tail(b))}
    BY <2>2
  <2> QED BY <2>3, Zenon DEF SharedValues
<1> QED BY <1>1, <1>2, OnceEvident

LEMMA TagEvident ==
  ASSUME CandidatePaths, TagsStated, NEW v \in DOMAIN ByTag(Cs, Refs, Meta(N)),
         NEW x \in ByTag(Cs, Refs, Meta(N))[v], NEW y \in ByTag(Cs, Refs, Meta(N))[v], Before(x, y)
  PROVE  Evident(<<<<x[1], y[1]>>, "shared_tag", v>>)
<1> DEFINE ids == {id \in Cs : v \in TagsOf(Refs, Meta(N), id)}
<1>1. ByTag(Cs, Refs, Meta(N))[v] = Once(ids)
  BY DEF ByTag
<1> DEFINE Tags(id) == Meta(N)[id].tags \cup (IF id[1] = "note" THEN TextOf(Tail(id)).inline ELSE {})
<1>2. ASSUME NEW id \in ids PROVE v \in Tags(id)
  <2>1. CASE v \in Meta(N)[id].tags
    BY <2>1
  <2>2. CASE v \notin Meta(N)[id].tags
    <3>1. PICK ref \in Refs : ref[1] = id /\ v = ref[2][2]
      BY <2>2 DEF TagsOf
    <3>2. PICK e \in edges : e.type = "references" /\ ref = <<e.from, e.to>>
      BY <3>1 DEF Refs, References
    <3>3. e.from = id /\ v = e.to[2]
      BY <3>1, <3>2
    <3> QED BY <3>2, <3>3 DEF TagsStated
  <2> QED BY <2>1, <2>2
<1>3. ASSUME NEW a \in ids, NEW b \in ids
      PROVE  <<"shared_tag", v>> \in SharedValues(a, b)
  <2>1. v \in Tags(a) \cap Tags(b)
    BY <1>2
  <2>2. <<"shared_tag", v>> \in {<<"shared_tag", t>> : t \in Tags(a) \cap Tags(b)}
    BY <2>1
  <2> QED BY <2>2, Zenon DEF SharedValues
<1> QED BY <1>1, <1>3, OnceEvident

LEMMA RepoEvident ==
  ASSUME CandidatePaths, NEW v \in DOMAIN ByRepoRoot(Cs, Boundaries),
         NEW x \in ByRepoRoot(Cs, Boundaries)[v], NEW y \in ByRepoRoot(Cs, Boundaries)[v], Before(x, y)
  PROVE  Evident(<<<<x[1], y[1]>>, "shared_repo_root", v>>)
<1> DEFINE ids == {id \in Cs : id[1] = "note" /\ BoundaryFor(Boundaries, Tail(id)) = v}
<1>1. ByRepoRoot(Cs, Boundaries)[v] = Once(ids)
  BY DEF ByRepoRoot
<1>2. \A a, b \in ids : <<"shared_repo_root", v>> \in SharedValues(a, b)
  BY DEF SharedValues
<1> QED BY <1>1, <1>2, OnceEvident
\* What a field of the front matter states, and how often an alias was stated before.
LEMMA FieldIs ==
  ASSUME NEW m, NEW f \in Stated(m)
  PROVE  /\ f = <<f[1], f[2], f[3]>> /\ f[2] # None
         /\ \/ f[1] = "type" /\ f[2] = m.type /\ f[3] = 1
            \/ f[1] = "status" /\ f[2] = m.status /\ f[3] = 1
            \/ /\ f[1] = "alias"
               /\ \E i \in DOMAIN m.aliases :
                    /\ f[2] = m.aliases[i]
                    /\ f[3] = Cardinality({j \in 1 .. i : m.aliases[j] = m.aliases[i]})
<1>1. f \in Fields(m) /\ f[2] # None
  BY DEF Stated
<1>2. CASE f \in {<<"type", m.type, 1>>, <<"status", m.status, 1>>}
  BY <1>1, <1>2
<1>3. CASE f \notin {<<"type", m.type, 1>>, <<"status", m.status, 1>>}
  <2>1. PICK i \in DOMAIN m.aliases :
          f = <<"alias", m.aliases[i], Cardinality({j \in 1 .. i : m.aliases[j] = m.aliases[i]})>>
    BY <1>1, <1>3, Zenon DEF Fields
  <2>2. f[1] = "alias" /\ f[2] = m.aliases[i]
        /\ f[3] = Cardinality({j \in 1 .. i : m.aliases[j] = m.aliases[i]})
    BY <2>1
  <2>3. f = <<f[1], f[2], f[3]>>
    BY <2>1
  <2> QED BY <1>1, <2>2, <2>3
<1> QED BY <1>2, <1>3

\* A field that two statements give with numbers of their own is repeated.
LEMMA RepeatedField ==
  ASSUME NEW m, m.aliases \in Seq(STRING), NEW f \in Stated(m), NEW g \in Stated(m),
         f[1] = g[1], f[2] = g[2], f[3] # g[3]
  PROVE  f[1] = "alias" /\ f[2] \in Repeated(m.aliases)
<1>1. f[1] = "alias" /\ f[2] # None
  BY FieldIs
<1>2. PICK i \in DOMAIN m.aliases :
         /\ f[2] = m.aliases[i]
         /\ f[3] = Cardinality({j \in 1 .. i : m.aliases[j] = m.aliases[i]})
  BY <1>1, FieldIs
<1>3. PICK k \in DOMAIN m.aliases :
         /\ g[2] = m.aliases[k]
         /\ g[3] = Cardinality({j \in 1 .. k : m.aliases[j] = m.aliases[k]})
  BY <1>1, FieldIs
<1>4. i # k /\ i \in Nat \ {0} /\ k \in Nat \ {0}
  <2>1. i # k
    BY <1>2, <1>3, Zenon
  <2>2. DOMAIN m.aliases \subseteq Nat \ {0}
    OBVIOUS
  <2> QED BY <2>1, <2>2
<1>5. CASE i < k
  <2>1. i \in 1 .. k - 1
    BY <1>4, <1>5
  <2>2. m.aliases[i] = m.aliases[k]
    BY <1>2, <1>3, Zenon
  <2> QED BY <1>1, <1>2, <1>3, <2>1, <2>2 DEF Repeated
<1>6. CASE k < i
  <2>1. k \in 1 .. i - 1
    BY <1>4, <1>6
  <2>2. m.aliases[k] = m.aliases[i]
    BY <1>2, <1>3, Zenon
  <2> QED BY <1>1, <1>2, <2>1, <2>2 DEF Repeated
<1> QED BY <1>4, <1>5, <1>6

LEMMA TextTyped ==
  ASSUME EInv, NEW p
  PROVE  /\ TextOf(p).aliases \in Seq(STRING)
         /\ IsFiniteSet(TextOf(p).tags) /\ IsFiniteSet(TextOf(p).inline)
<1>1. CASE p \in DOMAIN W.text \ W.unread
  <2>1. CampaignType(W)
    BY ScanAssumption DEF EInv, W
  <2>2. TextOf(p) = W.text[p]
    BY <1>1 DEF TextOf
  <2>3. /\ W.text[p].aliases \in Seq(STRING)
        /\ IsFiniteSet(W.text[p].tags) /\ IsFiniteSet(W.text[p].inline)
    BY <1>1, <2>1, Zenon DEF CampaignType
  <2> QED BY <2>2, <2>3
<1>2. CASE p \notin DOMAIN W.text \ W.unread
  <2>1. TextOf(p).aliases = <<>> /\ TextOf(p).tags = {} /\ TextOf(p).inline = {}
    BY <1>2 DEF TextOf, Blank
  <2> QED BY <2>1, FS_EmptySet
<1> QED BY <1>1, <1>2

LEMMA MetaTyped ==
  ASSUME EInv, NEW id \in Cs
  PROVE  Meta(N)[id].aliases \in Seq(STRING) /\ IsFiniteSet(Meta(N)[id].tags)
<1>1. Meta(N)[id] = TextFor(id)
  BY MetaIs DEF Cs
<1>2. CASE id[1] = "note"
  BY <1>1, <1>2, TextTyped DEF TextFor
<1>3. CASE id[1] # "note"
  BY <1>1, <1>3, FS_EmptySet DEF TextFor, Blank
<1> QED BY <1>2, <1>3

LEMMA FieldShared ==
  ASSUME EInv, NEW a \in Cs, NEW b \in Cs, NEW f \in Stated(Meta(N)[a]), NEW g \in Stated(Meta(N)[b]),
         f[1] = g[1], f[2] = g[2]
  PROVE  <<"shared_frontmatter", <<f[1], f[2]>>>> \in SharedValues(a, b)
<1> DEFINE x == Meta(N)[a]  y == Meta(N)[b]
           Same(kind, u, v) == IF u = v /\ u # None THEN {<<"shared_frontmatter", <<kind, u>>>>} ELSE {}
           both == (ToSet(x.aliases) \cap ToSet(y.aliases)) \ {None}
<1>1. /\ Same("type", x.type, y.type) \subseteq SharedValues(a, b)
      /\ Same("status", x.status, y.status) \subseteq SharedValues(a, b)
      /\ {<<"shared_frontmatter", <<"alias", v>>>> : v \in both} \subseteq SharedValues(a, b)
  BY Zenon DEF SharedValues
<1>2. CASE f[1] = "type"
  <2>1. f[2] = x.type /\ g[2] = y.type /\ f[2] # None
    BY <1>2, FieldIs
  <2>2. <<"shared_frontmatter", <<f[1], f[2]>>>> \in Same("type", x.type, y.type)
    BY <1>2, <2>1
  <2> QED BY <1>1, <2>2
<1>3. CASE f[1] = "status"
  <2>1. f[2] = x.status /\ g[2] = y.status /\ f[2] # None
    BY <1>3, FieldIs
  <2>2. <<"shared_frontmatter", <<f[1], f[2]>>>> \in Same("status", x.status, y.status)
    BY <1>3, <2>1
  <2> QED BY <1>1, <2>2
<1>4. CASE f[1] = "alias"
  <2>1. f[2] \in ToSet(x.aliases) /\ f[2] # None
    <3>1. f[2] # None /\ \E i \in DOMAIN x.aliases : f[2] = x.aliases[i]
      BY <1>4, FieldIs
    <3> QED BY <3>1 DEF ToSet
  <2>3. g[2] \in ToSet(y.aliases)
    <3>1. \E i \in DOMAIN y.aliases : g[2] = y.aliases[i]
      BY <1>4, FieldIs
    <3> QED BY <3>1 DEF ToSet
  <2>2. f[2] \in both
    BY <2>1, <2>3
  <2> QED BY <1>1, <1>4, <2>2
<1> QED BY <1>2, <1>3, <1>4, FieldIs

LEMMA FrontmatterEvident ==
  ASSUME EInv, CandidatePaths, NEW v \in DOMAIN ByFrontmatter(Cs, Meta(N)),
         NEW x \in ByFrontmatter(Cs, Meta(N))[v], NEW y \in ByFrontmatter(Cs, Meta(N))[v], Before(x, y)
  PROVE  Evident(<<<<x[1], y[1]>>, "shared_frontmatter", v>>)
<1> DEFINE Of(id) == {<<id, f[3]>> : f \in {z \in Stated(Meta(N)[id]) : <<z[1], z[2]>> = v}}
<1>1. ByFrontmatter(Cs, Meta(N))[v] = UNION {Of(id) : id \in Cs}
  BY DEF ByFrontmatter
<1>2. PICK a \in Cs : x \in Of(a)
  BY <1>1
<1>3. PICK b \in Cs : y \in Of(b)
  BY <1>1
<1>4. PICK f \in Stated(Meta(N)[a]) : <<f[1], f[2]>> = v /\ x = <<a, f[3]>>
  BY <1>2
<1>5. PICK g \in Stated(Meta(N)[b]) : <<g[1], g[2]>> = v /\ y = <<b, g[3]>>
  BY <1>3
<1> HIDE DEF Of
<1>6. f[1] = g[1] /\ f[2] = g[2] /\ x[1] = a /\ y[1] = b /\ x[2] = f[3] /\ y[2] = g[3]
  BY <1>4, <1>5
<1>7. HasPath(a) /\ HasPath(b)
  BY DEF CandidatePaths, Cs
<1>8. CASE a # b
  <2>1. Earlier(a, b)
    BY <1>6, <1>8 DEF Before
  <2>2. <<"shared_frontmatter", v>> \in SharedValues(a, b)
    BY <1>4, <1>6, FieldShared
  <2> QED BY <1>6, <1>8, <2>1, <2>2, EvidentPair
<1>9. CASE a = b
  <2>1. x[2] < y[2]
    BY <1>6, <1>7, <1>9, EarlierOnce DEF Before
  <2>2. f[3] # g[3]
    <3>1. f[3] \in Nat
      <4>1. Meta(N)[a].aliases \in Seq(STRING)
        BY MetaTyped
      <4>2. CASE f[1] = "alias"
        <5>1. PICK i \in DOMAIN Meta(N)[a].aliases :
                f[3] = Cardinality({j \in 1 .. i : Meta(N)[a].aliases[j] = Meta(N)[a].aliases[i]})
          BY <4>2, FieldIs
        <5>2. IsFiniteSet({j \in 1 .. i : Meta(N)[a].aliases[j] = Meta(N)[a].aliases[i]})
          <6>1. i \in Int
            BY <4>1
          <6>2. IsFiniteSet(1 .. i)
            BY <6>1, FS_Interval
          <6> QED BY <6>2, FS_Subset
        <5> QED BY <5>1, <5>2, FS_CardinalityType
      <4>3. CASE f[1] # "alias"
        BY <4>3, FieldIs
      <4> QED BY <4>2, <4>3
    <3> QED BY <1>6, <2>1, <3>1
  <2>3. f[1] = "alias" /\ f[2] \in Repeated(Meta(N)[a].aliases)
    BY <1>6, <1>9, <2>2, MetaTyped, RepeatedField
  <2>4. <<"shared_frontmatter", v>> \in Shared(a, a)
    BY <1>4, <2>3 DEF Shared
  <2> QED BY <1>6, <1>9, <2>4 DEF Evident, Cs
<1> QED BY <1>8, <1>9
LEMMA PostingIs ==
  /\ Posting("same_folder", N, edges) = ByFolder(Cs)
  /\ Posting("shared_ancestor", N, edges) = ByAncestor(Cs)
  /\ Posting("shared_tag", N, edges) = ByTag(Cs, Refs, Meta(N))
  /\ Posting("shared_frontmatter", N, edges) = ByFrontmatter(Cs, Meta(N))
  /\ Posting("shared_repo_root", N, edges) = ByRepoRoot(Cs, Boundaries)
BY DEF Posting, Groups, Cs, Refs

\* Two members of a posting list share what the list is of.
LEMMA ListEvident ==
  ASSUME EInv, CandidatePaths, TagsStated, NEW source \in ToSet(Sources),
         NEW v \in DOMAIN Posting(source, N, edges),
         NEW x \in Posting(source, N, edges)[v], NEW y \in Posting(source, N, edges)[v], Before(x, y)
  PROVE  Evident(<<<<x[1], y[1]>>, source, v>>)
<1>1. CASE source = "same_folder"
  BY <1>1, PostingIs, FolderEvident
<1>2. CASE source = "shared_ancestor"
  BY <1>2, PostingIs, AncestorEvident
<1>3. CASE source = "shared_tag"
  BY <1>3, PostingIs, TagEvident
<1>4. CASE source = "shared_frontmatter"
  BY <1>4, PostingIs, FrontmatterEvident
<1>5. CASE source = "shared_repo_root"
  BY <1>5, PostingIs, RepoEvident
<1> QED BY <1>1, <1>2, <1>3, <1>4, <1>5, SourceNames
-----------------------------------------------------------------------------
\* What two nodes share is finite, and of the kinds of the sources.
LEMMA ImageFinite ==
  ASSUME NEW f, IsFiniteSet(DOMAIN f), f = [x \in DOMAIN f |-> f[x]]
  PROVE  IsFiniteSet({f[x] : x \in DOMAIN f})
<1> DEFINE T == {f[x] : x \in DOMAIN f}
<1>1. f \in Surjection(DOMAIN f, T)
  BY DEF Surjection
<1> HIDE DEF T
<1>2. IsFiniteSet(T)
  BY <1>1, FS_Surjection
<1> QED BY <1>2 DEF T

LEMMA TaggedFinite ==
  ASSUME NEW S, IsFiniteSet(S), NEW kind
  PROVE  IsFiniteSet({<<kind, x>> : x \in S})
<1> DEFINE f == [x \in S |-> <<kind, x>>]
<1>1. DOMAIN f = S /\ {f[x] : x \in DOMAIN f} = {<<kind, x>> : x \in S}
  OBVIOUS
<1>2. f = [x \in DOMAIN f |-> f[x]]
  OBVIOUS
<1> HIDE DEF f
<1> QED BY <1>1, <1>2, ImageFinite

LEMMA RangeFinite ==
  ASSUME NEW S, NEW s \in Seq(S)
  PROVE  IsFiniteSet(DOMAIN s) /\ IsFiniteSet(ToSet(s))
<1>1. DOMAIN s = 1 .. Len(s) /\ Len(s) \in Nat /\ s = [i \in DOMAIN s |-> s[i]]
  OBVIOUS
<1>2. IsFiniteSet(1 .. Len(s))
  <2>1. Len(s) \in Int
    BY <1>1
  <2> QED BY <2>1, FS_Interval
<1> QED BY <1>1, <1>2, ImageFinite DEF ToSet

LEMMA AliasesFinite ==
  ASSUME NEW S, IsFiniteSet(S)
  PROVE  IsFiniteSet({<<"shared_frontmatter", <<"alias", v>>>> : v \in S})
<1> DEFINE T == {<<"alias", v>> : v \in S}
<1>1. IsFiniteSet(T)
  BY TaggedFinite
<1>2. {<<"shared_frontmatter", <<"alias", v>>>> : v \in S} = {<<"shared_frontmatter", t>> : t \in T}
  OBVIOUS
<1> HIDE DEF T
<1>3. IsFiniteSet({<<"shared_frontmatter", t>> : t \in T})
  BY <1>1, TaggedFinite
<1> QED BY <1>2, <1>3, Zenon

SourceKinded(evidence) ==
  IsFiniteSet(evidence) /\ \A e \in evidence : e = <<e[1], e[2]>> /\ e[1] \in ToSet(Sources)

LEMMA KindedUnion ==
  ASSUME NEW S, NEW T, SourceKinded(S), SourceKinded(T)
  PROVE  SourceKinded(S \cup T)
BY FS_Union DEF SourceKinded

LEMMA KindedTagged ==
  ASSUME NEW S, IsFiniteSet(S), NEW kind \in ToSet(Sources)
  PROVE  SourceKinded({<<kind, x>> : x \in S})
<1>1. IsFiniteSet({<<kind, x>> : x \in S})
  BY TaggedFinite
<1>2. \A e \in {<<kind, x>> : x \in S} : e = <<e[1], e[2]>> /\ e[1] \in ToSet(Sources)
  OBVIOUS
<1> QED BY <1>1, <1>2, Zenon DEF SourceKinded

LEMMA KindedOne ==
  ASSUME NEW kind \in ToSet(Sources), NEW v, NEW P
  PROVE  SourceKinded(IF P THEN {<<kind, v>>} ELSE {})
<1>1. IsFiniteSet({<<kind, v>>}) /\ IsFiniteSet({})
  BY FS_Singleton, FS_EmptySet
<1> QED BY <1>1 DEF SourceKinded

LEMMA SharedKinded ==
  ASSUME EInv, CandidatePaths, NEW a \in Cs, NEW b \in Cs
  PROVE  SourceKinded(Shared(a, b))
<1> DEFINE p == Tail(a)  q == Tail(b)  x == Meta(N)[a]  y == Meta(N)[b]
           Over(r) == {SubSeq(r, 1, i) : i \in 1 .. Len(r) - 2}
           Tags(id) == Meta(N)[id].tags \cup (IF id[1] = "note" THEN TextOf(Tail(id)).inline ELSE {})
           Same(kind, u, v) == IF u = v /\ u # None THEN {<<"shared_frontmatter", <<kind, u>>>>} ELSE {}
           both == (ToSet(x.aliases) \cap ToSet(y.aliases)) \ {None}
           folder == IF Parent(p) = Parent(q) THEN {<<"same_folder", Parent(p)>>} ELSE {}
           over == {<<"shared_ancestor", d>> : d \in Over(p) \cap Over(q)}
           tags == {<<"shared_tag", t>> : t \in Tags(a) \cap Tags(b)}
           aliases == {<<"shared_frontmatter", <<"alias", v>>>> : v \in both}
           roots == IF /\ a[1] = "note" /\ b[1] = "note"
                       /\ BoundaryFor(Boundaries, p) = BoundaryFor(Boundaries, q)
                    THEN {<<"shared_repo_root", BoundaryFor(Boundaries, p)>>} ELSE {}
           repeated == {<<"shared_frontmatter", <<"alias", v>>>> : v \in Repeated(x.aliases)}
<1>1. p \in Seq(STRING)
  BY PathOf DEF CandidatePaths, Cs
<1>2. SourceKinded(folder) /\ SourceKinded(roots)
  BY KindedOne, SourceNames
<1>3. SourceKinded(Same("type", x.type, y.type)) /\ SourceKinded(Same("status", x.status, y.status))
  BY KindedOne, SourceNames
<1>4. SourceKinded(over)
  <2>1. IsFiniteSet(Over(p))
    <3> DEFINE f == [i \in 1 .. Len(p) - 2 |-> SubSeq(p, 1, i)]
    <3>1. DOMAIN f = 1 .. Len(p) - 2 /\ {f[i] : i \in DOMAIN f} = Over(p)
          /\ f = [i \in DOMAIN f |-> f[i]]
      OBVIOUS
    <3>2. IsFiniteSet(1 .. Len(p) - 2)
      <4>1. Len(p) - 2 \in Int
        BY <1>1
      <4> QED BY <4>1, FS_Interval
    <3> HIDE DEF f
    <3> QED BY <3>1, <3>2, ImageFinite
  <2> DEFINE both2 == Over(p) \cap Over(q)
  <2>2. IsFiniteSet(both2)
    BY <2>1, FS_Subset
  <2> HIDE DEF both2
  <2>3. SourceKinded({<<"shared_ancestor", d>> : d \in both2})
    BY <2>2, KindedTagged, SourceNames
  <2> QED BY <2>3 DEF both2
<1>5. SourceKinded(tags)
  <2>1. IsFiniteSet(Tags(a))
    <3>1. IsFiniteSet(x.tags) /\ IsFiniteSet(TextOf(p).inline) /\ IsFiniteSet({})
      BY MetaTyped, TextTyped, FS_EmptySet
    <3>2. IsFiniteSet(IF a[1] = "note" THEN TextOf(p).inline ELSE {})
      BY <3>1
    <3> QED BY <3>1, <3>2, FS_Union
  <2> DEFINE both2 == Tags(a) \cap Tags(b)
  <2>2. IsFiniteSet(both2)
    BY <2>1, FS_Subset
  <2> HIDE DEF both2
  <2>3. SourceKinded({<<"shared_tag", d>> : d \in both2})
    BY <2>2, KindedTagged, SourceNames
  <2> QED BY <2>3 DEF both2
<1>6. IsFiniteSet(ToSet(x.aliases))
  BY MetaTyped, RangeFinite
<1>7. SourceKinded(aliases)
  <2>1. IsFiniteSet(both)
    BY <1>6, FS_Subset
  <2>2. \A e \in aliases : e = <<e[1], e[2]>> /\ e[1] = "shared_frontmatter"
    OBVIOUS
  <2> QED BY <2>1, <2>2, AliasesFinite, SourceNames DEF SourceKinded
<1>8. SourceKinded(repeated)
  <2>1. Repeated(x.aliases) \subseteq ToSet(x.aliases)
    BY DEF Repeated, ToSet
  <2>2. IsFiniteSet(Repeated(x.aliases))
    BY <1>6, <2>1, FS_Subset
  <2>3. \A e \in repeated : e = <<e[1], e[2]>> /\ e[1] = "shared_frontmatter"
    OBVIOUS
  <2> QED BY <2>2, <2>3, AliasesFinite, SourceNames DEF SourceKinded
<1>9. SharedValues(a, b) = folder \cup over \cup tags \cup Same("type", x.type, y.type)
                            \cup Same("status", x.status, y.status) \cup aliases \cup roots
  BY DEF SharedValues
<1>10. Shared(a, b) = IF a # b THEN SharedValues(a, b) ELSE repeated
  BY DEF Shared
<1> HIDE DEF folder, over, tags, aliases, roots, repeated, Same
<1>11. SourceKinded(SharedValues(a, b))
  BY <1>2, <1>3, <1>4, <1>5, <1>7, <1>9, KindedUnion
<1> QED BY <1>8, <1>10, <1>11
Extra(a, b) ==
  (IF ShareTokens(a, b) THEN {<<"shared_tokens", <<>>>>} ELSE {})
  \cup (IF ShareArtifact(a, b) THEN {<<"artifact_owned", ArtifactOf(Tail(a))>>} ELSE {})

Declared(a, b) == Evidence({<<<<a, b>>, s[1], s[2]>> : s \in Shared(a, b)}, <<a, b>>)

LEMMA DeclaredIs ==
  ASSUME EInv, CandidatePaths, NEW a \in Cs, NEW b \in Cs
  PROVE  Declared(a, b) = Shared(a, b) \cup Extra(a, b)
<1> DEFINE S == Shared(a, b)
           given == {<<<<a, b>>, s[1], s[2]>> : s \in S}
           E == {<<s[2], s[3]>> : s \in {x \in given : x[1] = <<a, b>>}}
<1>1. \A e \in S : e = <<e[1], e[2]>>
  BY SharedKinded DEF SourceKinded
<1>2. <<a, b>>[1] = a /\ <<a, b>>[2] = b
  OBVIOUS
<1>3. Declared(a, b) = E \cup Extra(a, b)
  BY <1>2 DEF Declared, Evidence, Extra
<1>4. E = S
  <2> HIDE DEF S
  <2>1. ASSUME NEW e \in S PROVE e \in E
    <3> DEFINE g == <<<<a, b>>, e[1], e[2]>>
    <3>1. g \in given /\ g[1] = <<a, b>> /\ <<g[2], g[3]>> = <<e[1], e[2]>>
      OBVIOUS
    <3>2. <<g[2], g[3]>> = e
      BY <1>1, <3>1
    <3> HIDE DEF g
    <3> QED BY <3>1, <3>2
  <2>2. ASSUME NEW e \in E PROVE e \in S
    <3>1. PICK g \in given : e = <<g[2], g[3]>>
      OBVIOUS
    <3>2. PICK s \in S : g = <<<<a, b>>, s[1], s[2]>>
      OBVIOUS
    <3>3. e = <<s[1], s[2]>>
      BY <3>1, <3>2
    <3> QED BY <1>1, <3>3
  <2> QED BY <2>1, <2>2
<1> QED BY <1>3, <1>4

LEMMA ExtraKinded ==
  ASSUME NEW a, NEW b
  PROVE  IsFiniteSet(Extra(a, b)) /\ \A e \in Extra(a, b) : e[1] \in {"shared_tokens", "artifact_owned"}
<1>1. /\ IsFiniteSet({}) /\ IsFiniteSet({<<"shared_tokens", <<>>>>})
      /\ IsFiniteSet({<<"artifact_owned", ArtifactOf(Tail(a))>>})
  BY FS_EmptySet, FS_Singleton
<1> DEFINE T == IF ShareTokens(a, b) THEN {<<"shared_tokens", <<>>>>} ELSE {}
           A == IF ShareArtifact(a, b) THEN {<<"artifact_owned", ArtifactOf(Tail(a))>>} ELSE {}
<1>2. IsFiniteSet(T) /\ IsFiniteSet(A)
  BY <1>1
<1>3. \A e \in T \cup A : e[1] \in {"shared_tokens", "artifact_owned"}
  OBVIOUS
<1>4. Extra(a, b) = T \cup A
  BY DEF Extra
<1> HIDE DEF T, A
<1> QED BY <1>2, <1>3, <1>4, FS_Union

LEMMA DeclaredKinded ==
  ASSUME EInv, CandidatePaths, NEW a \in Cs, NEW b \in Cs
  PROVE  Kinded(Declared(a, b))
<1>1. IsFiniteSet(Shared(a, b)) /\ \A e \in Shared(a, b) : e[1] \in ToSet(Sources)
  BY SharedKinded DEF SourceKinded
<1>2. IsFiniteSet(Shared(a, b) \cup Extra(a, b))
  BY <1>1, ExtraKinded, FS_Union
<1>3. \A e \in Shared(a, b) \cup Extra(a, b) : e[1] \in EvidenceKinds
  BY <1>1, ExtraKinded, SourceNames DEF EvidenceKinds
<1> QED BY <1>2, <1>3, DeclaredIs DEF Kinded

\* The evidence for a pair is part of what the files give.
LEMMA EvidenceGiven ==
  ASSUME EInv, SoundInv, NEW pair \in {s[1] : s \in signals}
  PROVE  /\ pair = <<pair[1], pair[2]>> /\ {pair[1], pair[2]} \subseteq Cs
         /\ pair[1] = pair[2] \/ Earlier(pair[1], pair[2])
         /\ Shared(pair[1], pair[2]) # {}
         /\ Evidence(signals, pair) \subseteq Declared(pair[1], pair[2])
         /\ \A e \in Declared(pair[1], pair[2]) :
              e[1] = "shared_tokens" => e \in Evidence(signals, pair)
<1> DEFINE a == pair[1]  b == pair[2]
<1>1. PICK s \in signals : pair = s[1]
  OBVIOUS
<1>2. /\ pair = <<a, b>> /\ {a, b} \subseteq Cs /\ (a = b \/ Earlier(a, b))
      /\ <<s[2], s[3]>> \in Shared(a, b)
  BY <1>1 DEF SoundInv, Evident, Cs
<1> DEFINE G == {<<x[2], x[3]>> : x \in {y \in signals : y[1] = pair}}
<1>3. Evidence(signals, pair) = G \cup Extra(a, b)
  BY DEF Evidence, Extra
<1>4. G \subseteq Shared(a, b)
  <2> SUFFICES ASSUME NEW x \in signals, x[1] = pair PROVE <<x[2], x[3]>> \in Shared(a, b)
    OBVIOUS
  <2> QED BY DEF SoundInv, Evident
<1>5. Declared(a, b) = Shared(a, b) \cup Extra(a, b)
  BY <1>2, DeclaredIs DEF SoundInv
<1>6. ASSUME NEW e \in Shared(a, b) PROVE e[1] # "shared_tokens"
  BY <1>2, SharedKinded, SourceNames DEF SourceKinded, SoundInv
<1> HIDE DEF G
<1> QED BY <1>2, <1>3, <1>4, <1>5, <1>6

LEMMA SoundFollows == EInv /\ SoundInv => InferenceSound
<1> SUFFICES ASSUME EInv, SoundInv, NEW e \in Inferred
             PROVE  /\ {e.from, e.to} \subseteq Candidates(N)
                    /\ Shared(e.from, e.to) # {}
                    /\ e.conf <= DeclaredEdge(e.from, e.to).conf
                    /\ e.type = DeclaredEdge(e.from, e.to).type
                    /\ \A x \in Inferred : {x.from, x.to} = {e.from, e.to} => x = e
  BY DEF InferenceSound
<1> DEFINE pairs == {s[1] : s \in signals}
<1>1. \A x \in Inferred : \E pair \in pairs : x = InferredEdge(pair, Evidence(signals, pair))
  BY DEF SoundInv, InferredEdges
<1>2. PICK pair \in pairs : e = InferredEdge(pair, Evidence(signals, pair))
  BY <1>1
<1> DEFINE a == pair[1]  b == pair[2]
           some == Evidence(signals, pair)  all == Declared(a, b)
<1>3. /\ pair = <<a, b>> /\ {a, b} \subseteq Cs
      /\ a = b \/ Earlier(a, b)
      /\ Shared(a, b) # {} /\ some \subseteq all
      /\ \A x \in all : x[1] = "shared_tokens" => x \in some
  BY EvidenceGiven
<1>4. e.from = a /\ e.to = b /\ e.conf = Saturate(Score(some))
      /\ e.type = IF \E x \in some : x[1] \in {"shared_tokens", "alias_match"}
                  THEN "similar_to" ELSE "relates_to"
  BY <1>2 DEF InferredEdge
<1>5. DeclaredEdge(a, b) = InferredEdge(<<a, b>>, all)
  BY DEF DeclaredEdge, Declared
<1>6. DeclaredEdge(a, b).conf = Saturate(Score(all))
      /\ DeclaredEdge(a, b).type
           = IF \E x \in all : x[1] \in {"shared_tokens", "alias_match"}
             THEN "similar_to" ELSE "relates_to"
  <2> HIDE DEF all
  <2> QED BY <1>5 DEF InferredEdge
<1>7. Kinded(all)
  BY <1>3, DeclaredKinded DEF SoundInv
<1>8. Saturate(Score(some)) <= Saturate(Score(all))
  <2> HIDE DEF some, all
  <2> QED BY <1>3, <1>7, ScoreGrows
<1>9. ASSUME NEW x \in Inferred, {x.from, x.to} = {a, b} PROVE x = e
  <2>1. PICK other \in pairs : x = InferredEdge(other, Evidence(signals, other))
    BY <1>1
  <2>2. x.from = other[1] /\ x.to = other[2]
    BY <2>1 DEF InferredEdge
  <2>3. /\ other = <<other[1], other[2]>> /\ {other[1], other[2]} \subseteq Cs
        /\ other[1] = other[2] \/ Earlier(other[1], other[2])
    BY EvidenceGiven
  <2>4. CASE other[1] = a /\ other[2] = b
    BY <1>2, <1>3, <2>1, <2>3, <2>4
  <2>5. CASE other[1] = b /\ other[2] = a /\ a # b
    <3>1. Earlier(a, b) /\ Earlier(b, a)
      BY <1>3, <2>3, <2>5
    <3>2. HasPath(a) /\ HasPath(b)
      BY <1>3 DEF SoundInv, CandidatePaths, Cs
    <3> QED BY <3>1, <3>2, EarlierOnce
  <2> QED BY <1>9, <2>2, <2>4, <2>5
<1> HIDE DEF a, b, some, all, pairs
<1>10. {e.from, e.to} \subseteq Candidates(N) /\ Shared(e.from, e.to) # {}
  BY <1>3, <1>4 DEF Cs
<1>11. e.conf <= DeclaredEdge(e.from, e.to).conf
  BY <1>4, <1>6, <1>8
<1>12. e.type = DeclaredEdge(e.from, e.to).type
  <2>1. \A x \in all : x[1] # "alias_match"
    BY <1>7 DEF Kinded, EvidenceKinds
  <2>2. (\E x \in some : x[1] \in {"shared_tokens", "alias_match"})
          <=> (\E x \in all : x[1] \in {"shared_tokens", "alias_match"})
    BY <1>3, <2>1
  <2> QED BY <1>4, <1>6, <2>2
<1>13. \A x \in Inferred : {x.from, x.to} = {e.from, e.to} => x = e
  BY <1>4, <1>9
<1> QED BY <1>10, <1>11, <1>12, <1>13

-----------------------------------------------------------------------------
(***************************************************************************)
(* The passes.                                                             *)
(***************************************************************************)
LEMMA SameFiles ==
  ASSUME camp' = camp
  PROVE  /\ W' = W /\ Boundaries' = Boundaries
         /\ \A p : TextOf(p)' = TextOf(p)
         /\ \A id : TextFor(id)' = TextFor(id)
<1>1. W' = W
  BY DEF W
<1>2. \A p : TextOf(p)' = TextOf(p)
  BY <1>1 DEF TextOf
<1>3. Boundaries' = Boundaries
  BY <1>1 DEF Boundaries
<1>4. \A id : TextFor(id)' = TextFor(id)
  BY <1>2 DEF TextFor
<1> QED BY <1>1, <1>2, <1>3, <1>4

\* What two candidates share stays what it is while nodes are added.
LEMMA SharedStays ==
  ASSUME camp' = camp, NEW a \in Cs, NEW b \in Cs, a \in Cs', b \in Cs'
  PROVE  Shared(a, b)' = Shared(a, b)
<1>1. Meta(N)[a]' = Meta(N)[a] /\ Meta(N)[b]' = Meta(N)[b]
  <2>1. Meta(N)[a] = TextFor(a) /\ Meta(N)[b] = TextFor(b)
    BY MetaIs DEF Cs
  <2>2. Meta(N)[a]' = TextFor(a)' /\ Meta(N)[b]' = TextFor(b)'
    BY DEF Cs, Meta, TextFor
  <2> QED BY <2>1, <2>2, SameFiles
<1>2. SharedValues(a, b)' = SharedValues(a, b)
  BY <1>1, SameFiles DEF SharedValues
<1> QED BY <1>1, <1>2 DEF Shared

LEMMA EvidentStays ==
  ASSUME camp' = camp, N \subseteq N', NEW s, Evident(s)
  PROVE  Evident(s)'
<1> DEFINE a == s[1][1]  b == s[1][2]
<1>1. /\ s[1] = <<a, b>> /\ {a, b} \subseteq Cs /\ (a = b \/ Earlier(a, b))
      /\ <<s[2], s[3]>> \in Shared(a, b)
  BY DEF Evident, Cs
<1>2. {a, b} \subseteq Cs'
  BY <1>1 DEF Cs, Candidates
<1>3. Shared(a, b)' = Shared(a, b)
  BY <1>1, <1>2, SharedStays
<1> QED BY <1>1, <1>2, <1>3 DEF Evident, Cs

LEMMA ListsAre ==
  ASSUME camp' = camp
  PROVE  Lists' = Posting(pc', N', edges')
<1>1. \A ids : Meta(ids)' = Meta(ids)
  BY SameFiles DEF Meta
<1> QED BY <1>1, SameFiles DEF Lists, Posting

LEMMA EnterTexts ==
  ASSUME camp' = camp, NEW pass, Enter(pass)
  PROVE  TextsTodo'
<1>1. pc' = pass /\ todo' = ToVisit(pass, N', edges')
  BY DEF Enter, N
<1>2. CASE pass = "links"
  <2>1. ToVisit("links", N', edges') = NotesIn(N')
    BY SourceNames DEF ToVisit
  <2> QED BY <1>1, <1>2, <2>1, SourceNames DEF TextsTodo
<1>3. CASE pass \in ToSet(Sources)
  <2> DEFINE G == Posting(pass, N', edges')
  <2>1. todo' \subseteq {<<v, G[v]>> : v \in DOMAIN G}
    BY <1>1, <1>3, SourceNames DEF ToVisit
  <2>2. Lists' = G
    BY <1>1, ListsAre
  <2> HIDE DEF G
  <2> QED BY <1>1, <1>3, <2>1, <2>2, SourceNames DEF TextsTodo
<1>4. CASE pass # "links" /\ pass \notin ToSet(Sources)
  BY <1>1, <1>4 DEF TextsTodo
<1> QED BY <1>2, <1>3, <1>4

\* A step that adds nodes with paths, and edges that are not inferred.
Quietly ==
  /\ TextsTodo' /\ signals' = signals
  /\ \A id \in N' \ N : id[1] \in ToSet(Kinds) => HasPath(id)
  /\ \A e \in edges' \ edges : e.src # "inferred"
  /\ pc' \in Unpaired => pc \in Unpaired
  /\ pc' \in Unaggregated => pc \in Unaggregated

LEMMA SoundKeeps ==
  ASSUME SoundInv, camp' = camp, N \subseteq N', Quietly,
         \A e \in edges' \ edges : e.type # "references"
  PROVE  SoundInv'
<1>1. CandidatePaths'
  BY DEF SoundInv, Quietly, CandidatePaths, Candidates, HasPath
<1>2. TagsStated'
  BY SameFiles DEF SoundInv, TagsStated
<1>3. Inferred' \subseteq Inferred
  BY DEF Quietly, Inferred
<1>4. \A s \in signals' : Evident(s)'
  BY EvidentStays DEF SoundInv, Quietly
<1> QED BY <1>1, <1>2, <1>3, <1>4 DEF SoundInv, Quietly
LEMMA SoundEarly == ASSUME SoundInv, AddsEarly, N \subseteq N' PROVE SoundInv'
<1>1. pc' \notin {"links"} \cup ToSet(Sources) /\ pc \in Unpaired \cap Unaggregated
  BY SourceNames DEF AddsEarly, BeforeNotes, Unpaired, Unaggregated, Unbridged
<1>2. \A id \in N' \ N : id[1] \notin ToSet(Kinds)
  BY KindNames DEF AddsEarly, EarlyKinds
<1>3. Quietly
  BY <1>1, <1>2 DEF AddsEarly, Quietly, TextsTodo
<1> QED BY <1>3, SoundKeeps DEF AddsEarly

LEMMA Ordering ==
  ASSUME EInv
  PROVE  /\ DOMAIN W.canvas \subseteq ToSet(Order) /\ NotePaths \subseteq ToSet(Order)
         /\ \A p \in LinkedIn(W) \ {Outside} : Ext(p) \notin Markdown => p \in ToSet(Order)
<1>1. Ordered(W)
  BY ScanAssumption DEF EInv, W
<1> QED BY <1>1 DEF Ordered, NotePaths, Listed

LEMMA SoundNotes == ASSUME EInv, SoundInv, ScanNotes, N \subseteq N' PROVE SoundInv'
<1>1. pc = "notes" /\ pc' = "index" /\ camp' = camp /\ signals' = signals
  BY DEF ScanNotes, Running, Enter, NotInferring
<1>2. N' = N \cup NoteIds
  <2> DEFINE new == Named("note", NotePaths)
  <2>1. at' = Put(at, new) /\ DOMAIN new = NoteIds
    BY DEF ScanNotes, Named, NoteIds
  <2> HIDE DEF new
  <2> QED BY <2>1, PutNodes DEF N
<1>3. \A id \in NoteIds : HasPath(id)
  <2> SUFFICES ASSUME NEW p \in NotePaths PROVE HasPath(<<"note">> \o p)
    BY DEF NoteIds
  <2>1. p \in Seq(STRING) \cap ToSet(Order)
    BY NotePathsAre, Ordering
  <2>2. (<<"note">> \o p)[1] = "note"
    BY <2>1, PathId
  <2> QED BY <2>1, <2>2, KindNames DEF HasPath
<1>4. \A e \in edges' \ edges : e.src = "structural" /\ e.type = "contains"
  BY DEF ScanNotes, Placed, Structural
<1>5. TextsTodo'
  BY <1>1, SourceNames DEF TextsTodo
<1>6. Quietly
  BY <1>1, <1>2, <1>3, <1>4, <1>5 DEF Quietly, Unpaired, Unaggregated, Unbridged
<1> QED BY <1>1, <1>4, <1>6, SoundKeeps

LEMMA SoundLinks == ASSUME EInv, SoundInv, NEW n \in todo, LinkNote(n), N \subseteq N' PROVE SoundInv'
<1> DEFINE tags == {<<"tag", t>> : t \in TextOf(Tail(n)).inline}
           ids == (LinkTargets(n) \cup tags) \ N
           new == [id \in ids |-> IF id[1] = "tag" THEN NoPath ELSE Tail(id)]
<1>1. /\ pc = "links" /\ pc' = pc /\ camp' = camp /\ signals' = signals /\ todo' = todo \ {n}
  BY DEF LinkNote, Running, NotInferring
<1>2. N' = N \cup ids
  <2>1. at' = Put(at, new) /\ DOMAIN new = ids
    BY DEF LinkNote
  <2> HIDE DEF new
  <2> QED BY <2>1, PutNodes DEF N
<1>3. ASSUME NEW id \in ids, id[1] \in ToSet(Kinds) PROVE HasPath(id)
  <2>1. id \notin tags
    BY <1>3, KindNames
  <2>2. PICK p \in Linked(n) :
          id \in IF KnownAt(N, p) # {} THEN KnownAt(N, p)
                 ELSE IF Ext(p) \in Markdown THEN {} ELSE {<<"attachment">> \o p}
    BY <2>1 DEF LinkTargets
  <2>3. id = <<"attachment">> \o p /\ Ext(p) \notin Markdown
    BY <2>2, KnownNodes
  <2>4. p \in Seq(STRING) \cap ToSet(Order)
    BY <2>3, LinkedPaths, Ordering
  <2>5. id[1] = "attachment"
    BY <2>3, <2>4, PathId
  <2> QED BY <1>3, <2>3, <2>4, <2>5 DEF HasPath
<1>4. \A e \in edges' \ edges :
        e.src = "explicit" /\ e.from = n /\ (e.type = "references" => e.to \in tags)
  BY DEF LinkNote, Explicit
<1>5. n[1] = "note"
  BY <1>1 DEF SoundInv, TextsTodo, NotesIn
<1>6. TextsTodo'
  <2>1. NotesIn(N) \subseteq NotesIn(N')
    BY DEF NotesIn
  <2> QED BY <1>1, <2>1, SourceNames DEF SoundInv, TextsTodo
<1> HIDE DEF ids
<1>7. Quietly
  BY <1>1, <1>2, <1>3, <1>4, <1>6 DEF Quietly
<1>8. TagsStated'
  BY <1>1, <1>4, <1>5, SameFiles DEF SoundInv, TagsStated
<1>9. CandidatePaths'
  BY <1>7 DEF SoundInv, Quietly, CandidatePaths, Candidates, HasPath
<1>10. Inferred' \subseteq Inferred
  BY <1>7 DEF Quietly, Inferred
<1>11. \A s \in signals' : Evident(s)'
  BY <1>1, EvidentStays DEF SoundInv
<1> QED BY <1>1, <1>6, <1>8, <1>9, <1>10, <1>11 DEF SoundInv

LEMMA SoundCanvases == ASSUME EInv, SoundInv, LinkCanvas, N \subseteq N' PROVE SoundInv'
<1> DEFINE p == SelectSeq(Order, LAMBDA x : x \in todo)[1]
           canvas == <<"canvas">> \o p
           new == Named("canvas", {p})
<1>1. camp' = camp /\ pc' = pc /\ pc = "canvases" /\ signals' = signals
  BY DEF LinkCanvas, Running, NotInferring
<1>2. ASSUME NEW id \in N' \ N PROVE HasPath(id)
  <2>1. CASE UNCHANGED <<at, edges>>
    BY <1>2, <2>1 DEF N
  <2>2. CASE ~ UNCHANGED <<at, edges>>
    <3>1. p \in DOMAIN W.canvas /\ at' = Put(at, new)
      BY <2>2 DEF LinkCanvas
    <3>2. p \in Seq(STRING) \cap ToSet(Order)
      BY <3>1, FilePaths, Ordering DEF EInv
    <3>3. canvas[1] = "canvas" /\ DOMAIN new = {canvas}
      <4> HIDE DEF p
      <4> QED BY <3>2, PathId DEF Named
    <3>4. HasPath(canvas)
      BY <3>2, <3>3, KindNames DEF HasPath
    <3> HIDE DEF p, new, canvas
    <3>5. DOMAIN Put(at, new) = DOMAIN at \cup DOMAIN new
      BY PutNodes
    <3> QED BY <1>2, <3>1, <3>3, <3>4, <3>5 DEF N
  <2> QED BY <2>1, <2>2
<1>3. \A e \in edges' \ edges : e.src # "inferred" /\ e.type # "references"
  <2>1. CASE UNCHANGED <<at, edges>>
    BY <2>1
  <2>2. CASE ~ UNCHANGED <<at, edges>>
    <3> DEFINE targets == UNION {KnownAt(N \cup {canvas}, Resolve(<<>>, names)) :
                                   names \in W.canvas[p]}
    <3>1. edges' = edges \cup {Placed(N, p, canvas)}
                         \cup {Explicit(canvas, id, "links_to") : id \in targets}
      BY <2>2 DEF LinkCanvas
    <3> HIDE DEF targets, p, canvas
    <3> QED BY <3>1 DEF Placed, Structural, Explicit
  <2> QED BY <2>1, <2>2
<1>4. TextsTodo'
  BY <1>1, SourceNames DEF TextsTodo
<1>5. Quietly
  BY <1>1, <1>2, <1>3, <1>4 DEF Quietly
<1> QED BY <1>1, <1>3, <1>5, SoundKeeps
\* A pass that adds no nodes but those that are no candidates.
LEMMA SoundPass ==
  ASSUME SoundInv, camp' = camp, N \subseteq N', signals' = signals, NEW pass, Enter(pass),
         \A id \in N' \ N : id[1] \notin ToSet(Kinds),
         \A e \in edges' \ edges : e.src # "inferred" /\ e.type # "references",
         pass \in Unpaired => pc \in Unpaired,
         pass \in Unaggregated => pc \in Unaggregated
  PROVE  SoundInv'
<1>1. pc' = pass
  BY DEF Enter
<1>2. Quietly
  BY <1>1, EnterTexts DEF Quietly
<1> QED BY <1>2, SoundKeeps

LEMMA SoundIndex == ASSUME EInv, SoundInv, IndexNotes PROVE SoundInv'
<1>1. /\ pc = "index" /\ camp' = camp /\ at' = at /\ edges' = edges /\ signals' = signals
      /\ Enter("links")
  BY DEF IndexNotes, Running, NotInferring
<1> QED BY <1>1, SoundPass DEF N, Unpaired, Unaggregated, Unbridged

LEMMA SoundBridge == ASSUME SoundInv, Bridge PROVE SoundInv'
<1>1. pc = "bridge" /\ camp' = camp /\ at' = at /\ signals' = signals /\ Enter("code")
  BY DEF Bridge, Running, NotInferring
<1>2. \A e \in edges' \ edges : e.src # "inferred" /\ e.type # "references"
  BY DEF Bridge, Placed, Structural
<1> QED BY <1>1, <1>2, SoundPass DEF N, Unpaired, Unaggregated, Unbridged

\* Source files and packages are no candidates.
LEMMA CodeKinds ==
  ASSUME EInv, CodeSlices
  PROVE  \A id \in N' \ N : id[1] \notin ToSet(Kinds)
<1> DEFINE packages == {PackageOf(p) : p \in GoFiles}
           own == [id \in packages |-> Front(Tail(id))]
           files == Named("file", CodeFiles)
           new == Put(files, own)
<1>1. at' = Put(at, new)
  BY DEF CodeSlices
<1>2. N' \ N \subseteq {<<"file">> \o p : p \in CodeFiles} \cup packages
  <2>1. DOMAIN files = {<<"file">> \o p : p \in CodeFiles} /\ DOMAIN own = packages
    BY DEF Named
  <2> HIDE DEF files, own
  <2>2. DOMAIN new = DOMAIN files \cup DOMAIN own
    BY PutNodes
  <2> HIDE DEF new
  <2>3. DOMAIN Put(at, new) = DOMAIN at \cup DOMAIN new
    BY PutNodes
  <2> QED BY <1>1, <2>1, <2>2, <2>3 DEF N
<1>3. CodeFiles \subseteq Seq(STRING) /\ GoFiles \subseteq CodeFiles
  BY FilePaths DEF EInv, CodeFiles, Listed, GoFiles
<1>4. ASSUME NEW p \in CodeFiles PROVE (<<"file">> \o p)[1] = "file"
  BY <1>3, PathId
<1>5. ASSUME NEW p \in GoFiles PROVE PackageOf(p)[1] = "package"
  <2> DEFINE rest == Append(Parent(p), W.package[p])
  <2>1. rest \in Seq(STRING)
    <3>1. Parent(p) \in Seq(STRING)
      BY <1>3, ParentPath
    <3>2. W.package[p] \in STRING
      BY FilePaths DEF EInv, GoFiles
    <3> QED BY <3>1, <3>2
  <2> HIDE DEF rest
  <2>2. PackageOf(p) = <<"package">> \o rest
    BY DEF PackageOf, rest
  <2> QED BY <2>1, <2>2, PathId
<1> QED BY <1>2, <1>4, <1>5, KindNames

LEMMA SoundCode == ASSUME EInv, SoundInv, CodeSlices, N \subseteq N' PROVE SoundInv'
<1>1. pc = "code" /\ camp' = camp /\ signals' = signals /\ Enter(After("code"))
  BY DEF CodeSlices, Running, NotInferring
<1>2. \A e \in edges' \ edges : e.src # "inferred" /\ e.type # "references"
  BY DEF CodeSlices, Placed, Structural
<1>3. After("code") \notin Unpaired
  BY PassAfter, SourceNames DEF Unpaired, Unbridged
<1>4. pc \in Unaggregated
  BY <1>1 DEF Unaggregated, Unpaired
<1> QED BY <1>1, <1>2, <1>3, <1>4, CodeKinds, SoundPass

LEMMA SoundProceed == ASSUME SoundInv, Proceed PROVE SoundInv'
<1>1. /\ camp' = camp /\ at' = at /\ edges' = edges /\ signals' = signals /\ Enter(After(pc))
      /\ pc \in {"festivals", "links", "canvases"} \cup ToSet(Sources)
  BY DEF Proceed, NotInferring
<1>2. After(pc) \in Unpaired => pc \in Unpaired
  BY <1>1, PassAfter, SourceNames DEF Unpaired, Unbridged
<1>3. pc \in Unaggregated
  BY <1>1 DEF Unaggregated, Unpaired, Unbridged
<1> QED BY <1>1, <1>2, <1>3, SoundPass DEF N

LEMMA MetadataKinds ==
  \A id \in N : \A e \in MetadataEdges(id) : e.src = "explicit" /\ e.type # "references"
<1> SUFFICES ASSUME NEW id \in N, NEW e \in MetadataEdges(id)
             PROVE  e.src = "explicit" /\ e.type # "references"
  OBVIOUS
<1> DEFINE Related(x) == [Explicit(id, x, "relates_to") EXCEPT !.conf = 8000]
<1>1. \/ \E x : e = Explicit(id, x, "links_to")
      \/ \E x : e = Explicit(id, x, "gathered_from")
      \/ \E x : e = Related(x)
  <2> DEFINE p == at[id]
             Projects(names) == {<<"project", n>> : n \in names} \cap N
             fest == {Explicit(id, x, "links_to") : x \in Projects({W.fest[p]})}
             gathered == {Explicit(id, x, "gathered_from") : x \in Projects(W.intent[p].gathered)}
             related == {Related(x) : x \in Projects(W.intent[p].related)}
  <2>1. MetadataEdges(id) = IF p \in W.unread THEN {}
          ELSE IF id[1] = "festival" /\ Len(id) = 2 /\ p \in DOMAIN W.fest THEN fest
          ELSE IF id[1] = "intent" /\ p \in DOMAIN W.intent THEN gathered \cup related
          ELSE {}
    BY Zenon DEF MetadataEdges
  <2>2. /\ \A x \in fest : \E y : x = Explicit(id, y, "links_to")
        /\ \A x \in gathered : \E y : x = Explicit(id, y, "gathered_from")
        /\ \A x \in related : \E y : x = Related(y)
    <3> HIDE DEF Related, Projects
    <3> QED OBVIOUS
  <2> HIDE DEF fest, gathered, related, Related
  <2> QED BY <2>1, <2>2
<1>2. \A x : Related(x).src = "explicit" /\ Related(x).type = "relates_to"
  BY DEF Explicit
<1>3. \A x, type : Explicit(id, x, type).src = "explicit" /\ Explicit(id, x, type).type = type
  BY DEF Explicit
<1> HIDE DEF Related
<1> QED BY <1>1, <1>2, <1>3

LEMMA SoundMetadata == ASSUME SoundInv, Metadata PROVE SoundInv'
<1>1. /\ camp' = camp /\ at' = at /\ signals' = signals /\ Enter("done")
      /\ edges' = edges \cup UNION {MetadataEdges(id) : id \in N}
  BY DEF Metadata, NotInferring
<1>2. \A e \in edges' \ edges : e.src = "explicit" /\ e.type # "references"
  BY <1>1, MetadataKinds
<1>3. "done" \notin Unpaired /\ "done" \notin Unaggregated
  BY SourceNames DEF Unpaired, Unaggregated, Unbridged
<1> QED BY <1>1, <1>2, <1>3, SoundPass DEF N

\* A step that does not touch the graph.
LEMMA SoundRest ==
  ASSUME SoundInv, StopEnumerating \/ Cancel \/ Fail \/ UNCHANGED vars
  PROVE  SoundInv'
<1>1. UNCHANGED <<camp, at, edges, signals>> /\ (UNCHANGED <<pc, todo>> \/ todo' = {})
  BY DEF StopEnumerating, Cancel, Fail, vars
<1>2. /\ pc' \in Unpaired => pc \in Unpaired
      /\ pc' \in Unaggregated => pc \in Unaggregated
  BY SourceNames DEF StopEnumerating, Cancel, Fail, vars, Unpaired, Unaggregated, Unbridged
<1>3. TextsTodo'
  <2>1. CASE todo' = {}
    BY <2>1 DEF TextsTodo
  <2>2. CASE UNCHANGED <<pc, todo>>
    <3>1. Lists' = Lists
      <4>1. \A ids : Meta(ids)' = Meta(ids)
        BY <1>1, SameFiles DEF Meta
      <4> QED BY <1>1, <2>2, <4>1, SameFiles DEF Lists, Posting, N
    <3> QED BY <1>1, <2>2, <3>1 DEF SoundInv, TextsTodo, N
  <2> QED BY <1>1, <2>1, <2>2
<1>4. N' = N
  BY <1>1 DEF N
<1> QED BY <1>1, <1>2, <1>3, <1>4, SoundKeeps DEF Quietly
LEMMA SoundEnumerate ==
  ASSUME EInv, SoundInv, NEW list \in todo, Enumerate(list)
  PROVE  SoundInv'
<1>1. PICK kept \in Kept(list[2]) :
        signals' = signals \cup {<<<<q[1][1], q[2][1]>>, pc, list[1]>> :
                                    q \in Taken(PairsIn(kept), MaxPairs - npairs)}
  BY DEF Enumerate
<1>2. UNCHANGED <<camp, pc, at, edges>> /\ pc \in ToSet(Sources) /\ todo' \subseteq todo
  BY DEF Enumerate
<1>3. list[2] = Lists[list[1]] /\ list[1] \in DOMAIN Lists
  BY <1>2 DEF SoundInv, TextsTodo
<1>4. kept \subseteq list[2]
  BY <1>1 DEF Kept
<1>5. ASSUME NEW q \in Taken(PairsIn(kept), MaxPairs - npairs)
      PROVE  Evident(<<<<q[1][1], q[2][1]>>, pc, list[1]>>)
  <2>1. q \in PairsIn(kept)
    BY DEF Taken
  <2>2. q[1] \in list[2] /\ q[2] \in list[2] /\ Before(q[1], q[2])
    BY <1>4, <2>1 DEF PairsIn
  <2> QED BY <1>2, <1>3, <2>2, ListEvident DEF SoundInv, Lists
<1>6. \A s \in signals' : Evident(s)
  BY <1>1, <1>5 DEF SoundInv
<1>7. N' = N
  BY <1>2 DEF N
<1>8. \A s \in signals' : Evident(s)'
  BY <1>2, <1>6, <1>7, EvidentStays
<1>9. CandidatePaths' /\ TagsStated'
  BY <1>2, <1>7, SameFiles DEF SoundInv, CandidatePaths, HasPath, TagsStated
<1>10. TextsTodo'
  <2>1. Lists' = Lists
    <3>1. \A ids : Meta(ids)' = Meta(ids)
      BY <1>2, SameFiles DEF Meta
    <3> QED BY <1>2, <1>7, <3>1, SameFiles DEF Lists, Posting
  <2> QED BY <1>2, <2>1, SourceNames DEF SoundInv, TextsTodo
<1>11. Inferred = {} /\ Inferred' = Inferred
  BY <1>2 DEF SoundInv, Unaggregated, Inferred
<1>12. pc' \notin Unpaired
  BY <1>2, SourceNames DEF Unpaired, Unbridged
<1> QED BY <1>8, <1>9, <1>10, <1>11, <1>12 DEF SoundInv

LEMMA SoundAggregate == ASSUME SoundInv, Aggregate PROVE SoundInv'
<1>1. /\ camp' = camp /\ at' = at /\ signals' = signals /\ Enter("metadata")
      /\ pc = "aggregate" /\ pc' = "metadata"
      /\ edges' = edges \cup InferredEdges(signals)
  BY DEF Aggregate, Running, NotInferring, Enter
<1>2. N' = N
  BY <1>1 DEF N
<1>3. Inferred = {}
  BY <1>1 DEF SoundInv, Unaggregated
<1>4. Inferred' \subseteq InferredEdges(signals)
  BY <1>1, <1>3 DEF Inferred
<1>5. \A e \in InferredEdges(signals) : e.type # "references"
  BY DEF InferredEdges, InferredEdge
<1>6. TagsStated'
  BY <1>1, <1>5, SameFiles DEF SoundInv, TagsStated
<1>7. CandidatePaths' /\ TextsTodo'
  BY <1>1, <1>2, EnterTexts DEF SoundInv, CandidatePaths, HasPath
<1>8. \A s \in signals' : Evident(s)'
  BY <1>1, <1>2, EvidentStays DEF SoundInv
<1>9. pc' \notin Unpaired /\ pc' \notin Unaggregated
  BY <1>1, SourceNames DEF Unpaired, Unaggregated, Unbridged
<1> QED BY <1>1, <1>4, <1>6, <1>7, <1>8, <1>9 DEF SoundInv

LEMMA InitSoundInv == Init => SoundInv
BY SourceNames DEF Init, Unscanned, SoundInv, CandidatePaths, Candidates, TagsStated, TextsTodo,
   Inferred, N

LEMMA NextSoundInv == ASSUME EInv, SoundInv, [Next]_vars PROVE SoundInv'
<1>1. N \subseteq N' /\ camp' = camp
  BY NodesStay
<1>2. CASE \/ ScanScopes \/ ScanProjects \/ ScanIntents \/ ScanWorkflow
           \/ \E l \in todo : ScanLifecycle(l) \/ StopInLifecycle(l)
  BY <1>1, <1>2, EarlyPass, SoundEarly
<1>3. CASE ScanNotes \/ IndexNotes
  BY <1>1, <1>3, SoundNotes, SoundIndex
<1>4. CASE (\E n \in todo : LinkNote(n)) \/ LinkCanvas
  BY <1>1, <1>4, SoundLinks, SoundCanvases
<1>5. CASE Proceed \/ Bridge \/ CodeSlices
  BY <1>1, <1>5, SoundProceed, SoundBridge, SoundCode
<1>6. CASE \E list \in todo : Enumerate(list)
  BY <1>6, SoundEnumerate
<1>7. CASE Aggregate \/ Metadata
  BY <1>7, SoundAggregate, SoundMetadata
<1>8. CASE StopEnumerating \/ Cancel \/ Fail \/ UNCHANGED vars
  BY <1>8, SoundRest
<1> QED BY <1>2, <1>3, <1>4, <1>5, <1>6, <1>7, <1>8 DEF Next

\* However the budgets and a cancellation cut the enumeration, what is inferred
\* is evidence that the files give, in one direction only and no surer than all
\* of it would be (inference.go:251-284, inference_aggregate.go:72-124).
THEOREM InferredIsSound == Spec => []InferenceSound
<1>1. EInv /\ SoundInv => InferenceSound
  BY SoundFollows
<1> QED BY <1>1, InitEInv, NextEInv, InitSoundInv, NextSoundInv, PTL DEF Spec

-----------------------------------------------------------------------------
(***************************************************************************)
(* The order of the members of a posting list, and of its pairs.           *)
(***************************************************************************)
IsMember(m) == m = <<m[1], m[2]>> /\ HasPath(m[1]) /\ m[2] \in Nat
Members(ms) == IsFiniteSet(ms) /\ \A m \in ms : IsMember(m)

LEMMA SameRank ==
  ASSUME NEW a, HasPath(a), NEW b, HasPath(b), Rank(a)[1] = Rank(b)[1], Rank(a)[2] = Rank(b)[2]
  PROVE  a = b
<1> DEFINE k(id) == CHOOSE k \in DOMAIN Kinds : Kinds[k] = id[1]
           i(id) == CHOOSE i \in DOMAIN Order : Order[i] = Tail(id)
<1>1. ASSUME NEW id, HasPath(id) PROVE Kinds[k(id)] = id[1] /\ Order[i(id)] = Tail(id)
  <2>1. \E j \in DOMAIN Kinds : Kinds[j] = id[1]
    BY <1>1 DEF HasPath, ToSet
  <2>2. \E j \in DOMAIN Order : Order[j] = Tail(id)
    BY <1>1, PathOf DEF ToSet
  <2> QED BY <2>1, <2>2
<1>2. k(a) = k(b) /\ i(a) = i(b)
  BY DEF Rank
<1>3. /\ Kinds[k(a)] = a[1] /\ Order[i(a)] = Tail(a)
      /\ Kinds[k(b)] = b[1] /\ Order[i(b)] = Tail(b)
  BY <1>1
<1> HIDE DEF k, i
<1>4. a[1] = b[1] /\ Tail(a) = Tail(b)
  BY <1>2, <1>3
<1>5. a = <<a[1]>> \o Tail(a) /\ b = <<b[1]>> \o Tail(b)
  BY PathOf
<1> QED BY <1>4, <1>5, Zenon

LEMMA EarlierOrder ==
  ASSUME NEW a, HasPath(a), NEW b, HasPath(b), NEW c, HasPath(c)
  PROVE  /\ a = b \/ Earlier(a, b) \/ Earlier(b, a)
         /\ Earlier(a, b) /\ Earlier(b, c) => Earlier(a, c)
<1> DEFINE r1 == Rank(a)[1]  r2 == Rank(a)[2]  s1 == Rank(b)[1]  s2 == Rank(b)[2]
           t1 == Rank(c)[1]  t2 == Rank(c)[2]
<1>1. r1 \in Nat /\ r2 \in Nat /\ s1 \in Nat /\ s2 \in Nat /\ t1 \in Nat /\ t2 \in Nat
  BY Ranked
<1>2. /\ Earlier(a, b) <=> r1 < s1 \/ (r1 = s1 /\ r2 < s2)
      /\ Earlier(b, a) <=> s1 < r1 \/ (s1 = r1 /\ s2 < r2)
      /\ Earlier(b, c) <=> s1 < t1 \/ (s1 = t1 /\ s2 < t2)
      /\ Earlier(a, c) <=> r1 < t1 \/ (r1 = t1 /\ r2 < t2)
  BY DEF Earlier
<1>3. r1 = s1 /\ r2 = s2 => a = b
  BY SameRank
<1> HIDE DEF r1, r2, s1, s2, t1, t2
<1> QED BY <1>1, <1>2, <1>3

LEMMA BeforeOrder ==
  ASSUME NEW x, IsMember(x), NEW y, IsMember(y), NEW z, IsMember(z)
  PROVE  /\ ~Before(x, x)
         /\ x = y \/ Before(x, y) \/ Before(y, x)
         /\ Before(x, y) /\ Before(y, z) => Before(x, z)
<1> DEFINE a == x[1]  b == y[1]  c == z[1]  i == x[2]  j == y[2]  k == z[2]
<1>1. /\ HasPath(a) /\ HasPath(b) /\ HasPath(c) /\ i \in Nat /\ j \in Nat /\ k \in Nat
      /\ x = <<a, i>> /\ y = <<b, j>>
  BY DEF IsMember
<1>2. /\ a = b \/ Earlier(a, b) \/ Earlier(b, a)
      /\ Earlier(a, b) /\ Earlier(b, c) => Earlier(a, c)
  BY <1>1, EarlierOrder
<1>3. ~Earlier(a, a)
  BY <1>1, EarlierOnce
<1>4. /\ Before(x, x) <=> Earlier(a, a) \/ (a = a /\ i < i)
      /\ Before(x, y) <=> Earlier(a, b) \/ (a = b /\ i < j)
      /\ Before(y, x) <=> Earlier(b, a) \/ (b = a /\ j < i)
      /\ Before(y, z) <=> Earlier(b, c) \/ (b = c /\ j < k)
      /\ Before(x, z) <=> Earlier(a, c) \/ (a = c /\ i < k)
  BY DEF Before
<1> HIDE DEF a, b, c, i, j, k
<1> QED BY <1>1, <1>2, <1>3, <1>4

Sooner(p, q) == Before(p[1], q[1]) \/ (p[1] = q[1] /\ Before(p[2], q[2]))
Ahead(pairs, q) == {p \in pairs : Sooner(p, q)}

LEMMA SoonerOrder ==
  ASSUME NEW ms, Members(ms), NEW p \in ms \X ms, NEW q \in ms \X ms, NEW r \in ms \X ms
  PROVE  /\ ~Sooner(p, p)
         /\ p = q \/ Sooner(p, q) \/ Sooner(q, p)
         /\ Sooner(p, q) /\ Sooner(q, r) => Sooner(p, r)
<1> DEFINE p1 == p[1]  p2 == p[2]  q1 == q[1]  q2 == q[2]  r1 == r[1]  r2 == r[2]
<1>1. /\ p = <<p1, p2>> /\ q = <<q1, q2>>
      /\ {p1, p2, q1, q2, r1, r2} \subseteq ms
  OBVIOUS
<1>2. \A m \in ms : IsMember(m)
  BY DEF Members
<1>3. /\ Sooner(p, p) <=> Before(p1, p1) \/ (p1 = p1 /\ Before(p2, p2))
      /\ Sooner(p, q) <=> Before(p1, q1) \/ (p1 = q1 /\ Before(p2, q2))
      /\ Sooner(q, p) <=> Before(q1, p1) \/ (q1 = p1 /\ Before(q2, p2))
      /\ Sooner(q, r) <=> Before(q1, r1) \/ (q1 = r1 /\ Before(q2, r2))
      /\ Sooner(p, r) <=> Before(p1, r1) \/ (p1 = r1 /\ Before(p2, r2))
  BY DEF Sooner
<1>4. \A x, y, z \in ms : /\ ~Before(x, x)
                          /\ x = y \/ Before(x, y) \/ Before(y, x)
                          /\ Before(x, y) /\ Before(y, z) => Before(x, z)
  BY <1>2, BeforeOrder
<1> HIDE DEF p1, p2, q1, q2, r1, r2
<1>5. ~Sooner(p, p)
  BY <1>1, <1>3, <1>4
<1>6. p = q \/ Sooner(p, q) \/ Sooner(q, p)
  BY <1>1, <1>3, <1>4
<1>7. Sooner(p, q) /\ Sooner(q, r) => Sooner(p, r)
  <2>1. /\ Before(p1, q1) /\ Before(q1, r1) => Before(p1, r1)
        /\ Before(p2, q2) /\ Before(q2, r2) => Before(p2, r2)
    BY <1>1, <1>4
  <2> QED BY <1>3, <2>1
<1> QED BY <1>5, <1>6, <1>7

LEMMA PairsFinite ==
  ASSUME NEW ms, Members(ms)
  PROVE  /\ IsFiniteSet(PairsIn(ms)) /\ PairsIn(ms) \subseteq ms \X ms
         /\ Cardinality(PairsIn(ms)) \in Nat
<1>1. IsFiniteSet(ms \X ms)
  BY FS_Product DEF Members
<1>2. PairsIn(ms) \subseteq ms \X ms
  BY DEF PairsIn
<1> QED BY <1>1, <1>2, FS_Subset, FS_CardinalityType

LEMMA TakenIs ==
  ASSUME NEW pairs, NEW room
  PROVE  Taken(pairs, room) = {q \in pairs : Cardinality(Ahead(pairs, q)) < room}
BY DEF Taken, Ahead, Sooner

\* As many pairs are taken as there is room for, and all of them if they fit.
LEMMA TakenFits ==
  ASSUME NEW ms, Members(ms), NEW room \in Nat
  PROVE  /\ Cardinality(Taken(PairsIn(ms), room)) \in 0 .. room
         /\ Taken(PairsIn(ms), room) = PairsIn(ms) <=> Cardinality(PairsIn(ms)) <= room
<1> DEFINE P == PairsIn(ms)  T == Taken(P, room)  c(q) == Cardinality(Ahead(P, q))
<1>1. IsFiniteSet(P) /\ P \subseteq ms \X ms /\ Cardinality(P) \in Nat
  BY PairsFinite
<1>2. T = {q \in P : c(q) < room}
  BY TakenIs
<1>3. \A q \in P : /\ IsFiniteSet(Ahead(P, q)) /\ c(q) \in Nat
                   /\ Ahead(P, q) \subseteq P \ {q}
  <2> SUFFICES ASSUME NEW q \in P
               PROVE  /\ IsFiniteSet(Ahead(P, q)) /\ c(q) \in Nat
                      /\ Ahead(P, q) \subseteq P \ {q}
    OBVIOUS
  <2>1. ~Sooner(q, q)
    BY <1>1, SoonerOrder
  <2>2. Ahead(P, q) \subseteq P \ {q}
    BY <2>1 DEF Ahead
  <2>3. IsFiniteSet(Ahead(P, q))
    BY <1>1, <2>2, FS_Subset
  <2> QED BY <2>2, <2>3, FS_CardinalityType
<1>4. IsFiniteSet(T) /\ Cardinality(T) \in Nat
  BY <1>1, <1>2, FS_Subset, FS_CardinalityType
<1> HIDE DEF P, T, c
<1>5. Cardinality(T) <= room
  <2>1. CASE T = {}
    BY <2>1, FS_EmptySet
  <2>2. CASE T # {}
    <3> DEFINE counts == {c(q) : q \in T}
    <3>1. counts \in SUBSET (0 .. room) /\ counts # {}
      BY <1>2, <1>3, <2>2
    <3>2. PICK m \in counts : \A i \in counts : i <= m
      <4> HIDE DEF counts
      <4> QED BY <3>1, Greatest
    <3>3. PICK q \in T : c(q) = m
      OBVIOUS
    <3>4. \A p \in T : c(p) <= c(q)
      BY <3>2, <3>3
    <3>5. q \in P /\ c(q) < room /\ c(q) \in Nat
      BY <1>2, <1>3
    <3>6. ASSUME NEW p \in T \ {q} PROVE p \in Ahead(P, q)
      <4>1. p \in P
        BY <1>2
      <4>2. Sooner(p, q) \/ Sooner(q, p)
        BY <1>1, <3>5, <4>1, SoonerOrder
      <4>3. CASE Sooner(q, p)
        <5>1. Ahead(P, q) \cup {q} \subseteq Ahead(P, p)
          <6>1. ASSUME NEW r \in P, Sooner(r, q) PROVE Sooner(r, p)
            BY <1>1, <3>5, <4>1, <4>3, <6>1, SoonerOrder
          <6> QED BY <3>5, <4>3, <6>1 DEF Ahead
        <5>2. q \notin Ahead(P, q)
          BY <1>3, <3>5
        <5>3. Cardinality(Ahead(P, q) \cup {q}) = c(q) + 1
          BY <1>3, <3>5, <5>2, FS_AddElement DEF c
        <5>4. Cardinality(Ahead(P, q) \cup {q}) <= c(p)
          BY <1>3, <4>1, <5>1, FS_Subset DEF c
        <5>5. c(p) <= c(q) /\ c(p) \in Nat
          BY <1>3, <3>4, <4>1
        <5> QED BY <3>5, <5>3, <5>4, <5>5
      <4> QED BY <4>1, <4>2, <4>3 DEF Ahead
    <3>7. T \ {q} \subseteq Ahead(P, q)
      BY <3>6
    <3>8. Cardinality(T \ {q}) <= c(q)
      BY <1>3, <3>5, <3>7, FS_Subset DEF c
    <3>9. Cardinality(T \ {q}) = Cardinality(T) - 1
      BY <1>4, FS_RemoveElement
    <3> QED BY <1>4, <3>5, <3>8, <3>9
  <2> QED BY <2>1, <2>2
<1>6. Cardinality(P) <= room => T = P
  <2> SUFFICES ASSUME Cardinality(P) <= room, NEW q \in P PROVE c(q) < room
    BY <1>2
  <2>1. c(q) <= Cardinality(P \ {q})
    <3>1. IsFiniteSet(P \ {q})
      BY <1>1, FS_Subset
    <3> QED BY <1>3, <3>1, FS_Subset DEF c
  <2>2. Cardinality(P \ {q}) = Cardinality(P) - 1
    BY <1>1, FS_RemoveElement
  <2> QED BY <1>1, <1>3, <2>1, <2>2
<1>7. T = P => Cardinality(P) <= room
  BY <1>5
<1>8. Cardinality(T) \in 0 .. room
  BY <1>4, <1>5
<1> QED BY <1>6, <1>7, <1>8 DEF P, T

-----------------------------------------------------------------------------
(***************************************************************************)
(* The posting lists are finitely many, and have finitely many members.    *)
(***************************************************************************)
LEMMA CandidatesFinite ==
  ASSUME CandidatePaths
  PROVE  IsFiniteSet(Cs)
<1> DEFINE paths == Seq(STRING) \cap ToSet(Order)
           pairs == ToSet(Kinds) \X paths
           f == [x \in pairs |-> <<x[1]>> \o x[2]]
<1>1. IsFiniteSet(paths)
  <2>1. Order \in Seq(Seq(STRING))
    BY ScanAssumption
  <2> QED BY <2>1, RangeFinite, FS_Subset
<1>2. IsFiniteSet(ToSet(Kinds))
  <2>1. IsFiniteSet({"attachment", "canvas"}) /\ IsFiniteSet({"note"})
    <3>1. IsFiniteSet({"attachment"}) /\ IsFiniteSet({"canvas"}) /\ IsFiniteSet({"note"})
      BY FS_Singleton
    <3>2. IsFiniteSet({"attachment"} \cup {"canvas"})
      BY <3>1, FS_Union
    <3> QED BY <3>1, <3>2
  <2>2. ToSet(Kinds) = {"attachment", "canvas"} \cup {"note"}
    BY KindNames
  <2> QED BY <2>1, <2>2, FS_Union
<1>3. IsFiniteSet(pairs)
  <2> HIDE DEF paths
  <2> QED BY <1>1, <1>2, FS_Product
<1>4. DOMAIN f = pairs /\ f = [x \in DOMAIN f |-> f[x]]
  OBVIOUS
<1>5. IsFiniteSet({f[x] : x \in DOMAIN f})
  <2> HIDE DEF f, pairs
  <2> QED BY <1>3, <1>4, ImageFinite
<1>6. Cs \subseteq {f[x] : x \in DOMAIN f}
  <2> SUFFICES ASSUME NEW id \in Cs PROVE id \in {f[x] : x \in DOMAIN f}
    OBVIOUS
  <2>1. HasPath(id)
    BY DEF CandidatePaths, Cs
  <2>2. PICK p \in paths : id = <<id[1]>> \o p
    BY <2>1 DEF HasPath
  <2>3. <<id[1], p>> \in pairs
    BY <2>1, <2>2 DEF HasPath
  <2>4. f[<<id[1], p>>] = id
    BY <2>2, <2>3
  <2> QED BY <1>4, <2>3, <2>4, Zenon
<1> QED BY <1>5, <1>6, FS_Subset

LEMMA OnceMembers ==
  ASSUME CandidatePaths, NEW ids \in SUBSET Cs
  PROVE  Members(Once(ids))
<1> DEFINE f == [id \in ids |-> <<id, 1>>]
<1>1. IsFiniteSet(ids)
  BY CandidatesFinite, FS_Subset
<1>2. DOMAIN f = ids /\ {f[id] : id \in DOMAIN f} = Once(ids) /\ f = [id \in DOMAIN f |-> f[id]]
  BY DEF Once
<1>3. IsFiniteSet(Once(ids))
  <2> HIDE DEF f
  <2> QED BY <1>1, <1>2, ImageFinite
<1>4. ASSUME NEW m \in Once(ids) PROVE IsMember(m)
  <2>1. PICK id \in ids : m = <<id, 1>>
    BY DEF Once
  <2>2. HasPath(id)
    BY DEF CandidatePaths, Cs
  <2> QED BY <2>1, <2>2 DEF IsMember
<1> QED BY <1>3, <1>4 DEF Members

\* How often something was stated before.
LEMMA StatedBefore ==
  ASSUME NEW s \in Seq(STRING), NEW i \in DOMAIN s
  PROVE  /\ IsFiniteSet({j \in 1 .. i : s[j] = s[i]})
         /\ Cardinality({j \in 1 .. i : s[j] = s[i]}) \in Nat
<1>1. i \in Int
  OBVIOUS
<1>2. IsFiniteSet(1 .. i)
  BY <1>1, FS_Interval
<1> QED BY <1>2, FS_Subset, FS_CardinalityType

LEMMA FieldsFinite ==
  ASSUME NEW m, m.aliases \in Seq(STRING)
  PROVE  IsFiniteSet(Stated(m)) /\ \A f \in Stated(m) : f[3] \in Nat
<1> DEFINE named == {<<"type", m.type, 1>>, <<"status", m.status, 1>>}
           g == [i \in DOMAIN m.aliases |->
                   <<"alias", m.aliases[i],
                     Cardinality({j \in 1 .. i : m.aliases[j] = m.aliases[i]})>>]
<1>1. Fields(m) = named \cup {g[i] : i \in DOMAIN g}
  BY DEF Fields
<1>2. IsFiniteSet(named)
  <2>1. IsFiniteSet({<<"type", m.type, 1>>}) /\ IsFiniteSet({<<"status", m.status, 1>>})
    BY FS_Singleton
  <2>2. named = {<<"type", m.type, 1>>} \cup {<<"status", m.status, 1>>}
    OBVIOUS
  <2> QED BY <2>1, <2>2, FS_Union
<1>3. IsFiniteSet({g[i] : i \in DOMAIN g})
  <2>1. IsFiniteSet(DOMAIN g) /\ g = [i \in DOMAIN g |-> g[i]]
    BY RangeFinite
  <2> HIDE DEF g
  <2> QED BY <2>1, ImageFinite
<1>4. Stated(m) \subseteq Fields(m)
  BY DEF Stated
<1>5. IsFiniteSet(Stated(m))
  <2> HIDE DEF g, named
  <2> QED BY <1>1, <1>2, <1>3, <1>4, FS_Union, FS_Subset
<1>6. ASSUME NEW f \in Stated(m) PROVE f[3] \in Nat
  <2>1. CASE f[1] = "alias"
    <3>1. PICK i \in DOMAIN m.aliases :
            f[3] = Cardinality({j \in 1 .. i : m.aliases[j] = m.aliases[i]})
      BY <2>1, FieldIs
    <3> QED BY <3>1, StatedBefore
  <2>2. CASE f[1] # "alias"
    BY <2>2, FieldIs
  <2> QED BY <2>1, <2>2
<1> QED BY <1>5, <1>6

\* What the lists are of, and who is on them.
LEMMA UnionFinite ==
  ASSUME NEW f, f = [x \in DOMAIN f |-> f[x]], IsFiniteSet(DOMAIN f),
         \A x \in DOMAIN f : IsFiniteSet(f[x])
  PROVE  IsFiniteSet(UNION {f[x] : x \in DOMAIN f})
<1>1. IsFiniteSet({f[x] : x \in DOMAIN f})
  BY ImageFinite
<1> QED BY <1>1, FS_UNION

LEMMA FrontmatterMembers ==
  ASSUME EInv, CandidatePaths, NEW v \in DOMAIN ByFrontmatter(Cs, Meta(N))
  PROVE  Members(ByFrontmatter(Cs, Meta(N))[v])
<1> DEFINE Of(id) == {<<id, f[3]>> : f \in {z \in Stated(Meta(N)[id]) : <<z[1], z[2]>> = v}}
           all == [id \in Cs |-> Of(id)]
<1>1. ByFrontmatter(Cs, Meta(N))[v] = UNION {Of(id) : id \in Cs}
  BY DEF ByFrontmatter
<1>2. ASSUME NEW id \in Cs PROVE IsFiniteSet(Of(id)) /\ \A m \in Of(id) : IsMember(m)
  <2> DEFINE S == {z \in Stated(Meta(N)[id]) : <<z[1], z[2]>> = v}
             g == [f \in S |-> <<id, f[3]>>]
  <2>1. Meta(N)[id].aliases \in Seq(STRING) /\ HasPath(id)
    BY MetaTyped DEF CandidatePaths, Cs
  <2>2. IsFiniteSet(S) /\ \A f \in S : f[3] \in Nat
    BY <2>1, FieldsFinite, FS_Subset
  <2>3. DOMAIN g = S /\ Of(id) = {g[f] : f \in DOMAIN g} /\ g = [f \in DOMAIN g |-> g[f]]
    OBVIOUS
  <2>4. IsFiniteSet(Of(id))
    <3> HIDE DEF g, S, Of
    <3> QED BY <2>2, <2>3, ImageFinite
  <2>5. \A m \in Of(id) : IsMember(m)
    <3> HIDE DEF S
    <3>1. Of(id) = {<<id, f[3]>> : f \in S}
      BY DEF S
    <3> QED BY <2>1, <2>2, <3>1 DEF IsMember
  <2> QED BY <2>4, <2>5
<1> HIDE DEF Of
<1>3. DOMAIN all = Cs /\ all = [id \in DOMAIN all |-> all[id]] /\ \A id \in Cs : all[id] = Of(id)
  OBVIOUS
<1> HIDE DEF all
<1>4. UNION {Of(id) : id \in Cs} = UNION {all[id] : id \in DOMAIN all}
  BY <1>3
<1>5. IsFiniteSet(UNION {all[id] : id \in DOMAIN all})
  BY <1>2, <1>3, CandidatesFinite, UnionFinite
<1> QED BY <1>1, <1>2, <1>4, <1>5 DEF Members

LEMMA ListMembers ==
  ASSUME EInv, CandidatePaths, NEW source \in ToSet(Sources),
         NEW v \in DOMAIN Posting(source, N, edges)
  PROVE  Members(Posting(source, N, edges)[v])
<1>1. CASE source = "same_folder"
  BY <1>1, PostingIs, OnceMembers DEF ByFolder
<1>2. CASE source = "shared_ancestor"
  BY <1>2, PostingIs, OnceMembers DEF ByAncestor
<1>3. CASE source = "shared_tag"
  BY <1>3, PostingIs, OnceMembers DEF ByTag
<1>4. CASE source = "shared_frontmatter"
  BY <1>4, PostingIs, FrontmatterMembers
<1>5. CASE source = "shared_repo_root"
  <2> DEFINE ids == {id \in {x \in Cs : x[1] = "note"} : BoundaryFor(Boundaries, Tail(id)) = v}
  <2>1. ByRepoRoot(Cs, Boundaries)[v] = Once(ids)
    BY <1>5, PostingIs DEF ByRepoRoot
  <2>2. Members(Once(ids))
    BY OnceMembers
  <2> QED BY <1>5, <2>1, <2>2, PostingIs
<1> QED BY <1>1, <1>2, <1>3, <1>4, <1>5, SourceNames

LEMMA FolderFinite ==
  ASSUME CandidatePaths
  PROVE  IsFiniteSet(DOMAIN ByFolder(Cs)) /\ IsFiniteSet(DOMAIN ByRepoRoot(Cs, Boundaries))
<1> DEFINE notes == {id \in Cs : id[1] = "note"}
           f == [id \in Cs |-> Parent(Tail(id))]
           g == [id \in notes |-> BoundaryFor(Boundaries, Tail(id))]
<1>1. IsFiniteSet(Cs) /\ IsFiniteSet(notes)
  BY CandidatesFinite, FS_Subset
<1>2. /\ DOMAIN ByFolder(Cs) = {f[id] : id \in DOMAIN f}
      /\ DOMAIN ByRepoRoot(Cs, Boundaries) = {g[id] : id \in DOMAIN g}
  BY DEF ByFolder, ByRepoRoot
<1>3. /\ DOMAIN f = Cs /\ f = [id \in DOMAIN f |-> f[id]]
      /\ DOMAIN g = notes /\ g = [id \in DOMAIN g |-> g[id]]
  OBVIOUS
<1> HIDE DEF f, g, notes
<1> QED BY <1>1, <1>2, <1>3, ImageFinite

LEMMA AncestorFinite ==
  ASSUME CandidatePaths
  PROVE  IsFiniteSet(DOMAIN ByAncestor(Cs))
<1> DEFINE f == [id \in Cs |-> Above(id)]
<1>1. ASSUME NEW id \in Cs PROVE IsFiniteSet(Above(id))
  <2> DEFINE p == Tail(id)  h == [i \in 1 .. Len(p) - 2 |-> SubSeq(p, 1, i)]
  <2>1. p \in Seq(STRING)
    BY PathOf DEF CandidatePaths, Cs
  <2>2. Above(id) = {h[i] : i \in DOMAIN h} /\ h = [i \in DOMAIN h |-> h[i]]
        /\ DOMAIN h = 1 .. Len(p) - 2
    BY <2>1, AboveIs
  <2>3. IsFiniteSet(1 .. Len(p) - 2)
    <3>1. Len(p) - 2 \in Int
      BY <2>1
    <3> QED BY <3>1, FS_Interval
  <2> HIDE DEF h
  <2> QED BY <2>2, <2>3, ImageFinite
<1>2. DOMAIN f = Cs /\ f = [id \in DOMAIN f |-> f[id]] /\ \A id \in Cs : f[id] = Above(id)
  OBVIOUS
<1>3. DOMAIN ByAncestor(Cs) = UNION {f[id] : id \in DOMAIN f}
  BY DEF ByAncestor
<1> HIDE DEF f
<1> QED BY <1>1, <1>2, <1>3, CandidatesFinite, UnionFinite

LEMMA TagFinite ==
  ASSUME EInv, CandidatePaths, TagsStated
  PROVE  IsFiniteSet(DOMAIN ByTag(Cs, Refs, Meta(N)))
<1> DEFINE f == [id \in Cs |-> TagsOf(Refs, Meta(N), id)]
<1>1. ASSUME NEW id \in Cs PROVE IsFiniteSet(TagsOf(Refs, Meta(N), id))
  <2> DEFINE linked == {ref[2][2] : ref \in {r \in Refs : r[1] = id}}
  <2>1. linked \subseteq TextOf(Tail(id)).inline
    <3> SUFFICES ASSUME NEW ref \in Refs, ref[1] = id
                 PROVE  ref[2][2] \in TextOf(Tail(id)).inline
      OBVIOUS
    <3>1. PICK e \in edges : e.type = "references" /\ ref = <<e.from, e.to>>
      BY DEF Refs, References
    <3>2. ref[1] = e.from /\ ref[2] = e.to
      BY <3>1
    <3> QED BY <3>1, <3>2 DEF TagsStated
  <2>2. IsFiniteSet(TextOf(Tail(id)).inline) /\ IsFiniteSet(Meta(N)[id].tags)
    BY TextTyped, MetaTyped
  <2>3. IsFiniteSet(linked)
    BY <2>1, <2>2, FS_Subset
  <2>4. TagsOf(Refs, Meta(N), id) = Meta(N)[id].tags \cup linked
    BY DEF TagsOf
  <2> HIDE DEF linked
  <2> QED BY <2>2, <2>3, <2>4, FS_Union
<1>2. DOMAIN f = Cs /\ f = [id \in DOMAIN f |-> f[id]]
      /\ \A id \in Cs : f[id] = TagsOf(Refs, Meta(N), id)
  OBVIOUS
<1>3. DOMAIN ByTag(Cs, Refs, Meta(N)) = UNION {f[id] : id \in DOMAIN f}
  BY DEF ByTag
<1> HIDE DEF f
<1> QED BY <1>1, <1>2, <1>3, CandidatesFinite, UnionFinite

LEMMA FrontmatterFinite ==
  ASSUME EInv, CandidatePaths
  PROVE  IsFiniteSet(DOMAIN ByFrontmatter(Cs, Meta(N)))
<1> DEFINE Of(id) == {<<z[1], z[2]>> : z \in Stated(Meta(N)[id])}
           f == [id \in Cs |-> Of(id)]
<1>1. ASSUME NEW id \in Cs PROVE IsFiniteSet(Of(id))
  <2> DEFINE S == Stated(Meta(N)[id])  g == [z \in S |-> <<z[1], z[2]>>]
  <2>1. IsFiniteSet(S)
    BY MetaTyped, FieldsFinite
  <2>2. DOMAIN g = S /\ Of(id) = {g[z] : z \in DOMAIN g} /\ g = [z \in DOMAIN g |-> g[z]]
    OBVIOUS
  <2> HIDE DEF g, S, Of
  <2> QED BY <2>1, <2>2, ImageFinite
<1>2. DOMAIN f = Cs /\ f = [id \in DOMAIN f |-> f[id]] /\ \A id \in Cs : f[id] = Of(id)
  OBVIOUS
<1>3. DOMAIN ByFrontmatter(Cs, Meta(N)) = UNION {f[id] : id \in DOMAIN f}
  BY DEF ByFrontmatter
<1> HIDE DEF f, Of
<1> QED BY <1>1, <1>2, <1>3, CandidatesFinite, UnionFinite

LEMMA ListsFinite ==
  ASSUME EInv, CandidatePaths, TagsStated
  PROVE  IsFiniteSet(PostingLists)
<1> DEFINE Of(s) == {<<s, v>> : v \in DOMAIN Posting(s, N, edges)}
<1>1. ASSUME NEW s \in ToSet(Sources) PROVE IsFiniteSet(Of(s))
  <2>1. IsFiniteSet(DOMAIN Posting(s, N, edges))
    BY FolderFinite, AncestorFinite, TagFinite, FrontmatterFinite, PostingIs, SourceNames
  <2> QED BY <2>1, TaggedFinite
<1> HIDE DEF Of
<1>2. PostingLists = Of("same_folder") \cup Of("shared_ancestor") \cup Of("shared_tag")
                     \cup Of("shared_frontmatter") \cup Of("shared_repo_root")
  <2>1. PostingLists = UNION {Of(s) : s \in ToSet(Sources)}
    BY DEF PostingLists, Of
  <2> QED BY <2>1, SourceNames
<1> QED BY <1>1, <1>2, FS_Union, SourceNames

-----------------------------------------------------------------------------
(***************************************************************************)
(* The types.                                                              *)
(***************************************************************************)
LEMMA ShortIds ==
  ASSUME NEW S, NEW k \in S, NEW x \in S
  PROVE  <<k>> \in Seq(S) /\ <<k, x>> \in Seq(S) /\ <<k, x>> # <<>>
OBVIOUS

LEMMA KindIds ==
  ASSUME NEW k \in STRING, NEW p \in Seq(STRING), NEW x \in STRING
  PROVE  <<k>> \o p \in Seq(STRING) \ {<<>>} /\ <<k, x>> \in Seq(STRING) \ {<<>>}
<1>1. <<k>> \o p \in Seq(STRING)
  BY Prefixed
<1>2. <<k>> \o p # <<>>
  <2>1. Len(<<k>> \o p) = Len(p) + 1 /\ Len(p) \in Nat /\ Len(<<>>) = 0
    OBVIOUS
  <2>2. Len(p) + 1 # 0
    BY <2>1
  <2> QED BY <2>1, <2>2
<1>3. <<k, x>> \in Seq(STRING) /\ <<k, x>> # <<>>
  BY ShortIds
<1> QED BY <1>1, <1>2, <1>3

\* Identifiers and places are paths, or made like them.
TypedNode(id, p) == id \in Seq(STRING) \ {<<>>} /\ p \in Seq(STRING)
TypedNodes(nodes) == \A id \in DOMAIN nodes : TypedNode(id, nodes[id])

TypedEdge(e) ==
  e.src \in {"structural", "explicit", "inferred"} /\ e.conf \in MinConfidence .. 10000

TypeInv ==
  /\ pc \in ToSet(Passes) \cup {"failed"}
  /\ cancelled \in BOOLEAN /\ truncated \in BOOLEAN
  /\ TypedNodes(at)
  /\ \A e \in edges : TypedEdge(e)
  /\ npairs \in 0 .. MaxPairs

LEMMA TypeInvMeans == EInv /\ TypeInv => TypeOK
BY DEF EInv, TypeInv, TypeOK, TypedNodes, TypedNode, TypedEdge, N

LEMMA TypedPut ==
  ASSUME NEW old, NEW new, TypedNodes(old), TypedNodes(new)
  PROVE  TypedNodes(Put(old, new))
<1> SUFFICES ASSUME NEW id \in DOMAIN Put(old, new) PROVE TypedNode(id, Put(old, new)[id])
  BY DEF TypedNodes
<1>1. CASE id \in DOMAIN new
  <2>1. Put(old, new)[id] = new[id]
    BY <1>1 DEF Put
  <2> QED BY <1>1, <2>1 DEF TypedNodes
<1>2. CASE id \in DOMAIN old \ DOMAIN new
  <2>1. Put(old, new)[id] = old[id]
    BY <1>2, PutNodes
  <2> QED BY <1>2, <2>1 DEF TypedNodes
<1> QED BY <1>1, <1>2, PutNodes

LEMMA TypedNamed ==
  ASSUME NEW kind \in STRING, NEW ps, ps \subseteq Seq(STRING)
  PROVE  TypedNodes(Named(kind, ps))
<1>1. \A p \in ps : <<kind>> \o p \in Seq(STRING) \ {<<>>}
  BY KindIds
<1>2. /\ DOMAIN Named(kind, ps) = {<<kind>> \o p : p \in ps}
      /\ \A id \in DOMAIN Named(kind, ps) : Named(kind, ps)[id] \in Seq(STRING)
  BY NamedPlaces
<1> QED BY <1>1, <1>2 DEF TypedNodes, TypedNode

LEMMA LastTyped ==
  ASSUME NEW p \in Seq(STRING), p # <<>>
  PROVE  Last(p) \in STRING
BY DEF Last

LEMMA TypedByName ==
  ASSUME NEW kind \in STRING, NEW ps, ps \subseteq Seq(STRING) \ {<<>>}
  PROVE  TypedNodes(ByName(kind, ps))
<1>1. DOMAIN ByName(kind, ps) = {<<kind, Last(p)>> : p \in ps}
  BY DEF ByName
<1>2. \A p \in ps : <<kind, Last(p)>> \in Seq(STRING) \ {<<>>}
  BY LastTyped, KindIds
<1> QED BY <1>1, <1>2, ByNamePlaces DEF TypedNodes, TypedNode

LEMMA ShownPaths ==
  ASSUME EInv, NEW ds
  PROVE  Shown(ds) \subseteq Seq(STRING) \ {<<>>}
BY FilePaths DEF EInv, Shown, SubDirs

LEMMA BareTyped ==
  ASSUME NEW p \in Seq(STRING)
  PROVE  Name(p).bare \in STRING
<1>1. CASE p = <<>>
  BY <1>1, KindsAreStrings DEF Name, Plain
<1>2. CASE p # <<>>
  <2>1. Last(p) \in STRING
    BY <1>2, LastTyped
  <2>2. Last(p) \in DOMAIN NameOf => NameOf[Last(p)].bare \in STRING
    BY ScanAssumption
  <2> QED BY <1>2, <2>1, <2>2 DEF Name, Plain
<1> QED BY <1>1, <1>2

-----------------------------------------------------------------------------
\* The nodes and edges of each pass.
LEMMA StructuralTyped == \A x, y : TypedEdge(Structural(x, y))
BY DEF Structural, TypedEdge, MinConfidence

LEMMA ExplicitTyped == \A x, y, t : TypedEdge(Explicit(x, y, t))
BY DEF Explicit, TypedEdge, MinConfidence

LEMMA PlacedTyped == \A ids, p, id : TypedEdge(Placed(ids, p, id))
BY StructuralTyped DEF Placed

AddsTyped == TypedNodes(at') /\ \A e \in edges' \ edges : TypedEdge(e)

LEMMA TypedScopes == ASSUME EInv, TypeInv, ScanScopes PROVE AddsTyped
<1> DEFINE repos == Named("repo", W.nested)  folders == Named("folder", Folders)
           new == Put(repos, folders)
<1>1. at' = Put(at, new)
  BY DEF ScanScopes
<1>2. TypedNodes(repos) /\ TypedNodes(folders)
  BY FolderPaths, FilePaths, TypedNamed, KindsAreStrings DEF EInv
<1> HIDE DEF repos, folders
<1>3. TypedNodes(new)
  BY <1>2, TypedPut
<1> HIDE DEF new
<1>4. TypedNodes(at')
  BY <1>1, <1>3, TypedPut DEF TypeInv
<1>5. \A e \in edges' \ edges : TypedEdge(e)
  BY StructuralTyped DEF ScanScopes
<1> QED BY <1>4, <1>5 DEF AddsTyped

LEMMA TypedArtifacts ==
  ASSUME EInv, TypeInv, ScanProjects \/ ScanWorkflow \/ ScanIntents
  PROVE  AddsTyped
<1>1. PICK pass, new : Add(pass, new) /\ TypedNodes(new)
  <2>1. CASE ScanProjects
    <3> DEFINE new == ByName("project", Shown({<<"projects">>}))
    <3>1. Add("projects", new)
      BY <2>1 DEF ScanProjects
    <3>2. TypedNodes(new)
      BY ShownPaths, TypedByName, KindsAreStrings
    <3> QED BY <3>1, <3>2
  <2>2. CASE ScanWorkflow
    <3> DEFINE design == ByName("design_doc", Shown({<<"workflow", "design">>}))
               explore == ByName("explore_doc", Shown({<<"workflow", "explore">>}))
               new == Put(design, explore)
    <3>1. Add("workflow", new)
      BY <2>2 DEF ScanWorkflow
    <3>2. TypedNodes(design) /\ TypedNodes(explore)
      BY ShownPaths, TypedByName, KindsAreStrings
    <3> HIDE DEF design, explore
    <3>3. TypedNodes(new)
      BY <3>2, TypedPut
    <3> QED BY <3>1, <3>3
  <2>3. CASE ScanIntents
    <3> DEFINE intents == {p \in Intents : \A q \in Intents : ~Overtakes(q, p)}
               new == [id \in {<<"intent", Name(p).bare>> : p \in intents} |->
                         CHOOSE p \in intents : Name(p).bare = id[2]]
    <3>1. Add("intents", new)
      BY <2>3 DEF ScanIntents
    <3>2. intents \subseteq Seq(STRING)
      BY FilePaths DEF EInv, Intents
    <3> HIDE DEF intents
    <3>3. ASSUME NEW p \in intents
          PROVE  /\ (CHOOSE q \in intents : Name(q).bare = <<"intent", Name(p).bare>>[2]) \in intents
                 /\ <<"intent", Name(p).bare>> \in Seq(STRING) \ {<<>>}
      BY <3>2, BareTyped, KindIds, KindsAreStrings
    <3>4. TypedNodes(new)
      <4> SUFFICES ASSUME NEW p \in intents
                   PROVE  TypedNode(<<"intent", Name(p).bare>>, new[<<"intent", Name(p).bare>>])
        <5> DOMAIN new = {<<"intent", Name(p).bare>> : p \in intents}
          OBVIOUS
        <5> HIDE DEF new
        <5> QED BY DEF TypedNodes
      <4>1. new[<<"intent", Name(p).bare>>]
              = CHOOSE q \in intents : Name(q).bare = <<"intent", Name(p).bare>>[2]
        OBVIOUS
      <4> HIDE DEF new
      <4> QED BY <3>2, <3>3, <4>1 DEF TypedNode
    <3> HIDE DEF new
    <3> QED BY <3>1, <3>4
  <2> QED BY <2>1, <2>2, <2>3
<1>2. TypedNodes(at') /\ edges' = edges
  BY <1>1, TypedPut DEF Add, TypeInv
<1> QED BY <1>2 DEF AddsTyped

LEMMA TypedParts ==
  ASSUME EInv, TypeInv, NEW l, NEW phases \in SUBSET Phases(l), ScanParts(l, phases)
  PROVE  AddsTyped
<1> DEFINE ids == {FestivalId(l, p) : p \in Festivals(l) \cup Below(phases)}
           new == [id \in ids |-> l \o Tail(id)]
<1>1. at' = Put(at, new)
  BY DEF ScanParts
<1>2. ASSUME NEW p \in Festivals(l) \cup Below(phases)
      PROVE  TypedNode(FestivalId(l, p), l \o Tail(FestivalId(l, p)))
  <2>1. PICK f \in Festivals(l) : Within(p, f) /\ p \in Seq(STRING)
    BY InFestival
  <2>2. l \in Seq(STRING)
    BY <2>1, StageIsPath
  <2> DEFINE rest == SubSeq(p, Len(l) + 1, Len(p))
  <2>3. rest \in Seq(STRING)
    <3> HIDE DEF rest
    <3>1. rest = SubSeq(p, Len(l) + 1, Len(p))
      BY DEF rest
    <3> QED BY <2>1, <2>2, <3>1, FestivalPart
  <2>4. FestivalId(l, p) = <<"festival">> \o rest
    BY DEF FestivalId
  <2> HIDE DEF rest
  <2>5. Tail(FestivalId(l, p)) = rest
    BY <2>3, <2>4, PathId
  <2>6. l \o rest \in Seq(STRING)
    BY <2>2, <2>3
  <2>7. <<"festival">> \o rest \in Seq(STRING) \ {<<>>}
    BY <2>3, KindIds, KindsAreStrings
  <2> QED BY <2>4, <2>5, <2>6, <2>7 DEF TypedNode
<1>3. TypedNodes(new)
  <2>1. \A id \in ids : TypedNode(id, l \o Tail(id))
    BY <1>2
  <2> HIDE DEF ids
  <2> QED BY <2>1 DEF TypedNodes
<1> HIDE DEF new
<1>4. TypedNodes(at')
  BY <1>1, <1>3, TypedPut DEF TypeInv
<1>5. \A e \in edges' \ edges : TypedEdge(e)
  BY StructuralTyped DEF ScanParts
<1> QED BY <1>4, <1>5 DEF AddsTyped

LEMMA TypedNotes == ASSUME EInv, TypeInv, ScanNotes PROVE AddsTyped
<1>1. TypedNodes(Named("note", NotePaths))
  BY NotePathsAre, TypedNamed, KindsAreStrings
<1>2. TypedNodes(at')
  BY <1>1, TypedPut DEF ScanNotes, TypeInv
<1>3. \A e \in edges' \ edges : TypedEdge(e)
  BY PlacedTyped DEF ScanNotes
<1> QED BY <1>2, <1>3 DEF AddsTyped

LEMMA InlineTyped ==
  ASSUME EInv, NEW p
  PROVE  TextOf(p).inline \subseteq STRING
<1>1. CASE p \in DOMAIN W.text \ W.unread
  <2>1. CampaignType(W)
    BY ScanAssumption DEF EInv, W
  <2>2. W.text[p].inline \subseteq STRING
    BY <1>1, <2>1, Zenon DEF CampaignType
  <2> QED BY <1>1, <2>2 DEF TextOf
<1>2. CASE p \notin DOMAIN W.text \ W.unread
  BY <1>2 DEF TextOf, Blank
<1> QED BY <1>1, <1>2

LEMMA TypedLinks == ASSUME EInv, TypeInv, NEW n \in todo, LinkNote(n) PROVE AddsTyped
<1> DEFINE tags == {<<"tag", t>> : t \in TextOf(Tail(n)).inline}
           found == LinkTargets(n) \cup UNION {WikiTarget(t) : t \in TextOf(Tail(n)).wiki}
           ids == (LinkTargets(n) \cup tags) \ N
           new == [id \in ids |-> IF id[1] = "tag" THEN NoPath ELSE Tail(id)]
<1>1. /\ at' = Put(at, new)
      /\ edges' = edges \cup {Explicit(n, id, "links_to") : id \in found}
                       \cup {Explicit(n, id, "references") : id \in tags}
  BY DEF LinkNote
<1>2. ASSUME NEW id \in ids PROVE TypedNode(id, new[id])
  <2>1. CASE id \in tags
    <3>1. PICK t \in TextOf(Tail(n)).inline : id = <<"tag", t>>
      BY <2>1
    <3>2. t \in STRING
      BY InlineTyped
    <3>3. id \in Seq(STRING) \ {<<>>} /\ id[1] = "tag"
      <4>1. "tag" \in STRING
        BY KindsAreStrings
      <4>2. <<"tag", t>> \in Seq(STRING) /\ <<"tag", t>> # <<>>
        BY <3>2, <4>1, ShortIds
      <4> QED BY <3>1, <4>2
    <3>4. NoPath \in Seq(STRING)
      <4>1. "" \in STRING
        BY KindsAreStrings
      <4> QED BY <4>1, ShortIds DEF NoPath
    <3> QED BY <3>3, <3>4 DEF TypedNode
  <2>2. CASE id \in LinkTargets(n) \ tags
    <3>1. PICK p \in Seq(STRING) : id = <<"attachment">> \o p
      BY <2>2, LinkTargetKinds
    <3>2. Tail(id) = p /\ id[1] = "attachment"
      BY <3>1, PathId
    <3>3. id \in Seq(STRING) \ {<<>>}
      BY <3>1, KindIds, KindsAreStrings
    <3> QED BY <3>2, <3>3 DEF TypedNode
  <2> QED BY <2>1, <2>2
<1>3. TypedNodes(new)
  <2>1. DOMAIN new = ids
    OBVIOUS
  <2> HIDE DEF new
  <2> QED BY <1>2, <2>1 DEF TypedNodes
<1> HIDE DEF new, found, tags
<1>4. TypedNodes(at')
  BY <1>1, <1>3, TypedPut DEF TypeInv
<1>5. \A e \in edges' \ edges : TypedEdge(e)
  BY <1>1, ExplicitTyped
<1> QED BY <1>4, <1>5 DEF AddsTyped

LEMMA TypedCanvas == ASSUME EInv, TypeInv, LinkCanvas PROVE AddsTyped
<1> DEFINE p == SelectSeq(Order, LAMBDA x : x \in todo)[1]
           canvas == <<"canvas">> \o p
           targets == UNION {KnownAt(N \cup {canvas}, Resolve(<<>>, names)) : names \in W.canvas[p]}
<1>1. CASE p \notin DOMAIN W.canvas
  BY <1>1 DEF LinkCanvas, AddsTyped, TypeInv
<1>2. CASE p \in DOMAIN W.canvas
  <2>1. /\ at' = Put(at, Named("canvas", {p}))
        /\ edges' = edges \cup {Placed(N, p, canvas)}
                         \cup {Explicit(canvas, id, "links_to") : id \in targets}
    BY <1>2 DEF LinkCanvas
  <2>2. p \in Seq(STRING)
    BY <1>2, FilePaths DEF EInv
  <2> HIDE DEF p, targets, canvas
  <2>3. TypedNodes(Named("canvas", {p}))
    BY <2>2, TypedNamed, KindsAreStrings
  <2>4. TypedNodes(at')
    BY <2>1, <2>3, TypedPut DEF TypeInv
  <2>5. \A e \in edges' \ edges : TypedEdge(e)
    BY <2>1, PlacedTyped, ExplicitTyped
  <2> QED BY <2>4, <2>5 DEF AddsTyped
<1> QED BY <1>1, <1>2

LEMMA TypedCode == ASSUME EInv, TypeInv, CodeSlices PROVE AddsTyped
<1> DEFINE packages == {PackageOf(p) : p \in GoFiles}
           own == [id \in packages |-> Front(Tail(id))]
           files == Named("file", CodeFiles)
           new == Put(files, own)
<1>1. at' = Put(at, new)
  BY DEF CodeSlices
<1>2. CodeFiles \subseteq Seq(STRING) /\ GoFiles \subseteq CodeFiles
  BY FilePaths DEF EInv, CodeFiles, Listed, GoFiles
<1>3. ASSUME NEW p \in GoFiles PROVE TypedNode(PackageOf(p), Front(Tail(PackageOf(p))))
  <2> DEFINE rest == Append(Parent(p), W.package[p])
  <2>1. rest \in Seq(STRING)
    <3>1. Parent(p) \in Seq(STRING)
      BY <1>2, ParentPath
    <3>2. W.package[p] \in STRING
      BY FilePaths DEF EInv, GoFiles
    <3> QED BY <3>1, <3>2
  <2>2. PackageOf(p) = <<"package">> \o rest
    BY DEF PackageOf
  <2>5. Front(rest) \in Seq(STRING)
    <3>1. rest # <<>>
      <4>1. Parent(p) \in Seq(STRING)
        BY <1>2, ParentPath
      <4> QED BY <2>1, <4>1
    <3> HIDE DEF rest
    <3>2. Parent(rest) = Front(rest)
      BY <3>1 DEF Parent
    <3> QED BY <2>1, <3>2, ParentPath
  <2> HIDE DEF rest
  <2>3. Tail(PackageOf(p)) = rest
    BY <2>1, <2>2, PathId
  <2>4. PackageOf(p) \in Seq(STRING) \ {<<>>}
    BY <2>1, <2>2, KindIds, KindsAreStrings
  <2> QED BY <2>3, <2>4, <2>5 DEF TypedNode
<1>4. TypedNodes(own)
  BY <1>3 DEF TypedNodes
<1>5. TypedNodes(files)
  BY <1>2, TypedNamed, KindsAreStrings
<1> HIDE DEF own, files
<1>6. TypedNodes(new)
  BY <1>4, <1>5, TypedPut
<1> HIDE DEF new
<1>7. TypedNodes(at')
  BY <1>1, <1>6, TypedPut DEF TypeInv
<1>8. \A e \in edges' \ edges : TypedEdge(e)
  BY PlacedTyped, StructuralTyped DEF CodeSlices
<1> QED BY <1>7, <1>8 DEF AddsTyped

LEMMA TypedBridge == ASSUME TypeInv, Bridge PROVE AddsTyped
BY PlacedTyped DEF Bridge, AddsTyped, TypeInv

LEMMA TypedMetadata == ASSUME TypeInv, Metadata PROVE AddsTyped
<1>1. ASSUME NEW id, NEW e \in MetadataEdges(id) PROVE TypedEdge(e)
  <2> DEFINE p == at[id]
             Related(x) == [Explicit(id, x, "relates_to") EXCEPT !.conf = 8000]
             Projects(names) == {<<"project", n>> : n \in names} \cap N
             fest == {Explicit(id, x, "links_to") : x \in Projects({W.fest[p]})}
             gathered == {Explicit(id, x, "gathered_from") : x \in Projects(W.intent[p].gathered)}
             related == {Related(x) : x \in Projects(W.intent[p].related)}
  <2>1. MetadataEdges(id) = IF p \in W.unread THEN {}
          ELSE IF id[1] = "festival" /\ Len(id) = 2 /\ p \in DOMAIN W.fest THEN fest
          ELSE IF id[1] = "intent" /\ p \in DOMAIN W.intent THEN gathered \cup related
          ELSE {}
    BY Zenon DEF MetadataEdges
  <2>2. \A x : TypedEdge(Related(x))
    BY DEF Explicit, TypedEdge, MinConfidence
  <2>3. \A x \in fest \cup gathered \cup related : TypedEdge(x)
    <3> HIDE DEF Related, Projects
    <3> QED BY <2>2, ExplicitTyped
  <2> HIDE DEF fest, gathered, related
  <2> QED BY <1>1, <2>1, <2>3
<1> QED BY <1>1 DEF Metadata, AddsTyped, TypeInv

\* A confidence is one, however much evidence there is.
LEMMA TypedAggregate == ASSUME EInv, SoundInv, TypeInv, Aggregate PROVE AddsTyped
<1>1. ASSUME NEW e \in InferredEdges(signals) PROVE TypedEdge(e)
  <2>1. PICK pair \in {s[1] : s \in signals} :
          e = InferredEdge(pair, Evidence(signals, pair)) /\ e.conf >= MinConfidence
    BY DEF InferredEdges
  <2> DEFINE some == Evidence(signals, pair)
  <2>2. some \subseteq Declared(pair[1], pair[2]) /\ {pair[1], pair[2]} \subseteq Cs
    BY EvidenceGiven
  <2>3. Kinded(some)
    <3>1. Kinded(Declared(pair[1], pair[2]))
      BY <2>2, DeclaredKinded DEF SoundInv
    <3> QED BY <2>2, <3>1, FS_Subset DEF Kinded
  <2> HIDE DEF some
  <2>4. Saturate(Score(some)) \in 0 .. 10000
    BY <2>3, ScoreGrows
  <2>5. e.src = "inferred" /\ e.conf = Saturate(Score(some))
    BY <2>1 DEF InferredEdge, some
  <2>6. e.conf \in MinConfidence .. 10000
    <3>1. PICK z \in 0 .. 10000 : z = Saturate(Score(some))
      BY <2>4
    <3>2. e.conf = z /\ e.conf >= MinConfidence
      BY <2>1, <2>5, <3>1
    <3>3. z >= 3000
      BY <3>2 DEF MinConfidence
    <3> QED BY <3>1, <3>2, <3>3 DEF MinConfidence
  <2> QED BY <2>5, <2>6 DEF TypedEdge
<1> QED BY <1>1 DEF Aggregate, AddsTyped, TypeInv

\* There is never room for fewer pairs than were taken.
LEMMA WithinRoom ==
  ASSUME EInv, SoundInv, TypeInv, NEW list \in todo, Enumerate(list)
  PROVE  npairs' \in 0 .. MaxPairs /\ truncated' \in BOOLEAN
<1>1. PICK kept \in Kept(list[2]) :
        /\ npairs' = npairs + Cardinality(Taken(PairsIn(kept), MaxPairs - npairs))
        /\ truncated' = (truncated \/ kept # list[2]
                          \/ Taken(PairsIn(kept), MaxPairs - npairs) # PairsIn(kept))
  BY DEF Enumerate
<1>2. pc \in ToSet(Sources) /\ list[2] = Lists[list[1]] /\ list[1] \in DOMAIN Lists
  BY DEF Enumerate, SoundInv, TextsTodo
<1>3. Members(list[2])
  BY <1>2, ListMembers DEF Lists, SoundInv
<1>4. Members(kept)
  BY <1>1, <1>3, FS_Subset DEF Kept, Members
<1>5. MaxPairs - npairs \in Nat /\ MaxPairs \in Nat /\ npairs \in Nat
  BY ScanAssumption DEF TypeInv
<1>6. Cardinality(Taken(PairsIn(kept), MaxPairs - npairs)) \in 0 .. MaxPairs - npairs
  BY <1>4, <1>5, TakenFits
<1> QED BY <1>1, <1>5, <1>6

-----------------------------------------------------------------------------
LEMMA AfterPass ==
  /\ {"scopes", "projects", "festivals", "intents", "workflow", "notes", "index", "links",
      "canvases", "bridge", "code", "metadata", "aggregate", "done"} \subseteq ToSet(Passes)
  /\ ToSet(Sources) \subseteq ToSet(Passes)
<1>1. /\ DOMAIN Passes = 1 .. 19
      /\ Passes[1] = "scopes" /\ Passes[2] = "projects"
      /\ Passes[3] = "festivals" /\ Passes[4] = "intents"
      /\ Passes[5] = "workflow" /\ Passes[6] = "notes"
      /\ Passes[7] = "index" /\ Passes[8] = "links"
      /\ Passes[9] = "canvases" /\ Passes[10] = "bridge"
      /\ Passes[11] = "code" /\ Passes[12] = "same_folder"
      /\ Passes[13] = "shared_ancestor" /\ Passes[14] = "shared_tag"
      /\ Passes[15] = "shared_frontmatter" /\ Passes[16] = "shared_repo_root"
      /\ Passes[17] = "aggregate" /\ Passes[18] = "metadata"
      /\ Passes[19] = "done"
  BY DEF Passes, Sources
<1>2. \A i \in 1 .. 19 : Passes[i] \in ToSet(Passes)
  BY <1>1 DEF ToSet
<1> QED BY <1>1, <1>2, SourceNames

LEMMA PassTyped ==
  ASSUME TypeInv, [Next]_vars
  PROVE  pc' \in ToSet(Passes) \cup {"failed"} /\ cancelled' \in BOOLEAN
<1>1. CASE ScanScopes \/ ScanNotes \/ IndexNotes \/ Bridge \/ Aggregate \/ Metadata
  BY <1>1, AfterPass DEF ScanScopes, ScanNotes, IndexNotes, Bridge, Aggregate, Metadata, Enter, TypeInv
<1>2. CASE ScanProjects \/ ScanIntents \/ ScanWorkflow
  <2>1. PICK pass \in {"projects", "intents", "workflow"} : \E new : Add(pass, new)
    BY <1>2, ArtifactsAdded
  <2> QED BY <2>1, AfterProjects, PassAfter, AfterPass DEF Add, Enter, TypeInv
<1>3. CASE CodeSlices \/ Proceed
  <2>1. pc \in {"festivals", "links", "canvases", "code"} \cup ToSet(Sources)
        /\ pc' = After(pc) /\ cancelled' = cancelled
    BY <1>3 DEF CodeSlices, Proceed, Enter, Running
  <2> QED BY <2>1, PassAfter, AfterPass DEF TypeInv
<1>4. CASE (\E l \in todo : ScanLifecycle(l) \/ StopInLifecycle(l)) \/ (\E n \in todo : LinkNote(n))
           \/ LinkCanvas \/ \E list \in todo : Enumerate(list)
  BY <1>4 DEF ScanLifecycle, StopInLifecycle, ScanParts, LinkNote, LinkCanvas, Enumerate, TypeInv
<1>5. CASE StopEnumerating \/ Cancel \/ Fail \/ UNCHANGED vars
  BY <1>5, AfterPass DEF StopEnumerating, Cancel, Fail, vars, TypeInv
<1> QED BY <1>1, <1>2, <1>3, <1>4, <1>5 DEF Next

LEMMA TypedGraph ==
  ASSUME EInv, SoundInv, TypeInv, [Next]_vars
  PROVE  TypedNodes(at') /\ \A e \in edges' : TypedEdge(e)
<1>1. AddsTyped
  <2>1. CASE UNCHANGED <<at, edges>>
    BY <2>1 DEF AddsTyped, TypeInv
  <2>2. CASE ScanScopes \/ ScanProjects \/ ScanIntents \/ ScanWorkflow
    BY <2>2, TypedScopes, TypedArtifacts
  <2>3. CASE \E l \in todo : ScanLifecycle(l) \/ StopInLifecycle(l)
    BY <2>3, TypedParts DEF ScanLifecycle, StopInLifecycle
  <2>4. CASE ScanNotes \/ LinkCanvas \/ CodeSlices \/ \E n \in todo : LinkNote(n)
    BY <2>4, TypedNotes, TypedLinks, TypedCanvas, TypedCode
  <2>5. CASE Bridge \/ Aggregate \/ Metadata
    BY <2>5, TypedBridge, TypedAggregate, TypedMetadata
  <2>6. CASE IndexNotes \/ Proceed \/ StopEnumerating \/ Cancel \/ Fail
             \/ UNCHANGED vars \/ \E list \in todo : Enumerate(list)
    BY <2>1, <2>6 DEF IndexNotes, Proceed, StopEnumerating, Cancel, Fail, vars, Enumerate
  <2> QED BY <2>2, <2>3, <2>4, <2>5, <2>6 DEF Next
<1> QED BY <1>1 DEF AddsTyped, TypeInv

LEMMA PairsTyped ==
  ASSUME EInv, SoundInv, TypeInv, [Next]_vars
  PROVE  npairs' \in 0 .. MaxPairs /\ truncated' \in BOOLEAN
<1>1. CASE \E list \in todo : Enumerate(list)
  BY <1>1, WithinRoom
<1>2. CASE ~ \E list \in todo : Enumerate(list)
  <2>1. npairs' = npairs /\ truncated' \in {truncated, TRUE}
    BY <1>2 DEF Next, vars, NotInferring, ScanScopes, ScanProjects, ScanIntents, ScanWorkflow, Add,
       ScanLifecycle, StopInLifecycle, ScanParts, ScanNotes, IndexNotes, LinkNote, LinkCanvas,
       Proceed, Bridge, CodeSlices, StopEnumerating, Aggregate, Metadata, Cancel, Fail
  <2> QED BY <2>1 DEF TypeInv
<1> QED BY <1>1, <1>2

LEMMA InitTypeInv == Init => TypeInv
<1> SUFFICES ASSUME Init PROVE TypeInv
  OBVIOUS
<1>1. DOMAIN at = {}
  BY DEF Init, Unscanned
<1>2. 0 \in 0 .. MaxPairs
  BY ScanAssumption
<1> QED BY <1>1, <1>2, AfterPass DEF Init, TypeInv, TypedNodes

LEMMA NextTypeInv == ASSUME EInv, SoundInv, TypeInv, [Next]_vars PROVE TypeInv'
BY PassTyped, TypedGraph, PairsTyped DEF TypeInv

\* Identifiers and places are what they seem, a confidence is between the one
\* that an edge needs and certainty, and however the posting lists are cut,
\* no more pairs are taken than the budget allows (inference.go:255-283).
THEOREM ScanTypes == Spec => []TypeOK
<1> QED BY TypeInvMeans, InitEInv, NextEInv, InitSoundInv, NextSoundInv, InitTypeInv, NextTypeInv,
           PTL DEF Spec

-----------------------------------------------------------------------------
(***************************************************************************)
(* What the lists that were enumerated add up to.                          *)
(***************************************************************************)
Sized(list) == Cardinality(PairsIn(MembersOf(list)))
AllPairs(lists) == UNION {{l} \X PairsIn(MembersOf(l)) : l \in lists}

ListsTyped == IsFiniteSet(PostingLists) /\ \A l \in PostingLists : Members(MembersOf(l))

LEMMA ListIs ==
  ASSUME NEW l
  PROVE  l \in PostingLists <=> /\ l = <<l[1], l[2]>> /\ l[1] \in ToSet(Sources)
                                /\ l[2] \in DOMAIN Posting(l[1], N, edges)
<1>1. ASSUME l \in PostingLists
      PROVE  l = <<l[1], l[2]>> /\ l[1] \in ToSet(Sources) /\ l[2] \in DOMAIN Posting(l[1], N, edges)
  <2>1. PICK s \in ToSet(Sources) : l \in {<<s, v>> : v \in DOMAIN Posting(s, N, edges)}
    BY <1>1 DEF PostingLists
  <2>2. PICK v \in DOMAIN Posting(s, N, edges) : l = <<s, v>>
    BY <2>1
  <2>3. l[1] = s /\ l[2] = v
    BY <2>2
  <2> QED BY <2>2, <2>3
<1>2. ASSUME l = <<l[1], l[2]>>, l[1] \in ToSet(Sources), l[2] \in DOMAIN Posting(l[1], N, edges)
      PROVE  l \in PostingLists
  <2> DEFINE Of(s) == {<<s, v>> : v \in DOMAIN Posting(s, N, edges)}
  <2>1. PostingLists = UNION {Of(s) : s \in ToSet(Sources)}
    BY DEF PostingLists
  <2>2. <<l[1], l[2]>> \in Of(l[1])
    BY <1>2
  <2> HIDE DEF Of
  <2> QED BY <1>2, <2>1, <2>2
<1> QED BY <1>1, <1>2

LEMMA ListsAreTyped ==
  ASSUME EInv, CandidatePaths, TagsStated
  PROVE  ListsTyped
<1>1. ASSUME NEW l \in PostingLists PROVE Members(MembersOf(l))
  BY ListIs, ListMembers DEF MembersOf
<1> QED BY <1>1, ListsFinite DEF ListsTyped

LEMMA AllPairsStep ==
  ASSUME ListsTyped, NEW S \in SUBSET PostingLists, IsFiniteSet(AllPairs(S)),
         NEW l \in PostingLists \ S
  PROVE  /\ AllPairs(S \cup {l}) = AllPairs(S) \cup ({l} \X PairsIn(MembersOf(l)))
         /\ IsFiniteSet(AllPairs(S \cup {l}))
         /\ Sized(l) \in Nat /\ Cardinality(AllPairs(S)) \in Nat
         /\ Cardinality(AllPairs(S \cup {l})) = Cardinality(AllPairs(S)) + Sized(l)
<1> DEFINE P == PairsIn(MembersOf(l))  A == AllPairs(S)
<1>1. IsFiniteSet(P) /\ Sized(l) = Cardinality(P) /\ Cardinality(P) \in Nat
  BY PairsFinite DEF ListsTyped, Sized
<1>2. AllPairs(S \cup {l}) = A \cup ({l} \X P)
  BY DEF AllPairs
<1>3. IsFiniteSet({l} \X P) /\ Cardinality({l} \X P) = Cardinality(P)
  <2> HIDE DEF P
  <2>1. IsFiniteSet({l}) /\ Cardinality({l}) = 1
    BY FS_Singleton
  <2> QED BY <1>1, <2>1, FS_Product
<1>4. A \cap ({l} \X P) = {}
  BY DEF AllPairs
<1>5. Cardinality(A) \in Nat
  BY FS_CardinalityType
<1> HIDE DEF P, A
<1>6. /\ IsFiniteSet(A \cup ({l} \X P))
      /\ Cardinality(A \cup ({l} \X P)) = Cardinality(A) + Cardinality(P) - Cardinality({})
  BY <1>3, <1>4, FS_Union DEF A
<1>7. Cardinality({}) = 0
  BY FS_EmptySet
<1>8. Cardinality(AllPairs(S \cup {l})) = Cardinality(A) + Cardinality(P)
  <2> DEFINE a == Cardinality(A)  p == Cardinality(P)
  <2>1. a \in Nat /\ p \in Nat /\ Cardinality(A \cup ({l} \X P)) = a + p - Cardinality({})
    BY <1>1, <1>5, <1>6
  <2> HIDE DEF a, p
  <2>2. Cardinality(A \cup ({l} \X P)) = a + p
    BY <1>7, <2>1
  <2> QED BY <1>2, <2>2, Zenon DEF a, p
<1> QED BY <1>1, <1>2, <1>5, <1>6, <1>8 DEF A, P

LEMMA AllPairsFinite ==
  ASSUME ListsTyped, NEW S \in SUBSET PostingLists
  PROVE  IsFiniteSet(AllPairs(S)) /\ Cardinality(AllPairs(S)) \in Nat
<1> DEFINE f == [l \in S |-> {l} \X PairsIn(MembersOf(l))]
<1>1. IsFiniteSet(S)
  BY FS_Subset DEF ListsTyped
<1>2. \A l \in S : IsFiniteSet({l} \X PairsIn(MembersOf(l)))
  <2> SUFFICES ASSUME NEW l \in S PROVE IsFiniteSet({l} \X PairsIn(MembersOf(l)))
    OBVIOUS
  <2>1. IsFiniteSet(PairsIn(MembersOf(l))) /\ IsFiniteSet({l})
    BY PairsFinite, FS_Singleton DEF ListsTyped
  <2> QED BY <2>1, FS_Product
<1>3. DOMAIN f = S /\ f = [l \in DOMAIN f |-> f[l]] /\ \A l \in S : f[l] = {l} \X PairsIn(MembersOf(l))
  OBVIOUS
<1>4. AllPairs(S) = UNION {f[l] : l \in DOMAIN f}
  BY DEF AllPairs
<1> HIDE DEF f
<1>5. IsFiniteSet(AllPairs(S))
  BY <1>1, <1>2, <1>3, <1>4, UnionFinite
<1> QED BY <1>5, FS_CardinalityType

LEMMA AllPairsMore ==
  ASSUME ListsTyped, NEW T \in SUBSET PostingLists, NEW S \in SUBSET T
  PROVE  Cardinality(AllPairs(S)) <= Cardinality(AllPairs(T))
<1>1. AllPairs(S) \subseteq AllPairs(T)
  BY DEF AllPairs
<1> QED BY <1>1, AllPairsFinite, FS_Subset

Adding(lists, g) ==
  g = [s \in SUBSET lists |-> IF s = {} THEN 0 ELSE Sized(First(s)) + g[s \ {First(s)}]]

LEMMA BudgetSums ==
  ASSUME NEW lists
  PROVE  FoldSet(LAMBDA list, n : Cardinality(PairsIn(MembersOf(list))) + n, 0, lists)
           = (CHOOSE g : Adding(lists, g))[lists]
BY Zenon DEF FoldSet, MapThenFoldSet, Adding, First, Sized

LEMMA AddingIs ==
  ASSUME ListsTyped, NEW g, Adding(PostingLists, g)
  PROVE  \A s \in SUBSET PostingLists : g[s] = Cardinality(AllPairs(s))
<1> DEFINE c(s) == Cardinality(AllPairs(s))
           wrong == {s \in SUBSET PostingLists : g[s] # c(s)}
           sizes == {Cardinality(s) : s \in wrong}
<1> SUFFICES ASSUME wrong # {} PROVE FALSE
  OBVIOUS
<1>1. /\ \A s \in SUBSET PostingLists :
           IsFiniteSet(s) /\ Cardinality(s) \in 0 .. Cardinality(PostingLists)
      /\ Cardinality(PostingLists) \in Nat
  BY FS_Subset, FS_CardinalityType DEF ListsTyped
<1>2. PICK m \in sizes : \A i \in sizes : m <= i
  <2>1. sizes \in SUBSET (0 .. Cardinality(PostingLists)) /\ sizes # {}
    BY <1>1
  <2> HIDE DEF sizes
  <2> QED BY <1>1, <2>1, Least
<1>3. PICK s \in wrong : Cardinality(s) = m
  BY <1>2
<1>4. g[s] = IF s = {} THEN 0 ELSE Sized(First(s)) + g[s \ {First(s)}]
  BY <1>3, Zenon DEF Adding
<1>5. c({}) = 0
  BY FS_EmptySet DEF AllPairs
<1>6. s # {}
  BY <1>3, <1>4, <1>5
<1>7. First(s) \in s
  BY <1>6 DEF First
<1>8. Cardinality(s \ {First(s)}) = Cardinality(s) - 1 /\ Cardinality(s) \in Nat
  BY <1>1, <1>3, <1>7, FS_RemoveElement
<1>9. s \ {First(s)} \notin wrong
  <2>1. ~ (m <= Cardinality(s) - 1)
    BY <1>3, <1>8
  <2> QED BY <1>2, <1>8, <2>1
<1> DEFINE rest == s \ {First(s)}
<1>10. rest \in SUBSET PostingLists /\ First(s) \in PostingLists \ rest /\ rest \cup {First(s)} = s
  BY <1>3, <1>7
<1>11. g[rest] = c(rest)
  BY <1>9, <1>10
<1> HIDE DEF rest
<1>12. c(s) = c(rest) + Sized(First(s)) /\ c(rest) \in Nat /\ Sized(First(s)) \in Nat
  BY <1>10, AllPairsFinite, AllPairsStep
<1>13. g[s] = Sized(First(s)) + g[rest]
  BY <1>4, <1>6 DEF rest
<1>14. g[s] = c(s)
  <2> HIDE DEF c, wrong, sizes
  <2> QED BY <1>11, <1>12, <1>13
<1> QED BY <1>3, <1>14

Fits ==
  /\ \A l \in PostingLists : Cardinality(MembersOf(l)) <= MaxMembers
  /\ Cardinality(AllPairs(PostingLists)) <= MaxPairs

\* The budgets suffice if the pairs of all lists, told apart by their lists,
\* are no more than the budget of pairs.
LEMMA BudgetIs ==
  ASSUME ListsTyped
  PROVE  WithinBudget <=> Fits
<1> DEFINE c(s) == Cardinality(AllPairs(s))
           t == [s \in SUBSET PostingLists |-> c(s)]
<1>1. Adding(PostingLists, t)
  <2>1. ASSUME NEW s \in SUBSET PostingLists
        PROVE  c(s) = IF s = {} THEN 0 ELSE Sized(First(s)) + t[s \ {First(s)}]
    <3>1. CASE s = {}
      <4>1. AllPairs({}) = {} /\ Cardinality({}) = 0
        BY FS_EmptySet DEF AllPairs
      <4> QED BY <3>1, <4>1
    <3>2. CASE s # {}
      <4> DEFINE rest == s \ {First(s)}
      <4>1. First(s) \in s
        BY <3>2 DEF First
      <4>2. rest \in SUBSET PostingLists /\ First(s) \in PostingLists \ rest /\ rest \cup {First(s)} = s
        BY <4>1
      <4>3. t[rest] = c(rest)
        OBVIOUS
      <4> HIDE DEF rest, t
      <4>4. c(s) = c(rest) + Sized(First(s)) /\ c(rest) \in Nat /\ Sized(First(s)) \in Nat
        BY <4>2, AllPairsFinite, AllPairsStep
      <4>5. c(s) = Sized(First(s)) + t[rest]
        <5> HIDE DEF c
        <5> QED BY <4>3, <4>4
      <4> QED BY <3>2, <4>5 DEF rest
    <3> QED BY <3>1, <3>2
  <2> QED BY <2>1 DEF Adding
<1>2. Adding(PostingLists, CHOOSE g : Adding(PostingLists, g))
  <2> HIDE DEF t
  <2> QED BY <1>1
<1>3. (CHOOSE g : Adding(PostingLists, g))[PostingLists] = c(PostingLists)
  BY <1>2, AddingIs
<1>4. FoldSet(LAMBDA list, n : Cardinality(PairsIn(MembersOf(list))) + n, 0, PostingLists)
        = c(PostingLists)
  BY <1>3, BudgetSums, Zenon
<1> HIDE DEF t
<1> QED BY <1>4 DEF WithinBudget, Fits

-----------------------------------------------------------------------------
(***************************************************************************)
(* What two candidates share is the value of a list that both are on.      *)
(***************************************************************************)
TagsRead(n) ==
  \A t \in TextOf(Tail(n)).inline :
    \E e \in edges : e.type = "references" /\ e.from = n /\ e.to = <<"tag", t>>
TagsWhole == \A n \in NotesIn(N) : TagsRead(n)

AllTags(id) == Meta(N)[id].tags \cup (IF id[1] = "note" THEN TextOf(Tail(id)).inline ELSE {})

LEMMA SharedIs ==
  ASSUME EInv, CandidatePaths, NEW a \in Cs, NEW b \in Cs, NEW e \in SharedValues(a, b)
  PROVE  \/ e = <<"same_folder", Parent(Tail(a))>> /\ Parent(Tail(a)) = Parent(Tail(b))
         \/ \E d \in Above(a) \cap Above(b) : e = <<"shared_ancestor", d>>
         \/ \E t \in AllTags(a) \cap AllTags(b) : e = <<"shared_tag", t>>
         \/ \E f \in Stated(Meta(N)[a]) : \E g \in Stated(Meta(N)[b]) :
              f[1] = g[1] /\ f[2] = g[2] /\ e = <<"shared_frontmatter", <<f[1], f[2]>>>>
         \/ /\ a[1] = "note" /\ b[1] = "note"
            /\ BoundaryFor(Boundaries, Tail(a)) = BoundaryFor(Boundaries, Tail(b))
            /\ e = <<"shared_repo_root", BoundaryFor(Boundaries, Tail(a))>>
<1> DEFINE p == Tail(a)  q == Tail(b)  x == Meta(N)[a]  y == Meta(N)[b]
           Over(r) == {SubSeq(r, 1, i) : i \in 1 .. Len(r) - 2}
           Tags(id) == Meta(N)[id].tags \cup (IF id[1] = "note" THEN TextOf(Tail(id)).inline ELSE {})
           Same(kind, u, v) == IF u = v /\ u # None THEN {<<"shared_frontmatter", <<kind, u>>>>} ELSE {}
           both == (ToSet(x.aliases) \cap ToSet(y.aliases)) \ {None}
           folder == IF Parent(p) = Parent(q) THEN {<<"same_folder", Parent(p)>>} ELSE {}
           over == {<<"shared_ancestor", d>> : d \in Over(p) \cap Over(q)}
           tags == {<<"shared_tag", t>> : t \in Tags(a) \cap Tags(b)}
           aliases == {<<"shared_frontmatter", <<"alias", v>>>> : v \in both}
           roots == IF /\ a[1] = "note" /\ b[1] = "note"
                       /\ BoundaryFor(Boundaries, p) = BoundaryFor(Boundaries, q)
                    THEN {<<"shared_repo_root", BoundaryFor(Boundaries, p)>>} ELSE {}
           fields == \E f \in Stated(x) : \E g \in Stated(y) :
                       f[1] = g[1] /\ f[2] = g[2] /\ e = <<"shared_frontmatter", <<f[1], f[2]>>>>
<1>1. SharedValues(a, b) = folder \cup over \cup tags \cup Same("type", x.type, y.type)
                            \cup Same("status", x.status, y.status) \cup aliases \cup roots
  BY DEF SharedValues
<1>2. Above(a) = Over(p) /\ Above(b) = Over(q)
  BY AboveIs, PathOf DEF CandidatePaths, Cs
<1>3. /\ x.type # None => <<"type", x.type, 1>> \in Stated(x)
      /\ x.status # None => <<"status", x.status, 1>> \in Stated(x)
      /\ \A i \in DOMAIN x.aliases : x.aliases[i] # None =>
           <<"alias", x.aliases[i], Cardinality({j \in 1 .. i : x.aliases[j] = x.aliases[i]})>> \in Stated(x)
  BY DEF Stated, Fields
<1>4. /\ y.type # None => <<"type", y.type, 1>> \in Stated(y)
      /\ y.status # None => <<"status", y.status, 1>> \in Stated(y)
      /\ \A i \in DOMAIN y.aliases : y.aliases[i] # None =>
           <<"alias", y.aliases[i], Cardinality({j \in 1 .. i : y.aliases[j] = y.aliases[i]})>> \in Stated(y)
  BY DEF Stated, Fields
<1>5. CASE e \in Same("type", x.type, y.type)
  <2>1. x.type = y.type /\ x.type # None /\ e = <<"shared_frontmatter", <<"type", x.type>>>>
    BY <1>5
  <2> DEFINE f == <<"type", x.type, 1>>
  <2>2. f \in Stated(x) /\ f \in Stated(y) /\ f[1] = "type" /\ f[2] = x.type
    BY <1>3, <1>4, <2>1
  <2> HIDE DEF f, Same, folder, over, tags, aliases, roots
  <2>3. fields
    BY <2>1, <2>2
  <2> QED BY <2>3
<1>6. CASE e \in Same("status", x.status, y.status)
  <2>1. x.status = y.status /\ x.status # None /\ e = <<"shared_frontmatter", <<"status", x.status>>>>
    BY <1>6
  <2> DEFINE f == <<"status", x.status, 1>>
  <2>2. f \in Stated(x) /\ f \in Stated(y) /\ f[1] = "status" /\ f[2] = x.status
    BY <1>3, <1>4, <2>1
  <2> HIDE DEF f, Same, folder, over, tags, aliases, roots
  <2>3. fields
    BY <2>1, <2>2
  <2> QED BY <2>3
<1>7. CASE e \in aliases
  <2>1. PICK v \in both : e = <<"shared_frontmatter", <<"alias", v>>>>
    BY <1>7
  <2>2. PICK i \in DOMAIN x.aliases : x.aliases[i] = v
    BY <2>1 DEF ToSet
  <2>3. PICK k \in DOMAIN y.aliases : y.aliases[k] = v
    BY <2>1 DEF ToSet
  <2> DEFINE f == <<"alias", x.aliases[i], Cardinality({j \in 1 .. i : x.aliases[j] = x.aliases[i]})>>
             g == <<"alias", y.aliases[k], Cardinality({j \in 1 .. k : y.aliases[j] = y.aliases[k]})>>
  <2>4. f \in Stated(x) /\ g \in Stated(y)
    BY <1>3, <1>4, <2>1, <2>2, <2>3
  <2>5. f[1] = "alias" /\ g[1] = "alias" /\ f[2] = v /\ g[2] = v
    BY <2>2, <2>3
  <2> HIDE DEF f, g, Same, folder, over, tags, aliases, roots
  <2>6. fields
    BY <2>1, <2>4, <2>5
  <2> QED BY <2>6
<1>8. CASE e \in folder
  BY <1>8
<1>9. CASE e \in over
  <2>1. \E d \in Over(p) \cap Over(q) : e = <<"shared_ancestor", d>>
    BY <1>9
  <2> HIDE DEF Over, fields
  <2> QED BY <1>2, <2>1
<1>10. CASE e \in tags
  BY <1>10 DEF AllTags
<1>11. CASE e \in roots
  BY <1>11
<1> HIDE DEF folder, over, tags, aliases, roots, Same
<1>12. \/ e \in folder \/ e \in over \/ e \in tags \/ e \in aliases \/ e \in roots
       \/ e \in Same("type", x.type, y.type) \/ e \in Same("status", x.status, y.status)
  BY <1>1
<1> HIDE DEF p, q, x, y, Tags, Over, fields, both
<1> QED BY <1>5, <1>6, <1>7, <1>8, <1>9, <1>10, <1>11, <1>12

\* A pair of a list that joins two nodes.
Joins(members, a, b) == \E q \in PairsIn(members) : q[1][1] = a /\ q[2][1] = b

LEMMA OnceJoins ==
  ASSUME NEW ids, NEW a \in ids, NEW b \in ids, Earlier(a, b)
  PROVE  Joins(Once(ids), a, b)
<1> DEFINE x == <<a, 1>>  y == <<b, 1>>  q == <<x, y>>
<1>1. x \in Once(ids) /\ y \in Once(ids) /\ x[1] = a /\ y[1] = b
  BY DEF Once
<1>2. Before(x, y)
  BY <1>1 DEF Before
<1> HIDE DEF x, y
<1>3. q \in Once(ids) \X Once(ids) /\ q[1] = x /\ q[2] = y
  BY <1>1
<1>4. q \in PairsIn(Once(ids))
  BY <1>2, <1>3 DEF PairsIn
<1> HIDE DEF q
<1> QED BY <1>1, <1>3, <1>4 DEF Joins

\* An alias that is repeated makes its note a member twice.
LEMMA StatedAgain ==
  ASSUME NEW s \in Seq(STRING), NEW i \in DOMAIN s, NEW k \in 1 .. i - 1, s[k] = s[i]
  PROVE  /\ k \in DOMAIN s
         /\ Cardinality({j \in 1 .. k : s[j] = s[k]}) < Cardinality({j \in 1 .. i : s[j] = s[i]})
<1> DEFINE K == {j \in 1 .. k : s[j] = s[k]}  I == {j \in 1 .. i : s[j] = s[i]}
<1>1. k \in DOMAIN s /\ i \in Nat /\ k \in Nat /\ k < i
  OBVIOUS
<1>2. /\ IsFiniteSet(I) /\ Cardinality(I) \in Nat
      /\ IsFiniteSet(K) /\ Cardinality(K) \in Nat
  BY <1>1, StatedBefore
<1>3. K \cup {i} \subseteq I /\ i \notin K
  BY <1>1
<1> HIDE DEF K, I
<1>4. Cardinality(K \cup {i}) = Cardinality(K) + 1
  BY <1>2, <1>3, FS_AddElement
<1>5. Cardinality(K \cup {i}) <= Cardinality(I)
  BY <1>2, <1>3, FS_Subset
<1> QED BY <1>1, <1>2, <1>4, <1>5 DEF K, I

LEMMA FieldsJoin ==
  ASSUME EInv, CandidatePaths, NEW a \in Cs, NEW b \in Cs,
         NEW f \in Stated(Meta(N)[a]), NEW g \in Stated(Meta(N)[b]),
         f[1] = g[1], f[2] = g[2], Earlier(a, b) \/ (a = b /\ f[3] < g[3])
  PROVE  /\ <<f[1], f[2]>> \in DOMAIN ByFrontmatter(Cs, Meta(N))
         /\ Joins(ByFrontmatter(Cs, Meta(N))[<<f[1], f[2]>>], a, b)
<1> DEFINE v == <<f[1], f[2]>>
           Of(id) == {<<id, z[3]>> : z \in {y \in Stated(Meta(N)[id]) : <<y[1], y[2]>> = v}}
           named == [id \in Cs |-> {<<z[1], z[2]>> : z \in Stated(Meta(N)[id])}]
           x == <<a, f[3]>>  y == <<b, g[3]>>  q == <<x, y>>
           ms == UNION {Of(id) : id \in Cs}
<1>1. v \in DOMAIN ByFrontmatter(Cs, Meta(N))
  <2>1. v \in named[a]
    OBVIOUS
  <2>2. DOMAIN ByFrontmatter(Cs, Meta(N)) = UNION {named[id] : id \in Cs}
    BY DEF ByFrontmatter
  <2> HIDE DEF named, v
  <2> QED BY <2>1, <2>2
<1>2. ByFrontmatter(Cs, Meta(N))[v] = ms
  BY <1>1 DEF ByFrontmatter
<1>3. x \in Of(a) /\ y \in Of(b)
  <2>1. <<g[1], g[2]>> = v
    BY Zenon
  <2> QED BY <2>1
<1>4. x[1] = a /\ x[2] = f[3] /\ y[1] = b /\ y[2] = g[3]
  OBVIOUS
<1> HIDE DEF x, y, Of
<1>5. x \in ms /\ y \in ms
  BY <1>3
<1> HIDE DEF ms
<1>6. Before(x, y)
  BY <1>4 DEF Before
<1>7. q \in ms \X ms /\ q[1] = x /\ q[2] = y
  BY <1>5
<1>8. q \in PairsIn(ms)
  BY <1>6, <1>7 DEF PairsIn
<1> HIDE DEF q
<1>9. Joins(ms, a, b)
  BY <1>4, <1>7, <1>8 DEF Joins
<1> QED BY <1>1, <1>2, <1>9

LEMMA TagsAre ==
  ASSUME TagsWhole, NEW id \in Cs, NEW t \in AllTags(id)
  PROVE  t \in TagsOf(Refs, Meta(N), id)
<1>1. CASE t \in Meta(N)[id].tags
  BY <1>1 DEF TagsOf
<1>2. CASE id[1] = "note" /\ t \in TextOf(Tail(id)).inline
  <2>1. id \in NotesIn(N)
    BY <1>2 DEF NotesIn, Cs, Candidates
  <2>2. PICK e \in edges : e.type = "references" /\ e.from = id /\ e.to = <<"tag", t>>
    BY <1>2, <2>1 DEF TagsWhole, TagsRead
  <2> DEFINE ref == <<e.from, e.to>>
  <2>3. ref \in Refs
    BY <2>2 DEF Refs, References
  <2>4. ref[1] = id /\ ref[2][2] = t
    BY <2>2
  <2> HIDE DEF ref
  <2> QED BY <2>3, <2>4 DEF TagsOf
<1> QED BY <1>1, <1>2 DEF AllTags

LEMMA OthersListed ==
  ASSUME EInv, CandidatePaths, TagsWhole, NEW a \in Cs, NEW b \in Cs, Earlier(a, b),
         NEW e \in SharedValues(a, b)
  PROVE  /\ e = <<e[1], e[2]>> /\ e[1] \in ToSet(Sources)
         /\ e[2] \in DOMAIN Posting(e[1], N, edges)
         /\ Joins(Posting(e[1], N, edges)[e[2]], a, b)
<1>1. CASE e = <<"same_folder", Parent(Tail(a))>> /\ Parent(Tail(a)) = Parent(Tail(b))
  <2> DEFINE d == Parent(Tail(a))  ids == {id \in Cs : Parent(Tail(id)) = d}
  <2>1. d \in DOMAIN ByFolder(Cs) /\ ByFolder(Cs)[d] = Once(ids) /\ a \in ids /\ b \in ids
    BY <1>1 DEF ByFolder
  <2>2. e[1] = "same_folder" /\ e[2] = d
    BY <1>1
  <2> HIDE DEF d, ids
  <2> QED BY <1>1, <2>1, <2>2, OnceJoins, PostingIs, SourceNames DEF d
<1>2. ASSUME NEW d \in Above(a) \cap Above(b), e = <<"shared_ancestor", d>>
      PROVE  /\ e = <<e[1], e[2]>> /\ e[1] \in ToSet(Sources)
             /\ e[2] \in DOMAIN Posting(e[1], N, edges)
             /\ Joins(Posting(e[1], N, edges)[e[2]], a, b)
  <2> DEFINE ids == {id \in Cs : d \in Above(id)}
  <2>1. d \in DOMAIN ByAncestor(Cs) /\ ByAncestor(Cs)[d] = Once(ids) /\ a \in ids /\ b \in ids
    BY DEF ByAncestor
  <2>2. e[1] = "shared_ancestor" /\ e[2] = d
    BY <1>2
  <2> HIDE DEF ids
  <2> QED BY <1>2, <2>1, <2>2, OnceJoins, PostingIs, SourceNames
<1>3. ASSUME NEW t \in AllTags(a) \cap AllTags(b), e = <<"shared_tag", t>>
      PROVE  /\ e = <<e[1], e[2]>> /\ e[1] \in ToSet(Sources)
             /\ e[2] \in DOMAIN Posting(e[1], N, edges)
             /\ Joins(Posting(e[1], N, edges)[e[2]], a, b)
  <2> DEFINE ids == {id \in Cs : t \in TagsOf(Refs, Meta(N), id)}
             B == ByTag(Cs, Refs, Meta(N))
  <2>1. t \in TagsOf(Refs, Meta(N), a) /\ t \in TagsOf(Refs, Meta(N), b)
    BY TagsAre
  <2>2. t \in DOMAIN B /\ B[t] = Once(ids) /\ a \in ids /\ b \in ids
    BY <2>1 DEF ByTag
  <2>3. e[1] = "shared_tag" /\ e[2] = t
    BY <1>3
  <2> HIDE DEF ids, B
  <2> QED BY <1>3, <2>2, <2>3, OnceJoins, PostingIs, SourceNames DEF B
<1>4. ASSUME NEW f \in Stated(Meta(N)[a]), NEW g \in Stated(Meta(N)[b]), f[1] = g[1], f[2] = g[2],
             e = <<"shared_frontmatter", <<f[1], f[2]>>>>
      PROVE  /\ e = <<e[1], e[2]>> /\ e[1] \in ToSet(Sources)
             /\ e[2] \in DOMAIN Posting(e[1], N, edges)
             /\ Joins(Posting(e[1], N, edges)[e[2]], a, b)
  <2> DEFINE v == <<f[1], f[2]>>  B == ByFrontmatter(Cs, Meta(N))
  <2>1. v \in DOMAIN B /\ Joins(B[v], a, b)
    BY <1>4, FieldsJoin
  <2>2. e[1] = "shared_frontmatter" /\ e[2] = v
    BY <1>4
  <2> HIDE DEF v, B
  <2> QED BY <1>4, <2>1, <2>2, PostingIs, SourceNames DEF v, B
<1>5. CASE /\ a[1] = "note" /\ b[1] = "note"
           /\ BoundaryFor(Boundaries, Tail(a)) = BoundaryFor(Boundaries, Tail(b))
           /\ e = <<"shared_repo_root", BoundaryFor(Boundaries, Tail(a))>>
  <2> DEFINE r == BoundaryFor(Boundaries, Tail(a))
             ids == {id \in {x \in Cs : x[1] = "note"} : BoundaryFor(Boundaries, Tail(id)) = r}
             B == ByRepoRoot(Cs, Boundaries)
  <2>1. r \in DOMAIN B /\ B[r] = Once(ids) /\ a \in ids /\ b \in ids
    BY <1>5 DEF ByRepoRoot
  <2>2. e[1] = "shared_repo_root" /\ e[2] = r
    BY <1>5
  <2>3. e = <<e[1], e[2]>>
    BY <1>5
  <2> HIDE DEF r, ids, B
  <2> QED BY <2>1, <2>2, <2>3, OnceJoins, PostingIs, SourceNames DEF B
<1> QED BY <1>1, <1>2, <1>3, <1>4, <1>5, SharedIs

LEMMA RepeatedListed ==
  ASSUME EInv, CandidatePaths, NEW a \in Cs, NEW u \in Repeated(Meta(N)[a].aliases)
  PROVE  /\ <<"alias", u>> \in DOMAIN ByFrontmatter(Cs, Meta(N))
         /\ Joins(ByFrontmatter(Cs, Meta(N))[<<"alias", u>>], a, a)
<1> DEFINE s == Meta(N)[a].aliases
           c(i) == Cardinality({j \in 1 .. i : s[j] = s[i]})
           F(i) == <<"alias", s[i], c(i)>>
<1>1. s \in Seq(STRING)
  BY MetaTyped
<1>2. PICK i \in DOMAIN s : u = s[i] /\ u # None /\ \E k \in 1 .. i - 1 : s[k] = s[i]
  BY DEF Repeated
<1>3. PICK k \in 1 .. i - 1 : s[k] = s[i]
  BY <1>2
<1>4. k \in DOMAIN s /\ c(k) < c(i)
  <2> HIDE DEF s
  <2> QED BY <1>1, <1>3, StatedAgain
<1>5. F(k) \in Stated(Meta(N)[a]) /\ F(i) \in Stated(Meta(N)[a])
  <2>1. F(k) \in Fields(Meta(N)[a]) /\ F(i) \in Fields(Meta(N)[a])
    BY <1>4 DEF Fields
  <2>2. F(k)[2] # None /\ F(i)[2] # None
    BY <1>2, <1>3
  <2> HIDE DEF F
  <2> QED BY <2>1, <2>2 DEF Stated
<1>6. /\ F(k)[1] = "alias" /\ F(i)[1] = "alias" /\ F(k)[2] = u /\ F(i)[2] = u
      /\ F(k)[3] = c(k) /\ F(i)[3] = c(i)
  BY <1>2, <1>3
<1> HIDE DEF F, c
<1>7. <<F(k)[1], F(k)[2]>> = <<"alias", u>>
  BY <1>6
<1> QED BY <1>4, <1>5, <1>6, <1>7, FieldsJoin

\* Whatever the files say that two candidates share is the value of a list of
\* the sources, and a pair of that list joins the two.
LEMMA SharedListed ==
  ASSUME EInv, CandidatePaths, TagsWhole, NEW a \in Cs, NEW b \in Cs, a = b \/ Earlier(a, b),
         NEW e \in Shared(a, b)
  PROVE  e \in PostingLists /\ Joins(MembersOf(e), a, b)
<1>1. /\ e = <<e[1], e[2]>> /\ e[1] \in ToSet(Sources)
      /\ e[2] \in DOMAIN Posting(e[1], N, edges)
      /\ Joins(Posting(e[1], N, edges)[e[2]], a, b)
  <2>1. CASE a # b
    BY <2>1, OthersListed DEF Shared
  <2>2. CASE a = b
    <3>1. PICK u \in Repeated(Meta(N)[a].aliases) : e = <<"shared_frontmatter", <<"alias", u>>>>
      BY <2>2 DEF Shared
    <3>2. e[1] = "shared_frontmatter" /\ e[2] = <<"alias", u>> /\ e = <<e[1], e[2]>>
      BY <3>1
    <3> QED BY <2>2, <3>2, RepeatedListed, PostingIs, SourceNames
  <2> QED BY <2>1, <2>2
<1> QED BY <1>1, ListIs DEF MembersOf

-----------------------------------------------------------------------------
(***************************************************************************)
(* What has been enumerated.                                               *)
(***************************************************************************)
Finished(pass) ==
  CASE pass = "same_folder" -> {}
    [] pass = "shared_ancestor" -> {"same_folder"}
    [] pass = "shared_tag" -> {"same_folder", "shared_ancestor"}
    [] pass = "shared_frontmatter" -> {"same_folder", "shared_ancestor", "shared_tag"}
    [] pass = "shared_repo_root" -> ToSet(Sources) \ {"shared_repo_root"}
    [] OTHER -> ToSet(Sources)

\* The lists of earlier sources, and of this one those that are not to be visited.
Done ==
  {l \in PostingLists : \/ l[1] \in Finished(pc)
                        \/ l[1] = pc /\ <<l[2], MembersOf(l)>> \notin todo}

\* The signal for a pair of a list.
Sign(z) == <<<<z[2][1][1], z[2][2][1]>>, z[1][1], z[1][2]>>
SignsOf(lists) == {Sign(z) : z \in AllPairs(lists)}

Counted(lists) ==
  /\ \A l \in lists : Cardinality(MembersOf(l)) <= MaxMembers
  /\ npairs = Cardinality(AllPairs(lists))
  /\ signals = SignsOf(lists)

Inferring == ToSet(Sources) \cup {"aggregate", "metadata", "done"}

\* Unless it was cancelled, what was taken so far is all that the lists
\* visited so far have, or else the budgets do not suffice.
CountInv ==
  ~cancelled =>
    /\ pc \in Unpaired => npairs = 0 /\ ~truncated
    /\ pc \in Inferring => IF truncated THEN ~Fits ELSE Counted(Done)
    /\ pc \in {"metadata", "done"} => Inferred = InferredEdges(signals)

\* A note that was visited has an edge to each tag in its text.
TagsInv ==
  pc \notin BeforeNotes \cup {"index", "failed"} =>
    \A n \in NotesIn(N) : TagsRead(n) \/ (pc = "links" /\ n \in todo)

-----------------------------------------------------------------------------
\* Once the pairs of all lists are taken, the evidence for two nodes is all
\* that they share.
LEMMA AllEvidence ==
  ASSUME EInv, SoundInv, TagsWhole, signals = SignsOf(PostingLists),
         NEW a \in Cs, NEW b \in Cs, a = b \/ Earlier(a, b)
  PROVE  /\ Evidence(signals, <<a, b>>) = Declared(a, b)
         /\ <<a, b>> \in {s[1] : s \in signals} <=> Shared(a, b) # {}
<1> DEFINE pair == <<a, b>>
           G == {<<x[2], x[3]>> : x \in {y \in signals : y[1] = pair}}
<1>1. pair[1] = a /\ pair[2] = b
  OBVIOUS
<1> HIDE DEF pair
<1>2. ASSUME NEW e \in Shared(a, b)
      PROVE  \E s \in signals : s[1] = pair /\ <<s[2], s[3]>> = e
  <2>1. e \in PostingLists /\ Joins(MembersOf(e), a, b)
    BY SharedListed DEF SoundInv
  <2>2. PICK q \in PairsIn(MembersOf(e)) : q[1][1] = a /\ q[2][1] = b
    BY <2>1 DEF Joins
  <2> DEFINE z == <<e, q>>  s == Sign(z)
  <2>3. z \in AllPairs(PostingLists)
    BY <2>1 DEF AllPairs
  <2>4. s = <<pair, e[1], e[2]>>
    BY <2>2 DEF Sign, pair
  <2>5. s \in signals
    <3> HIDE DEF z
    <3> QED BY <2>3 DEF SignsOf
  <2>6. e = <<e[1], e[2]>>
    BY <2>1, ListIs
  <2> HIDE DEF s, z
  <2>7. s[1] = pair /\ s[2] = e[1] /\ s[3] = e[2]
    BY <2>4
  <2> QED BY <2>5, <2>6, <2>7
<1>3. ASSUME NEW s \in signals, s[1] = pair PROVE <<s[2], s[3]>> \in Shared(a, b)
  BY <1>1, <1>3 DEF SoundInv, Evident
<1>4. G = Shared(a, b)
  BY <1>2, <1>3
<1>5. Evidence(signals, pair) = G \cup Extra(a, b)
  BY <1>1 DEF Evidence, Extra
<1>6. Declared(a, b) = Shared(a, b) \cup Extra(a, b)
  BY DeclaredIs DEF SoundInv
<1>7. pair \in {s[1] : s \in signals} <=> Shared(a, b) # {}
  BY <1>2, <1>3
<1> HIDE DEF G
<1> QED BY <1>4, <1>5, <1>6, <1>7 DEF pair

\* So the edges they add up to are those that the files declare.
LEMMA AllInferred ==
  ASSUME EInv, SoundInv, TagsWhole, signals = SignsOf(PostingLists)
  PROVE  InferredEdges(signals)
           = {e \in {DeclaredEdge(q[1], q[2]) :
                       q \in {x \in Candidates(N) \X Candidates(N) :
                                 x[1] = x[2] \/ Earlier(x[1], x[2])}} :
                e.conf >= MinConfidence /\ Shared(e.from, e.to) # {}}
<1> DEFINE ordered == {x \in Cs \X Cs : x[1] = x[2] \/ Earlier(x[1], x[2])}
           pairs == {s[1] : s \in signals}
           found == {InferredEdge(pair, Evidence(signals, pair)) : pair \in pairs}
           declared == {DeclaredEdge(q[1], q[2]) : q \in ordered}
<1>1. ASSUME NEW q \in ordered
      PROVE  /\ q \in pairs <=> Shared(q[1], q[2]) # {}
             /\ InferredEdge(q, Evidence(signals, q)) = DeclaredEdge(q[1], q[2])
             /\ DeclaredEdge(q[1], q[2]).from = q[1] /\ DeclaredEdge(q[1], q[2]).to = q[2]
  <2> DEFINE a == q[1]  b == q[2]
  <2>1. a \in Cs /\ b \in Cs /\ (a = b \/ Earlier(a, b)) /\ q = <<a, b>>
    OBVIOUS
  <2>2. /\ Evidence(signals, q) = Declared(a, b)
        /\ q \in pairs <=> Shared(a, b) # {}
    <3> HIDE DEF a, b
    <3> QED BY <2>1, AllEvidence
  <2>3. DeclaredEdge(a, b) = InferredEdge(<<a, b>>, Declared(a, b))
    BY DEF DeclaredEdge, Declared
  <2>4. InferredEdge(<<a, b>>, Declared(a, b)).from = a /\ InferredEdge(<<a, b>>, Declared(a, b)).to = b
    <3> HIDE DEF a, b
    <3> QED BY DEF InferredEdge
  <2>5. InferredEdge(q, Evidence(signals, q)) = DeclaredEdge(a, b)
    <3> HIDE DEF a, b
    <3> QED BY <2>1, <2>2, <2>3
  <2> HIDE DEF ordered, pairs
  <2> QED BY <2>2, <2>3, <2>4, <2>5
<1>2. pairs \subseteq ordered
  <2> SUFFICES ASSUME NEW pair \in pairs PROVE pair \in ordered
    OBVIOUS
  <2>1. /\ pair = <<pair[1], pair[2]>> /\ {pair[1], pair[2]} \subseteq Cs
        /\ pair[1] = pair[2] \/ Earlier(pair[1], pair[2])
    BY EvidenceGiven
  <2> QED BY <2>1
<1>3. InferredEdges(signals) = {e \in found : e.conf >= MinConfidence}
  BY DEF InferredEdges
<1> HIDE DEF ordered, pairs
<1>4. ASSUME NEW e
      PROVE  e \in found <=> e \in declared /\ Shared(e.from, e.to) # {}
  <2>1. ASSUME e \in found PROVE e \in declared /\ Shared(e.from, e.to) # {}
    <3>1. PICK q \in pairs : e = InferredEdge(q, Evidence(signals, q))
      BY <2>1
    <3> QED BY <1>1, <1>2, <3>1
  <2>2. ASSUME e \in declared, Shared(e.from, e.to) # {} PROVE e \in found
    <3>1. PICK q \in ordered : e = DeclaredEdge(q[1], q[2])
      BY <2>2
    <3>2. e.from = q[1] /\ e.to = q[2]
      BY <1>1, <3>1
    <3>3. q \in pairs /\ e = InferredEdge(q, Evidence(signals, q))
      BY <1>1, <2>2, <3>1, <3>2
    <3> QED BY <3>3
  <2> QED BY <2>1, <2>2
<1> HIDE DEF found
<1>5. InferredEdges(signals) = {e \in declared : e.conf >= MinConfidence /\ Shared(e.from, e.to) # {}}
  <2> HIDE DEF declared
  <2> QED BY <1>3, <1>4
<1> QED BY <1>5 DEF ordered, Cs

LEMMA AllDone ==
  ASSUME pc \in {"aggregate", "metadata", "done"}
  PROVE  Done = PostingLists
<1>1. Finished(pc) = ToSet(Sources)
  BY DEF Finished
<1>2. \A l \in PostingLists : l[1] \in ToSet(Sources)
  BY ListIs
<1> QED BY <1>1, <1>2 DEF Done

\* At the end every list was visited; what was counted tells if they fit.
LEMMA CountFollows == EInv /\ SoundInv /\ TypeInv /\ (pc = "done" => ~cancelled) /\ TagsInv /\ CountInv
                        => InferenceComplete
<1> SUFFICES ASSUME EInv, SoundInv, TypeInv, pc = "done", ~cancelled, TagsInv, CountInv
             PROVE  InferenceComplete
  BY DEF InferenceComplete
<1>1. WithinBudget <=> Fits
  BY ListsAreTyped, BudgetIs DEF SoundInv
<1>2. Done = PostingLists
  BY AllDone
<1>3. /\ IF truncated THEN ~Fits ELSE Counted(PostingLists)
      /\ Inferred = InferredEdges(signals)
  BY <1>2 DEF CountInv, Inferring
<1>4. ~truncated => Fits
  BY <1>3 DEF Counted, Fits, TypeInv
<1>5. truncated = ~WithinBudget
  BY <1>1, <1>3, <1>4 DEF TypeInv
<1>6. TagsWhole
  BY DEF TagsInv, TagsWhole, BeforeNotes
<1>7. WithinBudget => signals = SignsOf(PostingLists)
  BY <1>1, <1>3 DEF Counted
<1> QED BY <1>3, <1>5, <1>6, <1>7, AllInferred, Zenon DEF InferenceComplete

-----------------------------------------------------------------------------
(***************************************************************************)
(* Every tag in the text of a note ends as an edge.                        *)
(***************************************************************************)
\* Passes in which the tags of the text are not all edges.
Untagged == BeforeNotes \cup {"index", "failed"}

LEMMA TagsKeep ==
  ASSUME TagsInv, camp' = camp, edges \subseteq edges', NotesIn(N') \subseteq NotesIn(N),
         pc' \notin Untagged => pc \notin Untagged,
         pc = "links" => \A n \in todo : TagsRead(n)' \/ (pc' = "links" /\ n \in todo')
  PROVE  TagsInv'
<1> SUFFICES ASSUME pc' \notin Untagged, NEW n \in NotesIn(N')
             PROVE  TagsRead(n)' \/ (pc' = "links" /\ n \in todo')
  <2>1. TagsInv' <=> (pc' \notin Untagged =>
                        \A n \in NotesIn(N') : TagsRead(n)' \/ (pc' = "links" /\ n \in todo'))
    BY DEF TagsInv, Untagged
  <2> QED BY <2>1
<1>1. TagsRead(n) \/ (pc = "links" /\ n \in todo)
  BY DEF TagsInv, Untagged
<1>2. TagsRead(n) => TagsRead(n)'
  <2>1. TextOf(Tail(n))' = TextOf(Tail(n))
    BY SameFiles
  <2> QED BY <2>1 DEF TagsRead
<1> QED BY <1>1, <1>2

LEMMA TagsIndex == ASSUME IndexNotes PROVE TagsInv'
<1>1. at' = at /\ Enter("links")
  BY DEF IndexNotes
<1>2. ToVisit("links", DOMAIN at', edges') = NotesIn(DOMAIN at')
  BY SourceNames DEF ToVisit
<1>3. pc' = "links" /\ todo' = NotesIn(N')
  BY <1>1, <1>2 DEF Enter, N
<1> QED BY <1>3 DEF TagsInv

LEMMA TagsLink == ASSUME EInv, TagsInv, NEW n \in todo, LinkNote(n) PROVE TagsInv'
<1> DEFINE tags == {<<"tag", t>> : t \in TextOf(Tail(n)).inline}
           ids == (LinkTargets(n) \cup tags) \ N
           new == [id \in ids |-> IF id[1] = "tag" THEN NoPath ELSE Tail(id)]
<1>1. pc = "links" /\ pc' = pc /\ camp' = camp /\ todo' = todo \ {n} /\ edges \subseteq edges'
  BY DEF LinkNote, Running
<1>2. N' = N \cup ids
  <2>1. at' = Put(at, new) /\ DOMAIN new = ids
    BY DEF LinkNote
  <2> HIDE DEF new
  <2> QED BY <2>1, PutNodes DEF N
<1>3. ASSUME NEW id \in ids PROVE id[1] # "note"
  <2>1. CASE id \in LinkTargets(n)
    <3>1. PICK p \in Seq(STRING) : id = <<"attachment">> \o p
      BY <2>1, LinkTargetKinds
    <3> QED BY <3>1, PathId
  <2>2. CASE id \in tags
    BY <2>2
  <2> QED BY <2>1, <2>2
<1> HIDE DEF ids
<1>4. NotesIn(N') \subseteq NotesIn(N)
  BY <1>2, <1>3 DEF NotesIn
<1>5. TagsRead(n)'
  <2>1. TextOf(Tail(n))' = TextOf(Tail(n))
    BY <1>1, SameFiles
  <2>2. ASSUME NEW t \in TextOf(Tail(n)).inline
        PROVE  \E e \in edges' : e.type = "references" /\ e.from = n /\ e.to = <<"tag", t>>
    <3> DEFINE id == <<"tag", t>>  e == Explicit(n, id, "references")
    <3>1. id \in tags
      OBVIOUS
    <3>2. {Explicit(n, x, "references") : x \in tags} \subseteq edges'
      BY DEF LinkNote
    <3> HIDE DEF id, tags
    <3>3. e \in edges'
      BY <3>1, <3>2
    <3>4. e.type = "references" /\ e.from = n /\ e.to = id
      BY DEF Explicit
    <3> QED BY <3>3, <3>4 DEF id
  <2> QED BY <2>1, <2>2 DEF TagsRead
<1>6. \A m \in todo : TagsRead(m)' \/ (pc' = "links" /\ m \in todo')
  BY <1>1, <1>5
<1> QED BY <1>1, <1>4, <1>6, TagsKeep

LEMMA TagsCanvas == ASSUME EInv, TagsInv, LinkCanvas PROVE TagsInv'
<1>1. camp' = camp /\ pc' = pc /\ pc = "canvases" /\ edges \subseteq edges'
  BY DEF LinkCanvas, Running
<1>2. NotesIn(N') \subseteq NotesIn(N)
  BY CanvasKinds DEF NotesIn
<1> QED BY <1>1, <1>2, TagsKeep

\* No pass but that of the links leaves notes to be visited.
LEMMA TagsLater ==
  ASSUME EInv, TagsInv,
         \/ Bridge \/ CodeSlices \/ Aggregate \/ Metadata \/ StopEnumerating
         \/ \E list \in todo : Enumerate(list)
  PROVE  TagsInv'
<1>1. camp' = camp /\ edges \subseteq edges'
  BY DEF Bridge, CodeSlices, Aggregate, Metadata, StopEnumerating, Enumerate
<1>2. pc \in {"bridge", "code", "aggregate", "metadata"} \cup ToSet(Sources)
  BY DEF Bridge, CodeSlices, Aggregate, Metadata, StopEnumerating, Enumerate, Running
<1>3. pc \notin Untagged /\ pc # "links"
  BY <1>2, SourceNames DEF Untagged, BeforeNotes
<1>4. NotesIn(N') \subseteq NotesIn(N)
  <2>1. CASE CodeSlices
    BY <2>1, CodeKinds, KindNames DEF NotesIn
  <2>2. CASE at' = at
    BY <2>2 DEF N
  <2> QED BY <2>1, <2>2 DEF Bridge, Aggregate, Metadata, StopEnumerating, Enumerate
<1> QED BY <1>1, <1>3, <1>4, TagsKeep

LEMMA TagsProceed == ASSUME TagsInv, Proceed PROVE TagsInv'
<1>1. /\ camp' = camp /\ at' = at /\ edges' = edges /\ pc' = After(pc) /\ todo = {}
      /\ pc \in {"festivals", "links", "canvases"} \cup ToSet(Sources)
  BY DEF Proceed, Enter
<1>2. pc' \notin Untagged => pc \notin Untagged
  BY <1>1, PassAfter, SourceNames DEF Untagged, BeforeNotes
<1>3. N' = N
  BY <1>1 DEF N
<1> QED BY <1>1, <1>2, <1>3, TagsKeep

LEMMA NextTagsInv == ASSUME EInv, TagsInv, [Next]_vars PROVE TagsInv'
<1>1. CASE \/ ScanScopes \/ ScanProjects \/ ScanIntents \/ ScanWorkflow
           \/ \E l \in todo : ScanLifecycle(l) \/ StopInLifecycle(l)
  BY <1>1, EarlyPass DEF AddsEarly, TagsInv
<1>2. CASE ScanNotes \/ Fail
  BY <1>2 DEF ScanNotes, Enter, Fail, TagsInv
<1>3. CASE IndexNotes
  BY <1>3, TagsIndex
<1>4. CASE (\E n \in todo : LinkNote(n)) \/ LinkCanvas
  BY <1>4, TagsLink, TagsCanvas
<1>5. CASE \/ Bridge \/ CodeSlices \/ Aggregate \/ Metadata \/ StopEnumerating
           \/ \E list \in todo : Enumerate(list)
  BY <1>5, TagsLater
<1>6. CASE Proceed
  BY <1>6, TagsProceed
<1>7. CASE Cancel \/ UNCHANGED vars
  <2>1. UNCHANGED <<camp, pc, todo, at, edges>>
    BY <1>7 DEF Cancel, vars
  <2>2. N' = N
    BY <2>1 DEF N
  <2> QED BY <2>1, <2>2, TagsKeep
<1> QED BY <1>1, <1>2, <1>3, <1>4, <1>5, <1>6, <1>7 DEF Next

LEMMA InitTagsInv == Init => TagsInv
BY DEF Init, TagsInv, BeforeNotes

-----------------------------------------------------------------------------
(***************************************************************************)
(* The lists stay what they are from the first source on.                  *)
(***************************************************************************)
\* The files, the candidates and the references to tags, which the lists are of.
SameLists == camp' = camp /\ Cs' = Cs /\ Refs' = Refs

LEMMA PostingStays ==
  ASSUME SameLists
  PROVE  \A s : /\ Posting(s, N, edges)' = Posting(s, N, edges)
                /\ Posting(s, N', edges') = Posting(s, N, edges)
<1>1. Candidates(N') = Candidates(N) /\ References(N', edges') = References(N, edges)
  BY DEF SameLists, Cs, Refs
<1>2. Meta(N)' = Meta(N) /\ Meta(N') = Meta(N) /\ Boundaries' = Boundaries
  BY <1>1, SameFiles DEF Meta, SameLists
<1> QED BY <1>1, <1>2 DEF Posting

LEMMA ListsStay ==
  ASSUME SameLists
  PROVE  /\ PostingLists' = PostingLists
         /\ \A l : MembersOf(l)' = MembersOf(l)
         /\ \A lists : AllPairs(lists)' = AllPairs(lists)
         /\ Fits' = Fits
<1>1. PostingLists' = PostingLists
  BY PostingStays DEF PostingLists
<1>2. \A l : MembersOf(l)' = MembersOf(l)
  BY PostingStays DEF MembersOf
<1>3. \A lists : AllPairs(lists)' = AllPairs(lists)
  BY <1>2 DEF AllPairs
<1>4. Fits' = Fits
  BY <1>1, <1>2, <1>3 DEF Fits
<1> QED BY <1>1, <1>2, <1>3, <1>4

LEMMA CountedStays ==
  ASSUME SameLists, NotInferring, Counted(Done')
  PROVE  Counted(Done)'
<1>1. AllPairs(Done)' = AllPairs(Done')
  BY ListsStay DEF AllPairs
<1>2. SignsOf(Done)' = SignsOf(Done')
  BY <1>1 DEF SignsOf
<1> QED BY <1>1, <1>2, ListsStay DEF Counted, NotInferring

\* A list of one member has no pairs and is never cut.
LEMMA NoPairs ==
  ASSUME NEW ms, Members(ms), Cardinality(ms) < 2
  PROVE  PairsIn(ms) = {} /\ Cardinality(ms) <= MaxMembers
<1>1. IsFiniteSet(ms) /\ Cardinality(ms) \in Nat
  BY FS_CardinalityType DEF Members
<1>2. ASSUME NEW x \in ms, NEW y \in ms PROVE x = y
  <2> SUFFICES ASSUME x # y PROVE FALSE
    OBVIOUS
  <2>1. {x, y} \subseteq ms /\ Cardinality({x, y}) = 2
    <3>1. IsFiniteSet({x}) /\ Cardinality({x}) = 1
      BY FS_Singleton
    <3>2. Cardinality({x} \cup {y}) = Cardinality({x}) + 1
      BY <3>1, FS_AddElement
    <3>3. {x} \cup {y} = {x, y}
      OBVIOUS
    <3> QED BY <3>1, <3>2, <3>3
  <2>2. Cardinality({x, y}) <= Cardinality(ms)
    BY <1>1, <2>1, FS_Subset
  <2> QED BY <1>1, <2>1, <2>2
<1>3. ASSUME NEW q \in PairsIn(ms) PROVE FALSE
  <2>1. q[1] \in ms /\ q[2] \in ms /\ Before(q[1], q[2])
    BY DEF PairsIn
  <2> QED BY <1>2, <2>1, BeforeOrder DEF Members
<1>4. Cardinality(ms) <= MaxMembers
  <2>1. MaxMembers \in Nat \ {0}
    BY ScanAssumption
  <2> QED BY <1>1, <2>1
<1> QED BY <1>3, <1>4

LEMMA CountedMore ==
  ASSUME ListsTyped, NEW T \in SUBSET PostingLists, NEW S \in SUBSET T, Counted(S),
         \A l \in T \ S : Cardinality(MembersOf(l)) < 2
  PROVE  Counted(T)
<1>1. \A l \in T \ S : PairsIn(MembersOf(l)) = {} /\ Cardinality(MembersOf(l)) <= MaxMembers
  BY NoPairs DEF ListsTyped
<1>2. AllPairs(T) = AllPairs(S)
  BY <1>1 DEF AllPairs
<1> QED BY <1>1, <1>2 DEF Counted, SignsOf

-----------------------------------------------------------------------------
(***************************************************************************)
(* The steps of an enumeration.                                            *)
(***************************************************************************)
LEMMA FinishedAfter ==
  /\ Finished(After("code")) = {} /\ After("code") = "same_folder"
  /\ \A s \in ToSet(Sources) :
       /\ Finished(After(s)) = Finished(s) \cup {s} /\ s \notin Finished(s)
       /\ After(s) \in ToSet(Sources) \/ (After(s) = "aggregate" /\ Finished(After(s)) = ToSet(Sources))
<1>1. /\ Finished("same_folder") = {}
      /\ Finished("shared_ancestor") = {"same_folder"}
      /\ Finished("shared_tag") = {"same_folder", "shared_ancestor"}
      /\ Finished("shared_frontmatter") = {"same_folder", "shared_ancestor", "shared_tag"}
      /\ Finished("shared_repo_root")
           = {"same_folder", "shared_ancestor", "shared_tag", "shared_frontmatter"}
      /\ Finished("aggregate") = ToSet(Sources)
  BY SourceNames DEF Finished
<1> QED BY <1>1, PassAfter, SourceNames

\* A source begins with the lists of those before it visited, and of its own
\* those that have no pairs.
LEMMA CountEnter ==
  ASSUME EInv, SoundInv, SameLists, NotInferring, NEW S \in SUBSET PostingLists, Counted(S),
         NEW pass, Enter(pass), pass \in ToSet(Sources) \cup {"aggregate"},
         \A l \in PostingLists : l[1] \in Finished(pass) <=> l \in S,
         pass = "aggregate" => S = PostingLists
  PROVE  Counted(Done)'
<1>1. pc' = pass /\ todo' = ToVisit(pass, N', edges')
  BY DEF Enter, N
<1>2. ListsTyped
  BY ListsAreTyped DEF SoundInv
<1>3. PostingLists' = PostingLists /\ \A l : MembersOf(l)' = MembersOf(l)
  BY ListsStay
<1>4. Done' = {l \in PostingLists : \/ l \in S
                                    \/ l[1] = pass /\ <<l[2], MembersOf(l)>> \notin todo'}
  BY <1>1, <1>3 DEF Done
<1>5. ASSUME NEW l \in PostingLists, l[1] = pass, Cardinality(MembersOf(l)) >= 2
      PROVE  <<l[2], MembersOf(l)>> \in todo'
  <2> DEFINE groups == Posting(pass, N', edges')
             v == l[2]
             list == <<v, groups[v]>>
  <2>1. pass \in ToSet(Sources) /\ v \in DOMAIN Posting(pass, N, edges)
    BY <1>5, ListIs
  <2>2. groups = Posting(pass, N, edges)
    BY PostingStays
  <2>3. todo' = {x \in {<<u, groups[u]>> : u \in DOMAIN groups} : Cardinality(x[2]) >= 2}
    BY <1>1, <2>1, SourceNames DEF ToVisit
  <2>4. groups[v] = MembersOf(l)
    BY <1>5, <2>2 DEF MembersOf
  <2> HIDE DEF groups, v
  <2>5. list \in todo'
    BY <1>5, <2>1, <2>2, <2>3, <2>4
  <2> QED BY <2>4, <2>5 DEF v
<1>6. ASSUME NEW l \in Done' \ S PROVE Cardinality(MembersOf(l)) < 2
  <2>1. l \in PostingLists /\ ~ (Cardinality(MembersOf(l)) >= 2)
    BY <1>4, <1>5
  <2>2. Cardinality(MembersOf(l)) \in Nat
    BY <1>2, <2>1, FS_CardinalityType DEF ListsTyped, Members
  <2> QED BY <2>1, <2>2
<1>7. Done' \in SUBSET PostingLists /\ S \in SUBSET Done'
  BY <1>4
<1>8. Counted(Done')
  BY <1>2, <1>6, <1>7, CountedMore
<1> QED BY <1>8, CountedStays

LEMMA CountCode == ASSUME EInv, SoundInv, CountInv, CodeSlices PROVE CountInv'
<1>1. /\ pc = "code" /\ Enter(After("code")) /\ NotInferring /\ camp' = camp
      /\ ~cancelled /\ edges \subseteq edges'
  BY DEF CodeSlices, Running
<1>2. After("code") = "same_folder" /\ Finished("same_folder") = {}
  BY FinishedAfter
<1>3. pc' = "same_folder"
  BY <1>1, <1>2 DEF Enter
<1>4. npairs = 0 /\ ~truncated /\ signals = {}
  BY <1>1 DEF CountInv, SoundInv, Unpaired
<1>5. SameLists
  <2>1. \A e \in edges' \ edges : e.type # "references"
    BY DEF CodeSlices, Placed, Structural
  <2>2. Refs' = Refs
    BY <1>1, <2>1 DEF Refs, References
  <2>3. N \subseteq N'
    <3>1. [Next]_vars
      BY DEF Next
    <3> QED BY <3>1, NodesStay
  <2>4. Cs' = Cs
    BY <2>3, CodeKinds DEF Cs, Candidates
  <2> QED BY <1>1, <2>2, <2>4 DEF SameLists
<1>6. Counted({})
  <2>1. AllPairs({}) = {} /\ Cardinality({}) = 0
    BY FS_EmptySet DEF AllPairs
  <2> QED BY <1>4, <2>1 DEF Counted, SignsOf
<1>7. Counted(Done)'
  <2>1. {} \in SUBSET PostingLists
    OBVIOUS
  <2> QED BY <1>1, <1>2, <1>5, <1>6, <2>1, SourceNames, CountEnter
<1>8. ~truncated'
  BY <1>1, <1>4 DEF NotInferring
<1> QED BY <1>3, <1>7, <1>8, SourceNames DEF CountInv, Unpaired, Unbridged

\* What CountInv says once the sources are reached.
LEMMA CountLater ==
  ASSUME pc' \notin Unpaired,
         ~cancelled' => IF truncated' THEN ~Fits' ELSE Counted(Done)',
         ~cancelled' /\ pc' \in {"metadata", "done"} => Inferred' = InferredEdges(signals')
  PROVE  CountInv'
<1>1. InferredEdges(signals)' = InferredEdges(signals')
  BY DEF InferredEdges, InferredEdge, Evidence
<1> QED BY <1>1 DEF CountInv

LEMMA CountProceed ==
  ASSUME EInv, SoundInv, CountInv, Proceed, pc \in ToSet(Sources)
  PROVE  CountInv'
<1>1. /\ camp' = camp /\ at' = at /\ edges' = edges /\ Enter(After(pc)) /\ todo = {}
      /\ NotInferring /\ ~cancelled
  BY DEF Proceed, Running
<1>2. SameLists
  BY <1>1 DEF SameLists, Cs, Refs, N
<1>3. IF truncated THEN ~Fits ELSE Counted(Done)
  BY <1>1 DEF CountInv, Inferring
<1>4. truncated' = truncated /\ Fits' = Fits
  BY <1>1, <1>2, ListsStay DEF NotInferring
<1>5. CASE truncated
  <2>1. pc' = After(pc)
    BY <1>1 DEF Enter
  <2> QED BY <1>3, <1>4, <1>5, <2>1, PassAfter, SourceNames, CountLater DEF Unpaired, Unbridged
<1>6. CASE ~truncated
  <2> DEFINE S == Done  pass == After(pc)
  <2>1. S = {l \in PostingLists : l[1] \in Finished(pc) \/ l[1] = pc}
    BY <1>1 DEF Done
  <2>2. \A l \in PostingLists : l[1] \in Finished(pass) <=> l \in S
    <3>1. Finished(pass) = Finished(pc) \cup {pc}
      BY FinishedAfter
    <3> HIDE DEF S, pass
    <3> QED BY <2>1, <3>1
  <2>3. pass = "aggregate" => S = PostingLists
    <3>1. pass = "aggregate" => Finished(pass) = ToSet(Sources)
      BY FinishedAfter, SourceNames
    <3>2. \A l \in PostingLists : l[1] \in ToSet(Sources)
      BY ListIs
    <3>3. S \subseteq PostingLists
      BY <2>1
    <3> HIDE DEF S, pass
    <3> QED BY <2>2, <3>1, <3>2, <3>3
  <2>4. S \in SUBSET PostingLists /\ Counted(S)
    BY <1>3, <1>6, <2>1
  <2>5. pass \in ToSet(Sources) \cup {"aggregate"}
    BY PassAfter
  <2> HIDE DEF S
  <2>6. Counted(Done)'
    BY <1>1, <1>2, <2>2, <2>3, <2>4, <2>5, CountEnter
  <2>7. pc' = pass
    BY <1>1 DEF Enter
  <2> QED BY <1>4, <1>6, <2>5, <2>6, <2>7, SourceNames, CountLater DEF Unpaired, Unbridged
<1> QED BY <1>5, <1>6

\* A list that is cut, or has more pairs than there is room for, does not fit.
LEMMA CutIsOver ==
  ASSUME ListsTyped, TypeInv, NEW S \in SUBSET PostingLists, Counted(S),
         NEW l \in PostingLists \ S, NEW kept \in Kept(MembersOf(l))
  PROVE  /\ kept # MembersOf(l) => ~Fits
         /\ Taken(PairsIn(kept), MaxPairs - npairs) # PairsIn(kept) /\ kept = MembersOf(l) => ~Fits
         /\ kept = MembersOf(l) => Cardinality(MembersOf(l)) <= MaxMembers
<1> DEFINE ms == MembersOf(l)  all == AllPairs(PostingLists)  size == Cardinality(PairsIn(ms))
<1>1. IsFiniteSet(ms) /\ Cardinality(ms) \in Nat /\ Members(ms) /\ MaxMembers \in Nat /\ MaxPairs \in Nat
  BY FS_CardinalityType, ScanAssumption DEF ListsTyped, Members
<1>2. ASSUME kept # ms PROVE ~Fits
  <2>1. ~ (Cardinality(ms) <= MaxMembers)
    BY <1>2 DEF Kept
  <2> QED BY <2>1 DEF Fits
<1>3. ASSUME Taken(PairsIn(ms), MaxPairs - npairs) # PairsIn(ms) PROVE ~Fits
  <2>1. npairs \in Nat /\ MaxPairs - npairs \in Nat
    BY <1>1 DEF TypeInv
  <2>2. ~ (size <= MaxPairs - npairs)
    BY <1>1, <1>3, <2>1, TakenFits
  <2>3. Cardinality(AllPairs(S \cup {l})) = npairs + size
    BY AllPairsFinite, AllPairsStep DEF Counted, Sized
  <2>4. Cardinality(AllPairs(S \cup {l})) <= Cardinality(all)
    BY AllPairsMore
  <2>5. Cardinality(all) \in Nat /\ size \in Nat
    BY <1>1, AllPairsFinite, PairsFinite
  <2> DEFINE n == Cardinality(all)  m == Cardinality(AllPairs(S \cup {l}))
  <2>6. ~ (n <= MaxPairs)
    <3>1. n \in Nat /\ size \in Nat /\ m = npairs + size /\ m <= n /\ ~ (size <= MaxPairs - npairs)
      BY <2>2, <2>3, <2>4, <2>5
    <3> HIDE DEF n, m, size
    <3> QED BY <1>1, <2>1, <3>1
  <2> QED BY <2>6 DEF Fits
<1>4. ASSUME kept = ms PROVE Cardinality(ms) <= MaxMembers
  <2> SUFFICES ASSUME ~ (Cardinality(ms) <= MaxMembers) PROVE FALSE
    OBVIOUS
  <2>1. Cardinality(kept) = MaxMembers
    BY DEF Kept
  <2> QED BY <1>1, <1>4, <2>1
<1> HIDE DEF ms
<1> QED BY <1>2, <1>3, <1>4 DEF ms

LEMMA CountEnumerate ==
  ASSUME EInv, SoundInv, TypeInv, CountInv, NEW list \in todo, Enumerate(list)
  PROVE  CountInv'
<1> DEFINE l == <<pc, list[1]>>
           room == MaxPairs - npairs
<1>1. UNCHANGED <<camp, pc, cancelled, at, edges>> /\ pc \in ToSet(Sources) /\ ~cancelled
  BY DEF Enumerate, Running
<1>2. SameLists
  BY <1>1 DEF SameLists, Cs, Refs, N
<1>3. Fits' = Fits
  BY <1>2, ListsStay
<1>4. IF truncated THEN ~Fits ELSE Counted(Done)
  BY <1>1 DEF CountInv, Inferring
<1>5. PICK kept \in Kept(list[2]) :
        /\ signals' = signals \cup {<<<<q[1][1], q[2][1]>>, pc, list[1]>> :
                                       q \in Taken(PairsIn(kept), room)}
        /\ npairs' = npairs + Cardinality(Taken(PairsIn(kept), room))
        /\ truncated' = (truncated \/ kept # list[2] \/ Taken(PairsIn(kept), room) # PairsIn(kept))
  BY DEF Enumerate
<1>6. list = <<list[1], list[2]>> /\ list[1] \in DOMAIN Lists /\ list[2] = Lists[list[1]]
      /\ todo \subseteq {<<v, Lists[v]>> : v \in DOMAIN Lists}
  BY <1>1 DEF SoundInv, TextsTodo
<1>7. l[1] = pc /\ l[2] = list[1] /\ l = <<l[1], l[2]>>
  OBVIOUS
<1>8. l \in PostingLists /\ MembersOf(l) = list[2]
  <2> HIDE DEF l
  <2> QED BY <1>1, <1>6, <1>7, ListIs DEF Lists, MembersOf
<1>9. l \notin Done /\ Done \in SUBSET PostingLists
  <2>1. pc \notin Finished(pc)
    BY <1>1, FinishedAfter
  <2> HIDE DEF l
  <2> QED BY <1>6, <1>7, <1>8, <2>1 DEF Done
<1>10. ListsTyped
  BY ListsAreTyped DEF SoundInv
<1>11. CASE truncated
  BY <1>1, <1>3, <1>4, <1>5, <1>11, SourceNames, CountLater DEF Unpaired, Unbridged
<1> HIDE DEF l, room
<1>12. CASE ~truncated /\ truncated'
  <2>1. ~Fits
    <3>1. l \in PostingLists \ Done /\ kept \in Kept(MembersOf(l)) /\ Counted(Done)
      BY <1>4, <1>5, <1>8, <1>9, <1>12
    <3>2. kept # MembersOf(l) \/ Taken(PairsIn(kept), MaxPairs - npairs) # PairsIn(kept)
      BY <1>5, <1>8, <1>12 DEF room
    <3> QED BY <1>9, <1>10, <3>1, <3>2, CutIsOver
  <2> QED BY <1>1, <1>3, <1>12, <2>1, SourceNames, CountLater DEF Unpaired, Unbridged
<1>13. CASE ~truncated'
  <2> DEFINE T == Done \cup {l}  P == PairsIn(MembersOf(l))
  <2>1. kept = MembersOf(l) /\ Taken(P, room) = P /\ ~truncated /\ todo' = todo \ {list}
    BY <1>5, <1>8, <1>13 DEF Enumerate
  <2>2. /\ signals' = signals \cup {<<<<q[1][1], q[2][1]>>, pc, list[1]>> : q \in P}
        /\ npairs' = npairs + Sized(l)
    BY <1>5, <2>1 DEF Sized
  <2>3. Counted(Done)
    BY <1>4, <2>1
  <2>4. Cardinality(MembersOf(l)) <= MaxMembers
    BY <1>5, <1>8, <1>9, <1>10, <2>1, <2>3, CutIsOver
  <2>5. AllPairs(T) = AllPairs(Done) \cup ({l} \X P)
        /\ Cardinality(AllPairs(T)) = Cardinality(AllPairs(Done)) + Sized(l)
    BY <1>8, <1>9, <1>10, AllPairsFinite, AllPairsStep
  <2>6. SignsOf(T) = SignsOf(Done) \cup {<<<<q[1][1], q[2][1]>>, pc, list[1]>> : q \in P}
    <3> DEFINE new == {Sign(z) : z \in {l} \X P}
               given == {<<<<q[1][1], q[2][1]>>, pc, list[1]>> : q \in P}
    <3>1. SignsOf(T) = SignsOf(Done) \cup new
      BY <2>5 DEF SignsOf
    <3>2. ASSUME NEW q \in P PROVE Sign(<<l, q>>) = <<<<q[1][1], q[2][1]>>, pc, list[1]>>
      BY <1>7 DEF Sign
    <3>3. new = {Sign(<<l, q>>) : q \in P}
      <4> HIDE DEF P
      <4>1. \A z \in {l} \X P : z[2] \in P /\ z = <<l, z[2]>>
        OBVIOUS
      <4>2. \A q \in P : <<l, q>> \in {l} \X P
        OBVIOUS
      <4> QED BY <4>1, <4>2, Zenon
    <3>4. new = given
      <4> HIDE DEF P, new
      <4> QED BY <3>2, <3>3
    <3> HIDE DEF new, given
    <3> QED BY <3>1, <3>4 DEF given
  <2>7. Done' = T
    <3>1. Done' = {m \in PostingLists : \/ m[1] \in Finished(pc)
                                        \/ m[1] = pc /\ <<m[2], MembersOf(m)>> \notin todo'}
      BY <1>1, <1>2, ListsStay DEF Done
    <3>2. ASSUME NEW m \in PostingLists, m[1] = pc, <<m[2], MembersOf(m)>> = list PROVE m = l
      <4>1. m = <<m[1], m[2]>>
        BY ListIs
      <4> QED BY <3>2, <4>1 DEF l
    <3>3. <<l[2], MembersOf(l)>> = list
      BY <1>6, <1>7, <1>8
    <3> QED BY <1>7, <1>8, <2>1, <3>1, <3>2, <3>3 DEF Done
  <2>8. Counted(Done)'
    <3>1. AllPairs(Done)' = AllPairs(T) /\ SignsOf(Done)' = SignsOf(T)
      <4>1. AllPairs(Done)' = AllPairs(Done')
        BY <1>2, ListsStay DEF AllPairs
      <4>2. SignsOf(Done)' = SignsOf(Done')
        BY <4>1 DEF SignsOf
      <4> QED BY <2>7, <4>1, <4>2
    <3>2. \A m \in Done' : Cardinality(MembersOf(m)') <= MaxMembers
      BY <1>2, <2>3, <2>4, <2>7, ListsStay DEF Counted
    <3>3. npairs' = Cardinality(AllPairs(T)) /\ signals' = SignsOf(T)
      <4> HIDE DEF T, P
      <4> QED BY <2>2, <2>3, <2>5, <2>6 DEF Counted
    <3> HIDE DEF T
    <3> QED BY <3>1, <3>2, <3>3 DEF Counted
  <2> QED BY <1>1, <1>13, <2>8, SourceNames, CountLater DEF Unpaired, Unbridged
<1> QED BY <1>11, <1>12, <1>13

LEMMA DoneStays ==
  ASSUME SameLists, {pc, pc'} \subseteq {"aggregate", "metadata", "done"}
  PROVE  Done' = Done
<1>1. Finished(pc) = ToSet(Sources) /\ Finished(pc') = ToSet(Sources)
  BY DEF Finished
<1>2. \A l \in PostingLists : l[1] \in ToSet(Sources)
  BY ListIs
<1>3. Done = PostingLists
  BY <1>1, <1>2 DEF Done
<1>4. Done' = PostingLists'
  BY <1>1, <1>2, ListsStay DEF Done
<1> QED BY <1>3, <1>4, ListsStay

LEMMA CountEdges ==
  ASSUME SoundInv, CountInv, Aggregate \/ Metadata
  PROVE  CountInv'
<1>1. /\ camp' = camp /\ at' = at /\ NotInferring /\ ~cancelled /\ edges \subseteq edges'
      /\ pc \in {"aggregate", "metadata"} /\ pc' \in {"metadata", "done"}
  BY DEF Aggregate, Metadata, Running, Enter
<1>2. Inferred' = InferredEdges(signals) /\ \A e \in edges' \ edges : e.type # "references"
  <2>1. CASE Aggregate
    <3>1. edges' = edges \cup InferredEdges(signals) /\ Inferred = {}
      BY <2>1 DEF Aggregate, Running, SoundInv, Unaggregated
    <3>2. \A e \in InferredEdges(signals) : e.src = "inferred" /\ e.type # "references"
      BY DEF InferredEdges, InferredEdge
    <3> QED BY <3>1, <3>2 DEF Inferred
  <2>2. CASE Metadata
    <3>1. \A e \in edges' \ edges : e.src = "explicit" /\ e.type # "references"
      BY <2>2, MetadataKinds DEF Metadata
    <3>2. Inferred = InferredEdges(signals)
      BY <1>1, <2>2 DEF Metadata, Running, CountInv
    <3> QED BY <1>1, <3>1, <3>2 DEF Inferred
  <2> QED BY <2>1, <2>2
<1>3. SameLists
  BY <1>1, <1>2 DEF SameLists, Cs, Refs, References, N
<1>4. Done' = Done
  BY <1>1, <1>3, DoneStays
<1>5. IF truncated THEN ~Fits ELSE Counted(Done)
  BY <1>1 DEF CountInv, Inferring
<1>6. truncated' = truncated /\ Fits' = Fits /\ signals' = signals
  BY <1>1, <1>3, ListsStay DEF NotInferring
<1>7. ~truncated => Counted(Done)'
  BY <1>1, <1>3, <1>4, <1>5, CountedStays
<1> QED BY <1>1, <1>2, <1>5, <1>6, <1>7, SourceNames, CountLater DEF Unpaired, Unbridged

\* Before the pairs nothing is counted.
LEMMA CountEarly ==
  ASSUME CountInv, UNCHANGED <<npairs, truncated>>, ~cancelled' => ~cancelled,
         pc \in Unpaired, pc' \in Unpaired \cup {"failed"}
  PROVE  CountInv'
<1>1. pc' \notin Inferring
  BY SourceNames DEF Inferring, Unpaired, Unbridged
<1> QED BY <1>1 DEF CountInv, Inferring, Unpaired, Unbridged

LEMMA CountOthers ==
  ASSUME EInv, CountInv,
         \/ ScanScopes \/ ScanProjects \/ ScanIntents \/ ScanWorkflow
         \/ \E l \in todo : ScanLifecycle(l) \/ StopInLifecycle(l)
         \/ ScanNotes \/ IndexNotes \/ LinkCanvas \/ Bridge \/ \E n \in todo : LinkNote(n)
         \/ Proceed /\ pc \notin ToSet(Sources)
  PROVE  CountInv'
<1>1. UNCHANGED <<npairs, truncated>> /\ (~cancelled' => ~cancelled)
  BY DEF NotInferring, ScanScopes, ScanProjects, ScanIntents, ScanWorkflow, Add, Running,
     ScanLifecycle, StopInLifecycle, ScanParts, ScanNotes, IndexNotes, LinkNote, LinkCanvas,
     Proceed, Bridge
<1>2. pc \in Unpaired /\ pc' \in Unpaired
  <2>1. CASE \/ ScanScopes \/ ScanProjects \/ ScanIntents \/ ScanWorkflow
             \/ \E l \in todo : ScanLifecycle(l) \/ StopInLifecycle(l)
    BY <2>1, EarlyPass DEF AddsEarly, BeforeNotes, Unpaired, Unbridged
  <2>2. CASE ScanNotes \/ IndexNotes \/ LinkCanvas \/ Bridge \/ \E n \in todo : LinkNote(n)
    BY <2>2 DEF ScanNotes, IndexNotes, LinkNote, LinkCanvas, Bridge, Running, Enter,
                Unpaired, Unbridged
  <2>3. CASE Proceed /\ pc \notin ToSet(Sources)
    BY <2>3, PassAfter DEF Proceed, Enter, Unpaired, Unbridged
  <2> QED BY <2>1, <2>2, <2>3
<1> QED BY <1>1, <1>2, CountEarly

LEMMA NextCountInv == ASSUME EInv, SoundInv, TypeInv, CountInv, [Next]_vars PROVE CountInv'
<1>1. CASE CodeSlices \/ Aggregate \/ Metadata
  BY <1>1, CountCode, CountEdges
<1>2. CASE Proceed
  BY <1>2, CountProceed, CountOthers
<1>3. CASE \E list \in todo : Enumerate(list)
  BY <1>3, CountEnumerate
<1>4. CASE StopEnumerating \/ Cancel
  BY <1>4 DEF StopEnumerating, Cancel, CountInv
<1>5. CASE Fail
  BY <1>5, SourceNames DEF Fail, CountInv, Unpaired, Unbridged, Inferring
<1>6. CASE UNCHANGED vars
  <2>1. SameLists
    BY <1>6 DEF vars, SameLists, Cs, Refs, N
  <2>2. UNCHANGED <<pc, todo, edges, cancelled>> /\ NotInferring
    BY <1>6 DEF vars, NotInferring
  <2>3. Done' = Done
    BY <2>1, <2>2, ListsStay DEF Done
  <2>4. Counted(Done) => Counted(Done)'
    BY <2>1, <2>2, <2>3, CountedStays
  <2>5. Fits' = Fits /\ Inferred' = Inferred /\ InferredEdges(signals)' = InferredEdges(signals)
    BY <2>1, <2>2, ListsStay DEF Inferred, NotInferring, InferredEdges, InferredEdge, Evidence
  <2> QED BY <2>2, <2>4, <2>5 DEF CountInv, NotInferring
<1> QED BY <1>1, <1>2, <1>3, <1>4, <1>5, <1>6, CountOthers DEF Next

LEMMA InitCountInv == Init => CountInv
BY SourceNames DEF Init, CountInv, Unpaired, Unbridged, Inferring

\* Within the budgets nothing is missed: each pair of candidates that shares
\* something has the edge that all of it adds up to, and no other has one; and
\* the set says truthfully whether it was cut (inference.go:60-69, 251-284).
THEOREM InferenceIsComplete == Spec => []InferenceComplete
<1>1. Init => WInv
  BY InitEInv DEF Init, WInv, Visited
<1>2. WInv /\ SoundInv /\ TypeInv /\ TagsInv /\ CountInv => InferenceComplete
  BY CountFollows DEF WInv
<1>3. WInv => EInv
  BY DEF WInv
<1> QED BY <1>1, <1>2, <1>3, NextWInv, InitSoundInv, NextSoundInv, InitTypeInv, NextTypeInv,
           InitTagsInv, NextTagsInv, InitCountInv, NextCountInv, PTL DEF Spec
=============================================================================
