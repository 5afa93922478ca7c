------------------------------ MODULE Inference ------------------------------
(***************************************************************************)
(* Inferred relations (internal/scanner: inference.go,                     *)
(* inference_aggregate.go): posting lists of nodes that share something,   *)
(* the pairs taken from them within a budget, and the confidence that the  *)
(* evidence for a pair adds up to.                                         *)
(*                                                                         *)
(* Operators over the set N of the graph's nodes, the tag references refs   *)
(* of its notes, the boundaries and the front matter of its notes.         *)
(* Weights are in hundredths, confidences in ten-thousandths.              *)
(***************************************************************************)
EXTENDS Worktree

CONSTANTS
  Order,      \* the paths in the order of their strings
  Tokens,     \* path -> the words of three letters or more in name and title
  MaxMembers, \* bound on the members taken from a posting list
  MaxPairs    \* bound on the pairs taken

None == ""

\* inferenceCandidateTypes, in the order of their identifiers.
Kinds == <<"attachment", "canvas", "note">>
Candidates(N) == {id \in N : id[1] \in ToSet(Kinds)}

Rank(id) ==
  <<CHOOSE k \in DOMAIN Kinds : Kinds[k] = id[1],
    CHOOSE i \in DOMAIN Order : Order[i] = Tail(id)>>

\* The order of sort.Strings on identifiers.
Earlier(a, b) ==
  LET r == Rank(a)  s == Rank(b)
  IN  r[1] < s[1] \/ (r[1] = s[1] /\ r[2] < s[2])

-----------------------------------------------------------------------------
(* Posting lists: shared value -> members.  A member is a node and a       *)
(* number: an alias a note states twice makes it a member twice.           *)

Once(ids) == {<<id, 1>> : id \in ids}

ByFolder(C) ==
  [d \in {Parent(Tail(id)) : id \in C} |->
     Once({id \in C : Parent(Tail(id)) = d})]

\* The folders above the one a node is in.
AboveOrIn(id) == Ancestors(Tail(id))                \* mutant
Above(id) == Ancestors(Parent(Tail(id)))

ByAncestor(C) ==
  [d \in UNION {Above(id) : id \in C} |-> Once({id \in C : d \in Above(id)})]

\* Front matter of notes alone; inline tags are nodes by then.
TagsInFront(refs, meta, id) == meta[id].tags        \* mutant
TagsOf(refs, meta, id) ==
  meta[id].tags \cup {ref[2][2] : ref \in {r \in refs : r[1] = id}}

ByTag(C, refs, meta) ==
  [t \in UNION {TagsOf(refs, meta, id) : id \in C} |->
     Once({id \in C : t \in TagsOf(refs, meta, id)})]

\* groupNotesByFrontmatter: not deduplicated.
Fields(m) ==
  {<<"type", m.type, 1>>, <<"status", m.status, 1>>}
  \cup {<<"alias", m.aliases[i], Cardinality({j \in 1 .. i : m.aliases[j] = m.aliases[i]})>>
          : i \in DOMAIN m.aliases}

Stated(m) == {f \in Fields(m) : f[2] # None}

ByFrontmatter(C, meta) ==
  [v \in UNION {{<<f[1], f[2]>> : f \in Stated(meta[id])} : id \in C} |->
     UNION {{<<id, f[3]>> : f \in {x \in Stated(meta[id]) : <<x[1], x[2]>> = v}} : id \in C}]

\* Only a note records the repository it is in.
ByRepoRoot(C, boundaries) ==
  LET notes == {id \in C : id[1] = "note"}
      Root(id) == BoundaryFor(boundaries, Tail(id))
  IN  [r \in {Root(id) : id \in notes} |-> Once({id \in notes : Root(id) = r})]

\* The passes over the posting lists, in their order.
Sources == <<"same_folder", "shared_ancestor", "shared_tag",
             "shared_frontmatter", "shared_repo_root">>

Groups(source, C, refs, boundaries, meta) ==
  CASE source = "same_folder" -> ByFolder(C)
    [] source = "shared_ancestor" -> ByAncestor(C)
    [] source = "shared_tag" -> ByTag(C, refs, meta)
    [] source = "shared_frontmatter" -> ByFrontmatter(C, meta)
    [] source = "shared_repo_root" -> ByRepoRoot(C, boundaries)

-----------------------------------------------------------------------------
(* emitPairsFromGroup *)

\* Which members of a long list are kept is left to a map's order.
Kept(members) ==
  IF Cardinality(members) <= MaxMembers THEN {members}
  ELSE {m \in SUBSET members : Cardinality(m) = MaxMembers}

Before(x, y) == Earlier(x[1], y[1]) \/ (x[1] = y[1] /\ x[2] < y[2])

PairsIn(members) == {q \in members \X members : Before(q[1], q[2])}

\* The first pairs, row by row, that there is still room for.
TakenOneOver(pairs, room) ==                        \* mutant
  LET Sooner(p, q) == Before(p[1], q[1]) \/ (p[1] = q[1] /\ Before(p[2], q[2]))
  IN  {q \in pairs : Cardinality({p \in pairs : Sooner(p, q)}) <= room}
Taken(pairs, room) ==
  LET Sooner(p, q) == Before(p[1], q[1]) \/ (p[1] = q[1] /\ Before(p[2], q[2]))
  IN  {q \in pairs : Cardinality({p \in pairs : Sooner(p, q)}) < room}

-----------------------------------------------------------------------------
(* aggregateInferredEdges *)

Weight(kind) ==
  CASE kind = "same_folder" -> 35
    [] kind = "shared_ancestor" -> 20
    [] kind = "shared_tag" -> 30
    [] kind = "shared_frontmatter" -> 25
    [] kind = "shared_repo_root" -> 10
    [] kind = "shared_tokens" -> 20
    [] kind = "artifact_owned" -> 25

TokensOf(id) == IF Tail(id) \in DOMAIN Tokens THEN Tokens[Tail(id)] ELSE {}

ShareTokens(a, b) == Cardinality(TokensOf(a) \cap TokensOf(b)) >= 3

\* sharedArtifactScope: below projects/<name> or festivals/<stage>/<name>.
ArtifactOf(p) ==
  IF Len(p) >= 3 /\ p[1] = "projects" THEN SubSeq(p, 1, 2)
  ELSE IF Len(p) >= 4 /\ p[1] = "festivals" THEN SubSeq(p, 1, 3)
  ELSE <<>>

ShareArtifact(a, b) ==
  ArtifactOf(Tail(a)) = ArtifactOf(Tail(b)) /\ ArtifactOf(Tail(a)) # <<>>

\* The evidence for a pair: one signal of a kind for each value shared.
Evidence(signals, pair) ==
  {<<s[2], s[3]>> : s \in {x \in signals : x[1] = pair}}
  \cup (IF ShareTokens(pair[1], pair[2]) THEN {<<"shared_tokens", <<>>>>} ELSE {})
  \cup (IF ShareArtifact(pair[1], pair[2])
        THEN {<<"artifact_owned", ArtifactOf(Tail(pair[1]))>>} ELSE {})

Score(evidence) ==
  FoldSet(LAMBDA e, total : Weight(e[1]) + total, 0, evidence)

Saturate(raw) == IF raw >= 100 THEN 10000 ELSE 10000 - (100 - raw) * (100 - raw)

MinConfidence == 3000

\* inferenceEdgeType also asks for alias_match, which no signal is: an alias that
\* is shared comes as shared_frontmatter.  So a pair that only shares an alias
\* is relates_to, against the comment there, which has alias signals give
\* similar_to (inference_aggregate.go:36-38).
InferredEdge(pair, evidence) ==
  [from |-> pair[1], to |-> pair[2],
   type |-> IF \E e \in evidence : e[1] \in {"shared_tokens", "alias_match"}
            THEN "similar_to" ELSE "relates_to",
   src |-> "inferred", conf |-> Saturate(Score(evidence))]

InferredEdges(signals) ==
  {e \in {InferredEdge(pair, Evidence(signals, pair)) : pair \in {s[1] : s \in signals}} :
     e.conf >= MinConfidence}
=============================================================================
