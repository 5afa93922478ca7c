------------------------------ MODULE StoreProofs ------------------------------
(***************************************************************************)
(* Of the store and its readers, for any nodes, texts, builds and calls:    *)
(* what Search finds is what the documents say, because row numbers are     *)
(* never used twice; the walk of a neighbourhood stops at the asked number  *)
(* of edges and nowhere short of it; related items come strongest reason    *)
(* first, each once, and only the limit cuts them.                         *)
(***************************************************************************)
EXTENDS Readers, FiniteSetTheorems, WellFoundedInduction, TLAPS

Doc == [row : Nat, text : Texts]

\* The inductive invariant: documents have rows of their own, below the
\* last, and nodes; orphans have rows that no document has.
DocsTyped == last \in Nat /\ docs \in [DOMAIN docs -> Doc]
DocsOfNodes == DOMAIN docs \subseteq nodes
RowsUsed == \A n \in DOMAIN docs : docs[n].row <= last
RowsApart == \A m, n \in DOMAIN docs : docs[m].row = docs[n].row => m = n
Orphans == \A e \in orphaned : /\ e \in Nat \X Texts /\ e[1] <= last
                               /\ \A n \in DOMAIN docs : docs[n].row # e[1]

SInv == /\ DocsTyped /\ DocsOfNodes /\ RowsUsed /\ RowsApart /\ Orphans
        /\ MirrorAccounted

-----------------------------------------------------------------------------
\* The invariant is all that exact search needs: an entry that joins a
\* document by its row is the document's own (index.go, query.go:103-106).
THEOREM ExactByRows == SInv => SearchExact
<1> SUFFICES ASSUME SInv, NEW words \in SUBSET UNION Texts
             PROVE  Hits(words) = {n \in DOMAIN docs : docs[n].text \cap words # {}}
  BY DEF SearchExact
<1>1. ASSUME NEW n \in DOMAIN docs, docs[n].text \cap words # {}
      PROVE  n \in Hits(words)
  <2>1. docs[n].text \in Texts /\ n \in nodes
    BY DEF SInv, DocsTyped, Doc, DocsOfNodes
  <2>2. <<docs[n].row, docs[n].text>> \in mirror
    BY DEF SInv, MirrorAccounted, Entries, Entry
  <2> QED BY <1>1, <2>1, <2>2 DEF Hits
<1>2. ASSUME NEW n \in Hits(words)
      PROVE  n \in DOMAIN docs /\ docs[n].text \cap words # {}
  <2>1. n \in DOMAIN docs
    BY DEF Hits
  <2>2. PICK text \in Texts : <<docs[n].row, text>> \in mirror /\ text \cap words # {}
    BY DEF Hits
  <2>3. <<docs[n].row, text>> \notin orphaned
    BY <2>1 DEF SInv, Orphans
  <2>4. PICK m \in DOMAIN docs : <<docs[n].row, text>> = <<docs[m].row, docs[m].text>>
    BY <2>2, <2>3 DEF SInv, MirrorAccounted, Entries, Entry
  <2>5. m = n
    BY <2>1, <2>4 DEF SInv, RowsApart
  <2> QED BY <2>1, <2>2, <2>4, <2>5
<1> QED BY <1>1, <1>2 DEF Hits

-----------------------------------------------------------------------------
\* Deleting documents together with nodes leaves their entries as orphans.
LEMMA CascadeKeeps ==
  ASSUME SInv, NEW ns, Cascade(ns), UNCHANGED <<mirror, last>>,
         DOMAIN docs \ ns \subseteq nodes'
  PROVE  SInv'
<1> DEFINE gone == ns \cap DOMAIN docs
<1>1. /\ docs' = [n \in DOMAIN docs \ gone |-> docs[n]]
      /\ orphaned' = orphaned \cup Entries(gone)
      /\ mirror' = mirror /\ last' = last
  BY DEF Cascade, Restrict
<1>2. DOMAIN docs' = DOMAIN docs \ gone /\ \A n \in DOMAIN docs' : docs'[n] = docs[n]
  BY <1>1
<1>3. DocsTyped' /\ DocsOfNodes' /\ RowsUsed' /\ RowsApart'
  BY <1>1, <1>2 DEF SInv, DocsTyped, DocsOfNodes, RowsUsed, RowsApart
<1>4. Orphans'
  <2> SUFFICES ASSUME NEW e \in orphaned'
               PROVE  /\ e \in Nat \X Texts /\ e[1] <= last'
                      /\ \A n \in DOMAIN docs' : docs'[n].row # e[1]
    BY DEF Orphans
  <2>1. CASE e \in orphaned
    BY <1>1, <1>2, <2>1 DEF SInv, Orphans
  <2>2. CASE e \in Entries(gone)
    <3>1. PICK m \in gone : e = <<docs[m].row, docs[m].text>>
      BY <2>2 DEF Entries, Entry
    <3>2. docs[m] \in Doc /\ docs[m].row <= last
      BY DEF SInv, DocsTyped, RowsUsed
    <3>3. \A n \in DOMAIN docs' : docs'[n].row # docs[m].row
      BY <1>2 DEF SInv, RowsApart
    <3> QED BY <1>1, <3>1, <3>2, <3>3 DEF Doc
  <2> QED BY <1>1, <2>1, <2>2
<1>5. MirrorAccounted'
  <2>1. Entries(DOMAIN docs)' = Entries(DOMAIN docs \ gone)
    BY <1>2 DEF Entries, Entry
  <2>2. Entries(DOMAIN docs) = Entries(DOMAIN docs \ gone) \cup Entries(gone)
    BY DEF Entries
  <2> QED BY <1>1, <2>1, <2>2 DEF SInv, MirrorAccounted
<1> QED BY <1>3, <1>4, <1>5 DEF SInv

\* Taking the documents' entries out of the mirror leaves the orphans.
LEMMA WipedIsOrphans == SInv => Wiped = orphaned
<1> SUFFICES ASSUME SInv, NEW e \in orphaned PROVE e \notin Entries(DOMAIN docs)
  BY DEF Wiped, SInv, MirrorAccounted
<1> SUFFICES ASSUME NEW n \in DOMAIN docs, e = <<docs[n].row, docs[n].text>> PROVE FALSE
  BY DEF Entries, Entry
<1> QED BY DEF SInv, Orphans

LEMMA InitSInv == Init => SInv
<1> SUFFICES ASSUME Init PROVE SInv
  OBVIOUS
<1>1. DOMAIN docs = {} /\ last = 0 /\ mirror = {} /\ orphaned = {}
  BY DEF Init, NoDocs
<1>2. docs \in [DOMAIN docs -> Doc]
  BY <1>1 DEF Init, NoDocs
<1>3. Entries(DOMAIN docs) = {}
  BY <1>1 DEF Entries
<1> QED
  BY <1>1, <1>2, <1>3 DEF SInv, DocsTyped, DocsOfNodes, RowsUsed, RowsApart, Orphans, MirrorAccounted

LEMMA BuildSInv ==
  ASSUME SInv, NEW b \in Builds, SaveFullBuild(b)
  PROVE  SInv'
<1> DEFINE ds == DOMAIN b.docs  k == Cardinality(DOMAIN b.docs)
<1>1. PICK row \in Rows(b) :
        /\ docs' = [n \in ds |-> [row |-> row[n], text |-> b.docs[n]]]
        /\ mirror' = Wiped \cup {<<row[n], b.docs[n]>> : n \in ds}
  BY DEF SaveFullBuild, Written
<1>2. last' = last + k /\ nodes' = b.nodes /\ orphaned' = orphaned
  BY DEF SaveFullBuild
<1>3. ds \subseteq b.nodes /\ IsFiniteSet(ds) /\ b.docs \in [ds -> Texts]
  BY StoreAssumption
<1>4. k \in Nat /\ last \in Nat
  BY <1>3, FS_CardinalityType DEF SInv, DocsTyped
<1>5. row \in [ds -> last + 1 .. last + k] /\ \A m, n \in ds : row[m] = row[n] => m = n
  BY DEF Rows, Injection, IsInjective
<1>6. /\ DOMAIN docs' = ds
      /\ \A n \in ds : docs'[n].row = row[n] /\ docs'[n].text = b.docs[n]
                       /\ row[n] \in Nat /\ row[n] > last /\ row[n] <= last'
  BY <1>1, <1>2, <1>4, <1>5
<1>7. DocsTyped'
  <2>1. last' \in Nat
    BY <1>2, <1>4
  <2>2. ASSUME NEW n \in ds PROVE [row |-> row[n], text |-> b.docs[n]] \in Doc
    <3>1. row[n] \in Nat /\ b.docs[n] \in Texts
      BY <1>3, <1>6
    <3> QED BY <3>1 DEF Doc
  <2>3. docs' \in [ds -> Doc]
    BY <1>1, <2>2
  <2> QED BY <1>6, <2>1, <2>3 DEF DocsTyped
<1>8. DocsOfNodes' /\ RowsUsed' /\ RowsApart'
  BY <1>2, <1>3, <1>5, <1>6 DEF DocsOfNodes, RowsUsed, RowsApart
<1>9. Orphans'
  <2> SUFFICES ASSUME NEW e \in orphaned
               PROVE  /\ e \in Nat \X Texts /\ e[1] <= last'
                      /\ \A n \in ds : row[n] # e[1]
    BY <1>2, <1>6 DEF Orphans
  <2>1. e \in Nat \X Texts /\ e[1] <= last
    BY DEF SInv, Orphans
  <2> QED BY <1>2, <1>4, <1>6, <2>1
<1>10. MirrorAccounted'
  <2>1. Entries(DOMAIN docs)' = {<<row[n], b.docs[n]>> : n \in ds}
    BY <1>6 DEF Entries, Entry
  <2> QED BY <1>1, <1>2, <2>1, WipedIsOrphans DEF MirrorAccounted
<1> QED BY <1>7, <1>8, <1>9, <1>10 DEF SInv

LEMMA UpsertSInv ==
  ASSUME SInv, NEW n \in Nodes, NEW text \in Texts, Upsert(n, text)
  PROVE  SInv'
<1>1. CASE n \in DOMAIN docs
  <2>1. /\ docs' = [docs EXCEPT ![n].text = text]
        /\ mirror' = (mirror \ {Entry(n)}) \cup {<<docs[n].row, text>>}
        /\ last' = last /\ orphaned' = orphaned /\ nodes' = nodes
    BY <1>1 DEF Upsert
  <2>2. /\ DOMAIN docs' = DOMAIN docs
        /\ \A m \in DOMAIN docs : docs'[m].row = docs[m].row /\ docs'[m] \in Doc
        /\ \A m \in DOMAIN docs \ {n} : docs'[m] = docs[m]
        /\ docs'[n].text = text
    BY <1>1, <2>1 DEF SInv, DocsTyped, Doc
  <2>3. docs' \in [DOMAIN docs -> Doc]
    BY <2>1, <2>2 DEF SInv, DocsTyped
  <2>4. DocsTyped' /\ DocsOfNodes' /\ RowsUsed' /\ RowsApart' /\ Orphans'
    BY <2>1, <2>2, <2>3 DEF SInv, DocsTyped, DocsOfNodes, RowsUsed, RowsApart, Orphans
  <2>5. Entries(DOMAIN docs)' = Entries(DOMAIN docs \ {n}) \cup {<<docs[n].row, text>>}
    BY <1>1, <2>2 DEF Entries, Entry
  <2>6. Entries(DOMAIN docs) = Entries(DOMAIN docs \ {n}) \cup {Entry(n)}
    BY <1>1 DEF Entries
  <2>7. Entry(n) \notin Entries(DOMAIN docs \ {n})
    BY <1>1 DEF Entries, Entry, SInv, RowsApart
  <2>8. Entry(n) \notin orphaned
    BY <1>1 DEF Entry, SInv, Orphans
  <2>9. MirrorAccounted'
    BY <2>1, <2>5, <2>6, <2>7, <2>8 DEF SInv, MirrorAccounted
  <2> QED BY <2>4, <2>9 DEF SInv
<1>2. CASE n \notin DOMAIN docs
  <2>1. /\ docs' = [m \in DOMAIN docs \cup {n} |->
                      IF m = n THEN [row |-> last', text |-> text] ELSE docs[m]]
        /\ mirror' = mirror \cup {<<last', text>>} /\ n \in nodes
        /\ last' = last + 1 /\ orphaned' = orphaned /\ nodes' = nodes
    BY <1>2 DEF Upsert
  <2>2. /\ DOMAIN docs' = DOMAIN docs \cup {n}
        /\ \A m \in DOMAIN docs : docs'[m] = docs[m]
        /\ docs'[n] = [row |-> last', text |-> text]
    BY <1>2, <2>1
  <2>3. last \in Nat /\ last' \in Nat /\ last < last'
    BY <2>1 DEF SInv, DocsTyped
  <2>4. DocsTyped'
    BY <2>1, <2>2, <2>3 DEF SInv, DocsTyped, Doc
  <2>5. \A m \in DOMAIN docs : docs[m].row \in Nat /\ docs[m].row < last'
    BY <2>3 DEF SInv, DocsTyped, Doc, RowsUsed
  <2>6. DocsOfNodes'
    BY <2>1, <2>2 DEF SInv, DocsOfNodes
  <2>7. RowsUsed' /\ RowsApart'
    BY <2>2, <2>3, <2>5 DEF SInv, RowsUsed, RowsApart
  <2>8. Orphans'
    <3> SUFFICES ASSUME NEW e \in orphaned
                 PROVE  /\ e \in Nat \X Texts /\ e[1] <= last'
                        /\ \A m \in DOMAIN docs \cup {n} : docs'[m].row # e[1]
      BY <2>1, <2>2 DEF Orphans
    <3>1. /\ e \in Nat \X Texts /\ e[1] <= last
          /\ \A m \in DOMAIN docs : docs[m].row # e[1]
      BY DEF SInv, Orphans
    <3> QED BY <2>2, <2>3, <3>1
  <2>9. Entries(DOMAIN docs)' = Entries(DOMAIN docs) \cup {<<last', text>>}
    BY <1>2, <2>2 DEF Entries, Entry
  <2>10. MirrorAccounted'
    BY <2>1, <2>9 DEF SInv, MirrorAccounted
  <2> QED BY <2>4, <2>6, <2>7, <2>8, <2>10 DEF SInv
<1> QED BY <1>1, <1>2

LEMMA DeleteSInv ==
  ASSUME SInv, NEW n \in Nodes, DeleteDocument(n)
  PROVE  SInv'
<1>1. /\ n \in DOMAIN docs /\ mirror' = mirror \ {Entry(n)}
      /\ docs' = [m \in DOMAIN docs \ {n} |-> docs[m]]
      /\ last' = last /\ orphaned' = orphaned /\ nodes' = nodes
  BY DEF DeleteDocument, Restrict
<1>2. DOMAIN docs' = DOMAIN docs \ {n} /\ \A m \in DOMAIN docs' : docs'[m] = docs[m]
  BY <1>1
<1>3. DocsTyped' /\ DocsOfNodes' /\ RowsUsed' /\ RowsApart' /\ Orphans'
  BY <1>1, <1>2 DEF SInv, DocsTyped, DocsOfNodes, RowsUsed, RowsApart, Orphans
<1>4. Entries(DOMAIN docs)' = Entries(DOMAIN docs \ {n})
  BY <1>2 DEF Entries, Entry
<1>5. Entries(DOMAIN docs) = Entries(DOMAIN docs \ {n}) \cup {Entry(n)}
  BY <1>1 DEF Entries
<1>6. Entry(n) \notin Entries(DOMAIN docs \ {n}) /\ Entry(n) \notin orphaned
  BY <1>1 DEF Entries, Entry, SInv, RowsApart, Orphans
<1>7. MirrorAccounted'
  BY <1>1, <1>4, <1>5, <1>6 DEF SInv, MirrorAccounted
<1> QED BY <1>3, <1>7 DEF SInv

LEMMA MigrateSInv == ASSUME Migrate PROVE SInv'
<1>1. DOMAIN docs' = {} /\ last' = 0 /\ mirror' = {} /\ orphaned' = {}
  BY DEF Migrate, NoDocs
<1>2. docs' \in [DOMAIN docs' -> Doc]
  BY <1>1 DEF Migrate, NoDocs
<1>3. Entries(DOMAIN docs)' = {}
  BY <1>1 DEF Entries
<1> QED
  BY <1>1, <1>2, <1>3 DEF SInv, DocsTyped, DocsOfNodes, RowsUsed, RowsApart, Orphans, MirrorAccounted

\* Actions that leave the documents, the mirror and the rows alone.
LEMMA AsideSInv ==
  ASSUME SInv, UNCHANGED <<docs, mirror, last, orphaned>>, nodes \subseteq nodes'
  PROVE  SInv'
BY DEF SInv, DocsTyped, DocsOfNodes, RowsUsed, RowsApart, Orphans, MirrorAccounted, Entries, Entry

LEMMA WriteSInv == SInv /\ [Write]_tables => SInv'
<1> SUFFICES ASSUME SInv, [Write]_tables PROVE SInv'
  OBVIOUS
<1>1. ASSUME NEW n \in Nodes, InsertNode(n) PROVE SInv'
  <2>1. DOMAIN docs \ {n} \subseteq nodes'
    BY <1>1 DEF InsertNode, SInv, DocsOfNodes
  <2> QED BY <1>1, <2>1, CascadeKeeps DEF InsertNode
<1>2. ASSUME NEW n \in Nodes, DeleteDocument(n) PROVE SInv'
  BY <1>2, DeleteSInv
<1>3. ASSUME NEW n \in Nodes, NEW t \in Texts, Upsert(n, t) PROVE SInv'
  BY <1>3, UpsertSInv
<1>4. ASSUME NEW e \in Links, InsertEdge(e) PROVE SInv'
  BY <1>4, AsideSInv DEF InsertEdge
<1>5. CASE DeleteAllEdges
  BY <1>5, AsideSInv DEF DeleteAllEdges
<1>6. CASE DeleteAllNodes
  <2>1. DOMAIN docs \ nodes \subseteq nodes'
    BY DEF SInv, DocsOfNodes
  <2> QED BY <1>6, <2>1, CascadeKeeps DEF DeleteAllNodes
<1>7. CASE DeleteAllStops
  BY <1>7, AsideSInv DEF DeleteAllStops
<1>8. ASSUME NEW b \in Builds, SaveFullBuild(b) PROVE SInv'
  BY <1>8, BuildSInv
<1>9. ASSUME NEW b \in Builds, SaveGraph(b) PROVE SInv'
  <2>1. DOMAIN docs \ nodes \subseteq nodes'
    BY DEF SInv, DocsOfNodes
  <2> QED BY <1>9, <2>1, CascadeKeeps DEF SaveGraph
<1>10. CASE Migrate
  BY <1>10, MigrateSInv
<1>11. CASE UNCHANGED tables
  BY <1>11, AsideSInv DEF tables
<1> QED
  BY <1>1, <1>2, <1>3, <1>4, <1>5, <1>6, <1>7, <1>8, <1>9, <1>10, <1>11 DEF Write

-----------------------------------------------------------------------------
\* With any readers beside them the writers keep to the store's own
\* specification (related.go and context.go only read).
THEOREM ReadersOnlyRead == ReadersSpec => Spec
<1>1. InitReader => Init
  BY DEF InitReader
<1>2. [Next]_vars => [Write]_tables
  BY DEF Next, vars
<1> QED BY <1>1, <1>2, PTL DEF ReadersSpec, Spec

\* The mirror holds the documents and what cascades left, whatever is
\* written in whatever order (index.go:95-116, persist.go:116-131).
THEOREM MirrorStaysAccounted == ReadersSpec => []MirrorAccounted
<1>1. SInv => MirrorAccounted
  BY DEF SInv
<1> QED BY <1>1, InitSInv, WriteSInv, ReadersOnlyRead, PTL DEF Spec

\* Search answers for the documents as they are, always (query.go:93-108).
THEOREM SearchStaysExact == ReadersSpec => []SearchExact
BY ExactByRows, InitSInv, WriteSInv, ReadersOnlyRead, PTL DEF Spec

-----------------------------------------------------------------------------
LEMMA Least ==
  ASSUME NEW S \in SUBSET Nat, S # {}
  PROVE  \E m \in S : \A i \in S : m <= i
<1> DEFINE R == {ss \in Nat \X Nat : ss[1] < ss[2]}
<1>1. IsWellFoundedOn(R, Nat)
  BY NatLessThanWellFounded, Zenon DEF OpToRel
<1>2. PICK m \in S : \A i \in S : ~ (<<i, m>> \in R)
  <2> HIDE DEF R
  <2> QED BY <1>1, WFMin
<1>3. ASSUME NEW i \in S, i < m PROVE FALSE
  <2>1. <<i, m>> \in R
    BY <1>3
  <2> QED BY <1>2, <2>1
<1> QED BY <1>3

-----------------------------------------------------------------------------
(***************************************************************************)
(* The rounds of Subgraph's walk.                                          *)
(***************************************************************************)
\* A path of k edges, either way along each.
Path(g, id, p, k) ==
  /\ p \in [0 .. k -> Nodes] /\ p[0] = id
  /\ \A i \in 1 .. k : \E e \in g.edges : {e.from, e.to} = {p[i - 1], p[i]}

Near(g, id, k) == {n \in Nodes : \E j \in 0 .. k : \E p : Path(g, id, p, j) /\ p[j] = n}

EndsIn(g) == \A e \in g.edges : e.from \in Nodes /\ e.to \in Nodes

LEMMA NearWithin ==
  ASSUME NEW g, NEW id, NEW k \in Nat
  PROVE  Within(g, id, k) = Near(g, id, k)
<1>1. ASSUME NEW n \in Nodes, NEW j \in 0 .. k
      PROVE  (\E p \in [0 .. j -> Nodes] :
                /\ p[0] = id /\ p[j] = n
                /\ \A i \in 1 .. j : \E e \in g.edges : {e.from, e.to} = {p[i - 1], p[i]})
             <=> \E p : Path(g, id, p, j) /\ p[j] = n
  BY Zenon DEF Path
<1> QED BY <1>1, Zenon DEF Within, Near

LEMMA JoinedAlso ==
  ASSUME NEW g, NEW ns, NEW m
  PROVE  m \in BesideAny(g, ns) <=> \E n \in ns : \E e \in g.edges : {e.from, e.to} = {n, m}
<1>1. ASSUME NEW e, NEW n PROVE m \in Beside(e, n) <=> {e.from, e.to} = {n, m}
  BY DEF Beside
<1>2. m \in BesideAny(g, ns) <=> \E n \in ns : \E e \in g.edges : m \in Beside(e, n)
  BY DEF BesideAny
<1> QED BY <1>1, <1>2, Zenon

LEMMA NearZero ==
  ASSUME NEW g, NEW id \in Nodes
  PROVE  Near(g, id, 0) = {id}
<1>1. Path(g, id, [i \in 0 .. 0 |-> id], 0)
  BY DEF Path
<1>2. \A j \in 0 .. 0 : j = 0
  OBVIOUS
<1>3. \A p : Path(g, id, p, 0) => p[0] = id
  BY DEF Path
<1>4. 0 \in 0 .. 0 /\ [i \in 0 .. 0 |-> id][0] = id
  OBVIOUS
<1> QED BY <1>1, <1>2, <1>3, <1>4, Zenon DEF Near

\* A path can be cut, and led on along an edge.
LEMMA PathCut ==
  ASSUME NEW g, NEW id, NEW k \in Nat, NEW p, Path(g, id, p, k), NEW j \in 0 .. k
  PROVE  Path(g, id, [i \in 0 .. j |-> p[i]], j) /\ [i \in 0 .. j |-> p[i]][j] = p[j]
<1> DEFINE q == [i \in 0 .. j |-> p[i]]
<1>1. q \in [0 .. j -> Nodes] /\ q[0] = id /\ q[j] = p[j]
  BY DEF Path
<1>2. ASSUME NEW i \in 1 .. j PROVE \E e \in g.edges : {e.from, e.to} = {q[i - 1], q[i]}
  <2>1. i \in 1 .. k /\ q[i] = p[i] /\ q[i - 1] = p[i - 1]
    OBVIOUS
  <2> HIDE DEF q
  <2> QED BY <2>1 DEF Path
<1> HIDE DEF q
<1>3. Path(g, id, q, j)
  BY <1>1, <1>2 DEF Path
<1> QED BY <1>1, <1>3 DEF q

LEMMA PathOn ==
  ASSUME NEW g, NEW id, NEW k \in Nat, NEW p, Path(g, id, p, k), NEW m \in Nodes,
         NEW e \in g.edges, {e.from, e.to} = {p[k], m}
  PROVE  \E q : Path(g, id, q, k + 1) /\ q[k + 1] = m
<1> DEFINE q == [i \in 0 .. k + 1 |-> IF i = k + 1 THEN m ELSE p[i]]
<1>1. q \in [0 .. k + 1 -> Nodes] /\ q[0] = id /\ q[k + 1] = m
  BY DEF Path
<1>2. ASSUME NEW i \in 1 .. k + 1 PROVE \E x \in g.edges : {x.from, x.to} = {q[i - 1], q[i]}
  <2>1. CASE i = k + 1
    <3>1. q[i] = m /\ q[i - 1] = p[k]
      BY <2>1
    <3> HIDE DEF q
    <3> QED BY <3>1
  <2>2. CASE i # k + 1
    <3>1. i \in 1 .. k /\ q[i] = p[i] /\ q[i - 1] = p[i - 1]
      BY <2>2
    <3> HIDE DEF q
    <3> QED BY <3>1 DEF Path
  <2> QED BY <2>1, <2>2
<1> HIDE DEF q
<1> QED BY <1>1, <1>2 DEF Path

LEMMA NearGrows ==
  ASSUME NEW g, NEW id, NEW k \in Nat
  PROVE  Near(g, id, k) \subseteq Near(g, id, k + 1)
<1>1. \A j \in 0 .. k : j \in 0 .. k + 1
  OBVIOUS
<1> QED BY <1>1, Zenon DEF Near

\* What is first reached in round k, where every node but the first is
\* reached from the one before.
Fresh(g, id, k) == IF k = 0 THEN {id} ELSE Near(g, id, k) \ Near(g, id, k - 1)

LEMMA NextRound ==
  ASSUME NEW g, EndsIn(g), NEW id \in Nodes, NEW k \in Nat
  PROVE  Near(g, id, k + 1) = Near(g, id, k) \cup (BesideAny(g, Fresh(g, id, k)) \ Near(g, id, k))
<1>1. ASSUME NEW m \in BesideAny(g, Fresh(g, id, k)) PROVE m \in Near(g, id, k + 1)
  <2>1. PICK n \in Fresh(g, id, k), e \in g.edges : {e.from, e.to} = {n, m}
    BY JoinedAlso
  <2>2. m \in Nodes
    BY <2>1 DEF EndsIn
  <2>3. n \in Near(g, id, k)
    BY NearZero DEF Fresh
  <2>4. PICK j \in 0 .. k : \E p : Path(g, id, p, j) /\ p[j] = n
    BY <2>3 DEF Near
  <2>5. PICK p : Path(g, id, p, j) /\ p[j] = n
    BY <2>4
  <2>6. \E q : Path(g, id, q, j + 1) /\ q[j + 1] = m
    <3>1. j \in Nat
      OBVIOUS
    <3> QED BY <2>1, <2>2, <2>5, <3>1, PathOn
  <2>7. j + 1 \in 0 .. k + 1
    OBVIOUS
  <2> QED BY <2>2, <2>6, <2>7 DEF Near
<1>2. ASSUME NEW m \in Near(g, id, k + 1), m \notin Near(g, id, k)
      PROVE  m \in BesideAny(g, Fresh(g, id, k))
  <2>1. PICK j \in 0 .. k + 1 : \E p : Path(g, id, p, j) /\ p[j] = m
    BY DEF Near
  <2>2. j = k + 1
    <3>1. j \notin 0 .. k
      BY <1>2, <2>1 DEF Near
    <3> QED BY <3>1
  <2>3. PICK p : Path(g, id, p, k + 1) /\ p[k + 1] = m
    BY <2>1, <2>2
  <2>4. PICK e \in g.edges : {e.from, e.to} = {p[k], m}
    <3>1. k + 1 \in 1 .. k + 1 /\ k + 1 - 1 = k
      OBVIOUS
    <3>2. \A i \in 1 .. k + 1 : \E e \in g.edges : {e.from, e.to} = {p[i - 1], p[i]}
      BY <2>3, Zenon DEF Path
    <3>3. \E e \in g.edges : {e.from, e.to} = {p[k + 1 - 1], p[k + 1]}
      BY <3>1, <3>2
    <3> QED BY <2>3, <3>1, <3>3
  <2>5. p[k] \in Near(g, id, k)
    <3>1. p[k] \in Nodes
      BY <2>3 DEF Path
    <3>2. k \in 0 .. k + 1 /\ k + 1 \in Nat /\ k \in 0 .. k
      OBVIOUS
    <3>3. \E q : Path(g, id, q, k) /\ q[k] = p[k]
      BY <2>3, <3>2, PathCut
    <3> QED BY <3>1, <3>2, <3>3 DEF Near
  <2>6. p[k] \in Fresh(g, id, k)
    <3>1. CASE k = 0
      BY <2>3, <3>1 DEF Fresh, Path
    <3>2. CASE k # 0
      <4>1. k - 1 \in Nat /\ k - 1 + 1 = k
        BY <3>2
      <4>2. ASSUME p[k] \in Near(g, id, k - 1) PROVE FALSE
        <5>1. PICK i \in 0 .. k - 1 : \E q : Path(g, id, q, i) /\ q[i] = p[k]
          BY <4>2 DEF Near
        <5>2. PICK q : Path(g, id, q, i) /\ q[i] = p[k]
          BY <5>1
        <5>3. i \in Nat /\ i + 1 \in 0 .. k
          BY <4>1
        <5>4. m \in Nodes
          BY DEF Near
        <5>5. \E r : Path(g, id, r, i + 1) /\ r[i + 1] = m
          BY <2>4, <5>2, <5>3, <5>4, PathOn
        <5> QED BY <1>2, <5>3, <5>4, <5>5 DEF Near
      <4> QED BY <2>5, <3>2, <4>2 DEF Fresh
    <3> QED BY <3>1, <3>2
  <2> QED BY <2>4, <2>6, JoinedAlso
<1>3. Near(g, id, k) \subseteq Near(g, id, k + 1)
  BY NearGrows
<1> QED BY <1>1, <1>2, <1>3

\* The walk's rounds are these.
Round(g, id, k) == [visited |-> Near(g, id, k), frontier |-> Fresh(g, id, k)]

Rounds(g, id, hops, f) ==
  f = [k \in 0 .. hops |->
         IF k = 0 THEN [visited |-> {id}, frontier |-> {id}]
         ELSE [visited |-> f[k - 1].visited \cup (BesideAny(g, f[k - 1].frontier) \ f[k - 1].visited),
               frontier |-> BesideAny(g, f[k - 1].frontier) \ f[k - 1].visited]]

LEMMA RoundsAre ==
  ASSUME NEW g, EndsIn(g), NEW id \in Nodes, NEW hops \in Nat
  PROVE  Rounds(g, id, hops, [k \in 0 .. hops |-> Round(g, id, k)])
<1> DEFINE f == [k \in 0 .. hops |-> Round(g, id, k)]
<1> SUFFICES ASSUME NEW k \in 0 .. hops
             PROVE  Round(g, id, k) =
                      IF k = 0 THEN [visited |-> {id}, frontier |-> {id}]
                      ELSE [visited |-> f[k - 1].visited
                                          \cup (BesideAny(g, f[k - 1].frontier) \ f[k - 1].visited),
                            frontier |-> BesideAny(g, f[k - 1].frontier) \ f[k - 1].visited]
  BY DEF Rounds
<1>1. CASE k = 0
  BY <1>1, NearZero DEF Round, Fresh
<1>2. CASE k # 0
  <2>1. k - 1 \in 0 .. hops /\ k - 1 \in Nat /\ k - 1 + 1 = k
    BY <1>2
  <2>2. f[k - 1].visited = Near(g, id, k - 1) /\ f[k - 1].frontier = Fresh(g, id, k - 1)
    BY <2>1 DEF Round
  <2>3. Near(g, id, k) = Near(g, id, k - 1)
                          \cup (BesideAny(g, Fresh(g, id, k - 1)) \ Near(g, id, k - 1))
    BY <2>1, NextRound
  <2>4. Fresh(g, id, k) = BesideAny(g, Fresh(g, id, k - 1)) \ Near(g, id, k - 1)
    BY <1>2, <2>3 DEF Fresh
  <2> HIDE DEF f
  <2> QED BY <1>2, <2>2, <2>3, <2>4 DEF Round
<1> QED BY <1>1, <1>2

LEMMA RoundsOnce ==
  ASSUME NEW g, EndsIn(g), NEW id \in Nodes, NEW hops \in Nat,
         NEW f, Rounds(g, id, hops, f), NEW h, Rounds(g, id, hops, h), NEW n \in 0 .. hops
  PROVE  f[n] = h[n]
<1> DEFINE bad == {k \in 0 .. hops : f[k] # h[k]}
<1>1. SUFFICES ASSUME bad # {} PROVE FALSE
  OBVIOUS
<1>2. PICK m \in bad : \A i \in bad : m <= i
  <2>1. bad \in SUBSET Nat
    OBVIOUS
  <2> HIDE DEF bad
  <2> QED BY <1>1, <2>1, Least
<1> DEFINE New(x) == BesideAny(g, x.frontier) \ x.visited
           Step(k, x) == IF k = 0 THEN [visited |-> {id}, frontier |-> {id}]
                         ELSE [visited |-> x[k - 1].visited \cup New(x[k - 1]),
                               frontier |-> New(x[k - 1])]
<1>3. f[m] = Step(m, f) /\ h[m] = Step(m, h)
  BY Zenon DEF Rounds
<1>4. m # 0
  BY <1>3
<1>5. m - 1 \in 0 .. hops /\ ~ (m <= m - 1)
  BY <1>4
<1>6. f[m - 1] = h[m - 1]
  BY <1>2, <1>5
<1>7. Step(m, f) = Step(m, h)
  <2> HIDE DEF New
  <2> QED BY <1>4, <1>6
<1> QED BY <1>3, <1>7

LEMMA WalkIs ==
  ASSUME NEW g, EndsIn(g), NEW id \in Nodes, NEW hops \in Nat
  PROVE  Walk(g, id, hops) = Within(g, id, hops)
<1> DEFINE h == [k \in 0 .. hops |-> Round(g, id, k)]
           c == CHOOSE f : Rounds(g, id, hops, f)
<1>1. Rounds(g, id, hops, h)
  BY RoundsAre
<1>2. Rounds(g, id, hops, c)
  <2> HIDE DEF h
  <2> QED BY <1>1
<1>3. hops \in 0 .. hops /\ h[hops] = Round(g, id, hops)
  OBVIOUS
<1>4. c[hops] = h[hops]
  <2> HIDE DEF h, c
  <2> QED BY <1>1, <1>2, <1>3, RoundsOnce
<1>5. Walk(g, id, hops) = c[hops].visited
  BY Zenon DEF Walk, Rounds
<1>6. h[hops].visited = Near(g, id, hops)
  BY <1>3 DEF Round
<1> QED BY <1>4, <1>5, <1>6, NearWithin

-----------------------------------------------------------------------------
(***************************************************************************)
(* What a `context` call has loaded.                                       *)
(***************************************************************************)
\* The foreign keys of the edges, and that what is stored is of the constants.
Keyed ==
  /\ nodes \subseteq Nodes /\ IsFiniteSet(edges) /\ IsFiniteSet(DOMAIN docs)
  /\ \A e \in edges : {e.from, e.to} \subseteq nodes

ContextSteps == {"load_nodes", "load_edges", "exact_id", "doc_path", "node_path",
                 "top_hit", "target", "done"}
RelatedSteps == {"exact_id", "doc_path", "node_path", "top_hit",
                 "explicit", "scope", "lexical", "done"}

Calling ==
  /\ commits \in Nat
  /\ pc # "idle" => /\ call \in Calls
                    /\ pc \in IF call.op = "related" THEN RelatedSteps ELSE ContextSteps

\* Where nothing was committed the two queries of a load saw one build.
LoadInv ==
  /\ loaded.nodes \subseteq Nodes /\ EndsIn(loaded)
  /\ pc \in ContextSteps /\ call.op # "related" /\ commits = 0 =>
       /\ pc # "load_nodes" => loaded.nodes = nodes
       /\ pc \notin {"load_nodes", "load_edges"} => loaded.edges = edges
  /\ pc = "done" /\ call.op # "related" => source \in loaded.nodes \cup {None}

LEMMA InitKeyed == Init => Keyed
<1>1. IsFiniteSet({})
  BY FS_EmptySet
<1> QED BY <1>1 DEF Init, Keyed, NoDocs

LEMMA CascadeKeyed ==
  ASSUME IsFiniteSet(DOMAIN docs), NEW ns, Cascade(ns)
  PROVE  IsFiniteSet(DOMAIN docs')
<1>1. DOMAIN docs' \subseteq DOMAIN docs
  BY DEF Cascade, Restrict
<1> QED BY <1>1, FS_Subset

LEMMA WriteKeyed == ASSUME Keyed, [Write]_tables PROVE Keyed'
<1>1. ASSUME NEW n \in Nodes, InsertNode(n) PROVE Keyed'
  BY <1>1, CascadeKeyed DEF InsertNode, Keyed
<1>2. ASSUME NEW n \in Nodes, DeleteDocument(n) PROVE Keyed'
  <2>1. DOMAIN docs' \subseteq DOMAIN docs
    BY <1>2 DEF DeleteDocument, Restrict
  <2>2. IsFiniteSet(DOMAIN docs')
    BY <2>1, FS_Subset DEF Keyed
  <2> QED BY <1>2, <2>2 DEF DeleteDocument, Keyed
<1>3. ASSUME NEW n \in Nodes, NEW t \in Texts, Upsert(n, t) PROVE Keyed'
  <2>1. DOMAIN docs' \subseteq DOMAIN docs \cup {n}
    BY <1>3 DEF Upsert
  <2>2. IsFiniteSet(DOMAIN docs \cup {n})
    BY FS_AddElement DEF Keyed
  <2>3. IsFiniteSet(DOMAIN docs')
    BY <2>1, <2>2, FS_Subset
  <2> QED BY <1>3, <2>3 DEF Upsert, Keyed
<1>4. ASSUME NEW e \in Links, InsertEdge(e) PROVE Keyed'
  <2>1. IsFiniteSet(edges \cup {e})
    BY FS_AddElement DEF Keyed
  <2> QED BY <1>4, <2>1 DEF InsertEdge, Keyed
<1>5. CASE DeleteAllEdges
  BY <1>5, FS_EmptySet DEF DeleteAllEdges, Keyed
<1>6. CASE DeleteAllNodes
  BY <1>6, CascadeKeyed DEF DeleteAllNodes, Keyed
<1>7. CASE DeleteAllStops
  BY <1>7 DEF DeleteAllStops, Keyed
<1>8. ASSUME NEW b \in Builds, SaveFullBuild(b) PROVE Keyed'
  <2>1. b.nodes \subseteq Nodes /\ IsFiniteSet(b.edges) /\ IsFiniteSet(DOMAIN b.docs)
    BY StoreAssumption
  <2>2. DOMAIN docs' = DOMAIN b.docs
    BY <1>8 DEF SaveFullBuild, Written
  <2> QED BY <1>8, <2>1, <2>2 DEF SaveFullBuild, Referential, Keyed
<1>9. ASSUME NEW b \in Builds, SaveGraph(b) PROVE Keyed'
  <2>1. b.nodes \subseteq Nodes /\ IsFiniteSet(b.edges)
    BY StoreAssumption
  <2> QED BY <1>9, <2>1, CascadeKeyed DEF SaveGraph, Referential, Keyed
<1>10. CASE Migrate
  BY <1>10, FS_EmptySet DEF Migrate, Keyed, NoDocs
<1>11. CASE UNCHANGED tables
  BY <1>11 DEF tables, Keyed
<1> QED
  BY <1>1, <1>2, <1>3, <1>4, <1>5, <1>6, <1>7, <1>8, <1>9, <1>10, <1>11 DEF Write

LEMMA NextKeyed == ASSUME Keyed, [Next]_vars PROVE Keyed'
<1>1. [Write]_tables
  BY DEF Next, vars
<1> QED BY <1>1, WriteKeyed

LEMMA InitCalling == InitReader => Calling /\ LoadInv
BY DEF InitReader, Calling, LoadInv, Empty, EndsIn, ContextSteps

LEMMA NextCalling == ASSUME Calling, [Next]_vars PROVE Calling'
<1>1. ASSUME NEW c \in Calls, Begin(c) PROVE Calling'
  BY <1>1 DEF Begin, Turn, Calling, RelatedSteps, ContextSteps
<1>2. CASE ExactNodeID \/ ExactDocPath \/ ExactNodePath \/ TopHit
  BY <1>2 DEF ExactNodeID, ExactDocPath, ExactNodePath, TopHit, Found, Ask, Turn, First,
              Calling, RelatedSteps, ContextSteps
<1>3. CASE LoadNodes \/ LoadEdges \/ Target
  BY <1>3 DEF LoadNodes, LoadEdges, Target, Go, Ask, Turn, Calling, RelatedSteps, ContextSteps
<1>4. CASE Explicit \/ Scope \/ Lexical
  BY <1>4 DEF Explicit, Scope, Lexical, Gather, Ask, Turn, Calling, RelatedSteps, ContextSteps
<1>5. CASE End
  BY <1>5 DEF End, Go, Ask, Turn, Calling
<1>6. ASSUME Write,
             IF pc = "idle" THEN UNCHANGED commits
             ELSE commits < MaxCommits /\ commits' = commits + 1,
             UNCHANGED <<call, pc, source, items, loaded>>
      PROVE  Calling'
  BY <1>6 DEF Calling
<1>7. CASE UNCHANGED vars
  BY <1>7 DEF vars, reader, Calling
<1> QED BY <1>1, <1>2, <1>3, <1>4, <1>5, <1>6, <1>7 DEF Next, Read

LEMMA NextLoad == ASSUME Keyed, Calling, LoadInv, [Next]_vars PROVE LoadInv'
<1> USE DEF LoadInv, EndsIn
<1>1. ASSUME NEW c \in Calls, Begin(c), UNCHANGED tables PROVE LoadInv'
  BY <1>1 DEF Begin, Turn, ContextSteps
<1>2. ASSUME ExactNodeID \/ ExactDocPath \/ ExactNodePath \/ TopHit, UNCHANGED tables
      PROVE  LoadInv'
  BY <1>2 DEF ExactNodeID, ExactDocPath, ExactNodePath, TopHit, Found, Ask, Turn, First,
              tables, ContextSteps
<1>3. ASSUME LoadNodes, UNCHANGED tables PROVE LoadInv'
  BY <1>3 DEF LoadNodes, Go, Ask, Turn, tables, Keyed
<1>4. ASSUME LoadEdges, UNCHANGED tables PROVE LoadInv'
  BY <1>4 DEF LoadEdges, Ask, Turn, tables, Keyed, ContextSteps
<1>5. ASSUME Target, UNCHANGED tables PROVE LoadInv'
  BY <1>5 DEF Target, Go, Ask, Turn, tables, ContextSteps
<1>6. ASSUME Explicit \/ Scope \/ Lexical, UNCHANGED tables PROVE LoadInv'
  BY <1>6 DEF Explicit, Scope, Lexical, Gather, Ask, Turn, Calling, ContextSteps
<1>7. CASE End
  BY <1>7 DEF End, Go, Ask, Turn, ContextSteps, Empty
<1>8. ASSUME Write,
             IF pc = "idle" THEN UNCHANGED commits
             ELSE commits < MaxCommits /\ commits' = commits + 1,
             UNCHANGED <<call, pc, source, items, loaded>>
      PROVE  LoadInv'
  BY <1>8 DEF Calling, ContextSteps
<1>9. CASE UNCHANGED vars
  BY <1>9 DEF vars, reader, tables
<1> QED BY <1>1, <1>2, <1>3, <1>4, <1>5, <1>6, <1>7, <1>8, <1>9 DEF Next, Read

LEMMA LoadIsNear == ASSUME Keyed, Calling, LoadInv PROVE NeighbourhoodExact
<1> SUFFICES ASSUME pc = "done", call.op = "context", source # None
             PROVE  LET sub == Subgraph(loaded, source, call.limit)
                        near == Within(loaded, source, call.limit)
                    IN  /\ source \in loaded.nodes
                        /\ sub.nodes = near \cap loaded.nodes
                        /\ sub.edges = {e \in loaded.edges : {e.from, e.to} \subseteq near}
                        /\ commits = 0 => \A e \in sub.edges : {e.from, e.to} \subseteq sub.nodes
  BY DEF NeighbourhoodExact
<1>1. source \in loaded.nodes /\ source \in Nodes
  BY DEF LoadInv
<1>2. call.limit \in Nat
  BY ReadersAssumption DEF Calling
<1>3. Walk(loaded, source, call.limit) = Within(loaded, source, call.limit)
  BY <1>1, <1>2, WalkIs DEF LoadInv
<1>4. commits = 0 => \A e \in loaded.edges : {e.from, e.to} \subseteq loaded.nodes
  BY DEF LoadInv, ContextSteps, Keyed
<1> QED BY <1>1, <1>3, <1>4 DEF Subgraph

\* What `context` shows is what lies within the asked number of edges, whether
\* or not a commit came between the two queries of the load (persist.go:343-357,
\* graph.go:98-141); only where none came is it known to have both ends of its edges.
THEOREM NeighbourhoodsExact == ReadersSpec => []NeighbourhoodExact
<1>1. InitReader => Keyed
  BY InitKeyed DEF InitReader
<1> QED BY <1>1, InitCalling, NextKeyed, NextCalling, NextLoad, LoadIsNear, PTL DEF ReadersSpec

-----------------------------------------------------------------------------
(***************************************************************************)
(* The list that AppendUnique adds to, row by row.                         *)
(***************************************************************************)
Item == [id : Nodes, reason : {"explicit_edge", "same_scope", "lexical_match"}]

Grow(acc, n, reason) ==
  IF Len(acc) >= call.limit \/ n \in {source} \cup Ids(acc) THEN acc
  ELSE Append(acc, [id |-> n, reason |-> reason])

Rec(out, rows, reason, D, g) ==
  g = [s \in SUBSET D |->
         IF s = {} THEN out ELSE Grow(g[s \ {Max(s)}], rows[Max(s)], reason)]

LEMMA FoldIs ==
  ASSUME NEW out, NEW rows, NEW reason
  PROVE  AppendUnique(out, rows, reason)
           = (CHOOSE g : Rec(out, rows, reason, DOMAIN rows, g))[DOMAIN rows]
BY Zenon DEF AppendUnique, FoldLeft, MapThenFoldSet, Rec, Grow

LEMMA MaxOfFirst ==
  ASSUME NEW m \in Nat, NEW s \in SUBSET (1 .. m), m \in s
  PROVE  Max(s) = m
<1>1. \A y \in s : m >= y
  OBVIOUS
<1>2. \A x \in s : (\A y \in s : x >= y) => x = m
  OBVIOUS
<1> QED BY <1>1, <1>2, Zenon DEF Max

LEMMA RecExists ==
  ASSUME NEW out, NEW rows, NEW reason, NEW n \in Nat
  PROVE  \E g : Rec(out, rows, reason, 1 .. n, g)
<1> DEFINE bad == {m \in 0 .. n : ~ \E g : Rec(out, rows, reason, 1 .. m, g)}
<1>1. SUFFICES ASSUME bad # {} PROVE FALSE
  OBVIOUS
<1>2. PICK m \in bad : \A i \in bad : m <= i
  <2>1. bad \in SUBSET Nat
    OBVIOUS
  <2> HIDE DEF bad
  <2> QED BY <1>1, <2>1, Least
<1>3. m # 0
  <2>1. Rec(out, rows, reason, 1 .. 0, [s \in SUBSET (1 .. 0) |-> out])
    BY DEF Rec
  <2> QED BY <2>1
<1>4. m \in Nat /\ m - 1 \in Nat /\ m - 1 \in 0 .. n /\ ~ (m <= m - 1)
  BY <1>3
<1>5. PICK g : Rec(out, rows, reason, 1 .. m - 1, g)
  BY <1>2, <1>4
<1> DEFINE h == [s \in SUBSET (1 .. m) |->
                   IF m \in s THEN Grow(g[s \ {m}], rows[m], reason) ELSE g[s]]
<1>6. ASSUME NEW s \in SUBSET (1 .. m), m \notin s
      PROVE  s \in SUBSET (1 .. m - 1) /\ h[s] = g[s]
  <2>1. s \in SUBSET (1 .. m - 1)
    BY <1>4, <1>6
  <2> QED BY <1>6, <2>1
<1>7. ASSUME NEW s \in SUBSET (1 .. m)
      PROVE  h[s] = IF s = {} THEN out ELSE Grow(h[s \ {Max(s)}], rows[Max(s)], reason)
  <2>1. CASE m \in s
    <3>1. Max(s) = m
      BY <1>4, <2>1, MaxOfFirst
    <3>2. h[s \ {m}] = g[s \ {m}]
      BY <1>6
    <3>3. h[s] = Grow(g[s \ {m}], rows[m], reason)
      BY <2>1
    <3> HIDE DEF h
    <3> QED BY <2>1, <3>1, <3>2, <3>3
  <2>2. CASE m \notin s
    <3>1. s \in SUBSET (1 .. m - 1) /\ h[s] = g[s]
      BY <1>6, <2>2
    <3>2. h[s \ {Max(s)}] = g[s \ {Max(s)}]
      BY <1>6, <2>2
    <3>3. g[s] = IF s = {} THEN out ELSE Grow(g[s \ {Max(s)}], rows[Max(s)], reason)
      BY <1>5, <3>1, Zenon DEF Rec
    <3> HIDE DEF h
    <3> QED BY <3>1, <3>2, <3>3
  <2> QED BY <2>1, <2>2
<1>8. h = [s \in SUBSET (1 .. m) |-> h[s]]
  OBVIOUS
<1>9. Rec(out, rows, reason, 1 .. m, h)
  <2> HIDE DEF h
  <2> QED BY <1>7, <1>8, Zenon DEF Rec
<1> HIDE DEF h
<1> QED BY <1>9

\* F[k] is the list after the first k rows.
Steps(out, rows, reason, n, F) ==
  /\ F[0] = out /\ AppendUnique(out, rows, reason) = F[n]
  /\ \A k \in 1 .. n : F[k] = Grow(F[k - 1], rows[k], reason)

LEMMA FoldSteps ==
  ASSUME NEW out, NEW rows, NEW reason, NEW n \in Nat, DOMAIN rows = 1 .. n
  PROVE  \E F : Steps(out, rows, reason, n, F)
<1> DEFINE g == CHOOSE f : Rec(out, rows, reason, 1 .. n, f)
           F == [k \in 0 .. n |-> g[1 .. k]]
<1>1. Rec(out, rows, reason, 1 .. n, g)
  BY RecExists
<1>2. AppendUnique(out, rows, reason) = g[1 .. n]
  BY FoldIs
<1> HIDE DEF g
<1>3. ASSUME NEW s \in SUBSET (1 .. n)
      PROVE  g[s] = IF s = {} THEN out ELSE Grow(g[s \ {Max(s)}], rows[Max(s)], reason)
  BY <1>1, Zenon DEF Rec
<1>4. F[0] = out
  <2>1. 1 .. 0 = {} /\ F[0] = g[1 .. 0]
    OBVIOUS
  <2>2. g[{}] = out
    BY <1>3
  <2> HIDE DEF F
  <2> QED BY <2>1, <2>2
<1>5. ASSUME NEW k \in 1 .. n PROVE F[k] = Grow(F[k - 1], rows[k], reason)
  <2>1. 1 .. k \in SUBSET (1 .. n) /\ 1 .. k # {} /\ k \in Nat /\ k \in 1 .. k
    OBVIOUS
  <2>2. Max(1 .. k) = k
    BY <2>1, MaxOfFirst
  <2>3. (1 .. k) \ {k} = 1 .. k - 1
    OBVIOUS
  <2>4. F[k] = g[1 .. k] /\ F[k - 1] = g[1 .. k - 1]
    OBVIOUS
  <2> HIDE DEF F
  <2> QED BY <1>3, <2>1, <2>2, <2>3, <2>4
<1>6. AppendUnique(out, rows, reason) = F[n]
  BY <1>2
<1> HIDE DEF F
<1>7. Steps(out, rows, reason, n, F)
  BY <1>4, <1>5, <1>6 DEF Steps
<1> QED BY <1>7

\* A list of nodes, each once, the source not among them, within the limit.
Unique(list) ==
  /\ list \in Seq(Item) /\ Len(list) <= call.limit
  /\ \A i, j \in 1 .. Len(list) : i # j => list[i].id # list[j].id
  /\ source \notin Ids(list)

\* r is out with the new ones among the first k rows, or as many as there is
\* room for.
Extended(out, r, rows, k, reason) ==
  /\ Unique(r)
  /\ Len(out) <= Len(r)
  /\ \A i \in 1 .. Len(out) : r[i] = out[i]
  /\ \A i \in Len(out) + 1 .. Len(r) :
       r[i].reason = reason /\ \E j \in 1 .. k : r[i].id = rows[j]
  /\ Len(r) < call.limit => \A j \in 1 .. k : rows[j] \in {source} \cup Ids(r)

LEMMA GrowStep ==
  ASSUME call.limit \in Nat, NEW out \in Seq(Item), NEW rows, NEW n \in Nat,
         NEW reason \in {"explicit_edge", "same_scope", "lexical_match"},
         NEW k \in 1 .. n, rows[k] \in Nodes,
         NEW r, Extended(out, r, rows, k - 1, reason)
  PROVE  Extended(out, Grow(r, rows[k], reason), rows, k, reason)
<1> DEFINE item == [id |-> rows[k], reason |-> reason]
<1>1. r \in Seq(Item) /\ Len(r) \in Nat /\ DOMAIN r = 1 .. Len(r) /\ Len(out) \in Nat
  BY DEF Extended, Unique
<1>2. \A j \in 1 .. k - 1 : j \in 1 .. k
  OBVIOUS
<1>3. CASE Len(r) >= call.limit
  <2>1. Grow(r, rows[k], reason) = r
    BY <1>3, Zenon DEF Grow
  <2>2. \A l, m \in Nat : l >= m => ~ (l < m)
    OBVIOUS
  <2>3. ~ (Len(r) < call.limit)
    BY <1>1, <1>3, <2>2
  <2> QED BY <1>2, <2>1, <2>3 DEF Extended
<1>4. CASE ~ (Len(r) >= call.limit) /\ rows[k] \in {source} \cup Ids(r)
  <2>1. Grow(r, rows[k], reason) = r
    BY <1>4 DEF Grow
  <2>2. \A j \in 1 .. k : j = k \/ j \in 1 .. k - 1
    OBVIOUS
  <2>3. Len(r) < call.limit => \A j \in 1 .. k : rows[j] \in {source} \cup Ids(r)
    BY <1>4, <2>2 DEF Extended
  <2> QED BY <1>2, <2>1, <2>3 DEF Extended
<1>5. CASE ~ (Len(r) >= call.limit) /\ rows[k] \notin {source} \cup Ids(r)
  <2> DEFINE q == Append(r, item)
  <2>1. Grow(r, rows[k], reason) = q
    BY <1>5 DEF Grow
  <2>2. item \in Item
    BY DEF Item
  <2>3. /\ q \in Seq(Item) /\ Len(q) = Len(r) + 1 /\ DOMAIN q = 1 .. Len(r) + 1
        /\ q[Len(r) + 1] = item /\ \A i \in 1 .. Len(r) : q[i] = r[i]
    BY <1>1, <2>2
  <2> HIDE DEF q
  <2>4. \A i \in 1 .. Len(q) : i = Len(r) + 1 \/ i \in 1 .. Len(r)
    BY <1>1, <2>3
  <2>5. \A i \in 1 .. Len(r) : r[i].id \in Ids(r)
    BY <1>1 DEF Ids
  <2>6. Ids(q) = Ids(r) \cup {rows[k]}
    <3>1. \A i \in 1 .. Len(r) : i \in 1 .. Len(q)
      BY <1>1, <2>3
    <3>2. Len(r) + 1 \in 1 .. Len(q)
      BY <1>1, <2>3
    <3> QED BY <1>1, <2>3, <2>4, <3>1, <3>2, SMTT(60) DEF Ids
  <2>7. Unique(q)
    <3>1. Len(q) <= call.limit
      BY <1>1, <1>5, <2>3
    <3>2. source \notin Ids(q)
      BY <1>5, <2>6 DEF Extended, Unique
    <3>3. ASSUME NEW i \in 1 .. Len(q), NEW j \in 1 .. Len(q), i # j
          PROVE  q[i].id # q[j].id
      <4>1. CASE i \in 1 .. Len(r) /\ j \in 1 .. Len(r)
        BY <2>3, <3>3, <4>1, SMTT(120) DEF Extended, Unique
      <4>2. CASE i = Len(r) + 1 /\ j \in 1 .. Len(r)
        BY <1>5, <2>3, <2>5, <4>2
      <4>3. CASE j = Len(r) + 1 /\ i \in 1 .. Len(r)
        BY <1>5, <2>3, <2>5, <4>3
      <4> QED BY <2>4, <3>3, <4>1, <4>2, <4>3
    <3> QED BY <2>3, <3>1, <3>2, <3>3 DEF Unique
  <2>8. Len(out) <= Len(q) /\ \A i \in 1 .. Len(out) : q[i] = out[i]
    BY <1>1, <2>3 DEF Extended
  <2>9. ASSUME NEW i \in Len(out) + 1 .. Len(q)
        PROVE  q[i].reason = reason /\ \E j \in 1 .. k : q[i].id = rows[j]
    <3>1. CASE i = Len(r) + 1
      BY <2>3, <3>1, SMTT(120)
    <3>2. CASE i # Len(r) + 1
      <4>1. i \in Len(out) + 1 .. Len(r) /\ i \in 1 .. Len(r)
        BY <1>1, <2>3, <3>2
      <4> QED BY <1>2, <2>3, <4>1, SMTT(120) DEF Extended
    <3> QED BY <3>1, <3>2
  <2>10. Len(q) < call.limit => \A j \in 1 .. k : rows[j] \in {source} \cup Ids(q)
    <3>1. \A j \in 1 .. k : j = k \/ j \in 1 .. k - 1
      OBVIOUS
    <3>2. Len(r) < call.limit
      BY <1>1, <1>5
    <3> QED BY <2>6, <3>1, <3>2 DEF Extended
  <2> QED BY <2>1, <2>7, <2>8, <2>9, <2>10 DEF Extended
<1> QED BY <1>3, <1>4, <1>5

LEMMA Appended ==
  ASSUME call.limit \in Nat, NEW out, Unique(out), NEW n \in Nat, NEW rows \in [1 .. n -> Nodes],
         NEW reason \in {"explicit_edge", "same_scope", "lexical_match"}
  PROVE  Extended(out, AppendUnique(out, rows, reason), rows, n, reason)
<1>0. PICK F : Steps(out, rows, reason, n, F)
  <2>1. DOMAIN rows = 1 .. n
    OBVIOUS
  <2> QED BY <2>1, FoldSteps
<1>1. /\ F[0] = out /\ AppendUnique(out, rows, reason) = F[n]
      /\ \A k \in 1 .. n : F[k] = Grow(F[k - 1], rows[k], reason)
  BY <1>0 DEF Steps
<1> DEFINE bad == {k \in 0 .. n : ~ Extended(out, F[k], rows, k, reason)}
<1>2. SUFFICES ASSUME bad # {} PROVE FALSE
  BY <1>1
<1>3. PICK m \in bad : \A i \in bad : m <= i
  <2>1. bad \in SUBSET Nat
    OBVIOUS
  <2> HIDE DEF bad
  <2> QED BY <1>2, <2>1, Least
<1>4. m # 0
  <2>1. Len(out) \in Nat
    BY DEF Unique
  <2>2. Extended(out, out, rows, 0, reason)
    BY <2>1 DEF Extended
  <2> QED BY <1>1, <2>2
<1>5. m - 1 \in 0 .. n /\ m \in 1 .. n /\ ~ (m <= m - 1)
  BY <1>4
<1>6. Extended(out, F[m - 1], rows, m - 1, reason)
  BY <1>3, <1>5
<1>7. F[m] = Grow(F[m - 1], rows[m], reason) /\ rows[m] \in Nodes
  BY <1>1, <1>5
<1>8. Extended(out, F[m], rows, m, reason)
  BY <1>5, <1>6, <1>7, GrowStep, ZenonT(60) DEF Unique
<1> QED BY <1>8

-----------------------------------------------------------------------------
(***************************************************************************)
(* The three queries of a `related` call.                                  *)
(***************************************************************************)
LEMMA OrderOf ==
  ASSUME NEW S, IsFiniteSet(S), NEW rows \in SetToSeqs(S)
  PROVE  \E n \in Nat : rows \in [1 .. n -> S] /\ \A x \in S : \E i \in 1 .. n : rows[i] = x
<1> DEFINE n == Cardinality(S)
<1>1. n \in Nat
  BY FS_CardinalityType
<1>2. rows \in [1 .. n -> S] /\ \A i, j \in 1 .. n : i # j => rows[i] # rows[j]
  BY DEF SetToSeqs
<1>3. rows \in Injection(1 .. n, S)
  BY <1>2 DEF Injection, IsInjective
<1>4. IsFiniteSet(1 .. n) /\ Cardinality(1 .. n) = n
  <2>1. IsFiniteSet(1 .. n) /\ Cardinality(1 .. n) = IF 1 <= n THEN n - 1 + 1 ELSE 0
    BY <1>1, FS_Interval, SMTT(60)
  <2>2. n - 1 + 1 = n /\ (~ (1 <= n) => n = 0)
    BY <1>1
  <2> HIDE DEF n
  <2> QED BY <2>1, <2>2
<1>5. rows \in Surjection(1 .. n, S)
  BY <1>3, <1>4, FS_Injection
<1>6. \A x \in S : \E i \in 1 .. n : rows[i] = x
  BY <1>5 DEF Surjection
<1> HIDE DEF n
<1> QED BY <1>1, <1>2, <1>6

LEMMA RowsFinite == ASSUME Keyed PROVE IsFiniteSet(ExplicitRows) /\ IsFiniteSet(ScopeRows)
<1> DEFINE out == {x \in edges : x.from = source /\ x.src = "explicit"}
           in == {x \in edges : x.to = source /\ x.src = "explicit"}
           ends == {<<e, e.to>> : e \in out}
           starts == {<<e, e.from, "in">> : e \in in}
<1>1. IsFiniteSet(out) /\ IsFiniteSet(in)
  BY FS_Subset DEF Keyed
<1>2. [e \in out |-> <<e, e.to>>] \in Surjection(out, ends)
  BY DEF Surjection
<1>3. [e \in in |-> <<e, e.from, "in">>] \in Surjection(in, starts)
  BY DEF Surjection
<1>4. IsFiniteSet(ends) /\ IsFiniteSet(starts)
  BY <1>1, <1>2, <1>3, FS_Surjection
<1>5. IsFiniteSet(ends \cup starts)
  <2> HIDE DEF ends, starts
  <2> QED BY <1>4, FS_Union
<1>6. ExplicitRows = ends \cup starts
  BY DEF ExplicitRows
<1>7. ScopeRows \subseteq DOMAIN docs
  BY DEF ScopeRows
<1> QED BY <1>5, <1>6, <1>7, FS_Subset DEF Keyed

\* The reasons that have been looked for when a query is next.
Reasons(step) ==
  CASE step = "scope" -> {"explicit_edge"}
    [] step = "lexical" -> {"explicit_edge", "same_scope"}
    [] step = "done" -> {"explicit_edge", "same_scope", "lexical_match"}
    [] OTHER -> {}

Resolving == {"exact_id", "doc_path", "node_path", "top_hit"}

Ordered == \A i, j \in 1 .. Len(items) : i < j => Rank(items[i].reason) <= Rank(items[j].reason)

AllJoined == Asks("explicit") => Joined \ {source} \subseteq Ids(items)
AllOfScope == Asks("structural") => SameScope \ {source} \subseteq Ids(items)

\* Where nothing was committed: a query is done when its rows are all listed.
Best ==
  /\ \A i \in 1 .. Len(items) : items[i].reason = Strongest(items[i].id)
  /\ pc \in {"scope", "lexical"} \/ (pc = "done" /\ Len(items) < call.limit) => AllJoined
  /\ pc = "lexical" \/ (pc = "done" /\ Len(items) < call.limit) => AllOfScope

RelatedInv ==
  /\ pc = "idle" => source = None /\ items = <<>>
  /\ pc # "idle" /\ call.op = "related" =>
       /\ pc \in Resolving => source = None
       /\ Unique(items)
       /\ \A i \in 1 .. Len(items) : items[i].reason \in Reasons(pc)
       /\ Ordered
       /\ commits = 0 /\ source # None => Best

\* What is read is the same in the next state.
LEMMA SameView ==
  ASSUME UNCHANGED <<call, source, edges, docs>>
  PROVE  /\ Joined' = Joined /\ SameScope' = SameScope
         /\ \A n : Strongest(n)' = Strongest(n)
         /\ \A mode : Asks(mode)' = Asks(mode)
BY DEF Joined, SameScope, Strongest, Asks

\* A query's rows come after those that are there, with a weaker reason.
Listed(R) ==
  Unique(items) /\ Ordered /\ \A i \in 1 .. Len(items) : items[i].reason \in R

Weakest(reason, R) == \A x \in R : Rank(x) <= Rank(reason)

Gathered(R, reason, rows, n) ==
  /\ Unique(items)' /\ Ordered'
  /\ \A i \in 1 .. Len(items') : items'[i].reason \in R \cup {reason}
  /\ Ids(items) \subseteq Ids(items')
  /\ \A i \in 1 .. Len(items') :
       \/ i \in 1 .. Len(items) /\ items'[i] = items[i]
       \/ items'[i].reason = reason /\ items'[i].id \notin Ids(items) \cup {source}
          /\ \E j \in 1 .. n : items'[i].id = rows[j]
  /\ Len(items) <= Len(items')

LEMMA GatherKeeps ==
  ASSUME UNCHANGED <<call, source>>, NEW R, NEW reason, NEW rows, NEW n,
         Extended(items, items', rows, n, reason), Listed(R), Weakest(reason, R)
  PROVE  Gathered(R, reason, rows, n)
<1>0. Unique(items) /\ Ordered /\ \A i \in 1 .. Len(items) : items[i].reason \in R
  BY DEF Listed
<1>1. /\ Len(items) \in Nat /\ Len(items') \in Nat /\ Len(items) <= Len(items')
      /\ DOMAIN items = 1 .. Len(items) /\ DOMAIN items' = 1 .. Len(items')
  BY <1>0 DEF Unique, Extended
<1>2. Unique(items)'
  BY DEF Extended, Unique, Ids
<1>3. \A i \in 1 .. Len(items') : i \in 1 .. Len(items) \/ i \in Len(items) + 1 .. Len(items')
  BY <1>1
<1>4. \A i \in 1 .. Len(items) : items'[i] = items[i] /\ i \in 1 .. Len(items')
  BY <1>1 DEF Extended
<1>5. \A i \in Len(items) + 1 .. Len(items') :
        items'[i].reason = reason /\ \E j \in 1 .. n : items'[i].id = rows[j]
  BY DEF Extended
<1>6. Ids(items) \subseteq Ids(items')
  BY <1>1, <1>4 DEF Ids
<1>7. ASSUME NEW i \in Len(items) + 1 .. Len(items') PROVE items'[i].id \notin Ids(items) \cup {source}
  <2>1. i \in 1 .. Len(items') /\ \A j \in 1 .. Len(items) : j # i
    BY <1>1
  <2>2. items'[i].id # source
    BY <1>1, <2>1 DEF Extended, Unique, Ids
  <2>3. \A j \in 1 .. Len(items) : items'[i].id # items'[j].id
    BY <1>1, <1>4, <2>1 DEF Extended, Unique
  <2> QED BY <1>1, <1>4, <2>2, <2>3 DEF Ids
<1>8. \A i \in 1 .. Len(items') : items'[i].reason \in R \cup {reason}
  BY <1>0, <1>3, <1>4, <1>5
<1>9. Ordered'
  <2> SUFFICES ASSUME NEW i \in 1 .. Len(items'), NEW j \in 1 .. Len(items'), i < j
               PROVE  Rank(items'[i].reason) <= Rank(items'[j].reason)
    BY DEF Ordered, Rank
  <2>1. CASE j \in 1 .. Len(items)
    <3>1. i \in 1 .. Len(items)
      BY <1>1, <2>1
    <3> QED BY <1>0, <1>4, <2>1, <3>1 DEF Ordered
  <2>2. CASE j \in Len(items) + 1 .. Len(items')
    <3>1. items'[j].reason = reason
      BY <1>5, <2>2
    <3>2. Rank(reason) <= Rank(reason)
      BY DEF Rank
    <3> QED BY <1>8, <3>1, <3>2 DEF Weakest
  <2> QED BY <1>3, <2>1, <2>2
<1> QED BY <1>1, <1>2, <1>3, <1>4, <1>5, <1>6, <1>7, <1>8, <1>9 DEF Gathered

LEMMA ExplicitStep ==
  ASSUME Keyed, Calling, RelatedInv, Explicit, UNCHANGED tables, call.op = "related"
  PROVE  RelatedInv'
<1>1. /\ pc = "explicit" /\ call' = call /\ source' = source /\ commits' = commits
      /\ edges' = edges /\ docs' = docs /\ call.limit \in Nat
  BY ReadersAssumption DEF Explicit, Gather, Ask, tables, Calling
<1>2. /\ Unique(items) /\ Ordered /\ \A i \in 1 .. Len(items) : items[i].reason \in {}
  BY <1>1 DEF RelatedInv, Reasons
<1>3. /\ Joined' = Joined /\ \A n : Strongest(n)' = Strongest(n)
      /\ \A mode : Asks(mode)' = Asks(mode)
  BY <1>1, SameView
<1>4. CASE call.mode \notin {"hybrid", "explicit"}
  <2>1. items' = items /\ pc' = "scope"
    BY <1>4 DEF Explicit, Gather, Turn
  <2>2. Unique(items)' /\ Ordered'
    BY <1>1, <1>2, <2>1 DEF Unique, Ordered, Ids, Rank
  <2>3. Best'
    BY <1>1, <1>2, <1>3, <1>4, <2>1 DEF Best, AllJoined, Asks
  <2> QED BY <1>1, <1>2, <2>1, <2>2, <2>3 DEF RelatedInv, Resolving
<1>5. CASE call.mode \in {"hybrid", "explicit"}
  <2>1. PICK found \in SetToSeqs(ExplicitRows) :
          /\ items' = AppendUnique(items, [i \in DOMAIN found |-> found[i][2]], "explicit_edge")
          /\ pc' = IF Len(items') >= call.limit THEN "done" ELSE "scope"
    BY <1>5 DEF Explicit, Gather, Turn
  <2>2. PICK n \in Nat : /\ found \in [1 .. n -> ExplicitRows]
                         /\ \A x \in ExplicitRows : \E i \in 1 .. n : found[i] = x
    <3>1. IsFiniteSet(ExplicitRows)
      BY RowsFinite
    <3> QED BY <3>1, OrderOf
  <2> DEFINE rows == [i \in DOMAIN found |-> found[i][2]]
  <2>3. \A x \in ExplicitRows : x[2] \in Joined
    <3>1. ASSUME NEW e \in edges, e.src = "explicit", e.from = source
          PROVE  e.to \in Joined
      BY <3>1 DEF Joined, Keyed
    <3>2. ASSUME NEW e \in edges, e.src = "explicit", e.to = source
          PROVE  e.from \in Joined
      BY <3>2 DEF Joined, Keyed
    <3> QED BY <3>1, <3>2 DEF ExplicitRows
  <2>4. rows \in [1 .. n -> Joined] /\ \A i \in 1 .. n : rows[i] = found[i][2]
    BY <2>2, <2>3
  <2>5. Joined \subseteq Nodes
    BY DEF Joined
  <2> HIDE DEF rows
  <2>6. rows \in [1 .. n -> Nodes]
    BY <2>4, <2>5
  <2>7. items' = AppendUnique(items, rows, "explicit_edge")
    BY <2>1 DEF rows
  <2>8. Extended(items, items', rows, n, "explicit_edge")
    BY <1>1, <1>2, <2>6, <2>7, Appended
  <2>9. /\ Unique(items)' /\ Ordered'
        /\ \A i \in 1 .. Len(items') : items'[i].reason \in {} \cup {"explicit_edge"}
        /\ \A i \in 1 .. Len(items') :
             \/ i \in 1 .. Len(items) /\ items'[i] = items[i]
             \/ items'[i].reason = "explicit_edge" /\ \E j \in 1 .. n : items'[i].id = rows[j]
    <3>1. Listed({}) /\ Weakest("explicit_edge", {})
      BY <1>2 DEF Listed, Weakest
    <3>2. Gathered({}, "explicit_edge", rows, n)
      BY <1>1, <2>8, <3>1, GatherKeeps
    <3> QED BY <3>2 DEF Gathered
  <2>10. pc' \in {"scope", "done"} /\ (pc' = "scope" => ~ (Len(items') >= call.limit))
    BY <2>1
  <2>11. Len(items') < call.limit => AllJoined'
    <3> SUFFICES ASSUME Len(items') < call.limit, NEW m \in Joined, m # source
                 PROVE  m \in Ids(items')
      BY <1>1, <1>3 DEF AllJoined, Ids
    <3>1. PICK e \in edges : e.src = "explicit" /\ {e.from, e.to} = {source, m}
      BY DEF Joined
    <3>2. \E x \in ExplicitRows : x[2] = m
      <4>1. CASE e.from = source /\ e.to = m
        <5>1. <<e, e.to>> \in ExplicitRows /\ <<e, e.to>>[2] = m
          BY <3>1, <4>1 DEF ExplicitRows
        <5> QED BY <5>1
      <4>2. CASE e.to = source /\ e.from = m
        <5>1. <<e, e.from, "in">> \in ExplicitRows /\ <<e, e.from, "in">>[2] = m
          BY <3>1, <4>2 DEF ExplicitRows
        <5> QED BY <5>1
      <4> QED BY <3>1, <4>1, <4>2
    <3>3. PICK i \in 1 .. n : rows[i] = m
      BY <2>2, <2>4, <3>2
    <3> QED BY <2>8, <3>3 DEF Extended
  <2>12. Len(items') \in Nat
    BY <2>8 DEF Extended, Unique
  <2>13. Best'
    <3>1. ASSUME NEW i \in 1 .. Len(items') PROVE items'[i].reason = Strongest(items'[i].id)
      <4>1. items'[i].reason = "explicit_edge" /\ items'[i].id \in Joined
        BY <1>2, <2>4, <2>9
      <4> QED BY <1>5, <4>1 DEF Strongest, Asks
    <3>2. pc' = "scope" => Len(items') < call.limit
      BY <1>1, <2>10, <2>12
    <3>3. ~ (pc' = "lexical") /\ (pc' = "done" /\ Len(items') < call.limit => AllOfScope')
      <4>1. pc' = "done" => Len(items') >= call.limit
        BY <2>1
      <4> QED BY <1>1, <2>10, <2>12, <4>1
    <3> QED BY <1>1, <1>3, <2>10, <2>11, <3>1, <3>2, <3>3 DEF Best
  <2>14. \A i \in 1 .. Len(items') : items'[i].reason \in Reasons(pc')
    BY <2>9, <2>10 DEF Reasons
  <2> QED BY <1>1, <2>9, <2>10, <2>13, <2>14 DEF RelatedInv, Resolving
<1> QED BY <1>4, <1>5

LEMMA ScopeStep ==
  ASSUME SInv, Keyed, Calling, RelatedInv, Scope, UNCHANGED tables, call.op = "related"
  PROVE  RelatedInv'
<1>1. /\ pc = "scope" /\ call' = call /\ source' = source /\ commits' = commits
      /\ edges' = edges /\ docs' = docs /\ call.limit \in Nat
  BY ReadersAssumption DEF Scope, Gather, Ask, tables, Calling
<1>2. Listed({"explicit_edge"}) /\ (commits = 0 /\ source # None => Best)
  BY <1>1 DEF RelatedInv, Reasons, Listed
<1>3. /\ Joined' = Joined /\ SameScope' = SameScope /\ \A n : Strongest(n)' = Strongest(n)
      /\ \A mode : Asks(mode)' = Asks(mode)
  BY <1>1, SameView
<1>4. CASE call.mode \notin {"hybrid", "structural"}
  <2>1. items' = items /\ pc' = "lexical"
    BY <1>4 DEF Scope, Gather, Turn
  <2>2. /\ Unique(items)' /\ Ordered'
        /\ \A i \in 1 .. Len(items') : items'[i].reason \in Reasons(pc')
    BY <1>1, <1>2, <2>1 DEF Listed, Unique, Ordered, Ids, Rank, Reasons
  <2>3. ASSUME commits = 0, source # None PROVE Best'
    BY <1>1, <1>2, <1>3, <1>4, <2>1, <2>3 DEF Best, AllJoined, AllOfScope, Asks, Ids
  <2> QED BY <1>1, <2>1, <2>2, <2>3 DEF RelatedInv, Resolving
<1>5. CASE call.mode \in {"hybrid", "structural"}
  <2>1. PICK rows \in SetToSeqs(ScopeRows) :
          /\ items' = AppendUnique(items, rows, "same_scope")
          /\ pc' = IF Len(items') >= call.limit THEN "done" ELSE "lexical"
    BY <1>5 DEF Scope, Gather, Turn
  <2>2. PICK n \in Nat : /\ rows \in [1 .. n -> ScopeRows]
                         /\ \A x \in ScopeRows : \E i \in 1 .. n : rows[i] = x
    <3>1. IsFiniteSet(ScopeRows)
      BY RowsFinite
    <3> QED BY <3>1, OrderOf
  <2>3. ScopeRows = SameScope \ {source} /\ ScopeRows \subseteq Nodes
    BY DEF ScopeRows, SameScope, SInv, DocsOfNodes, Keyed
  <2>4. Extended(items, items', rows, n, "same_scope")
    <3>1. rows \in [1 .. n -> Nodes]
      BY <2>2, <2>3
    <3>2. Unique(items)
      BY <1>2 DEF Listed
    <3> QED BY <1>1, <2>1, <3>1, <3>2, Appended
  <2>5. Gathered({"explicit_edge"}, "same_scope", rows, n)
    <3>1. Weakest("same_scope", {"explicit_edge"})
      BY DEF Weakest, Rank
    <3> QED BY <1>1, <1>2, <2>4, <3>1, GatherKeeps
  <2>6. /\ pc' \in {"lexical", "done"} /\ Len(items') \in Nat
        /\ pc' = "lexical" \/ (pc' = "done" /\ Len(items') < call.limit)
             => Len(items') < call.limit
    BY <1>1, <2>1, <2>4 DEF Extended, Unique
  <2>7. \A i \in 1 .. Len(items') : items'[i].reason \in Reasons(pc')
    BY <2>5, <2>6 DEF Gathered, Reasons
  <2>8. ASSUME commits = 0, source # None PROVE Best'
    <3>1. AllJoined /\ \A i \in 1 .. Len(items) : items[i].reason = Strongest(items[i].id)
      BY <1>1, <1>2, <2>8 DEF Best
    <3>2. ASSUME NEW i \in 1 .. Len(items') PROVE items'[i].reason = Strongest(items'[i].id)
      <4>1. CASE i \in 1 .. Len(items) /\ items'[i] = items[i]
        BY <3>1, <4>1
      <4>2. CASE /\ items'[i].reason = "same_scope"
                 /\ items'[i].id \notin Ids(items) \cup {source}
                 /\ \E j \in 1 .. n : items'[i].id = rows[j]
        <5>1. items'[i].id \in SameScope
          BY <2>2, <2>3, <4>2
        <5>2. Asks("explicit") => items'[i].id \notin Joined
          BY <3>1, <4>2 DEF AllJoined
        <5> QED BY <1>5, <4>2, <5>1, <5>2 DEF Strongest, Asks
      <4> QED BY <2>5, <4>1, <4>2 DEF Gathered
    <3>3. AllJoined'
      BY <1>1, <1>3, <2>5, <3>1 DEF AllJoined, Gathered
    <3>4. Len(items') < call.limit => AllOfScope'
      <4> SUFFICES ASSUME Len(items') < call.limit, NEW m \in ScopeRows PROVE m \in Ids(items')
        BY <1>1, <1>3, <2>3 DEF AllOfScope, Ids
      <4>1. m # source /\ \E j \in 1 .. n : rows[j] = m
        BY <2>2, <2>3
      <4> QED BY <2>4, <4>1 DEF Extended
    <3> QED BY <1>1, <1>3, <2>6, <3>2, <3>3, <3>4 DEF Best
  <2> QED BY <1>1, <2>5, <2>6, <2>7, <2>8 DEF RelatedInv, Resolving, Gathered
<1> QED BY <1>4, <1>5

LEMMA LexicalStep ==
  ASSUME SInv, Keyed, Calling, RelatedInv, Lexical, UNCHANGED tables, call.op = "related"
  PROVE  RelatedInv'
<1> DEFINE R == {"explicit_edge", "same_scope"}
<1>1. /\ pc = "lexical" /\ call' = call /\ source' = source /\ commits' = commits
      /\ edges' = edges /\ docs' = docs /\ call.limit \in Nat
  BY ReadersAssumption DEF Lexical, Gather, Ask, tables, Calling
<1>2. Listed(R) /\ (commits = 0 /\ source # None => Best)
  BY <1>1 DEF RelatedInv, Reasons, Listed
<1>3. /\ Joined' = Joined /\ SameScope' = SameScope /\ \A n : Strongest(n)' = Strongest(n)
      /\ \A mode : Asks(mode)' = Asks(mode)
  BY <1>1, SameView
<1>4. pc' = "done"
  BY DEF Lexical, Gather, Turn
<1>5. CASE call.mode \notin {"hybrid", "semantic"}
  <2>1. items' = items
    BY <1>5 DEF Lexical, Gather
  <2>2. /\ Unique(items)' /\ Ordered'
        /\ \A i \in 1 .. Len(items') : items'[i].reason \in Reasons(pc')
    BY <1>1, <1>2, <1>4, <2>1 DEF Listed, Unique, Ordered, Ids, Rank, Reasons
  <2>3. ASSUME commits = 0, source # None PROVE Best'
    BY <1>1, <1>2, <1>3, <1>4, <2>1, <2>3 DEF Best, AllJoined, AllOfScope, Ids
  <2> QED BY <1>1, <1>4, <2>2, <2>3 DEF RelatedInv, Resolving
<1>6. CASE call.mode \in {"hybrid", "semantic"}
  <2>1. PICK rows \in LexicalOrders : items' = AppendUnique(items, rows, "lexical_match")
    BY <1>6 DEF Lexical, Gather
  <2>2. PICK best \in SUBSET Hits(Asked[call.query].stem) : rows \in SetToSeqs(best \ {source})
    BY <2>1 DEF LexicalOrders, kSubset
  <2>3. best \ {source} \subseteq DOMAIN docs /\ best \ {source} \subseteq Nodes
    BY DEF Hits, Keyed
  <2>4. PICK n \in Nat : rows \in [1 .. n -> best \ {source}]
    <3>1. IsFiniteSet(best \ {source})
      BY <2>3, FS_Subset DEF Keyed
    <3> QED BY <2>2, <3>1, OrderOf
  <2>5. Extended(items, items', rows, n, "lexical_match")
    <3>1. rows \in [1 .. n -> Nodes]
      BY <2>3, <2>4
    <3>2. Unique(items)
      BY <1>2 DEF Listed
    <3> QED BY <1>1, <2>1, <3>1, <3>2, Appended
  <2>6. Gathered(R, "lexical_match", rows, n)
    <3>1. Weakest("lexical_match", R)
      BY DEF Weakest, Rank
    <3> QED BY <1>1, <1>2, <2>5, <3>1, GatherKeeps
  <2>7. \A i \in 1 .. Len(items') : items'[i].reason \in Reasons(pc')
    BY <1>4, <2>6 DEF Gathered, Reasons
  <2>8. ASSUME commits = 0, source # None PROVE Best'
    <3>1. /\ AllJoined /\ AllOfScope
          /\ \A i \in 1 .. Len(items) : items[i].reason = Strongest(items[i].id)
      BY <1>1, <1>2, <2>8 DEF Best
    <3>2. ASSUME NEW i \in 1 .. Len(items') PROVE items'[i].reason = Strongest(items'[i].id)
      <4>1. CASE i \in 1 .. Len(items) /\ items'[i] = items[i]
        BY <3>1, <4>1
      <4>2. CASE /\ items'[i].reason = "lexical_match"
                 /\ items'[i].id \notin Ids(items) \cup {source}
        BY <3>1, <4>2 DEF Strongest, AllJoined, AllOfScope
      <4> QED BY <2>6, <4>1, <4>2 DEF Gathered
    <3>3. AllJoined' /\ AllOfScope'
      BY <1>1, <1>3, <2>6, <3>1 DEF AllJoined, AllOfScope, Gathered
    <3> QED BY <1>1, <1>3, <3>2, <3>3 DEF Best
  <2> QED BY <1>1, <1>4, <2>6, <2>7, <2>8 DEF RelatedInv, Resolving, Gathered
<1> QED BY <1>5, <1>6

-----------------------------------------------------------------------------
LEMMA NothingListed ==
  ASSUME call.limit \in Nat, items = <<>>
  PROVE  /\ Unique(items) /\ Ordered /\ \A i \in 1 .. Len(items) : FALSE
BY DEF Unique, Ordered, Ids

LEMMA InitRelated == InitReader => RelatedInv
BY DEF InitReader, RelatedInv

LEMMA NextRelated == ASSUME SInv, Keyed, Calling, RelatedInv, [Next]_vars PROVE RelatedInv'
<1>1. ASSUME NEW c \in Calls, Begin(c) PROVE RelatedInv'
  <2>1. /\ items' = <<>> /\ source' = None /\ call' = c /\ c.limit \in Nat
        /\ pc' = IF c.op = "related" THEN "exact_id" ELSE "load_nodes"
    BY <1>1, ReadersAssumption DEF Begin, Turn, RelatedInv
  <2>2. Unique(items)' /\ Ordered' /\ \A i \in 1 .. Len(items') : FALSE
    BY <2>1 DEF Unique, Ordered, Ids
  <2> QED BY <2>1, <2>2 DEF RelatedInv
<1>2. CASE ExactNodeID \/ ExactDocPath \/ ExactNodePath \/ TopHit
  <2>1. /\ pc \in Resolving /\ UNCHANGED <<call, items, commits>>
        /\ call.op = "related" =>
             \/ pc' = "explicit"
             \/ pc' \in Resolving \cup {"done"} /\ source' = source
    BY <1>2 DEF ExactNodeID, ExactDocPath, ExactNodePath, TopHit, Found, Ask, Turn, First, Resolving
  <2>2. pc # "idle"
    BY <2>1 DEF Resolving
  <2>3. pc' # "idle"
    BY <1>2 DEF ExactNodeID, ExactDocPath, ExactNodePath, TopHit, Found, Ask, Turn, First
  <2>4. ASSUME call.op = "related" PROVE RelatedInv'
    <3>1. /\ source = None /\ Unique(items) /\ Ordered
          /\ \A i \in 1 .. Len(items) : items[i].reason \in {}
      BY <2>1, <2>4 DEF RelatedInv, Resolving, Reasons
    <3>2. Len(items) = 0
      BY <3>1 DEF Unique
    <3>3. Unique(items)' /\ Ordered' /\ \A i \in 1 .. Len(items') : FALSE
      BY <2>1, <3>1, <3>2 DEF Unique, Ordered, Ids
    <3>4. source' # None => Best'
      BY <2>1, <2>4, <3>1, <3>3 DEF Best, Resolving
    <3> QED BY <2>1, <2>3, <2>4, <3>1, <3>3, <3>4 DEF RelatedInv, Resolving
  <2> QED BY <2>1, <2>3, <2>4 DEF RelatedInv
<1>3. CASE LoadNodes \/ LoadEdges \/ Target
  BY <1>3 DEF LoadNodes, LoadEdges, Target, Go, Ask, Turn, Calling, RelatedSteps, RelatedInv
<1>4. ASSUME Explicit \/ Scope \/ Lexical, UNCHANGED tables PROVE RelatedInv'
  <2>1. call.op = "related"
    BY <1>4 DEF Explicit, Scope, Lexical, Gather, Ask, Calling, ContextSteps
  <2> QED BY <1>4, <2>1, ExplicitStep, ScopeStep, LexicalStep
<1>5. CASE End
  BY <1>5 DEF End, Go, Ask, Turn, RelatedInv
<1>6. ASSUME Write,
             IF pc = "idle" THEN UNCHANGED commits
             ELSE commits < MaxCommits /\ commits' = commits + 1,
             UNCHANGED <<call, pc, source, items, loaded>>
      PROVE  RelatedInv'
  <2>1. pc # "idle" => commits' # 0
    BY <1>6 DEF Calling
  <2>2. (Unique(items) => Unique(items)') /\ (Ordered => Ordered')
    BY <1>6 DEF Unique, Ordered, Ids, Rank
  <2> QED BY <1>6, <2>1, <2>2 DEF RelatedInv
<1>7. CASE UNCHANGED vars
  <2>1. UNCHANGED <<call, pc, source, items, commits, edges, docs>>
    BY <1>7 DEF vars, reader, tables
  <2>2. (Unique(items) => Unique(items)') /\ (Ordered => Ordered')
    BY <2>1 DEF Unique, Ordered, Ids, Rank
  <2>3. Best => Best'
    BY <2>1, SameView DEF Best, AllJoined, AllOfScope, Ids
  <2> QED BY <2>1, <2>2, <2>3 DEF RelatedInv
<1> QED BY <1>1, <1>2, <1>3, <1>4, <1>5, <1>6, <1>7 DEF Next, Read

LEMMA RelatedIsRanked == ASSUME Calling, RelatedInv PROVE RelatedRanked
<1> SUFFICES ASSUME pc = "done", call.op = "related"
             PROVE  /\ Len(items) <= call.limit /\ source \notin Ids(items)
                    /\ \A i, j \in DOMAIN items : i < j =>
                         /\ items[i].id # items[j].id
                         /\ Rank(items[i].reason) <= Rank(items[j].reason)
                    /\ commits = 0 /\ source # None =>
                         /\ \A i \in DOMAIN items : items[i].reason = Strongest(items[i].id)
                         /\ Len(items) < call.limit =>
                              /\ Asks("explicit") => Joined \ {source} \subseteq Ids(items)
                              /\ Asks("structural") => SameScope \ {source} \subseteq Ids(items)
  BY DEF RelatedRanked
<1>1. Unique(items) /\ Ordered /\ (commits = 0 /\ source # None => Best)
  BY DEF RelatedInv
<1>2. DOMAIN items = 1 .. Len(items) /\ Len(items) \in Nat
  BY <1>1 DEF Unique
<1>3. \A i, j \in 1 .. Len(items) : i < j => i # j
  BY <1>2
<1> QED BY <1>1, <1>2, <1>3 DEF Unique, Ordered, Best, AllJoined, AllOfScope

\* Related items are listed once, never the source, strongest reason first, and
\* where nothing was committed meanwhile with the strongest reason there is
\* and, below the limit, with no joined node or node of the scope left out
\* (related.go:22-31, 52-62).
THEOREM RelatedStaysRanked == ReadersSpec => []RelatedRanked
<1>1. InitReader => SInv /\ Keyed
  BY InitSInv, InitKeyed DEF InitReader
<1>2. ASSUME SInv, [Next]_vars PROVE SInv'
  <2>1. [Write]_tables
    BY <1>2 DEF Next, vars
  <2> QED BY <1>2, <2>1, WriteSInv
<1> QED BY <1>1, <1>2, InitCalling, InitRelated, NextKeyed, NextCalling, NextRelated,
           RelatedIsRanked, PTL DEF ReadersSpec
=============================================================================
