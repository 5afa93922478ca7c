--------------------------------- MODULE Store ---------------------------------
(***************************************************************************)
(* The tables of the graph database and the statements that change them:    *)
(* internal/graph/store.go and persist.go, internal/search/index.go.        *)
(*                                                                         *)
(* search_docs_fts is an external-content table: it keeps what was indexed  *)
(* under a row number, and a deletion removes only what the caller, or for  *)
(* DELETE FROM the content table, says was indexed.  Foreign keys are       *)
(* enforced: an edge and a document need their nodes, and the documents of  *)
(* a deleted node are deleted with it, but not what was indexed for them.   *)
(*                                                                         *)
(* A node is its identifier, a document's columns are the set of words that *)
(* the tokenizer finds in them.  Each action is a committed statement or    *)
(* transaction; one that fails or is cancelled is rolled back.              *)
(***************************************************************************)
EXTENDS Functions, FiniteSets, Integers

CONSTANTS
  Nodes,   \* identifiers of nodes
  Links,   \* edges there may be, a set of [from, to, src]
  Texts,   \* what documents may say, a set of sets of words
  Builds,  \* graphs to save, a set of [nodes, edges, docs, version]
  MaxRow   \* bound on the row numbers handed out

\* What buildSearchDocs and the scanner pass on: documents of nodes.
ASSUME StoreAssumption ==
  /\ MaxRow \in Nat
  /\ \A b \in Builds :
       /\ b.nodes \subseteq Nodes /\ b.edges \subseteq Links /\ IsFiniteSet(b.edges)
       /\ \E ds \in SUBSET b.nodes : IsFiniteSet(ds) /\ b.docs \in [ds -> Texts]

VARIABLES
  nodes,    \* identifiers in the table nodes
  edges,    \* the table edges
  docs,     \* search_docs: node -> [row, text]
  mirror,   \* search_docs_fts: {<<row, text>>}
  last,     \* the highest row number handed out (AUTOINCREMENT)
  version,  \* graph_meta's schema version
  wiping,   \* a DeleteAll has deleted the edges and not yet the nodes
  orphaned  \* history: entries of the mirror whose document a cascade took

tables == <<nodes, edges, docs, mirror, last, version, wiping, orphaned>>

NoDocs == [n \in {} |-> {}]
Entry(n) == <<docs[n].row, docs[n].text>>
Entries(ns) == {Entry(n) : n \in ns}

-----------------------------------------------------------------------------
\* createTablesSQL
Init ==
  /\ nodes = {} /\ edges = {} /\ docs = NoDocs /\ mirror = {} /\ last = 0
  /\ version = "none" /\ wiping = FALSE /\ orphaned = {}

\* Rows of nodes that are deleted or replaced take their documents along.
Cascade(ns) ==
  LET gone == ns \cap DOMAIN docs
  IN  /\ docs' = Restrict(docs, DOMAIN docs \ gone)
      /\ orphaned' = orphaned \cup Entries(gone)

\* INSERT OR REPLACE deletes the old row first.
InsertNode(n) ==
  /\ nodes' = nodes \cup {n}
  /\ Cascade({n})
  /\ UNCHANGED <<edges, mirror, last, version, wiping>>

InsertEdge(e) ==
  /\ {e.from, e.to} \subseteq nodes
  /\ edges' = edges \cup {e}
  /\ UNCHANGED <<nodes, docs, mirror, last, version, wiping, orphaned>>

\* DeleteAll is two statements, each committed by itself.  Where edges were
\* added in between, the second fails.
DeleteAllEdges ==
  /\ ~wiping /\ wiping' = TRUE
  /\ edges' = {}
  /\ UNCHANGED <<nodes, docs, mirror, last, version, orphaned>>

DeleteAllNodes ==
  /\ wiping /\ edges = {}
  /\ wiping' = FALSE
  /\ nodes' = {}
  /\ Cascade(nodes)
  /\ UNCHANGED <<edges, mirror, last, version>>

\* Failed, cancelled or killed.
DeleteAllStops ==
  /\ wiping /\ wiping' = FALSE
  /\ UNCHANGED <<nodes, edges, docs, mirror, last, version, orphaned>>

-----------------------------------------------------------------------------
(* persist.go *)

Referential(b) == \A e \in b.edges : {e.from, e.to} \subseteq b.nodes

\* The documents' row numbers, in the order of Graph.Nodes, which is any.
Rows(b) ==
  Injection(DOMAIN b.docs, last + 1 .. last + Cardinality(DOMAIN b.docs))
Written(b, row) == [n \in DOMAIN b.docs |-> [row |-> row[n], text |-> b.docs[n]]]

\* wipeBuildState: the mirror forgets what search_docs holds at that moment.
WipedLast == mirror \ Entries({})    \* mutant
Wiped == mirror \ Entries(DOMAIN docs)

SaveFullBuild(b) ==
  /\ Referential(b)
  /\ last + Cardinality(DOMAIN b.docs) <= MaxRow
  /\ \E row \in Rows(b) :
       /\ docs' = Written(b, row)
       /\ mirror' = Wiped \cup {<<row[n], b.docs[n]>> : n \in DOMAIN b.docs}
  /\ last' = last + Cardinality(DOMAIN b.docs)
  /\ nodes' = b.nodes /\ edges' = b.edges /\ version' = b.version
  /\ UNCHANGED <<wiping, orphaned>>

SaveGraph(b) ==
  /\ Referential(b)
  /\ Cascade(nodes)
  /\ nodes' = b.nodes /\ edges' = b.edges
  /\ UNCHANGED <<mirror, last, version, wiping>>

\* OpenStore: a build of another schema version is dropped, its row numbers
\* with it.
MigrateButMirror ==                  \* mutant
  /\ version \notin {"none", "current"}
  /\ nodes' = {} /\ edges' = {} /\ docs' = NoDocs
  /\ last' = 0 /\ version' = "none" /\ orphaned' = {}
  /\ UNCHANGED <<mirror, wiping>>
Migrate ==
  /\ version \notin {"none", "current"}
  /\ nodes' = {} /\ edges' = {} /\ docs' = NoDocs /\ mirror' = {}
  /\ last' = 0 /\ version' = "none" /\ orphaned' = {}
  /\ UNCHANGED wiping

-----------------------------------------------------------------------------
(* index.go *)

\* ON CONFLICT DO UPDATE keeps the row; the mirror is told what was indexed.
Upsert(n, text) ==
  /\ n \in nodes
  /\ IF n \in DOMAIN docs
     THEN /\ docs' = [docs EXCEPT ![n].text = text]
          /\ mirror' = (mirror \ {Entry(n)}) \cup {<<docs[n].row, text>>}
          /\ UNCHANGED last
     ELSE /\ last < MaxRow /\ last' = last + 1
          /\ docs' = [m \in DOMAIN docs \cup {n} |->
                        IF m = n THEN [row |-> last', text |-> text] ELSE docs[m]]
          /\ mirror' = mirror \cup {<<last', text>>}
  /\ UNCHANGED <<nodes, edges, version, wiping, orphaned>>

DeleteDocument(n) ==
  /\ n \in DOMAIN docs
  /\ mirror' = mirror \ {Entry(n)}
  /\ docs' = Restrict(docs, DOMAIN docs \ {n})
  /\ UNCHANGED <<nodes, edges, last, version, wiping, orphaned>>

-----------------------------------------------------------------------------
Write ==
  \/ \E n \in Nodes : InsertNode(n) \/ DeleteDocument(n) \/ \E t \in Texts : Upsert(n, t)
  \/ \E e \in Links : InsertEdge(e)
  \/ DeleteAllEdges \/ DeleteAllNodes \/ DeleteAllStops
  \/ \E b \in Builds : SaveFullBuild(b) \/ SaveGraph(b)
  \/ Migrate

Spec == Init /\ [][Write]_tables

\* The rows that Search's join finds for a query, its words OR-ed.
Hits(words) ==
  {n \in DOMAIN docs \cap nodes : \E text \in Texts :
     <<docs[n].row, text>> \in mirror /\ text \cap words # {}}

-----------------------------------------------------------------------------
\* Search finds the documents that say one of the words now, whatever was
\* indexed before: entries that a cascade left in the mirror
\* (store.go:215, 305) answer for no other document.
SearchExact ==
  \A words \in SUBSET UNION Texts :
    Hits(words) = {n \in DOMAIN docs : docs[n].text \cap words # {}}

\* What the mirror holds beyond the documents is what cascades left there:
\* an update, a deletion or a rebuild leaves nothing (index.go:95-98,
\* persist.go:118-119).
MirrorAccounted == mirror = Entries(DOMAIN docs) \cup orphaned
=============================================================================
