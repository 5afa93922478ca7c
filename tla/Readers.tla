-------------------------------- MODULE Readers --------------------------------
(***************************************************************************)
(* Commands that read the store with several queries, none in a             *)
(* transaction, while other processes write it: `related`                   *)
(* (internal/search/related.go) and `context` (cmd/camp-graph/context.go,   *)
(* LoadGraph and Subgraph).  One call at a time; each query is a step.      *)
(*                                                                         *)
(* bm25's scores depend on all that is in the mirror: the order of hits is  *)
(* left open, as is that of rows which no ORDER BY sorts.                   *)
(***************************************************************************)
EXTENDS Store, SequencesExt

CONSTANTS
  About,   \* node -> [rel, path, scope, name]: its document's path and folder
  Asked,   \* query -> [path, words, scope, stem]: as a path, as a term, the
           \* folder and the words of the file's stem as `related` takes them
  Calls,   \* calls made, a set of [op, query, mode, limit]; the limit of a
           \* context call is its number of hops
  None,    \* no node
  MaxCommits \* bound on the commits during a call

ASSUME ReadersAssumption ==
  /\ DOMAIN About = Nodes /\ None \notin Nodes /\ MaxCommits \in Nat
  /\ \A c \in Calls : /\ c.op \in {"related", "context"} /\ c.limit \in Nat
                      /\ c.query \in DOMAIN Asked
                      /\ c.mode \in {"hybrid", "explicit", "structural", "semantic"}

VARIABLES
  call,      \* the call being answered
  pc,        \* its next query
  source,    \* the node it is about, None until resolved
  items,     \* what `related` has found, a sequence of [id, reason]
  loaded,    \* the nodes and edges that `context` has loaded
  commits    \* history: how many commits came after the call had begun

reader == <<call, pc, source, items, loaded, commits>>
vars == <<tables, reader>>

Empty == [nodes |-> {}, edges |-> {}]
NoCall == [op |-> "none", query |-> "", mode |-> "hybrid", limit |-> 0]

InitReader ==
  /\ Init
  /\ call = NoCall /\ pc = "idle"
  /\ source = None /\ items = <<>> /\ loaded = Empty /\ commits = 0

-----------------------------------------------------------------------------
(* Subgraph's walk by rounds: what was visited, and the frontier. *)

OutOf(e, n) == IF e.from = n THEN {e.to} ELSE {}    \* mutant
Beside(e, n) == IF e.from = n THEN {e.to} ELSE IF e.to = n THEN {e.from} ELSE {}

BesideAny(g, ns) == UNION {Beside(e, n) : e \in g.edges, n \in ns}

Walk(g, id, hops) ==
  LET round[k \in 0 .. hops] ==
        IF k = 0 THEN [visited |-> {id}, frontier |-> {id}]
        ELSE LET before == round[k - 1]
                 next == BesideAny(g, before.frontier) \ before.visited
             IN  [visited |-> before.visited \cup next, frontier |-> next]
  IN  round[hops].visited

Subgraph(g, id, hops) ==
  IF id \notin g.nodes THEN Empty
  ELSE LET visited == Walk(g, id, hops)
       IN  [nodes |-> visited \cap g.nodes,
            edges |-> {e \in g.edges : {e.from, e.to} \subseteq visited}]

-----------------------------------------------------------------------------
(* Resolve: the node of that identifier, of that path, or the first hit. *)

Ask(step) == pc = step
Turn(step) == pc' = step
Go(step, next) == Ask(step) /\ Turn(next)

Begin(c) ==
  /\ pc = "idle"
  /\ call' = c
  /\ Turn(IF c.op = "related" THEN "exact_id" ELSE "load_nodes")
  /\ UNCHANGED <<source, items, loaded, commits>>

First == IF call.op = "related" THEN "explicit" ELSE "target"

Found(step, ids, otherwise) ==
  /\ Ask(step)
  /\ \/ \E n \in ids : source' = n /\ Turn(First)
     \/ ids = {} /\ Turn(otherwise) /\ UNCHANGED source
  /\ UNCHANGED <<call, items, loaded, commits>>

ExactNodeID == Found("exact_id", {call.query} \cap nodes, "doc_path")
ExactDocPath ==
  Found("doc_path", {n \in DOMAIN docs : About[n].rel = Asked[call.query].path}, "node_path")
ExactNodePath ==
  Found("node_path", {n \in nodes : About[n].path = Asked[call.query].path}, "top_hit")
TopHit ==
  Found("top_hit", Hits(Asked[call.query].words),
        IF call.op = "related" THEN "done" ELSE "target")

-----------------------------------------------------------------------------
(* LoadGraph and the context command. *)

LoadNodes ==
  /\ Go("load_nodes", "load_edges")
  /\ loaded' = [loaded EXCEPT !.nodes = nodes]
  /\ UNCHANGED <<call, source, items, commits>>

LoadEdges ==
  /\ Ask("load_edges")
  /\ loaded' = [loaded EXCEPT !.edges = edges]
  /\ IF call.query \in loaded.nodes
     THEN source' = call.query /\ Turn("done")
     ELSE UNCHANGED source /\ Turn("exact_id")
  /\ UNCHANGED <<call, items, commits>>

\* resolveNodeDB: what the store resolved, if it was loaded, or else a node
\* of that name.
Target ==
  /\ Go("target", "done")
  /\ LET named == {n \in loaded.nodes : About[n].name = call.query}
     IN  IF source \in loaded.nodes THEN UNCHANGED source
         ELSE \/ \E n \in named : source' = n
              \/ named = {} /\ source' = None
  /\ UNCHANGED <<call, items, loaded, commits>>

-----------------------------------------------------------------------------
(* Related: three sources in order, each node once, up to the limit. *)

Ids(list) == {list[i].id : i \in DOMAIN list}

AppendEach(out, rows, reason) ==                     \* mutant
  FoldLeft(LAMBDA acc, n : IF Len(acc) >= call.limit THEN acc
                           ELSE Append(acc, [id |-> n, reason |-> reason]), out, rows)
AppendUnique(out, rows, reason) ==
  FoldLeft(LAMBDA acc, n :
             IF Len(acc) >= call.limit \/ n \in {source} \cup Ids(acc) THEN acc
             ELSE Append(acc, [id |-> n, reason |-> reason]),
           out, rows)

\* A query, when the mode asks for it and there is room; its rows come in
\* any of the orders given.
Gather(step, mode, reason, orders, next) ==
  /\ Ask(step)
  /\ IF call.mode \in {"hybrid", mode}
     THEN \E rows \in orders :
            /\ items' = AppendUnique(items, rows, reason)
            /\ Turn(IF Len(items') >= call.limit THEN "done" ELSE next)
     ELSE UNCHANGED items /\ Turn(next)
  /\ UNCHANGED <<call, source, loaded, commits>>

\* The other end of each row, one row for each direction.
ExplicitRows ==
  {<<e, e.to>> : e \in {x \in edges : x.from = source /\ x.src = "explicit"}}
  \cup {<<e, e.from, "in">> : e \in {x \in edges : x.to = source /\ x.src = "explicit"}}
Explicit ==
  Gather("explicit", "explicit", "explicit_edge",
         {[i \in DOMAIN rows |-> rows[i][2]] : rows \in SetToSeqs(ExplicitRows)}, "scope")

ScopeRows == {n \in DOMAIN docs \ {source} : About[n].scope = Asked[call.query].scope}
Scope == Gather("scope", "structural", "same_scope", SetToSeqs(ScopeRows), "lexical")

\* The best hits, one more than there is room for as one may be the source.
LexicalOrders ==
  LET hits == Hits(Asked[call.query].stem)
      most == Min({Cardinality(hits), call.limit - Len(items) + 1})
  IN  UNION {SetToSeqs(best \ {source}) : best \in kSubset(most, hits)}
Lexical == Gather("lexical", "semantic", "lexical_match", LexicalOrders, "done")

End ==
  /\ Go("done", "idle")
  /\ call' = NoCall /\ source' = None /\ items' = <<>> /\ loaded' = Empty /\ commits' = 0

Read ==
  \/ \E c \in Calls : Begin(c)
  \/ ExactNodeID \/ ExactDocPath \/ ExactNodePath \/ TopHit
  \/ LoadNodes \/ LoadEdges \/ Target
  \/ Explicit \/ Scope \/ Lexical
  \/ End

Next ==
  \/ Read /\ UNCHANGED tables
  \/ /\ Write
     /\ IF pc = "idle" THEN UNCHANGED commits
        ELSE commits < MaxCommits /\ commits' = commits + 1
     /\ UNCHANGED <<call, pc, source, items, loaded>>

ReadersSpec == InitReader /\ [][Next]_vars

-----------------------------------------------------------------------------
Rank(reason) ==
  CASE reason = "explicit_edge" -> 1 [] reason = "same_scope" -> 2 [] OTHER -> 3

Joined == {n \in Nodes : \E e \in edges : e.src = "explicit" /\ {e.from, e.to} = {source, n}}
SameScope == {n \in DOMAIN docs : About[n].scope = Asked[call.query].scope}

Asks(mode) == call.mode \in {"hybrid", mode}

\* The reason that speaks strongest for a node among those the mode asks for.
Strongest(n) ==
  IF Asks("explicit") /\ n \in Joined THEN "explicit_edge"
  ELSE IF Asks("structural") /\ n \in SameScope THEN "same_scope"
  ELSE "lexical_match"

\* Related lists each node once, never the source, no more than asked for,
\* the stronger reasons first, whatever is committed between its queries;
\* where nothing is, each node has the strongest reason there is for it, and
\* a list that is not full has left out neither a linked node nor one of the
\* folder (related.go:22-31, 52-62).
RelatedRanked ==
  pc = "done" /\ call.op = "related" =>
    /\ Len(items) <= call.limit /\ source \notin Ids(items)
    /\ \A i, j \in DOMAIN items : i < j =>
         /\ items[i].id # items[j].id
         /\ Rank(items[i].reason) <= Rank(items[j].reason)
    /\ commits = 0 /\ source # None =>
         /\ \A i \in DOMAIN items : items[i].reason = Strongest(items[i].id)
         /\ Len(items) < call.limit =>
              /\ Asks("explicit") => Joined \ {source} \subseteq Ids(items)
              /\ Asks("structural") => SameScope \ {source} \subseteq Ids(items)

\* What a walk along at most that many edges, in either direction, reaches.
Within(g, id, hops) ==
  {n \in Nodes : \E k \in 0 .. hops : \E p \in [0 .. k -> Nodes] :
     /\ p[0] = id /\ p[k] = n
     /\ \A i \in 1 .. k : \E e \in g.edges : {e.from, e.to} = {p[i - 1], p[i]}}

\* The neighbourhood that context shows is what lies within the hops, even
\* of a graph loaded around a commit, whose edges may lead to nodes that it
\* lacks (persist.go:343-357, graph.go:98-141): it has no node that was not
\* loaded, and all its edges lead to nodes it has if nothing was committed.
NeighbourhoodExact ==
  pc = "done" /\ call.op = "context" /\ source # None =>
    LET sub == Subgraph(loaded, source, call.limit)
        near == Within(loaded, source, call.limit)
    IN  /\ source \in loaded.nodes
        /\ sub.nodes = near \cap loaded.nodes
        /\ sub.edges = {e \in loaded.edges : {e.from, e.to} \subseteq near}
        /\ commits = 0 => \A e \in sub.edges : {e.from, e.to} \subseteq sub.nodes
=============================================================================
