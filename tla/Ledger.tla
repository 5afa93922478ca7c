-------------------------------- MODULE Ledger --------------------------------
(***************************************************************************)
(* Ingest (internal/ledger): the events of the campaign ledger, one after  *)
(* the other, applied to the graph that the scan left.  Each prefix of a   *)
(* ledger is a ledger, so each state is the result of one.                 *)
(*                                                                         *)
(* An edge is told by its ends and type: the store keeps the first of      *)
(* those that agree on them.  Confidences are in tenths.                   *)
(***************************************************************************)
EXTENDS LedgerNames

CONSTANTS
  ScanEdges, \* the scan's edges -> [src, conf]
  ScanTime,  \* when the scan created its nodes
  MaxEvents  \* bound on the length of the ledger

Sources == {"structural", "explicit", "inferred", "ledger"}
Trust == [src : Sources, conf : 0 .. 10]

ASSUME LedgerAssumption ==
  /\ ScanEdges \in [DOMAIN ScanEdges -> Trust]
  /\ DOMAIN ScanEdges \subseteq Scan \X Scan \X (STRING \ {"because_of"})
  /\ ScanTime \in Nat /\ MaxEvents \in Nat

\* True of every literal; named because the provers do not know it.
ASSUME LiteralsAreStrings ==
  {"decision", "action", "file", "contains", "because_of", "relates_to", "produced",
   "promoted_to"} \subseteq STRING

VARIABLES
  nodes,    \* identifier -> [status, created, updated, repaired]
  edges,    \* <<from, to, type>> -> [src, conf]
  edgeSeen, \* the edges the ledger has touched
  index,    \* the workitem index
  log       \* the events read

vars == <<nodes, edges, edgeSeen, index, log>>

NewNode(ts) ==
  [status |-> None, created |-> ts, updated |-> ts, repaired |-> FALSE]

NodesType(ns) ==
  \A id \in DOMAIN ns :
    /\ DOMAIN ns[id] = {"status", "created", "updated", "repaired"}
    /\ ns[id].created \in Nat /\ ns[id].updated \in Nat
    /\ ns[id].repaired \in BOOLEAN

TypeOK ==
  /\ DOMAIN nodes \subseteq Seq(STRING)
  /\ NodesType(nodes)
  /\ DOMAIN edges \subseteq Seq(STRING) \X Seq(STRING) \X STRING
  /\ edges \in [DOMAIN edges -> Trust]
  /\ edgeSeen \subseteq DOMAIN edges
  /\ index \in Indexes
  /\ log \in Seq(Event) /\ Len(log) <= MaxEvents

Init ==
  /\ nodes = [id \in Scan |-> NewNode(ScanTime)]
  /\ edges = ScanEdges
  /\ edgeSeen = {}
  /\ index \in Indexes
  /\ log = <<>>

N == DOMAIN nodes

-----------------------------------------------------------------------------
\* sourceAndConfidence
TrustIn(source) ==
  CASE source \in {"reconciled", "backfill"} -> [src |-> "inferred", conf |-> 7]
    [] source = "explicit" -> [src |-> "explicit", conf |-> 10]
    [] OTHER -> [src |-> "ledger", conf |-> 10]

\* addEdge: of the ledger the first event wins; over the scan it takes the
\* place of a structural edge unless it is itself inferred.
OutranksAny(new, old) == old.src = "structural"     \* mutant
Outranks(new, old) == new.src \in {"ledger", "explicit"} /\ old.src = "structural"

AddEdges(old, keys, trust) ==
  LET new == [k \in keys |->
                IF k[3] = "because_of" THEN [trust EXCEPT !.src = "explicit"]
                ELSE trust]
  IN  /\ edges' = [k \in DOMAIN old \cup keys |->
                     IF k \notin DOMAIN old THEN new[k]
                     ELSE IF k \in keys \ edgeSeen /\ Outranks(new[k], old[k])
                          THEN new[k] ELSE old[k]]
      /\ edgeSeen' = edgeSeen \cup keys

AddNodes(ids, ts) ==
  [id \in N \cup ids |-> IF id \in N THEN nodes[id] ELSE NewNode(ts)]

ScopeOf(e) == ArtifactOf(N, index, e.scope)

\* annotateArtifact: the node, and the edge from its parent.
Annotated(e, id) ==
  IF id = None THEN nodes
  ELSE [nodes EXCEPT
          ![id].status = IF e.kind = "transitioned" /\ e.to # None THEN e.to
                         ELSE IF e.status # None THEN e.status ELSE @,
          ![id].created = IF @ = 0 \/ e.ts < @ THEN e.ts ELSE @,
          ![id].updated = e.ts]

ContainedUnchecked(parent, id) == {<<parent, id, "contains">>}  \* mutant
Contained(parent, id) ==
  IF id = None \/ parent \in {None, id} THEN {} ELSE {<<parent, id, "contains">>}

\* maybePromotedTo: the source and the festival it was promoted to.
PromotedFrom(e) == Else(IntentOf(N, e.scope), ScopeOf(e))

Promoted(from, fest) ==
  IF None \in {from, fest} THEN {} ELSE {<<from, fest, "promoted_to">>}

-----------------------------------------------------------------------------
CreatedOrTransitioned(e) ==
  /\ e.kind \in {"created", "transitioned"}
  /\ \E id \in ScopeOf(e) : \E parent \in ParentOf(N, e.scope, id),
        from \in PromotedFrom(e), fest \in FestivalOf(N, e.promoted) :
       /\ nodes' = Annotated(e, id)
       /\ AddEdges(edges, Contained(parent, id) \cup Promoted(from, fest),
                   TrustIn(e.source))

\* The scope is looked up twice.
Completed(e) ==
  /\ e.kind = "completed"
  /\ \E id, done \in ScopeOf(e) : \E parent \in ParentOf(N, e.scope, id) :
       /\ nodes' = IF done = None THEN Annotated(e, id)
                   ELSE [Annotated(e, id) EXCEPT ![done].status = "completed",
                                                 ![done].updated = e.ts]
       /\ AddEdges(edges, Contained(parent, id), TrustIn(e.source))

\* The decision's node is put in the graph anew each time.
DecidedEdgesKnown(e, id) ==                         \* mutant
  LET decision == <<"decision", e.id>>
  IN  (IF id = None THEN {} ELSE {<<id, decision, "contains">>})
      \cup {<<decision, <<"decision", prior>>, "because_of">> :
               prior \in {p \in e.priors : <<"decision", p>> \in N}}
DecidedEdges(e, id) ==
  LET decision == <<"decision", e.id>>
  IN  (IF id = None THEN {} ELSE {<<id, decision, "contains">>})
      \cup {<<decision, <<"decision", prior>>, "because_of">> : prior \in e.priors}

Decided(e) ==
  /\ e.kind = "decided"
  /\ nodes' = [id \in N \cup {<<"decision", e.id>>} |->
                 IF id = <<"decision", e.id>> THEN NewNode(e.ts) ELSE nodes[id]]
  /\ \E id \in ScopeOf(e) : AddEdges(edges, DecidedEdges(e, id), TrustIn(e.source))

ActionOf(e) == <<"action", IF e.action = None THEN e.id ELSE e.action>>

Files(e) ==
  {<<"file", evd.path>> : evd \in {x \in e.evidence : x.type = "path" /\ x.path # None}}

\* emitProduced
Products(e, id) ==
  Files(e)
  \cup {IF id = None THEN Root ELSE id : evd \in {x \in e.evidence : x.type = "url"}}
  \cup UNION {RepoNode(N, evd.repo, id) : evd \in {x \in e.evidence : x.type = "commit"}}

EvidenceEdges(e, id) ==
  (IF id = None THEN {} ELSE {<<id, ActionOf(e), "relates_to">>})
  \cup {<<ActionOf(e), product, "produced">> : product \in Products(e, id)}

Evidence(e) ==
  /\ e.kind = "evidence_attached"
  /\ nodes' = [AddNodes({ActionOf(e)} \cup Files(e), e.ts)
                 EXCEPT ![ActionOf(e)].updated = e.ts]
  /\ \E id \in ScopeOf(e) : AddEdges(edges, EvidenceEdges(e, id), TrustIn(e.source))

\* applyRepaired: what the action has produced so far is sure now.
Raised(e) ==
  [k \in DOMAIN edges |->
     IF e.action # None /\ k[1] = <<"action", e.action>> /\ k[3] = "produced"
     THEN [edges[k] EXCEPT !.conf = 10] ELSE edges[k]]

MarkRepaired(ns, e) ==
  IF e.action = None \/ <<"action", e.action>> \notin N THEN ns
  ELSE [ns EXCEPT ![<<"action", e.action>>].repaired = TRUE,
                  ![<<"action", e.action>>].updated = e.ts]

Repaired(e) ==
  /\ e.kind = "repaired"
  /\ \E id \in ScopeOf(e) : \E parent \in ParentOf(N, e.scope, id) :
       /\ nodes' = MarkRepaired(Annotated(e, id), e)
       /\ AddEdges(Raised(e), Contained(parent, id), TrustIn(e.source))

\* A reconciled event that names no other kind.
Reconciled(e) ==
  /\ e.kind = "reconciled"
  /\ \E id \in ScopeOf(e) : \E parent \in ParentOf(N, e.scope, id) :
       /\ nodes' = Annotated(e, id)
       /\ AddEdges(edges, Contained(parent, id), TrustIn(e.source))

Unknown(e) == e.kind \notin Kinds /\ UNCHANGED <<nodes, edges, edgeSeen>>

Apply(e) ==
  \/ CreatedOrTransitioned(e) \/ Completed(e) \/ Decided(e) \/ Evidence(e)
  \/ Repaired(e) \/ Reconciled(e) \/ Unknown(e)

Next ==
  \E e \in Event :
    /\ Len(log) < MaxEvents /\ log' = Append(log, e)
    /\ UNCHANGED index
    /\ Apply(AppliedAs(e))

Spec == Init /\ [][Next]_vars

-----------------------------------------------------------------------------
(***************************************************************************)
(* Properties.                                                             *)
(***************************************************************************)
\* Every edge has both its nodes, except a decision's edge to a prior one.
OnlyPriorsDangle ==
  \A k \in DOMAIN edges : k[1] \in N /\ (k[2] \in N \/ k[3] = "because_of")

\* No event makes an edge less certain, or turns what a person or the ledger
\* said back into a guess, whatever is reconciled or backfilled later.
NeverLessSure ==
  [][\A k \in DOMAIN edges :
       /\ k \in DOMAIN edges'
       /\ edges'[k].conf >= edges[k].conf
       /\ edges'[k].src = "inferred" => edges[k].src = "inferred"]_vars

View == INSTANCE LedgerView WITH ids <- N, keys <- DOMAIN edges

\* What an event adds does not depend on the events before it: Ingest
\* implements LedgerView.
AddsWhatItSays == View!Spec

\* The edges table references the nodes table at both ends.
EndsExist == \A k \in DOMAIN edges : k[1] \in N /\ k[2] \in N
=============================================================================
