----------------------------- MODULE LedgerNames -----------------------------
(***************************************************************************)
(* The names in ledger events and the nodes they stand for                 *)
(* (internal/ledger/resolve.go, workitem.go).                              *)
(*                                                                         *)
(* A node identifier is its kind followed by the parts of its name, so that *)
(* "festival:x/p" is <<"festival", "x", "p">>.  Some lookups take the first *)
(* match of a Go map's iteration and may find any of several nodes; a      *)
(* lookup is therefore the set of what it may find, None for nothing, over *)
(* the set N of the graph's nodes.                                         *)
(***************************************************************************)
EXTENDS Naturals, Sequences, FiniteSets, SequencesExt

CONSTANTS
  None,      \* an absent field; a lookup that found nothing
  Scan,      \* identifiers of the nodes the scan left in the graph
  EndsWith,  \* festival name, reference -> the name ends with the reference
  Workitems, \* workitem key -> nodes that claim it by name or by .workitem
  Event      \* the events a ledger may hold

Root == <<"folder">>
IntentsFolder == <<"folder", ".campaign", "intents">>

Kinds == {"created", "transitioned", "completed", "decided",
          "evidence_attached", "reconciled", "repaired"}

\* The kinds of node that events add to the graph.
Added == {"decision", "action", "file"}

\* The fields that nodes and edges are made of.
EventType(e) ==
  /\ {"id", "ts", "action", "priors", "evidence"} \subseteq DOMAIN e
  /\ e.id \in STRING /\ e.ts \in Nat /\ e.priors \subseteq STRING
  /\ e.action = None \/ e.action \in STRING
  /\ \A x \in e.evidence : /\ x.repo = None \/ x.repo \in Seq(STRING)
                           /\ x.path = None \/ x.path \in STRING

ASSUME NamesAssumption ==
  /\ Scan \subseteq Seq(STRING) \ {<<>>} /\ Root \in Scan
  /\ None \notin Seq(STRING)
  /\ \A key \in DOMAIN Workitems :
       \A id \in Workitems[key] : id \in Scan /\ id[1] \notin Added
  /\ \A e \in Event : EventType(e)

-----------------------------------------------------------------------------
\* The next lookup is tried where the first may find nothing.
Else(first, next) ==
  (first \ {None}) \cup (IF None \in first THEN next ELSE {})

Found(ids) == IF ids = {} THEN {None} ELSE ids

KnownAssumed(N, id) == {id}                         \* mutant
Known(N, id) == Found({id} \cap N)

\* resolveFestival: the exact name, or any festival whose name ends with it.
FestivalOf(N, ref) ==
  IF ref = None THEN {None}
  ELSE Else(Known(N, <<"festival", ref>>),
            Found({id \in N : /\ Len(id) = 2 /\ id[1] = "festival"
                              /\ <<id[2], ref>> \in EndsWith}))

\* A node below the festival that the scope names.
TaskIn(N, fest, sc) ==
  Else(IF None \in {sc.phase, sc.sequence} THEN {None}
       ELSE Known(N, <<"festival", fest[2], sc.phase, sc.sequence, sc.task>>),
       Found({id \in N : /\ Len(id) = 5 /\ id[1] = "festival"
                         /\ id[2] = fest[2] /\ id[5] = sc.task}))

SequenceIn(N, fest, sc) ==
  IF sc.phase = None THEN {None}
  ELSE Known(N, <<"festival", fest[2], sc.phase, sc.sequence>>)

PhaseIn(N, fest, sc) == Known(N, <<"festival", fest[2], sc.phase>>)

\* Each level looks the festival up anew.
InFestival(N, sc) ==
  LET fests == FestivalOf(N, sc.festival)
      none == fests \cap {None}
      some == fests \ {None}
      Task == IF sc.task = None THEN {None}
              ELSE none \cup UNION {TaskIn(N, f, sc) : f \in some}
      Sequence == IF sc.sequence = None THEN {None}
                  ELSE none \cup UNION {SequenceIn(N, f, sc) : f \in some}
      Phase == IF sc.phase = None THEN {None}
               ELSE none \cup UNION {PhaseIn(N, f, sc) : f \in some}
  IN  Else(Task, Else(Sequence, Else(Phase, fests)))

WorkitemOf(N, index, key) ==
  IF key = None THEN {None}
  ELSE Else(IF key \in DOMAIN index THEN {index[key]} ELSE {None},
            Else(Known(N, <<"design_doc", key>>),
                 Known(N, <<"explore_doc", key>>)))

IntentOf(N, sc) ==
  IF sc.intent = None THEN {None} ELSE Known(N, <<"intent", sc.intent>>)

QuestOf(N, sc) ==
  IF sc.quest = None THEN {None}
  ELSE Known(N, <<"folder", ".campaign", "quests", sc.quest>>)

\* resolveScopeArtifact: most specific first.
ArtifactOf(N, index, sc) ==
  Else(IF sc.festival = None THEN {None} ELSE InFestival(N, sc),
       Else(IntentOf(N, sc), Else(WorkitemOf(N, index, sc.workitem), QuestOf(N, sc))))

\* resolveParentScope
ParentOf(N, sc, id) ==
  IF id = None THEN {None}
  ELSE IF id[1] = "intent" THEN Else(Known(N, IntentsFolder), {Root})
  ELSE Else(IF Len(id) > 2 THEN Known(N, Front(id)) ELSE {None},
            IF sc.festival = None THEN {Root} ELSE FestivalOf(N, sc.festival))

\* resolveRepoNode.  Its last resort, creating the root folder, is not
\* reached: a scan leaves that node.
RepoNode(N, repo, artifact) ==
  Else(IF repo = None THEN {None}
       ELSE Else(Known(N, <<"repo">> \o repo),
                 IF Len(repo) # 1 THEN {None}
                 ELSE Else(Known(N, <<"repo", "projects", repo[1]>>),
                           Known(N, <<"project", repo[1]>>))),
       IF artifact = None THEN {Root} ELSE {artifact})

\* What an event is applied as: a reconciled one stands for its inner kind.
AppliedAs(e) ==
  IF e.kind = "reconciled" /\ e.inner \notin {None, "reconciled"}
  THEN [e EXCEPT !.kind = e.inner, !.source = "reconciled"]
  ELSE e

\* buildWorkitemIndex: names seed it in map order, so that of two nodes of
\* one name either may be the one a key stands for.
Indexes ==
  {index \in [DOMAIN Workitems -> Scan \cup {None}] :
     \A key \in DOMAIN Workitems : index[key] \in Found(Workitems[key])}
=============================================================================
