------------------------------ MODULE LedgerView ------------------------------
(***************************************************************************)
(* What ingesting a ledger promises: each event adds nodes and edges that  *)
(* depend on the event and on the scan alone, never on the events before   *)
(* it, and takes nothing away.  A ledger is thus a set of facts: reading   *)
(* its events in another order, or one of them again, comes to the same    *)
(* nodes and edges.  Only a name that several nodes answer to leaves a     *)
(* choice.                                                                 *)
(***************************************************************************)
EXTENDS LedgerNames

CONSTANT ScanEdges

VARIABLES ids, keys, index, log

Artifacts(e) == ArtifactOf(Scan, index, e.scope)
Parents(e) == UNION {ParentOf(Scan, e.scope, id) : id \in Artifacts(e)}
Festivals(e) == FestivalOf(Scan, e.promoted)
Promoters(e) == Else(IntentOf(Scan, e.scope), Artifacts(e))

Action(e) == <<"action", IF e.action = None THEN e.id ELSE e.action>>
Paths(e) ==
  {<<"file", x.path>> : x \in {y \in e.evidence : y.type = "path" /\ y.path # None}}

\* The places that commits and addresses were made in.
Places(e) ==
  {IF id = None THEN Root ELSE id :
     x \in {y \in e.evidence : y.type = "url"}, id \in Artifacts(e)}
  \cup UNION {RepoNode(Scan, x.repo, id) :
                x \in {y \in e.evidence : y.type = "commit"}, id \in Artifacts(e)}

\* The nodes of an event.
Names(e) ==
  CASE e.kind = "decided" -> {<<"decision", e.id>>}
    [] e.kind = "evidence_attached" -> {Action(e)} \cup Paths(e)
    [] OTHER -> {}

\* The edges it may add.
May(e) ==
  CASE e.kind = "decided" ->
         {<<id, <<"decision", e.id>>, "contains">> : id \in Artifacts(e) \ {None}}
         \cup {<<<<"decision", e.id>>, <<"decision", p>>, "because_of">> : p \in e.priors}
    [] e.kind = "evidence_attached" ->
         {<<id, Action(e), "relates_to">> : id \in Artifacts(e) \ {None}}
         \cup {<<Action(e), x, "produced">> : x \in Paths(e) \cup Places(e)}
    [] e.kind \in {"created", "transitioned", "completed", "repaired", "reconciled"} ->
         {k \in {<<p, id, "contains">> : p \in Parents(e) \ {None},
                                         id \in Artifacts(e) \ {None}} : k[1] # k[2]}
         \cup (IF e.kind \in {"created", "transitioned"}
               THEN {<<from, f, "promoted_to">> : from \in Promoters(e) \ {None},
                                                  f \in Festivals(e) \ {None}}
               ELSE {})
    [] OTHER -> {}

\* Those it surely adds: all of them if each name stands for one node.
Clear(e) ==
  \A found \in {Artifacts(e), Parents(e), Festivals(e), Promoters(e)} :
    \A x, y \in found : x = y
Must(e) == IF Clear(e) THEN May(e) ELSE {}

Init == ids = Scan /\ keys = DOMAIN ScanEdges /\ index \in Indexes /\ log = <<>>

Add(e) ==
  /\ ids' = ids \cup Names(e)
  /\ keys \subseteq keys' /\ keys' \subseteq keys \cup May(e) /\ Must(e) \subseteq keys'
  /\ UNCHANGED index

Next == \E e \in Event : log' = Append(log, e) /\ Add(AppliedAs(e))

Spec == Init /\ [][Next]_<<ids, keys, index, log>>
=============================================================================
