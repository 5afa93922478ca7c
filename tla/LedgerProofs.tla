----------------------------- MODULE LedgerProofs -----------------------------
(***************************************************************************)
(* Proofs about Ledger, for any scan, any events and any ledger of them.   *)
(*                                                                         *)
(* The nodes that events add are of kinds no lookup asks for, so that a    *)
(* name means the same at every moment of an ingest (SameArtifact and the  *)
(* lemmas before it).  What every event keeps rests on that.               *)
(***************************************************************************)
EXTENDS Ledger, TLAPS

\* The scan's nodes, and nodes of the added kinds.
Grown(M) == Scan \subseteq M /\ \A id \in M \ Scan : id[1] \in Added

\* A name found is a node of the scan, of a kind that is not added.
Ours == {id \in Scan : id[1] \notin Added} \cup {None}

-----------------------------------------------------------------------------
(***************************************************************************)
(* Lookups.                                                                *)
(***************************************************************************)
LEMMA SameKnown ==
  ASSUME NEW M, Grown(M), NEW id, id[1] \notin Added
  PROVE  Known(M, id) = Known(Scan, id)
BY DEF Grown, Known

LEMMA KnownIsOurs ==
  ASSUME NEW id, id[1] \notin Added
  PROVE  Known(Scan, id) \subseteq Ours
BY DEF Known, Found, Ours

LEMMA SameFestival ==
  ASSUME NEW M, Grown(M), NEW ref
  PROVE  /\ FestivalOf(M, ref) = FestivalOf(Scan, ref)
         /\ FestivalOf(Scan, ref) \subseteq Ours
<1> DEFINE suffixed(K) == {id \in K : /\ Len(id) = 2 /\ id[1] = "festival"
                                      /\ <<id[2], ref>> \in EndsWith}
<1>1. suffixed(M) = suffixed(Scan)
  BY DEF Grown, Added
<1>2. Known(M, <<"festival", ref>>) = Known(Scan, <<"festival", ref>>)
  BY SameKnown DEF Added
<1>3. Known(Scan, <<"festival", ref>>) \subseteq Ours
  BY KnownIsOurs DEF Added
<1>4. Found(suffixed(Scan)) \subseteq Ours
  BY DEF Found, Ours, Added
<1> QED BY <1>1, <1>2, <1>3, <1>4 DEF FestivalOf, Else, Ours

LEMMA SameTask ==
  ASSUME NEW M, Grown(M), NEW fest, NEW sc
  PROVE  /\ TaskIn(M, fest, sc) = TaskIn(Scan, fest, sc)
         /\ TaskIn(Scan, fest, sc) \subseteq Ours
<1> DEFINE path == <<"festival", fest[2], sc.phase, sc.sequence, sc.task>>
           named(K) == {id \in K : /\ Len(id) = 5 /\ id[1] = "festival"
                                   /\ id[2] = fest[2] /\ id[5] = sc.task}
<1>1. named(M) = named(Scan)
  BY DEF Grown, Added
<1>2. Known(M, path) = Known(Scan, path)
  BY SameKnown DEF Added
<1>3. Known(Scan, path) \subseteq Ours
  BY KnownIsOurs DEF Added
<1>4. Found(named(Scan)) \subseteq Ours
  BY DEF Found, Ours, Added
<1> HIDE DEF path
<1> QED BY <1>1, <1>2, <1>3, <1>4 DEF TaskIn, Else, Ours, path

LEMMA SamePlaces ==
  ASSUME NEW M, Grown(M), NEW fest, NEW sc
  PROVE  /\ SequenceIn(M, fest, sc) = SequenceIn(Scan, fest, sc)
         /\ SequenceIn(Scan, fest, sc) \subseteq Ours
         /\ PhaseIn(M, fest, sc) = PhaseIn(Scan, fest, sc)
         /\ PhaseIn(Scan, fest, sc) \subseteq Ours
<1> DEFINE s == <<"festival", fest[2], sc.phase, sc.sequence>>
           p == <<"festival", fest[2], sc.phase>>
<1>1. Known(M, s) = Known(Scan, s) /\ Known(Scan, s) \subseteq Ours
  BY SameKnown, KnownIsOurs DEF Added
<1>2. Known(M, p) = Known(Scan, p) /\ Known(Scan, p) \subseteq Ours
  BY SameKnown, KnownIsOurs DEF Added
<1>3. {None} \subseteq Ours
  BY DEF Ours
<1> HIDE DEF s, p
<1> QED BY <1>1, <1>2, <1>3 DEF SequenceIn, PhaseIn, s, p

LEMMA ElseIsOurs ==
  ASSUME NEW first, NEW next, first \subseteq Ours, next \subseteq Ours
  PROVE  Else(first, next) \subseteq Ours
BY DEF Else

LEMMA SameInFestival ==
  ASSUME NEW M, Grown(M), NEW sc
  PROVE  /\ InFestival(M, sc) = InFestival(Scan, sc)
         /\ InFestival(Scan, sc) \subseteq Ours
<1> DEFINE fests == FestivalOf(Scan, sc.festival)
           none == fests \cap {None}
           some == fests \ {None}
           Task(K) == IF sc.task = None THEN {None}
                      ELSE none \cup UNION {TaskIn(K, f, sc) : f \in some}
           Sequence(K) == IF sc.sequence = None THEN {None}
                          ELSE none \cup UNION {SequenceIn(K, f, sc) : f \in some}
           Phase(K) == IF sc.phase = None THEN {None}
                       ELSE none \cup UNION {PhaseIn(K, f, sc) : f \in some}
<1>1. FestivalOf(M, sc.festival) = fests /\ fests \subseteq Ours
  BY SameFestival
<1>2. InFestival(M, sc) = Else(Task(M), Else(Sequence(M), Else(Phase(M), fests)))
  BY <1>1 DEF InFestival
<1>3. InFestival(Scan, sc)
        = Else(Task(Scan), Else(Sequence(Scan), Else(Phase(Scan), fests)))
  BY DEF InFestival
<1>4. None \in Ours
  BY DEF Ours
<1>5. Task(M) = Task(Scan) /\ Task(Scan) \subseteq Ours
  BY <1>4, SameTask
<1>6. Sequence(M) = Sequence(Scan) /\ Sequence(Scan) \subseteq Ours
  <2>1. \A f : /\ SequenceIn(M, f, sc) = SequenceIn(Scan, f, sc)
               /\ SequenceIn(Scan, f, sc) \subseteq Ours
    BY SamePlaces
  <2> QED BY <1>4, <2>1
<1>7. Phase(M) = Phase(Scan) /\ Phase(Scan) \subseteq Ours
  <2>1. \A f : /\ PhaseIn(M, f, sc) = PhaseIn(Scan, f, sc)
               /\ PhaseIn(Scan, f, sc) \subseteq Ours
    BY SamePlaces
  <2> QED BY <1>4, <2>1
<1> HIDE DEF Task, Sequence, Phase, fests
<1>8. Else(Phase(Scan), fests) \subseteq Ours
  BY <1>1, <1>7, ElseIsOurs
<1>9. Else(Sequence(Scan), Else(Phase(Scan), fests)) \subseteq Ours
  BY <1>6, <1>8, ElseIsOurs
<1>10. Else(Task(Scan), Else(Sequence(Scan), Else(Phase(Scan), fests))) \subseteq Ours
  BY <1>5, <1>9, ElseIsOurs
<1> QED BY <1>2, <1>3, <1>5, <1>6, <1>7, <1>10

LEMMA SameSingles ==
  ASSUME NEW M, Grown(M), NEW ix \in Indexes, NEW sc
  PROVE  /\ IntentOf(M, sc) = IntentOf(Scan, sc) /\ IntentOf(Scan, sc) \subseteq Ours
         /\ QuestOf(M, sc) = QuestOf(Scan, sc) /\ QuestOf(Scan, sc) \subseteq Ours
         /\ WorkitemOf(M, ix, sc.workitem) = WorkitemOf(Scan, ix, sc.workitem)
         /\ WorkitemOf(Scan, ix, sc.workitem) \subseteq Ours
<1> DEFINE i == <<"intent", sc.intent>>
           q == <<"folder", ".campaign", "quests", sc.quest>>
           d == <<"design_doc", sc.workitem>>
           x == <<"explore_doc", sc.workitem>>
           known == IF sc.workitem \in DOMAIN ix THEN {ix[sc.workitem]} ELSE {None}
<1>1. Known(M, i) = Known(Scan, i) /\ Known(Scan, i) \subseteq Ours
  BY SameKnown, KnownIsOurs DEF Added
<1>2. Known(M, q) = Known(Scan, q) /\ Known(Scan, q) \subseteq Ours
  BY SameKnown, KnownIsOurs DEF Added
<1>3. Known(M, d) = Known(Scan, d) /\ Known(Scan, d) \subseteq Ours
  BY SameKnown, KnownIsOurs DEF Added
<1>4. Known(M, x) = Known(Scan, x) /\ Known(Scan, x) \subseteq Ours
  BY SameKnown, KnownIsOurs DEF Added
<1>5. None \in Ours
  BY DEF Ours
<1>6. known \subseteq Ours
  <2>1. \A key \in DOMAIN Workitems : Found(Workitems[key]) \subseteq Ours
    BY NamesAssumption DEF Found, Ours
  <2>2. \A key \in DOMAIN ix : ix[key] \in Ours
    BY <2>1 DEF Indexes
  <2> QED BY <1>5, <2>2
<1> HIDE DEF i, q, d, x, known
<1>7. Else(Known(Scan, d), Known(Scan, x)) \subseteq Ours
  BY <1>3, <1>4, ElseIsOurs
<1>8. Else(known, Else(Known(Scan, d), Known(Scan, x))) \subseteq Ours
  BY <1>6, <1>7, ElseIsOurs
<1>9. WorkitemOf(M, ix, sc.workitem) = WorkitemOf(Scan, ix, sc.workitem)
  BY <1>3, <1>4 DEF WorkitemOf, known, d, x
<1>10. WorkitemOf(Scan, ix, sc.workitem) \subseteq Ours
  BY <1>5, <1>8 DEF WorkitemOf, known, d, x
<1> QED
  BY <1>1, <1>2, <1>5, <1>9, <1>10 DEF IntentOf, QuestOf, i, q

LEMMA SameArtifact ==
  ASSUME NEW M, Grown(M), NEW ix \in Indexes, NEW sc
  PROVE  /\ ArtifactOf(M, ix, sc) = ArtifactOf(Scan, ix, sc)
         /\ ArtifactOf(Scan, ix, sc) \subseteq Ours
<1> DEFINE fest(K) == IF sc.festival = None THEN {None} ELSE InFestival(K, sc)
<1>1. fest(M) = fest(Scan) /\ fest(Scan) \subseteq Ours
  BY SameInFestival DEF Ours
<1> DEFINE last == Else(WorkitemOf(Scan, ix, sc.workitem), QuestOf(Scan, sc))
<1>2. last \subseteq Ours
  BY SameSingles, ElseIsOurs
<1>3. Else(IntentOf(Scan, sc), last) \subseteq Ours
  BY <1>2, SameSingles, ElseIsOurs
<1>4. Else(fest(Scan), Else(IntentOf(Scan, sc), last)) \subseteq Ours
  BY <1>1, <1>3, ElseIsOurs
<1>5. ArtifactOf(Scan, ix, sc) = Else(fest(Scan), Else(IntentOf(Scan, sc), last))
  BY DEF ArtifactOf
<1>6. ArtifactOf(M, ix, sc) = Else(fest(M), Else(IntentOf(Scan, sc), last))
  BY SameSingles DEF ArtifactOf
<1> QED BY <1>1, <1>4, <1>5, <1>6

LEMMA SameParent ==
  ASSUME NEW M, Grown(M), NEW sc, NEW id \in Ours
  PROVE  /\ ParentOf(M, sc, id) = ParentOf(Scan, sc, id)
         /\ ParentOf(Scan, sc, id) \subseteq Scan \cup {None}
<1>1. Known(M, IntentsFolder) = Known(Scan, IntentsFolder)
  BY SameKnown DEF IntentsFolder, Added
<1>2. \A x : Known(Scan, x) \subseteq Scan \cup {None}
  BY DEF Known, Found
<1>3. FestivalOf(M, sc.festival) = FestivalOf(Scan, sc.festival)
  BY SameFestival
<1>4. FestivalOf(Scan, sc.festival) \subseteq Scan \cup {None}
  BY SameFestival DEF Ours
<1>5. Root \in Scan
  BY NamesAssumption
<1>6. ASSUME id # None, Len(id) > 2
      PROVE  Known(M, Front(id)) = Known(Scan, Front(id))
  <2>1. id \in Seq(STRING) /\ id[1] \notin Added
    BY <1>6, NamesAssumption DEF Ours
  <2>2. Front(id)[1] = id[1]
    BY <1>6, <2>1 DEF Front
  <2> QED BY <2>1, <2>2, SameKnown
<1> QED
  BY <1>1, <1>2, <1>3, <1>4, <1>5, <1>6 DEF ParentOf, Else

LEMMA SameRepo ==
  ASSUME NEW M, Grown(M), NEW repo, repo = None \/ repo \in Seq(STRING),
         NEW id \in Ours
  PROVE  /\ RepoNode(M, repo, id) = RepoNode(Scan, repo, id)
         /\ RepoNode(Scan, repo, id) \subseteq Scan
<1>1. \A x : Known(Scan, x) \subseteq Scan \cup {None}
  BY DEF Known, Found
<1>2. Root \in Scan /\ None \notin Scan
  BY NamesAssumption
<1>3. (IF id = None THEN {Root} ELSE {id}) \subseteq Scan
  BY <1>2 DEF Ours
<1>4. ASSUME repo # None
      PROVE  /\ Known(M, <<"repo">> \o repo) = Known(Scan, <<"repo">> \o repo)
             /\ Known(M, <<"repo", "projects", repo[1]>>)
                  = Known(Scan, <<"repo", "projects", repo[1]>>)
             /\ Known(M, <<"project", repo[1]>>) = Known(Scan, <<"project", repo[1]>>)
  <2>1. (<<"repo">> \o repo)[1] = "repo"
    BY <1>4
  <2> QED BY <2>1, SameKnown DEF Added
<1> QED BY <1>1, <1>2, <1>3, <1>4 DEF RepoNode, Else

-----------------------------------------------------------------------------
(***************************************************************************)
(* LedgerView's own lookups are those of LedgerNames.                      *)
(***************************************************************************)
LEMMA ViewElse ==
  /\ \A first, next : View!Else(first, next) = Else(first, next)
  /\ \A M, id : View!Known(M, id) = Known(M, id)
  /\ \A ids : View!Found(ids) = Found(ids)
BY DEF View!Else, Else, View!Known, Known, View!Found, Found

LEMMA ViewFestival ==
  \A M, ref : View!FestivalOf(M, ref) = FestivalOf(M, ref)
BY ViewElse DEF View!FestivalOf, FestivalOf

LEMMA ViewPlaces ==
  /\ \A M, f, sc : View!TaskIn(M, f, sc) = TaskIn(M, f, sc)
  /\ \A M, f, sc : View!SequenceIn(M, f, sc) = SequenceIn(M, f, sc)
  /\ \A M, f, sc : View!PhaseIn(M, f, sc) = PhaseIn(M, f, sc)
<1>1. \A M, f, sc : View!TaskIn(M, f, sc) = TaskIn(M, f, sc)
  BY ViewElse DEF View!TaskIn, TaskIn
<1>2. \A M, f, sc : View!SequenceIn(M, f, sc) = SequenceIn(M, f, sc)
  BY ViewElse DEF View!SequenceIn, SequenceIn
<1>3. \A M, f, sc : View!PhaseIn(M, f, sc) = PhaseIn(M, f, sc)
  BY ViewElse DEF View!PhaseIn, PhaseIn
<1> QED BY <1>1, <1>2, <1>3

LEMMA ViewInFestival ==
  \A M, sc : View!InFestival(M, sc) = InFestival(M, sc)
<1> SUFFICES ASSUME NEW M, NEW sc PROVE View!InFestival(M, sc) = InFestival(M, sc)
  OBVIOUS
<1> DEFINE fests == FestivalOf(M, sc.festival)
           none == fests \cap {None}
           some == fests \ {None}
           Task == IF sc.task = None THEN {None}
                   ELSE none \cup UNION {TaskIn(M, f, sc) : f \in some}
           Sequence == IF sc.sequence = None THEN {None}
                       ELSE none \cup UNION {SequenceIn(M, f, sc) : f \in some}
           Phase == IF sc.phase = None THEN {None}
                    ELSE none \cup UNION {PhaseIn(M, f, sc) : f \in some}
<1>1. InFestival(M, sc) = Else(Task, Else(Sequence, Else(Phase, fests)))
  BY DEF InFestival
<1>2. {View!TaskIn(M, f, sc) : f \in some} = {TaskIn(M, f, sc) : f \in some}
  BY ViewPlaces
<1>3. {View!SequenceIn(M, f, sc) : f \in some} = {SequenceIn(M, f, sc) : f \in some}
  BY ViewPlaces
<1>4. {View!PhaseIn(M, f, sc) : f \in some} = {PhaseIn(M, f, sc) : f \in some}
  BY ViewPlaces
<1>5. View!InFestival(M, sc) = Else(Task, Else(Sequence, Else(Phase, fests)))
  BY <1>2, <1>3, <1>4, ViewElse, ViewFestival DEF View!InFestival
<1> QED BY <1>1, <1>5

LEMMA ViewSingles ==
  /\ \A M, sc : View!IntentOf(M, sc) = IntentOf(M, sc)
  /\ \A M, sc : View!QuestOf(M, sc) = QuestOf(M, sc)
  /\ \A M, ix, key : View!WorkitemOf(M, ix, key) = WorkitemOf(M, ix, key)
BY ViewElse DEF View!IntentOf, IntentOf, View!QuestOf, QuestOf,
                View!WorkitemOf, WorkitemOf

LEMMA ViewArtifact ==
  \A M, ix, sc : View!ArtifactOf(M, ix, sc) = ArtifactOf(M, ix, sc)
BY ViewElse, ViewInFestival, ViewSingles DEF View!ArtifactOf, ArtifactOf

LEMMA ViewRoot == View!Root = Root /\ View!IntentsFolder = IntentsFolder
BY DEF View!Root, Root, View!IntentsFolder, IntentsFolder

LEMMA ViewParent ==
  \A M, sc, id : View!ParentOf(M, sc, id) = ParentOf(M, sc, id)
BY ViewElse, ViewFestival, ViewRoot DEF View!ParentOf, ParentOf, View!Front, Front

LEMMA ViewRepo ==
  \A M, repo, id : View!RepoNode(M, repo, id) = RepoNode(M, repo, id)
BY ViewElse, ViewRoot DEF View!RepoNode, RepoNode

LEMMA ViewApplied == \A e : View!AppliedAs(e) = AppliedAs(e)
BY DEF View!AppliedAs, AppliedAs

LEMMA ViewIndexes == View!Indexes = Indexes
BY ViewElse DEF View!Indexes, Indexes

-----------------------------------------------------------------------------
(***************************************************************************)
(* What every event keeps, for any scan, any events and any ledger of them. *)
(* Each action is shown to add what LedgerView says (the Step lemmas); that *)
(* only priors dangle follows from what LedgerView allows (MayEnds), that   *)
(* no edge becomes less sure from AddEdges alone (AddedEdges).              *)
(***************************************************************************)
\* A because_of edge is explicit from the start: no other takes its place.
Sound(es) ==
  \A k \in DOMAIN es : /\ es[k] \in Trust
                       /\ k[3] = "because_of" => es[k].src # "structural"

LInv ==
  /\ index \in Indexes
  /\ Grown(N)
  /\ OnlyPriorsDangle
  /\ Sound(edges)

NoneLess(old, new) ==
  \A k \in DOMAIN old : /\ k \in DOMAIN new
                        /\ new[k].conf >= old[k].conf
                        /\ new[k].src = "inferred" => old[k].src = "inferred"

\* What is shown of each action, x the event it applies.
Adds(x) ==
  /\ N' = N \cup View!Names(x)
  /\ \E new : /\ DOMAIN edges' = DOMAIN edges \cup new
              /\ View!Must(x) \subseteq new /\ new \subseteq View!May(x)
  /\ Sound(edges')
  /\ NoneLess(edges, edges')


-----------------------------------------------------------------------------
(***************************************************************************)
(* Edges.                                                                  *)
(***************************************************************************)
LEMMA TrustInTrust ==
  ASSUME NEW source
  PROVE  /\ TrustIn(source) \in Trust
         /\ TrustIn(source).src \in {"ledger", "explicit"} => TrustIn(source).conf = 10
         /\ TrustIn(source).src # "structural"
BY DEF TrustIn, Trust, Sources

LEMMA AddedEdges ==
  ASSUME NEW old, Sound(old), NEW keys, NEW source,
         AddEdges(old, keys, TrustIn(source))
  PROVE  /\ DOMAIN edges' = DOMAIN old \cup keys
         /\ Sound(edges')
         /\ NoneLess(old, edges')
<1> DEFINE trust == TrustIn(source)
           new == [k \in keys |-> IF k[3] = "because_of"
                                  THEN [trust EXCEPT !.src = "explicit"] ELSE trust]
<1>1. /\ trust \in Trust
      /\ trust.src \in {"ledger", "explicit"} => trust.conf = 10
      /\ trust.src # "structural"
  BY TrustInTrust
<1> HIDE DEF trust
<1>2. \A k \in keys : /\ new[k] \in Trust /\ new[k].src # "structural"
                      /\ new[k].conf = trust.conf
                      /\ k[3] # "because_of" => new[k] = trust
  BY <1>1 DEF Trust, Sources
<1> HIDE DEF new
<1>3. edges' = [k \in DOMAIN old \cup keys |->
                  IF k \notin DOMAIN old THEN new[k]
                  ELSE IF k \in keys \ edgeSeen /\ Outranks(new[k], old[k])
                       THEN new[k] ELSE old[k]]
  BY DEF AddEdges, new, trust
<1>4. Sound(edges')
  BY <1>2, <1>3 DEF Sound
<1>5. ASSUME NEW k \in DOMAIN old
      PROVE  /\ edges'[k].conf >= old[k].conf
             /\ edges'[k].src = "inferred" => old[k].src = "inferred"
  <2>1. old[k] \in Trust
    BY DEF Sound
  <2>2. CASE edges'[k] = old[k]
    BY <2>1, <2>2 DEF Trust
  <2>3. CASE edges'[k] # old[k]
    <3>1. k \in keys /\ Outranks(new[k], old[k]) /\ edges'[k] = new[k]
      BY <1>3, <2>3
    <3>2. k[3] # "because_of"
      BY <3>1 DEF Outranks, Sound
    <3>3. new[k].conf = 10 /\ new[k].src # "inferred"
      BY <1>1, <1>2, <3>1, <3>2 DEF Outranks
    <3> QED BY <2>1, <3>1, <3>3 DEF Trust
  <2> QED BY <2>2, <2>3
<1> QED BY <1>3, <1>4, <1>5 DEF NoneLess

LEMMA RaisedEdges ==
  ASSUME Sound(edges), NEW x
  PROVE  /\ DOMAIN Raised(x) = DOMAIN edges
         /\ Sound(Raised(x))
         /\ NoneLess(edges, Raised(x))
BY DEF Raised, Sound, NoneLess, Trust

-----------------------------------------------------------------------------
(***************************************************************************)
(* What names stand for now is what they stood for in the scan.            *)
(***************************************************************************)
LEMMA NowScope ==
  ASSUME LInv, NEW x
  PROVE  ScopeOf(x) = View!Artifacts(x) /\ ScopeOf(x) \subseteq Ours
BY SameArtifact, ViewArtifact DEF LInv, ScopeOf, View!Artifacts

LEMMA NowParents ==
  ASSUME LInv, NEW x, NEW id \in ScopeOf(x)
  PROVE  /\ ParentOf(N, x.scope, id) \subseteq View!Parents(x)
         /\ ParentOf(N, x.scope, id) \subseteq Scan \cup {None}
<1>1. id \in View!Artifacts(x) /\ id \in Ours
  BY NowScope
<1>2. ParentOf(N, x.scope, id) = ParentOf(Scan, x.scope, id)
  BY <1>1, SameParent DEF LInv
<1>3. View!ParentOf(Scan, x.scope, id) = ParentOf(Scan, x.scope, id)
  BY ViewParent
<1>4. ParentOf(Scan, x.scope, id) \subseteq Scan \cup {None}
  BY <1>1, SameParent DEF LInv
<1>5. View!ParentOf(Scan, x.scope, id) \subseteq View!Parents(x)
  BY <1>1 DEF View!Parents
<1> QED BY <1>2, <1>3, <1>4, <1>5

LEMMA ViewParentsInScan ==
  ASSUME LInv, NEW x
  PROVE  View!Parents(x) \subseteq Scan \cup {None}
<1>1. ASSUME NEW id \in View!Artifacts(x)
      PROVE  View!ParentOf(Scan, x.scope, id) \subseteq Scan \cup {None}
  <2>1. id \in Ours
    BY NowScope
  <2>2. ParentOf(Scan, x.scope, id) \subseteq Scan \cup {None}
    BY <2>1, SameParent DEF LInv
  <2> QED BY <2>2, ViewParent
<1> QED BY <1>1 DEF View!Parents

LEMMA NowPromoted ==
  ASSUME LInv, NEW x
  PROVE  /\ PromotedFrom(x) = View!Promoters(x) /\ PromotedFrom(x) \subseteq Ours
         /\ FestivalOf(N, x.promoted) = View!Festivals(x)
         /\ View!Festivals(x) \subseteq Ours
<1>1. IntentOf(N, x.scope) = IntentOf(Scan, x.scope)
      /\ IntentOf(Scan, x.scope) \subseteq Ours
  BY SameSingles DEF LInv
<1>2. View!IntentOf(Scan, x.scope) = IntentOf(Scan, x.scope)
  BY ViewSingles
<1>3. FestivalOf(N, x.promoted) = FestivalOf(Scan, x.promoted)
      /\ FestivalOf(Scan, x.promoted) \subseteq Ours
  BY SameFestival DEF LInv
<1>4. View!Festivals(x) = FestivalOf(Scan, x.promoted)
  BY ViewFestival DEF View!Festivals
<1>5. PromotedFrom(x) = Else(IntentOf(Scan, x.scope), ScopeOf(x))
  BY <1>1 DEF PromotedFrom
<1>6. View!Promoters(x) = Else(IntentOf(Scan, x.scope), View!Artifacts(x))
  BY <1>2, ViewElse DEF View!Promoters
<1> QED BY <1>1, <1>3, <1>4, <1>5, <1>6, NowScope, ElseIsOurs

LEMMA NowNames ==
  ASSUME NEW x
  PROVE  ActionOf(x) = View!Action(x) /\ Files(x) = View!Paths(x)
BY DEF ActionOf, View!Action, Files, View!Paths

LEMMA NowProducts ==
  ASSUME LInv, NEW x, EventType(x), NEW id \in ScopeOf(x)
  PROVE  /\ Products(x, id) \subseteq View!Paths(x) \cup View!Places(x)
         /\ (\A a, b \in View!Artifacts(x) : a = b)
              => Products(x, id) = View!Paths(x) \cup View!Places(x)
<1> DEFINE commits == {y \in x.evidence : y.type = "commit"}
           urls == {y \in x.evidence : y.type = "url"}
           Of(i) == {IF i = None THEN Root ELSE i : y \in urls}
                    \cup UNION {RepoNode(Scan, y.repo, i) : y \in commits}
           arts == View!Artifacts(x)
<1>1. id \in arts /\ id \in Ours /\ arts \subseteq Ours
  BY NowScope
<1>2. \A y \in commits : RepoNode(N, y.repo, id) = RepoNode(Scan, y.repo, id)
  BY <1>1, SameRepo DEF LInv, EventType
<1>3. Products(x, id) = View!Paths(x) \cup Of(id)
  BY <1>2, NowNames DEF Products
<1>4. View!Places(x) = {IF i = None THEN View!Root ELSE i : y \in urls, i \in arts}
                       \cup UNION {View!RepoNode(Scan, y.repo, i) : y \in commits, i \in arts}
  BY DEF View!Places
<1>5. View!Places(x) = {IF i = None THEN Root ELSE i : y \in urls, i \in arts}
                       \cup UNION {RepoNode(Scan, y.repo, i) : y \in commits, i \in arts}
  BY <1>4, ViewRepo, ViewRoot
<1> HIDE DEF arts, commits, urls
<1>6. View!Places(x) = UNION {Of(i) : i \in arts}
  BY <1>5
<1>7. Of(id) \subseteq View!Places(x)
  BY <1>1, <1>6
<1>8. (\A a, b \in arts : a = b) => Of(id) = View!Places(x)
  BY <1>1, <1>6
<1> QED BY <1>3, <1>7, <1>8 DEF arts

LEMMA PlacesInScan ==
  ASSUME LInv, NEW x, EventType(x)
  PROVE  View!Places(x) \subseteq Scan
<1>1. View!Artifacts(x) \subseteq Ours
  BY NowScope
<1>2. \A y \in x.evidence, id \in Ours : View!RepoNode(Scan, y.repo, id) \subseteq Scan
  <2> SUFFICES ASSUME NEW y \in x.evidence, NEW id \in Ours
               PROVE  View!RepoNode(Scan, y.repo, id) \subseteq Scan
    OBVIOUS
  <2>1. RepoNode(Scan, y.repo, id) \subseteq Scan
    BY SameRepo DEF LInv, EventType
  <2> QED BY <2>1, ViewRepo
<1>3. \A id \in Ours : (IF id = None THEN View!Root ELSE id) \in Scan
  BY ViewRoot, NamesAssumption DEF Ours
<1> QED BY <1>1, <1>2, <1>3 DEF View!Places

LEMMA MayEnds ==
  ASSUME LInv, NEW x, EventType(x), NEW k \in View!May(x)
  PROVE  /\ k[1] \in Scan \cup View!Names(x)
         /\ k[2] \in Scan \cup View!Names(x) \/ k[3] = "because_of"
<1>1. View!Artifacts(x) \subseteq Scan \cup {None}
  BY NowScope DEF Ours
<1>2. View!Parents(x) \subseteq Scan \cup {None}
  BY ViewParentsInScan
<1>3. View!Promoters(x) \subseteq Scan \cup {None}
      /\ View!Festivals(x) \subseteq Scan \cup {None}
  BY NowPromoted DEF Ours
<1>4. View!Places(x) \subseteq Scan
  BY PlacesInScan
<1>5. CASE x.kind = "decided"
  BY <1>1, <1>5 DEF View!May, View!Names
<1>6. CASE x.kind = "evidence_attached"
  BY <1>1, <1>4, <1>6 DEF View!May, View!Names
<1>7. CASE x.kind \in {"created", "transitioned", "completed", "repaired", "reconciled"}
  BY <1>1, <1>2, <1>3, <1>7 DEF View!May
<1>8. CASE x.kind \notin {"decided", "evidence_attached", "created", "transitioned",
                          "completed", "repaired", "reconciled"}
  BY <1>8 DEF View!May
<1> QED BY <1>5, <1>6, <1>7, <1>8

-----------------------------------------------------------------------------
(***************************************************************************)
(* Each action adds what LedgerView says.                                  *)
(***************************************************************************)
LEMMA ContainedMay ==
  ASSUME LInv, NEW x, NEW id \in ScopeOf(x), NEW parent \in ParentOf(N, x.scope, id),
         x.kind \in {"created", "transitioned", "completed", "repaired", "reconciled"}
  PROVE  /\ Contained(parent, id) \subseteq View!May(x)
         /\ (View!Clear(x) /\ x.kind \notin {"created", "transitioned"})
              => View!May(x) \subseteq Contained(parent, id)
         /\ View!Clear(x)
              => \A p \in View!Parents(x), i \in View!Artifacts(x) : p = parent /\ i = id
<1>1. id \in View!Artifacts(x)
  BY NowScope
<1>2. parent \in View!Parents(x)
  BY NowParents
<1>3. View!Clear(x)
        => \A p \in View!Parents(x), i \in View!Artifacts(x) : p = parent /\ i = id
  BY <1>1, <1>2 DEF View!Clear
<1> QED
  BY <1>1, <1>2, <1>3 DEF Contained, View!May

LEMMA StepContained ==
  ASSUME LInv, NEW x, NEW id \in ScopeOf(x), NEW parent \in ParentOf(N, x.scope, id),
         x.kind \in {"completed", "repaired", "reconciled"}, N' = N,
         NEW old, DOMAIN old = DOMAIN edges, Sound(old), NoneLess(edges, old),
         AddEdges(old, Contained(parent, id), TrustIn(x.source))
  PROVE  Adds(x)
<1>1. N' = N \cup View!Names(x)
  BY DEF View!Names
<1>2. /\ DOMAIN edges' = DOMAIN edges \cup Contained(parent, id)
      /\ Sound(edges') /\ NoneLess(old, edges')
  BY AddedEdges
<1>3. NoneLess(edges, edges')
  BY <1>2 DEF NoneLess, LInv, Sound, Trust
<1>4. /\ View!Must(x) \subseteq Contained(parent, id)
      /\ Contained(parent, id) \subseteq View!May(x)
  BY ContainedMay DEF View!Must
<1> QED BY <1>1, <1>2, <1>3, <1>4 DEF Adds

LEMMA AnnotatedDomain ==
  ASSUME NEW x, NEW id PROVE DOMAIN Annotated(x, id) = N
BY DEF Annotated, N

LEMMA NothingLess == ASSUME Sound(edges) PROVE NoneLess(edges, edges)
BY DEF NoneLess, Sound, Trust

LEMMA StepCreated ==
  ASSUME LInv, NEW x, CreatedOrTransitioned(x)
  PROVE  Adds(x)
<1>1. PICK id \in ScopeOf(x) : \E parent \in ParentOf(N, x.scope, id),
              from \in PromotedFrom(x), fest \in FestivalOf(N, x.promoted) :
         /\ nodes' = Annotated(x, id)
         /\ AddEdges(edges, Contained(parent, id) \cup Promoted(from, fest),
                     TrustIn(x.source))
  BY DEF CreatedOrTransitioned
<1>2. PICK parent \in ParentOf(N, x.scope, id), from \in PromotedFrom(x),
           fest \in FestivalOf(N, x.promoted) :
         /\ nodes' = Annotated(x, id)
         /\ AddEdges(edges, Contained(parent, id) \cup Promoted(from, fest),
                     TrustIn(x.source))
  BY <1>1
<1> DEFINE new == Contained(parent, id) \cup Promoted(from, fest)
<1>3. x.kind \in {"created", "transitioned"}
  BY DEF CreatedOrTransitioned
<1>4. N' = N \cup View!Names(x)
  BY <1>2, <1>3, AnnotatedDomain DEF N, View!Names
<1>5. /\ DOMAIN edges' = DOMAIN edges \cup new
      /\ Sound(edges') /\ NoneLess(edges, edges')
  BY <1>2, AddedEdges DEF LInv
<1>6. from \in View!Promoters(x) /\ fest \in View!Festivals(x)
  BY NowPromoted
<1>7. Promoted(from, fest) \subseteq View!May(x)
  BY <1>3, <1>6 DEF Promoted, View!May
<1>8. new \subseteq View!May(x)
  BY <1>3, <1>7, ContainedMay
<1>9. ASSUME View!Clear(x) PROVE View!May(x) \subseteq new
  <2>1. \A p \in View!Parents(x), i \in View!Artifacts(x) : p = parent /\ i = id
    BY <1>3, <1>9, ContainedMay
  <2>2. \A f \in View!Promoters(x), g \in View!Festivals(x) : f = from /\ g = fest
    BY <1>6, <1>9 DEF View!Clear
  <2> QED BY <1>3, <2>1, <2>2 DEF View!May, Contained, Promoted
<1>10. View!Must(x) \subseteq new
  BY <1>9 DEF View!Must
<1> QED BY <1>4, <1>5, <1>8, <1>10 DEF Adds

LEMMA StepCompleted ==
  ASSUME LInv, NEW x, Completed(x)
  PROVE  Adds(x)
<1>1. x.kind = "completed"
  BY DEF Completed
<1>2. PICK id \in ScopeOf(x), done \in ScopeOf(x) :
         \E parent \in ParentOf(N, x.scope, id) :
           /\ nodes' = IF done = None THEN Annotated(x, id)
                       ELSE [Annotated(x, id) EXCEPT ![done].status = "completed",
                                                     ![done].updated = x.ts]
           /\ AddEdges(edges, Contained(parent, id), TrustIn(x.source))
  BY DEF Completed
<1>3. N' = N
  BY <1>2, AnnotatedDomain DEF N
<1> QED BY <1>1, <1>2, <1>3, NothingLess, StepContained DEF LInv

LEMMA StepRepaired ==
  ASSUME LInv, NEW x, Repaired(x)
  PROVE  Adds(x)
<1>1. x.kind = "repaired"
  BY DEF Repaired
<1>2. PICK id \in ScopeOf(x) : \E parent \in ParentOf(N, x.scope, id) :
         /\ nodes' = MarkRepaired(Annotated(x, id), x)
         /\ AddEdges(Raised(x), Contained(parent, id), TrustIn(x.source))
  BY DEF Repaired
<1>3. N' = N
  BY <1>2, AnnotatedDomain DEF N, MarkRepaired
<1> QED BY <1>1, <1>2, <1>3, RaisedEdges, StepContained DEF LInv

LEMMA StepReconciled ==
  ASSUME LInv, NEW x, Reconciled(x)
  PROVE  Adds(x)
<1>1. x.kind = "reconciled"
  BY DEF Reconciled
<1>2. PICK id \in ScopeOf(x) : \E parent \in ParentOf(N, x.scope, id) :
         /\ nodes' = Annotated(x, id)
         /\ AddEdges(edges, Contained(parent, id), TrustIn(x.source))
  BY DEF Reconciled
<1>3. N' = N
  BY <1>2, AnnotatedDomain DEF N
<1> QED BY <1>1, <1>2, <1>3, NothingLess, StepContained DEF LInv

LEMMA StepDecided ==
  ASSUME LInv, NEW x, Decided(x)
  PROVE  Adds(x)
<1>1. x.kind = "decided"
  BY DEF Decided
<1>2. N' = N \cup View!Names(x)
  BY <1>1 DEF Decided, N, View!Names
<1>3. PICK id \in ScopeOf(x) : AddEdges(edges, DecidedEdges(x, id), TrustIn(x.source))
  BY DEF Decided
<1>4. id \in View!Artifacts(x)
  BY NowScope
<1>5. DecidedEdges(x, id) \subseteq View!May(x)
  BY <1>1, <1>4 DEF DecidedEdges, View!May
<1>6. View!Must(x) \subseteq DecidedEdges(x, id)
  <2>1. View!Clear(x) => \A i \in View!Artifacts(x) : i = id
    BY <1>4 DEF View!Clear
  <2> QED BY <1>1, <2>1 DEF DecidedEdges, View!Must, View!May
<1>7. /\ DOMAIN edges' = DOMAIN edges \cup DecidedEdges(x, id)
      /\ Sound(edges') /\ NoneLess(edges, edges')
  BY <1>3, AddedEdges DEF LInv
<1> QED BY <1>2, <1>5, <1>6, <1>7 DEF Adds

LEMMA StepEvidence ==
  ASSUME LInv, NEW x, EventType(x), Evidence(x)
  PROVE  Adds(x)
<1>1. x.kind = "evidence_attached"
  BY DEF Evidence
<1>2. N' = N \cup View!Names(x)
  <2>1. N' = N \cup {ActionOf(x)} \cup Files(x)
    BY DEF Evidence, N, AddNodes
  <2>2. View!Names(x) = {ActionOf(x)} \cup Files(x)
    BY <1>1, NowNames DEF View!Names
  <2> QED BY <2>1, <2>2
<1>3. PICK id \in ScopeOf(x) : AddEdges(edges, EvidenceEdges(x, id), TrustIn(x.source))
  BY DEF Evidence
<1>4. id \in View!Artifacts(x)
  BY NowScope
<1> DEFINE made == View!Paths(x) \cup View!Places(x)
<1>5. Products(x, id) \subseteq made /\ (View!Clear(x) => Products(x, id) = made)
  BY NowProducts DEF View!Clear
<1>6. View!May(x) = {<<i, ActionOf(x), "relates_to">> : i \in View!Artifacts(x) \ {None}}
                    \cup {<<ActionOf(x), y, "produced">> : y \in made}
  BY <1>1, NowNames DEF View!May
<1> HIDE DEF made
<1>7. EvidenceEdges(x, id) \subseteq View!May(x)
  BY <1>4, <1>5, <1>6 DEF EvidenceEdges
<1>8. View!Must(x) \subseteq EvidenceEdges(x, id)
  <2>1. View!Clear(x) => \A i \in View!Artifacts(x) : i = id
    BY <1>4 DEF View!Clear
  <2> QED BY <1>5, <1>6, <2>1 DEF EvidenceEdges, View!Must
<1>9. /\ DOMAIN edges' = DOMAIN edges \cup EvidenceEdges(x, id)
      /\ Sound(edges') /\ NoneLess(edges, edges')
  BY <1>3, AddedEdges DEF LInv
<1> QED BY <1>2, <1>7, <1>8, <1>9 DEF Adds

LEMMA StepUnknown ==
  ASSUME LInv, NEW x, Unknown(x)
  PROVE  Adds(x)
<1>1. View!Names(x) = {} /\ View!May(x) = {} /\ View!Must(x) = {}
  BY DEF Unknown, Kinds, View!Names, View!May, View!Must
<1>2. N' = N /\ DOMAIN edges' = DOMAIN edges \cup {} /\ edges' = edges
  BY DEF Unknown, N
<1> QED BY <1>1, <1>2, NothingLess DEF Adds, LInv

LEMMA StepApply ==
  ASSUME LInv, NEW x, EventType(x), Apply(x)
  PROVE  Adds(x)
BY StepCreated, StepCompleted, StepDecided, StepEvidence, StepRepaired,
   StepReconciled, StepUnknown DEF Apply

LEMMA AppliedTyped == ASSUME NEW e \in Event PROVE EventType(AppliedAs(e))
<1> DEFINE fields == {"id", "ts", "action", "priors", "evidence"}
<1>1. EventType(e)
  BY NamesAssumption
<1>2. DOMAIN AppliedAs(e) = DOMAIN e
  BY DEF AppliedAs
<1>3. \A f \in fields : AppliedAs(e)[f] = e[f]
  BY <1>1 DEF AppliedAs, EventType
<1> QED BY <1>1, <1>2, <1>3 DEF EventType

-----------------------------------------------------------------------------
(***************************************************************************)
(* The invariant.                                                          *)
(***************************************************************************)
LEMMA InitLInv == ASSUME Init PROVE LInv
<1>1. index \in Indexes /\ N = Scan /\ edges = ScanEdges
  BY DEF Init, N
<1>2. Sound(ScanEdges)
  BY LedgerAssumption DEF Sound
<1>3. OnlyPriorsDangle
  BY <1>1, LedgerAssumption DEF OnlyPriorsDangle
<1> QED BY <1>1, <1>2, <1>3 DEF LInv, Grown

LEMMA AddsLInv ==
  ASSUME LInv, NEW x, EventType(x), Adds(x), index' = index
  PROVE  LInv'
<1>1. N' = N \cup View!Names(x)
  BY DEF Adds
<1>2. Grown(N)'
  <2>1. \A id \in View!Names(x) : id[1] \in Added
    BY DEF View!Names, View!Action, View!Paths, Added
  <2> QED BY <1>1, <2>1 DEF LInv, Grown
<1>3. OnlyPriorsDangle'
  <2> SUFFICES ASSUME NEW k \in DOMAIN edges'
               PROVE  k[1] \in N' /\ (k[2] \in N' \/ k[3] = "because_of")
    BY DEF OnlyPriorsDangle
  <2>1. k \in DOMAIN edges \/ k \in View!May(x)
    BY DEF Adds
  <2>2. CASE k \in DOMAIN edges
    BY <1>1, <2>2 DEF LInv, OnlyPriorsDangle
  <2>3. CASE k \in View!May(x)
    BY <1>1, <2>3, MayEnds DEF LInv, Grown
  <2> QED BY <2>1, <2>2, <2>3
<1>4. index' \in Indexes /\ Sound(edges)'
  BY DEF LInv, Adds, Sound
<1> QED BY <1>2, <1>3, <1>4 DEF LInv, Indexes, Found

LEMMA NextAdds ==
  ASSUME LInv, Next
  PROVE  \E e \in Event : /\ EventType(AppliedAs(e)) /\ Adds(AppliedAs(e))
                          /\ index' = index /\ log' = Append(log, e)
BY AppliedTyped, StepApply DEF Next

LEMMA NextLInv == ASSUME LInv, [Next]_vars PROVE LInv'
<1>1. CASE Next
  BY <1>1, NextAdds, AddsLInv
<1>2. CASE UNCHANGED vars
  BY <1>2 DEF vars, LInv, Grown, OnlyPriorsDangle, Sound, N, Indexes, Found
<1> QED BY <1>1, <1>2

THEOREM Invariance == Spec => []LInv
BY InitLInv, NextLInv, PTL DEF Spec

\* Whatever the scan left and whatever the ledger holds, every edge has both
\* its nodes, except those from a decision to a prior one (DecidedEdges).
THEOREM PriorsAloneDangle == Spec => []OnlyPriorsDangle
<1>1. LInv => OnlyPriorsDangle
  BY DEF LInv
<1> QED BY <1>1, Invariance, PTL

\* No event of any ledger makes an edge less certain, or what was said a
\* guess (addEdge, applyRepaired).
THEOREM NoEdgeLessSure == Spec => NeverLessSure
<1>1. ASSUME LInv, [Next]_vars
      PROVE  [NoneLess(edges, edges')]_vars
  BY <1>1, NextAdds DEF Adds
<1>2. [NoneLess(edges, edges')]_vars
        => [\A k \in DOMAIN edges :
              /\ k \in DOMAIN edges'
              /\ edges'[k].conf >= edges[k].conf
              /\ edges'[k].src = "inferred" => edges[k].src = "inferred"]_vars
  BY DEF NoneLess
<1> QED BY <1>1, <1>2, Invariance, PTL DEF Spec, NeverLessSure

\* Ingest implements LedgerView: what an event adds is determined by the
\* event and the scan, never by the events before it.
THEOREM ImplementsView == Spec => AddsWhatItSays
<1>1. Init => View!Init
  BY ViewIndexes DEF Init, View!Init, N
<1>2. ASSUME LInv, [Next]_vars
      PROVE  [View!Next]_<<N, DOMAIN edges, index, log>>
  <2>1. CASE Next
    <3>1. PICK e \in Event : /\ Adds(AppliedAs(e)) /\ index' = index
                              /\ log' = Append(log, e)
      BY <2>1, <1>2, NextAdds
    <3>2. View!Add(AppliedAs(e))
      BY <3>1 DEF Adds, View!Add
    <3> QED BY <3>1, <3>2, ViewApplied DEF View!Next
  <2>2. CASE UNCHANGED vars
    BY <2>2 DEF vars, N
  <2> QED BY <1>2, <2>1, <2>2
<1> QED BY <1>1, <1>2, Invariance, PTL DEF Spec, AddsWhatItSays, View!Spec
-----------------------------------------------------------------------------
(***************************************************************************)
(* Types.  The ends of an edge are nodes, or the decisions of a because_of  *)
(* edge, so that they are typed when the nodes are.                         *)
(***************************************************************************)
IsAFunction(es) == es = [k \in DOMAIN es |-> es[k]]

Keys == Seq(STRING) \X Seq(STRING) \X STRING

LedgerInv ==
  /\ LInv /\ NodesType(nodes) /\ N \subseteq Seq(STRING)
  /\ DOMAIN edges \subseteq Keys /\ IsAFunction(edges) /\ edgeSeen \subseteq DOMAIN edges
  /\ log \in Seq(Event) /\ Len(log) <= MaxEvents

LEMMA TwoNames ==
  ASSUME NEW S, NEW a \in S, NEW b \in S PROVE <<a, b>> \in Seq(S)
OBVIOUS

LEMMA NodeNames ==
  ASSUME NEW name \in STRING
  PROVE  {<<"decision", name>>, <<"action", name>>, <<"file", name>>} \subseteq Seq(STRING)
<1>1. "decision" \in STRING /\ "action" \in STRING /\ "file" \in STRING
  BY LiteralsAreStrings
<1>2. \A kind \in STRING : <<kind, name>> \in Seq(STRING)
  BY TwoNames
<1> QED BY <1>1, <1>2

LEMMA NamesTyped ==
  ASSUME NEW x, EventType(x) PROVE View!Names(x) \subseteq Seq(STRING)
<1>1. <<"decision", x.id>> \in Seq(STRING)
  BY NodeNames DEF EventType
<1>2. View!Action(x) \in Seq(STRING)
  <2>1. View!Action(x) = <<"action", IF x.action = None THEN x.id ELSE x.action>>
    BY DEF View!Action
  <2> QED BY <2>1, NodeNames DEF EventType
<1>3. View!Paths(x) \subseteq Seq(STRING)
  <2>1. \A y \in x.evidence : y.path # None => <<"file", y.path>> \in Seq(STRING)
    BY NodeNames DEF EventType
  <2> QED BY <2>1 DEF View!Paths
<1> QED BY <1>1, <1>2, <1>3 DEF View!Names

LEMMA MayTyped ==
  ASSUME LInv, NEW x, EventType(x) PROVE View!May(x) \subseteq Keys
<1> SUFFICES ASSUME NEW k \in View!May(x) PROVE k \in Keys
  OBVIOUS
<1>1. Scan \cup View!Names(x) \subseteq Seq(STRING)
  BY NamesTyped, NamesAssumption
<1> DEFINE types == {"contains", "because_of", "relates_to", "produced", "promoted_to"}
<1>2. \E from, to : \E t \in types : k = <<from, to, t>>
  <2>1. CASE x.kind = "decided"
    BY <2>1 DEF View!May
  <2>2. CASE x.kind = "evidence_attached"
    BY <2>2 DEF View!May
  <2>3. CASE x.kind \in {"created", "transitioned", "completed", "repaired", "reconciled"}
    <3> DEFINE low == {<<p, id, "contains">> : p \in View!Parents(x) \ {None},
                                               id \in View!Artifacts(x) \ {None}}
               high == {<<from, f, "promoted_to">> : from \in View!Promoters(x) \ {None},
                                                     f \in View!Festivals(x) \ {None}}
    <3>1. k \in low \cup high
      BY <2>3 DEF View!May
    <3> QED BY <3>1
  <2> QED BY <2>1, <2>2, <2>3 DEF View!May
<1>3. k[1] \in Seq(STRING) /\ (k[2] \in Seq(STRING) \/ k[3] = "because_of")
  BY <1>1, MayEnds
<1>4. k[3] = "because_of" => k[2] \in Seq(STRING)
  <2>1. k[3] = "because_of" => \E p \in x.priors : k[2] = <<"decision", p>>
    BY DEF View!May
  <2>2. \A p \in x.priors : <<"decision", p>> \in Seq(STRING)
    BY NodeNames DEF EventType
  <2> QED BY <2>1, <2>2
<1>5. k = <<k[1], k[2], k[3]>> /\ k[3] \in STRING
  BY <1>2, LiteralsAreStrings
<1> QED BY <1>3, <1>4, <1>5 DEF Keys

LEMMA AnnotatedTyped ==
  ASSUME NEW x, EventType(x), NEW id, NodesType(nodes)
  PROVE  NodesType(Annotated(x, id))
<1>1. CASE id = None
  BY <1>1 DEF Annotated
<1>2. CASE id # None
  <2> SUFFICES ASSUME NEW n \in N
               PROVE  LET r == Annotated(x, id)[n]
                      IN  /\ DOMAIN r = {"status", "created", "updated", "repaired"}
                          /\ r.created \in Nat /\ r.updated \in Nat
                          /\ r.repaired \in BOOLEAN
    BY AnnotatedDomain DEF NodesType
  <2>1. x.ts \in Nat
    BY DEF EventType
  <2>2. n # id => Annotated(x, id)[n] = nodes[n]
    BY <1>2 DEF Annotated, N
  <2>3. n = id =>
          /\ DOMAIN Annotated(x, id)[n] = DOMAIN nodes[n]
          /\ Annotated(x, id)[n].created \in {nodes[n].created, x.ts}
          /\ Annotated(x, id)[n].updated = x.ts
          /\ Annotated(x, id)[n].repaired = nodes[n].repaired
    BY <1>2 DEF Annotated, N, NodesType
  <2> QED BY <2>1, <2>2, <2>3 DEF NodesType, N
<1> QED BY <1>1, <1>2

LEMMA NewNodeTyped ==
  ASSUME NEW ts \in Nat
  PROVE  /\ DOMAIN NewNode(ts) = {"status", "created", "updated", "repaired"}
         /\ NewNode(ts).created \in Nat /\ NewNode(ts).updated \in Nat
         /\ NewNode(ts).repaired \in BOOLEAN
BY DEF NewNode

\* Each action writes typed nodes.
LEMMA ApplyTyped ==
  ASSUME LedgerInv, NEW x, EventType(x), Apply(x) PROVE NodesType(nodes')
<1>1. x.ts \in Nat /\ NodesType(nodes)
  BY DEF EventType, LedgerInv
<1>2. \A id : NodesType(Annotated(x, id)) /\ DOMAIN Annotated(x, id) = N
  BY <1>1, AnnotatedTyped, AnnotatedDomain
<1>3. CASE CreatedOrTransitioned(x) \/ Reconciled(x)
  BY <1>2, <1>3 DEF CreatedOrTransitioned, Reconciled
<1>4. CASE Completed(x)
  <2>1. PICK id, done : nodes' = IF done = None THEN Annotated(x, id)
                   ELSE [Annotated(x, id) EXCEPT ![done].status = "completed",
                                                 ![done].updated = x.ts]
    BY <1>4 DEF Completed
  <2> DEFINE was == Annotated(x, id)
  <2>2. NodesType(was)
    BY <1>2
  <2>3. was = nodes' \/ nodes' = [was EXCEPT ![done].status = "completed", ![done].updated = x.ts]
    BY <2>1
  <2> HIDE DEF was
  <2> QED BY <1>1, <2>2, <2>3 DEF NodesType
<1>5. CASE Repaired(x)
  <2>1. PICK id : nodes' = MarkRepaired(Annotated(x, id), x)
    BY <1>5 DEF Repaired
  <2> DEFINE was == Annotated(x, id)  n == <<"action", x.action>>
  <2>2. NodesType(was)
    BY <1>2
  <2>3. was = nodes' \/ nodes' = [was EXCEPT ![n].repaired = TRUE, ![n].updated = x.ts]
    BY <2>1 DEF MarkRepaired
  <2> HIDE DEF was, n
  <2> QED BY <1>1, <2>2, <2>3 DEF NodesType
<1>6. CASE Decided(x)
  BY <1>1, <1>6, NewNodeTyped DEF Decided, NodesType, N
<1>7. CASE Evidence(x)
  <2> DEFINE was == AddNodes({ActionOf(x)} \cup Files(x), x.ts)  n == ActionOf(x)
  <2>1. NodesType(was)
    BY <1>1, NewNodeTyped DEF AddNodes, NodesType, N
  <2>2. nodes' = [was EXCEPT ![n].updated = x.ts]
    BY <1>7 DEF Evidence
  <2> HIDE DEF was, n
  <2> QED BY <1>1, <2>1, <2>2 DEF NodesType
<1>8. CASE Unknown(x)
  BY <1>1, <1>8 DEF Unknown
<1> QED BY <1>3, <1>4, <1>5, <1>6, <1>7, <1>8 DEF Apply

\* The edges are a function, and those touched are among them.
LEMMA AddEdgesFunction ==
  ASSUME NEW old, NEW keys, NEW trust, DOMAIN old = DOMAIN edges,
         edgeSeen \subseteq DOMAIN edges, AddEdges(old, keys, trust)
  PROVE  IsAFunction(edges') /\ edgeSeen' \subseteq DOMAIN edges'
BY DEF AddEdges, IsAFunction

LEMMA ApplySeen ==
  ASSUME LedgerInv, NEW x, Apply(x)
  PROVE  IsAFunction(edges') /\ edgeSeen' \subseteq DOMAIN edges'
<1>1. edgeSeen \subseteq DOMAIN edges /\ IsAFunction(edges)
  BY DEF LedgerInv
<1>2. DOMAIN Raised(x) = DOMAIN edges
  BY DEF Raised
<1>3. CASE Unknown(x)
  BY <1>1, <1>3 DEF Unknown, IsAFunction
<1>4. CASE ~Unknown(x)
  <2>1. \E old, keys, trust : DOMAIN old = DOMAIN edges /\ AddEdges(old, keys, trust)
    BY <1>2, <1>4 DEF Apply, CreatedOrTransitioned, Completed, Decided, Evidence, Repaired,
                      Reconciled
  <2> QED BY <1>1, <2>1, AddEdgesFunction
<1> QED BY <1>3, <1>4

LEMMA InitLedgerInv == ASSUME Init PROVE LedgerInv
<1>1. nodes = [id \in Scan |-> NewNode(ScanTime)] /\ edges = ScanEdges /\ edgeSeen = {}
      /\ log = <<>>
  BY DEF Init
<1>2. NodesType(nodes) /\ N \subseteq Seq(STRING)
  BY <1>1, NewNodeTyped, LedgerAssumption, NamesAssumption DEF NodesType, N
<1>3. DOMAIN edges \subseteq Keys /\ IsAFunction(edges)
  BY <1>1, LedgerAssumption, NamesAssumption DEF Keys, IsAFunction
<1> QED BY <1>1, <1>2, <1>3, InitLInv, LedgerAssumption DEF LedgerInv

LEMMA NextLedgerInv == ASSUME LedgerInv, [Next]_vars PROVE LedgerInv'
<1>1. LInv'
  BY NextLInv DEF LedgerInv
<1>2. CASE Next
  <2>1. PICK e \in Event : /\ Len(log) < MaxEvents /\ log' = Append(log, e)
                           /\ Apply(AppliedAs(e))
    BY <1>2 DEF Next
  <2>2. EventType(AppliedAs(e))
    BY AppliedTyped
  <2>3. Adds(AppliedAs(e)) /\ NodesType(nodes')
        /\ IsAFunction(edges') /\ edgeSeen' \subseteq DOMAIN edges'
    BY <2>1, <2>2, StepApply, ApplyTyped, ApplySeen DEF LedgerInv
  <2>4. N' \subseteq Seq(STRING)
    BY <2>2, <2>3, NamesTyped DEF LedgerInv, Adds
  <2>5. DOMAIN edges' \subseteq Keys
    BY <2>2, <2>3, MayTyped DEF LedgerInv, Adds
  <2>6. log' \in Seq(Event) /\ Len(log') <= MaxEvents
    BY <2>1, LedgerAssumption DEF LedgerInv
  <2> QED BY <1>1, <2>3, <2>4, <2>5, <2>6 DEF LedgerInv, NodesType, IsAFunction
<1>3. CASE UNCHANGED vars
  BY <1>1, <1>3 DEF vars, LedgerInv, NodesType, N, IsAFunction
<1> QED BY <1>2, <1>3

\* Whatever the ledger says, nodes and edges stay well formed, and each edge
\* has a source and a confidence that the store knows (addEdge, annotateArtifact).
THEOREM LedgerTypes == Spec => []TypeOK
<1>1. LedgerInv => TypeOK
  BY DEF LedgerInv, LInv, TypeOK, Keys, Sound, IsAFunction, N
<1> QED BY <1>1, InitLedgerInv, NextLedgerInv, PTL DEF Spec

=============================================================================
