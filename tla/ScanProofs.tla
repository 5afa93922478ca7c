------------------------------ MODULE ScanProofs ------------------------------
(***************************************************************************)
(* Proofs about Scan, for any campaign and any budgets: no pass leaves an   *)
(* edge without its nodes, no container lies below what it contains, no     *)
(* scan that ends without an error leaves a part of a festival out, or      *)
(* anything that has a place without a container, and what notes link to    *)
(* does not depend on the order they are visited in.                       *)
(***************************************************************************)
EXTENDS Scan, WorktreeProofs

Ended == {"scopes", "failed"}

\* Only the root's folder is sure to be there, and a walk up ends at it.
RootFolder == pc \notin Ended => <<"folder">> \in N
Places == \A id \in N : id[1] # "tag" => at[id] \in Seq(STRING)
IndexNodes == \A stem \in DOMAIN noteIndex : noteIndex[stem] \in N
SignalNodes == \A s \in signals : s[1][1] \in N /\ s[1][2] \in N

\* Notes to visit are nodes, and posting lists to pair have nodes for members.
NotesTodo == pc = "links" => todo \subseteq N
ListsTodo ==
  pc \in ToSet(Sources) => \A list \in todo : \A m \in list[2] : m[1] \in N

EInv == /\ camp \in DOMAIN Campaign
        /\ RootFolder /\ Places /\ IndexNodes /\ SignalNodes /\ NotesTodo /\ ListsTodo
        /\ EndsExist

-----------------------------------------------------------------------------
(***************************************************************************)
(* Paths and identifiers.                                                  *)
(***************************************************************************)
LEMMA Prefixed ==
  ASSUME NEW S, NEW k \in S, NEW p \in Seq(S)
  PROVE  /\ <<k>> \o p \in Seq(S)
         /\ Tail(<<k>> \o p) = p
         /\ (<<k>> \o p)[1] = k
<1> DEFINE id == <<k>> \o p
<1>1. id \in Seq(S) /\ Len(id) = Len(p) + 1 /\ Len(p) \in Nat
  OBVIOUS
<1>2. id[1] = k /\ \A i \in 1 .. Len(p) : id[i + 1] = p[i]
  OBVIOUS
<1>3. Tail(id) = p
  <2>1. Tail(id) \in Seq(S) /\ Len(Tail(id)) = Len(p)
    <3>1. id # <<>>
      BY <1>1
    <3> HIDE DEF id
    <3> QED BY <1>1, <3>1
  <2>2. \A i \in 1 .. Len(p) : Tail(id)[i] = id[i + 1]
    BY <1>1
  <2> QED BY <1>2, <2>1, <2>2
<1> QED BY <1>1, <1>2, <1>3

LEMMA PathId ==
  ASSUME NEW k, NEW p \in Seq(STRING)
  PROVE  /\ Tail(<<k>> \o p) = p
         /\ (<<k>> \o p)[1] = k
<1> DEFINE T == STRING \cup {k}
<1>1. p \in Seq(T)
  <2>1. p \in [1 .. Len(p) -> STRING] /\ Len(p) \in Nat
    OBVIOUS
  <2>2. p \in [1 .. Len(p) -> T]
    BY <2>1
  <2> QED BY <2>1, <2>2
<1>2. k \in T
  OBVIOUS
<1> HIDE DEF T
<1> QED BY <1>1, <1>2, Prefixed

LEMMA RootId == <<"folder">> \o <<>> = <<"folder">>
OBVIOUS

LEMMA ParentPath ==
  ASSUME NEW p \in Seq(STRING)
  PROVE  Parent(p) \in Seq(STRING)
<1>1. CASE p = <<>>
  BY <1>1 DEF Parent
<1>2. CASE p # <<>>
  <2>1. Len(p) \in Nat /\ Len(p) >= 1
    BY <1>2
  <2>2. Len(p) - 1 \in 0 .. Len(p)
    BY <2>1
  <2>3. SubSeq(p, 1, Len(p) - 1) \in Seq(STRING)
    BY <2>1
  <2> QED BY <1>2, <2>3 DEF Parent, Front
<1> QED BY <1>1, <1>2

\* findExistingFolderAncestor finds a folder wherever the root has one, at or
\* above the directory it starts from.
LEMMA HomeAbove ==
  ASSUME NEW ids, <<"folder">> \in ids, NEW d \in Seq(STRING)
  PROVE  /\ Home(ids, d) \in ids
         /\ \E i \in 0 .. Len(d) : Home(ids, d) = <<"folder">> \o SubSeq(d, 1, i)
<1> DEFINE cut(i) == SubSeq(d, 1, i)
           found == {i \in 0 .. Len(d) : <<"folder">> \o cut(i) \in ids}
           up == {x \in UpFrom(d) : <<"folder">> \o x \in ids}
<1>1. \A i \in 0 .. Len(d) : cut(i) \in Seq(STRING) /\ Len(cut(i)) = i
  OBVIOUS
<1>2. 0 \in found
  <2>1. cut(0) = <<>> /\ 0 \in 0 .. Len(d)
    OBVIOUS
  <2>2. <<"folder">> \o cut(0) \in ids
    BY <2>1, RootId
  <2> QED BY <2>1, <2>2
<1>3. PICK m \in found : \A i \in found : i <= m
  <2>1. Len(d) \in Nat /\ found \in SUBSET (0 .. Len(d)) /\ found # {}
    BY <1>2
  <2> HIDE DEF found
  <2> QED BY <2>1, Greatest
<1>4. up = {cut(i) : i \in found}
  BY DEF UpFrom
<1>5. cut(m) \in up /\ \A x \in up : Len(x) <= Len(cut(m))
  BY <1>1, <1>3, <1>4
<1>6. Deepest(up) \in up
  BY <1>5 DEF Deepest
<1>7. Home(ids, d) = <<"folder">> \o Deepest(up)
  BY DEF Home
<1>8. PICK i \in 0 .. Len(d) : Deepest(up) = cut(i)
  BY <1>4, <1>6
<1>9. <<"folder">> \o Deepest(up) \in ids
  BY <1>6
<1> QED BY <1>7, <1>8, <1>9

LEMMA HomeFound ==
  ASSUME NEW ids, <<"folder">> \in ids, NEW d \in Seq(STRING)
  PROVE  Home(ids, d) \in ids
BY HomeAbove

\* What is placed has both ends, wherever its folder turns out to be.
LEMMA PlacedEnds ==
  ASSUME NEW ids, <<"folder">> \in ids, NEW p \in Seq(STRING), NEW id
  PROVE  Placed(ids, p, id).from \in ids /\ Placed(ids, p, id).to = id
BY ParentPath, HomeFound DEF Placed, Structural

LEMMA FilePaths ==
  ASSUME camp \in DOMAIN Campaign
  PROVE  /\ W.dirs \subseteq Seq(STRING) /\ W.files \subseteq Seq(STRING)
         /\ W.listed \subseteq Seq(STRING) /\ W.nested \subseteq Seq(STRING)
         /\ DOMAIN W.text \subseteq Seq(STRING) /\ DOMAIN W.canvas \subseteq Seq(STRING)
         /\ \A p \in DOMAIN W.package : W.package[p] \in STRING
BY ScanAssumption DEF W, CampaignType

-----------------------------------------------------------------------------
(***************************************************************************)
(* Nodes.                                                                  *)
(***************************************************************************)
LEMMA PutNodes ==
  ASSUME NEW old, NEW new
  PROVE  /\ DOMAIN Put(old, new) = DOMAIN old \cup DOMAIN new
         /\ \A id \in DOMAIN new : Put(old, new)[id] = new[id]
         /\ \A id \in DOMAIN old \ DOMAIN new : Put(old, new)[id] = old[id]
BY DEF Put

\* Where what is put has places, the nodes still have.
LEMMA PutPlaces ==
  ASSUME Places, NEW new, at' = Put(at, new),
         \A id \in DOMAIN new : id[1] # "tag" => new[id] \in Seq(STRING)
  PROVE  Places' /\ N' = N \cup DOMAIN new
<1>1. N' = N \cup DOMAIN new
  BY PutNodes DEF N
<1>2. ASSUME NEW id \in N', id[1] # "tag" PROVE at'[id] \in Seq(STRING)
  <2>1. CASE id \in DOMAIN new
    <3>1. Put(at, new)[id] = new[id]
      BY <2>1 DEF Put
    <3> QED BY <1>2, <2>1, <3>1
  <2>2. CASE id \in N \ DOMAIN new
    <3>1. Put(at, new)[id] = at[id]
      BY <2>2, PutNodes DEF N
    <3> QED BY <1>2, <2>2, <3>1 DEF Places
  <2> QED BY <1>1, <2>1, <2>2
<1> QED BY <1>1, <1>2 DEF Places

LEMMA NamedPlaces ==
  ASSUME NEW kind, NEW ps, ps \subseteq Seq(STRING)
  PROVE  /\ DOMAIN Named(kind, ps) = {<<kind>> \o p : p \in ps}
         /\ \A id \in DOMAIN Named(kind, ps) : Named(kind, ps)[id] \in Seq(STRING)
<1> DEFINE ids == {<<kind>> \o p : p \in ps}
<1>1. DOMAIN Named(kind, ps) = ids
  BY DEF Named
<1>2. ASSUME NEW p \in ps PROVE Named(kind, ps)[<<kind>> \o p] \in Seq(STRING)
  <2>1. p \in Seq(STRING) /\ <<kind>> \o p \in ids
    OBVIOUS
  <2>2. Named(kind, ps)[<<kind>> \o p] = Tail(<<kind>> \o p)
    BY <2>1 DEF Named
  <2> QED BY <2>1, <2>2, PathId
<1> QED BY <1>1, <1>2

LEMMA ByNamePlaces ==
  ASSUME NEW kind, NEW ps, ps \subseteq Seq(STRING)
  PROVE  \A id \in DOMAIN ByName(kind, ps) : ByName(kind, ps)[id] \in Seq(STRING)
<1> DEFINE ids == {<<kind, Last(p)>> : p \in ps}
<1>1. DOMAIN ByName(kind, ps) = ids
  BY DEF ByName
<1> SUFFICES ASSUME NEW id \in ids PROVE ByName(kind, ps)[id] \in Seq(STRING)
  BY <1>1
<1>2. \E p \in ps : id = <<kind, Last(p)>>
  OBVIOUS
<1>3. (CHOOSE p \in ps : id = <<kind, Last(p)>>) \in ps
  BY <1>2
<1> QED BY <1>3 DEF ByName

-----------------------------------------------------------------------------
(***************************************************************************)
(* Posting lists.                                                          *)
(***************************************************************************)
LEMMA OnceOf ==
  ASSUME NEW ids, NEW m \in Once(ids)
  PROVE  m[1] \in ids
BY DEF Once

LEMMA MembersAreCandidates ==
  ASSUME NEW source \in ToSet(Sources), NEW C, NEW refs, NEW boundaries, NEW meta,
         NEW v \in DOMAIN Groups(source, C, refs, boundaries, meta),
         NEW m \in Groups(source, C, refs, boundaries, meta)[v]
  PROVE  m[1] \in C
<1> DEFINE groups == Groups(source, C, refs, boundaries, meta)
<1>1. CASE groups = ByFolder(C)
  BY <1>1, OnceOf DEF ByFolder
<1>2. CASE groups = ByAncestor(C)
  BY <1>2, OnceOf DEF ByAncestor
<1>3. CASE groups = ByTag(C, refs, meta)
  BY <1>3, OnceOf DEF ByTag
<1>4. CASE groups = ByFrontmatter(C, meta)
  BY <1>4 DEF ByFrontmatter
<1>5. CASE groups = ByRepoRoot(C, boundaries)
  BY <1>5, OnceOf DEF ByRepoRoot
<1>6. source \in {"same_folder", "shared_ancestor", "shared_tag",
                  "shared_frontmatter", "shared_repo_root"}
  BY DEF ToSet, Sources
<1> QED BY <1>1, <1>2, <1>3, <1>4, <1>5, <1>6 DEF Groups

-----------------------------------------------------------------------------
(***************************************************************************)
(* What all passes have in common.                                         *)
(***************************************************************************)
Joined(e, ids) == {e.from, e.to} \subseteq ids

\* A pass that only adds: nodes that have places, edges that have ends.
Adds ==
  /\ camp' = camp /\ N \subseteq N' /\ Places'
  /\ \A e \in edges' \ edges : Joined(e, N')

LEMMA AddsKeeps ==
  ASSUME EInv, Adds
  PROVE  camp' \in DOMAIN Campaign /\ Places' /\ EndsExist'
BY DEF EInv, Adds, EndsExist, Joined

LEMMA EnterKeeps ==
  ASSUME NEW pass, Enter(pass)
  PROVE  NotesTodo' /\ ListsTodo'
<1>1. CASE pass = "links"
  BY <1>1 DEF Enter, ToVisit, NotesTodo, ListsTodo, ToSet, Sources, NotesIn, N
<1>2. CASE pass \in ToSet(Sources)
  <2>1. pass \notin {"festivals", "links", "canvases"} /\ pc' = pass
    BY <1>2 DEF Enter, ToSet, Sources
  <2> DEFINE groups == Posting(pass, DOMAIN at', edges')
  <2>2. todo' \subseteq {<<v, groups[v]>> : v \in DOMAIN groups}
    BY <1>2, <2>1 DEF Enter, ToVisit
  <2>3. ASSUME NEW v \in DOMAIN groups, NEW m \in groups[v]
        PROVE  m[1] \in Candidates(DOMAIN at')
    BY <1>2, <2>3, MembersAreCandidates DEF Posting
  <2>4. Candidates(DOMAIN at') \subseteq N'
    BY DEF Candidates, N
  <2> QED BY <2>1, <2>2, <2>3, <2>4 DEF NotesTodo, ListsTodo
<1>3. CASE pass \notin {"links"} \cup ToSet(Sources)
  BY <1>3 DEF Enter, NotesTodo, ListsTodo
<1> QED BY <1>1, <1>2, <1>3

LEMMA PassKeeps ==
  ASSUME EInv, Adds, NEW pass, Enter(pass), <<"folder">> \in N',
         UNCHANGED <<signals, noteIndex>>
  PROVE  EInv'
<1>1. RootFolder' /\ IndexNodes' /\ SignalNodes'
  BY DEF EInv, Adds, RootFolder, IndexNodes, SignalNodes
<1> QED BY <1>1, AddsKeeps, EnterKeeps DEF EInv

\* A step within a pass, which takes something off what there is to do.
LEMMA VisitKeeps ==
  ASSUME EInv, Adds, todo' \subseteq todo, UNCHANGED <<pc, signals, noteIndex>>
  PROVE  EInv'
<1>1. RootFolder' /\ IndexNodes' /\ SignalNodes' /\ NotesTodo' /\ ListsTodo'
  BY DEF EInv, Adds, RootFolder, IndexNodes, SignalNodes, NotesTodo, ListsTodo
<1> QED BY <1>1, AddsKeeps DEF EInv

-----------------------------------------------------------------------------
(***************************************************************************)
(* The passes.                                                             *)
(***************************************************************************)
LEMMA SourceNames ==
  ToSet(Sources) = {"same_folder", "shared_ancestor", "shared_tag",
                    "shared_frontmatter", "shared_repo_root"}
BY DEF ToSet, Sources

LEMMA FolderPaths ==
  ASSUME camp \in DOMAIN Campaign
  PROVE  Folders \subseteq Seq(STRING)
<1>1. W.nested \subseteq Seq(STRING) /\ W.listed \subseteq Seq(STRING)
  BY FilePaths
<1>2. \A p \in Seq(STRING) : Ancestors(p) \subseteq Seq(STRING)
  <2> SUFFICES ASSUME NEW p \in Seq(STRING), NEW i \in 1 .. Len(p) - 1
               PROVE  SubSeq(p, 1, i) \in Seq(STRING)
    BY DEF Ancestors
  <2> QED OBVIOUS
<1>3. UNION {Ancestors(p) : p \in W.listed} \subseteq Seq(STRING)
  BY <1>1, <1>2
<1>4. <<>> \in Seq(STRING)
  OBVIOUS
<1> QED BY <1>1, <1>3, <1>4 DEF Folders

LEMMA ScopesStep ==
  ASSUME EInv, ScanScopes
  PROVE  EInv'
<1> DEFINE repos == Named("repo", W.nested)  folders == Named("folder", Folders)
           new == Put(repos, folders)
<1>1. W.nested \subseteq Seq(STRING) /\ W.listed \subseteq Seq(STRING)
  BY FilePaths DEF EInv
<1>2. Folders \subseteq Seq(STRING)
  BY FolderPaths DEF EInv
<1>3. /\ DOMAIN repos = {<<"repo">> \o p : p \in W.nested}
      /\ \A id \in DOMAIN repos : repos[id] \in Seq(STRING)
  BY <1>1, NamedPlaces
<1>4. /\ DOMAIN folders = {<<"folder">> \o p : p \in Folders}
      /\ \A id \in DOMAIN folders : folders[id] \in Seq(STRING)
  BY <1>2, NamedPlaces
<1>5. Places' /\ N' = N \cup DOMAIN repos \cup DOMAIN folders
  <2>1. DOMAIN new = DOMAIN repos \cup DOMAIN folders
    BY PutNodes
  <2>2. \A id \in DOMAIN new : new[id] \in Seq(STRING)
    BY <1>3, <1>4, <2>1 DEF Put
  <2>3. at' = Put(at, new)
    BY DEF ScanScopes
  <2> HIDE DEF new
  <2> QED BY <2>1, <2>2, <2>3, PutPlaces DEF EInv
<1>6. \A e \in edges' \ edges : Joined(e, N')
  <2>1. ASSUME NEW d \in Folders, Parent(d) \in Folders
        PROVE  Joined(Structural(<<"folder">> \o Parent(d), <<"folder">> \o d), N')
    <3>1. <<"folder">> \o Parent(d) \in N' /\ <<"folder">> \o d \in N'
      BY <1>4, <1>5, <2>1
    <3> QED BY <3>1 DEF Joined, Structural
  <2>2. ASSUME NEW b \in W.nested
        PROVE  Joined(Structural(<<"repo">> \o b, <<"folder">> \o b), N')
    <3>1. b \in Folders
      BY DEF Folders
    <3>2. <<"repo">> \o b \in N' /\ <<"folder">> \o b \in N'
      BY <1>3, <1>4, <1>5, <3>1
    <3> QED BY <3>2 DEF Joined, Structural
  <2> QED BY <2>1, <2>2 DEF ScanScopes
<1>7. <<"folder">> \in N'
  BY <1>4, <1>5, RootId DEF Folders
<1>8. Adds
  BY <1>5, <1>6 DEF Adds, ScanScopes
<1> QED BY <1>7, <1>8, PassKeeps DEF ScanScopes, NotInferring

LEMMA AddStep ==
  ASSUME EInv, NEW pass, pass \notin Ended, NEW new, Add(pass, new),
         \A id \in DOMAIN new : new[id] \in Seq(STRING)
  PROVE  EInv'
<1>1. Places' /\ N' = N \cup DOMAIN new
  BY PutPlaces DEF Add, EInv
<1>2. Adds
  BY <1>1 DEF Adds, Add
<1>3. <<"folder">> \in N'
  BY <1>1 DEF EInv, RootFolder, Add, Running
<1> QED BY <1>2, <1>3, PassKeeps DEF Add, NotInferring

LEMMA ArtifactsStep ==
  ASSUME EInv, ScanProjects \/ ScanWorkflow \/ ScanIntents
  PROVE  EInv'
<1>0. W.dirs \subseteq Seq(STRING) /\ W.files \subseteq Seq(STRING)
  BY FilePaths DEF EInv
<1>1. CASE ScanProjects
  <2> DEFINE ps == Shown({<<"projects">>})
  <2>1. ps \subseteq Seq(STRING)
    BY <1>0 DEF SubDirs, Shown
  <2>2. \A id \in DOMAIN ByName("project", ps) : ByName("project", ps)[id] \in Seq(STRING)
    BY <2>1, ByNamePlaces
  <2>3. Add("projects", ByName("project", ps))
    BY <1>1 DEF ScanProjects
  <2> HIDE DEF ps
  <2> QED BY <2>2, <2>3, AddStep DEF Ended
<1>2. CASE ScanWorkflow
  <2> DEFINE ds == Shown({<<"workflow", "design">>})
             es == Shown({<<"workflow", "explore">>})
             design == ByName("design_doc", ds)
             explore == ByName("explore_doc", es)
             new == Put(design, explore)
  <2>1. ds \subseteq Seq(STRING) /\ es \subseteq Seq(STRING)
    BY <1>0 DEF SubDirs, Shown
  <2>2. /\ \A id \in DOMAIN design : design[id] \in Seq(STRING)
        /\ \A id \in DOMAIN explore : explore[id] \in Seq(STRING)
    <3> HIDE DEF ds, es
    <3> QED BY <2>1, ByNamePlaces
  <2>3. Add("workflow", new)
    BY <1>2 DEF ScanWorkflow
  <2>4. \A id \in DOMAIN new : new[id] \in Seq(STRING)
    <3> HIDE DEF design, explore
    <3> QED BY <2>2 DEF Put
  <2> HIDE DEF new
  <2> QED BY <2>3, <2>4, AddStep DEF Ended
<1>3. CASE ScanIntents
  <2> DEFINE intents == {p \in Intents : \A q \in Intents : ~Overtakes(q, p)}
             new == [id \in {<<"intent", Name(p).bare>> : p \in intents} |->
                       CHOOSE p \in intents : Name(p).bare = id[2]]
  <2>1. Add("intents", new)
    BY <1>3 DEF ScanIntents
  <2>2. intents \subseteq Seq(STRING)
    BY <1>0 DEF Intents
  <2>3. ASSUME NEW p \in intents
        PROVE  (CHOOSE q \in intents : Name(q).bare = <<"intent", Name(p).bare>>[2]) \in intents
    <3> HIDE DEF intents
    <3> QED OBVIOUS
  <2>4. \A id \in DOMAIN new : new[id] \in Seq(STRING)
    <3> HIDE DEF intents
    <3> QED BY <2>2, <2>3
  <2> HIDE DEF new
  <2> QED BY <2>1, <2>4, AddStep DEF Ended
<1> QED BY <1>1, <1>2, <1>3

\* What lies below a festival hangs on what is above it there.
LEMMA PartsStep ==
  ASSUME EInv, NEW l, NEW phases \in SUBSET Phases(l), ScanParts(l, phases)
  PROVE  /\ EInv'
         /\ N \subseteq N'
         /\ \A p \in Festivals(l) \cup Below(phases) : FestivalId(l, p) \in N'
<1> DEFINE parts == Below(phases)
           ids == {FestivalId(l, p) : p \in Festivals(l) \cup parts}
           new == [id \in ids |-> l \o Tail(id)]
<1>1. parts \subseteq Seq(STRING) /\ Festivals(l) \subseteq Seq(STRING)
  <2>1. W.dirs \subseteq Seq(STRING) /\ W.files \subseteq Seq(STRING)
    BY FilePaths DEF EInv
  <2> QED BY <2>1 DEF Below, Festivals, Phases, SubDirs, Shown
<1>2. \A p \in parts : Parent(p) \in Festivals(l) \cup parts
  BY DEF Below, Phases, SubDirs, Shown
<1>3. \A p \in Festivals(l) \cup parts : l \in Seq(STRING)
  <2>1. \A p \in Festivals(l) : Parent(p) = l
    BY DEF Festivals, SubDirs, Shown
  <2>2. ASSUME NEW p \in Festivals(l) PROVE l \in Seq(STRING)
    BY <1>1, <2>1, ParentPath
  <2>3. parts # {} => Festivals(l) # {}
    BY DEF Below, Phases, SubDirs, Shown
  <2> QED BY <2>2, <2>3
<1>4. ASSUME NEW id \in ids PROVE l \o Tail(id) \in Seq(STRING)
  <2>1. PICK p \in Festivals(l) \cup parts : id = FestivalId(l, p)
    OBVIOUS
  <2> DEFINE rest == SubSeq(p, Len(l) + 1, Len(p))
  <2>2. p \in Seq(STRING) /\ l \in Seq(STRING)
    BY <1>1, <1>3
  <2>3. rest \in Seq(STRING)
    <3>1. Len(l) + 1 \in Nat /\ Len(l) + 1 >= 1 /\ Len(p) \in Nat
      BY <2>2
    <3> QED BY <2>2, <3>1
  <2>4. Tail(id) = rest
    BY <2>1, <2>3, PathId DEF FestivalId
  <2>5. l \o rest \in Seq(STRING)
    <3> HIDE DEF rest
    <3> QED BY <2>2, <2>3
  <2> QED BY <2>4, <2>5
<1>5. at' = Put(at, new)
  BY DEF ScanParts
<1>6. Places' /\ N' = N \cup ids
  <2>1. DOMAIN new = ids /\ \A id \in ids : new[id] \in Seq(STRING)
    BY <1>4
  <2> HIDE DEF new
  <2> QED BY <1>5, <2>1, PutPlaces DEF EInv
<1>7. \A e \in edges' \ edges : Joined(e, N')
  <2>1. edges' \ edges \subseteq
          {Structural(FestivalId(l, Parent(p)), FestivalId(l, p)) : p \in parts}
    BY DEF ScanParts
  <2> HIDE DEF parts
  <2> QED BY <1>2, <1>6, <2>1 DEF Structural, Joined
<1>8. Adds
  BY <1>6, <1>7 DEF Adds, ScanParts
<1>9. EInv'
  BY <1>8, VisitKeeps DEF ScanParts, NotInferring
<1> QED BY <1>6, <1>9

LEMMA FestivalsStep ==
  ASSUME EInv, NEW l, ScanLifecycle(l) \/ StopInLifecycle(l)
  PROVE  EInv'
<1>1. \E phases \in SUBSET Phases(l) : ScanParts(l, phases)
  BY DEF ScanLifecycle, StopInLifecycle
<1> QED BY <1>1, PartsStep

LEMMA NotesStep ==
  ASSUME EInv, ScanNotes
  PROVE  EInv'
<1> DEFINE new == Named("note", NotePaths)
<1>1. NotePaths \subseteq Seq(STRING)
  BY FilePaths DEF NotePaths, Listed, EInv
<1>2. DOMAIN new = {<<"note">> \o p : p \in NotePaths}
      /\ \A id \in DOMAIN new : new[id] \in Seq(STRING)
  BY <1>1, NamedPlaces
<1>3. at' = Put(at, new) /\ <<"folder">> \in N
  BY DEF ScanNotes, EInv, RootFolder, Running, Ended
<1>4. Places' /\ N' = N \cup DOMAIN new
  <2> HIDE DEF new
  <2> QED BY <1>2, <1>3, PutPlaces DEF EInv
<1>5. \A e \in edges' \ edges : Joined(e, N')
  <2>1. ASSUME NEW p \in NotePaths PROVE Joined(Placed(N, p, <<"note">> \o p), N')
    <3> DEFINE id == <<"note">> \o p
    <3>1. id \in N' /\ N \subseteq N' /\ p \in Seq(STRING)
      BY <1>1, <1>2, <1>4
    <3>2. Placed(N, p, id).from \in N /\ Placed(N, p, id).to = id
      BY <1>3, <3>1, PlacedEnds
    <3> QED BY <3>1, <3>2 DEF Joined
  <2> QED BY <2>1 DEF ScanNotes
<1>6. Adds
  BY <1>4, <1>5 DEF Adds, ScanNotes
<1> QED BY <1>3, <1>4, <1>6, PassKeeps DEF ScanNotes, NotInferring

LEMMA IndexStep ==
  ASSUME EInv, IndexNotes
  PROVE  EInv'
<1>1. PICK index \in [StemsOf(N) -> NotesIn(N)] : noteIndex' = index
  BY DEF IndexNotes
<1>2. NotesIn(N) \subseteq N /\ N' = N
  BY DEF NotesIn, IndexNotes, N
<1>3. IndexNodes'
  BY <1>1, <1>2 DEF IndexNodes
<1>4. RootFolder' /\ Places' /\ SignalNodes' /\ EndsExist'
  BY <1>2 DEF IndexNotes, NotInferring, EInv, RootFolder, Places, SignalNodes, EndsExist,
              Running, Ended
<1>5. NotesTodo' /\ ListsTodo' /\ camp' \in DOMAIN Campaign
  BY EnterKeeps DEF IndexNotes, EInv
<1> QED BY <1>3, <1>4, <1>5 DEF EInv

LEMMA KnownNodes ==
  ASSUME NEW ids, NEW p
  PROVE  KnownAt(ids, p) \subseteq ids
BY DEF KnownAt

LEMMA LinkedPaths ==
  ASSUME EInv, NEW n
  PROVE  Linked(n) \subseteq LinkedIn(W) \ {Outside} /\ Linked(n) \subseteq Seq(STRING)
<1>1. Linked(n) \subseteq LinkedIn(W) \ {Outside}
  <2>1. CASE Tail(n) \in DOMAIN W.text \ W.unread
    <3>1. TextOf(Tail(n)) = W.text[Tail(n)]
      BY <2>1 DEF TextOf
    <3> QED BY <2>1, <3>1 DEF Linked, LinkedIn
  <2>2. CASE Tail(n) \notin DOMAIN W.text \ W.unread
    BY <2>2 DEF TextOf, Linked, Blank
  <2> QED BY <2>1, <2>2
<1>2. LinkedIn(W) \subseteq Seq(STRING)
  BY ScanAssumption DEF EInv, W, LinksArePaths
<1> QED BY <1>1, <1>2

\* A link is to a node there is, or to an attachment that is added with it.
LEMMA LinkTargetKinds ==
  ASSUME EInv, NEW n
  PROVE  \A id \in LinkTargets(n) \ N : \E p \in Seq(STRING) : id = <<"attachment">> \o p
<1> SUFFICES ASSUME NEW p \in Linked(n),
                    NEW id \in IF KnownAt(N, p) # {} THEN KnownAt(N, p)
                              ELSE IF Ext(p) \in Markdown THEN {} ELSE {<<"attachment">> \o p},
                    id \notin N
             PROVE  \E q \in Seq(STRING) : id = <<"attachment">> \o q
  BY DEF LinkTargets
<1>1. id = <<"attachment">> \o p
  BY KnownNodes
<1> QED BY <1>1, LinkedPaths

LEMMA WikiNodes ==
  ASSUME EInv, NEW target
  PROVE  WikiTarget(target) \subseteq N
BY DEF WikiTarget, NotesIn, EInv, IndexNodes

LEMMA LinkStep ==
  ASSUME EInv, NEW n \in todo, LinkNote(n)
  PROVE  EInv'
<1> DEFINE tags == {<<"tag", t>> : t \in TextOf(Tail(n)).inline}
           wiki == UNION {WikiTarget(t) : t \in TextOf(Tail(n)).wiki}
           found == LinkTargets(n) \cup wiki
           ids == (LinkTargets(n) \cup tags) \ N
           new == [id \in ids |-> IF id[1] = "tag" THEN NoPath ELSE Tail(id)]
<1>1. /\ at' = Put(at, new)
      /\ edges' = edges \cup {Explicit(n, id, "links_to") : id \in found}
                       \cup {Explicit(n, id, "references") : id \in tags}
  BY DEF LinkNote
<1>2. ASSUME NEW id \in ids, id[1] # "tag" PROVE new[id] \in Seq(STRING)
  <2>1. PICK p \in Seq(STRING) : id = <<"attachment">> \o p
    BY <1>2, LinkTargetKinds
  <2>2. Tail(id) = p
    BY <2>1, PathId
  <2> QED BY <1>2, <2>2
<1>3. Places' /\ N' = N \cup ids
  <2>1. DOMAIN new = ids
    OBVIOUS
  <2> HIDE DEF new
  <2> QED BY <1>1, <1>2, <2>1, PutPlaces DEF EInv
<1>4. n \in N /\ wiki \subseteq N
  BY WikiNodes DEF EInv, NotesTodo, LinkNote, Running
<1>5. \A e \in edges' \ edges : Joined(e, N')
  <2>1. n \in N' /\ found \subseteq N' /\ tags \subseteq N'
    BY <1>3, <1>4
  <2> HIDE DEF found, tags
  <2> QED BY <1>1, <2>1 DEF Explicit, Joined
<1>6. Adds
  BY <1>3, <1>5 DEF Adds, LinkNote
<1> QED BY <1>6, VisitKeeps DEF LinkNote, NotInferring

LEMMA CanvasStep ==
  ASSUME EInv, LinkCanvas
  PROVE  EInv'
<1> DEFINE p == SelectSeq(Order, LAMBDA x : x \in todo)[1]
           canvas == <<"canvas">> \o p
           new == Named("canvas", {p})
<1>1. CASE UNCHANGED <<at, edges>>
  <2>1. Adds
    BY <1>1 DEF Adds, N, Places, EInv, LinkCanvas
  <2> QED BY <2>1, VisitKeeps DEF LinkCanvas, NotInferring
<1>2. CASE ~ UNCHANGED <<at, edges>>
  <2> DEFINE targets == UNION {KnownAt(N \cup {canvas}, Resolve(<<>>, names)) : names \in W.canvas[p]}
  <2>1. /\ p \in DOMAIN W.canvas
        /\ at' = Put(at, new)
        /\ edges' = edges \cup {Placed(N, p, canvas)}
                         \cup {Explicit(canvas, id, "links_to") : id \in targets}
    BY <1>2 DEF LinkCanvas
  <2>2. p \in Seq(STRING)
    BY <2>1, FilePaths DEF EInv
  <2>3. DOMAIN new = {canvas} /\ \A id \in DOMAIN new : new[id] \in Seq(STRING)
    <3> HIDE DEF p
    <3>1. {p} \subseteq Seq(STRING)
      BY <2>2
    <3>2. /\ DOMAIN new = {<<"canvas">> \o q : q \in {p}}
          /\ \A id \in DOMAIN new : new[id] \in Seq(STRING)
      BY <3>1, NamedPlaces
    <3> QED BY <3>2
  <2>4. Places' /\ N' = N \cup {canvas}
    <3> HIDE DEF new
    <3> QED BY <2>1, <2>3, PutPlaces DEF EInv
  <2>5. targets \subseteq N \cup {canvas}
    <3> HIDE DEF p, canvas
    <3> SUFFICES ASSUME NEW names \in W.canvas[p]
                 PROVE  KnownAt(N \cup {canvas}, Resolve(<<>>, names)) \subseteq N \cup {canvas}
      OBVIOUS
    <3> QED BY KnownNodes
  <2>6. <<"folder">> \in N
    BY DEF LinkCanvas, Running, EInv, RootFolder, Ended
  <2>7. Joined(Placed(N, p, canvas), N')
    <3> HIDE DEF p, canvas
    <3> QED BY <2>2, <2>4, <2>6, PlacedEnds DEF Joined
  <2>8. \A e \in edges' \ edges : Joined(e, N')
    <3> HIDE DEF targets, canvas
    <3> QED BY <2>1, <2>4, <2>5, <2>7 DEF Joined, Explicit
  <2>9. Adds
    BY <2>4, <2>8 DEF Adds, LinkCanvas
  <2> QED BY <2>9, VisitKeeps DEF LinkCanvas, NotInferring
<1> QED BY <1>1, <1>2

LEMMA ProceedStep ==
  ASSUME EInv, Proceed
  PROVE  EInv'
<1>1. N' = N /\ Adds /\ <<"folder">> \in N
  <2>1. pc \notin Ended
    BY SourceNames DEF Proceed, Ended
  <2> QED BY <2>1 DEF Proceed, N, Adds, Places, EInv, RootFolder
<1> QED BY <1>1, PassKeeps DEF Proceed, NotInferring

LEMMA BridgeStep ==
  ASSUME EInv, Bridge
  PROVE  EInv'
<1>1. N' = N /\ <<"folder">> \in N /\ Places'
  BY DEF Bridge, N, Running, EInv, RootFolder, Ended, Places
<1>2. ASSUME NEW id \in N, IsBridgeable(id)
      PROVE  Joined(Placed(N, at[id], id), N')
  <2>1. at[id] \in Seq(STRING)
    BY <1>2 DEF EInv, Places, IsBridgeable
  <2> QED BY <1>1, <2>1, PlacedEnds DEF Joined
<1>3. Adds
  BY <1>1, <1>2 DEF Adds, Bridge
<1> QED BY <1>1, <1>3, PassKeeps DEF Bridge, NotInferring

LEMMA CodeStep ==
  ASSUME EInv, CodeSlices
  PROVE  EInv'
<1> DEFINE packages == {PackageOf(p) : p \in GoFiles}
           own == [id \in packages |-> Front(Tail(id))]
           files == Named("file", CodeFiles)
           new == Put(files, own)
<1>1. CodeFiles \subseteq Seq(STRING) /\ GoFiles \subseteq CodeFiles
      /\ \A p \in GoFiles : W.package[p] \in STRING
  BY FilePaths DEF CodeFiles, GoFiles, Listed, EInv
<1>2. DOMAIN files = {<<"file">> \o p : p \in CodeFiles}
      /\ \A id \in DOMAIN files : files[id] \in Seq(STRING)
  BY <1>1, NamedPlaces
<1>3. ASSUME NEW p \in GoFiles PROVE Front(Tail(PackageOf(p))) \in Seq(STRING)
  <2> DEFINE path == Append(Parent(p), W.package[p])
  <2>1. path \in Seq(STRING) /\ Len(path) >= 1
    BY <1>1, ParentPath
  <2>2. Tail(PackageOf(p)) = path
    BY <2>1, PathId DEF PackageOf
  <2> HIDE DEF path
  <2>3. SubSeq(path, 1, Len(path) - 1) \in Seq(STRING)
    BY <2>1
  <2> QED BY <2>2, <2>3 DEF Front
<1>4. DOMAIN new = DOMAIN files \cup packages
      /\ \A id \in DOMAIN new : new[id] \in Seq(STRING)
  <2>1. \A id \in packages : own[id] \in Seq(STRING)
    BY <1>3
  <2>2. DOMAIN own = packages
    OBVIOUS
  <2> HIDE DEF packages, own, files
  <2> QED BY <1>2, <2>1, <2>2 DEF Put
<1>5. Places' /\ N' = N \cup DOMAIN files \cup packages
  <2>1. at' = Put(at, new)
    BY DEF CodeSlices
  <2> HIDE DEF new, files, packages
  <2> QED BY <1>4, <2>1, PutPlaces DEF EInv
<1>6. <<"folder">> \in N
  BY DEF CodeSlices, Running, EInv, RootFolder, Ended
<1>7. ASSUME NEW p \in CodeFiles, NEW id \in N' PROVE Joined(Placed(N, p, id), N')
  <2>1. Placed(N, p, id).from \in N /\ Placed(N, p, id).to = id
    BY <1>1, <1>6, PlacedEnds
  <2> QED BY <1>5, <2>1 DEF Joined
<1>8. ASSUME NEW p \in CodeFiles PROVE <<"file">> \o p \in N'
  BY <1>2, <1>5
<1>9. ASSUME NEW p \in GoFiles PROVE PackageOf(p) \in N'
  BY <1>5
<1>10. \A e \in edges' \ edges : Joined(e, N')
  <2>1. ASSUME NEW p \in CodeFiles PROVE Joined(Placed(N, p, <<"file">> \o p), N')
    BY <1>7, <1>8
  <2>2. ASSUME NEW p \in GoFiles
        PROVE  /\ Joined(Placed(N, p, PackageOf(p)), N')
               /\ Joined(Structural(PackageOf(p), <<"file">> \o p), N')
    BY <1>1, <1>7, <1>8, <1>9 DEF Joined, Structural
  <2> QED BY <2>1, <2>2 DEF CodeSlices
<1>11. Adds
  BY <1>5, <1>10 DEF Adds, CodeSlices
<1> QED BY <1>5, <1>6, <1>11, PassKeeps DEF CodeSlices, NotInferring

LEMMA EnumerateStep ==
  ASSUME EInv, NEW list \in todo, Enumerate(list)
  PROVE  EInv'
<1>1. PICK kept \in Kept(list[2]) :
        signals' = signals \cup {<<<<q[1][1], q[2][1]>>, pc, list[1]>> :
                                    q \in Taken(PairsIn(kept), MaxPairs - npairs)}
  BY DEF Enumerate
<1>2. kept \subseteq list[2]
  BY DEF Kept
<1>3. \A q \in Taken(PairsIn(kept), MaxPairs - npairs) : q[1] \in list[2] /\ q[2] \in list[2]
  BY <1>2 DEF Taken, PairsIn
<1>4. \A m \in list[2] : m[1] \in N
  BY DEF EInv, ListsTodo, Enumerate
<1>5. SignalNodes'
  <2>1. N' = N
    BY DEF Enumerate, N
  <2>2. \A q \in Taken(PairsIn(kept), MaxPairs - npairs) : q[1][1] \in N /\ q[2][1] \in N
    BY <1>3, <1>4
  <2>3. ASSUME NEW q \in Taken(PairsIn(kept), MaxPairs - npairs),
               NEW s, s = <<<<q[1][1], q[2][1]>>, pc, list[1]>>
        PROVE  s[1][1] \in N /\ s[1][2] \in N
    BY <2>2, <2>3
  <2> QED BY <1>1, <2>1, <2>3 DEF EInv, SignalNodes
<1>6. todo' \subseteq todo /\ UNCHANGED <<camp, pc, at, edges, noteIndex>>
  BY DEF Enumerate
<1> QED BY <1>5, <1>6 DEF EInv, RootFolder, Places, IndexNodes, NotesTodo, ListsTodo, EndsExist, N

LEMMA AggregateStep ==
  ASSUME EInv, Aggregate
  PROVE  EInv'
<1>1. N' = N /\ <<"folder">> \in N /\ Places'
  BY DEF Aggregate, N, Running, EInv, RootFolder, Ended, Places
<1>2. \A e \in InferredEdges(signals) : Joined(e, N')
  BY <1>1 DEF InferredEdges, InferredEdge, Joined, EInv, SignalNodes
<1>3. Adds
  BY <1>1, <1>2 DEF Adds, Aggregate
<1> QED BY <1>1, <1>3, PassKeeps DEF Aggregate, NotInferring

LEMMA MetadataStep ==
  ASSUME EInv, Metadata
  PROVE  EInv'
<1>1. N' = N /\ <<"folder">> \in N /\ Places'
  BY DEF Metadata, N, Running, EInv, RootFolder, Ended, Places
<1>2. ASSUME NEW id \in N, NEW e \in MetadataEdges(id) PROVE Joined(e, N')
  <2> DEFINE Projects(names) == {<<"project", n>> : n \in names} \cap N
             Related(x) == [Explicit(id, x, "relates_to") EXCEPT !.conf = 8000]
  <2>1. ASSUME NEW x \in N
        PROVE  /\ Joined(Explicit(id, x, "links_to"), N)
               /\ Joined(Explicit(id, x, "gathered_from"), N)
               /\ Joined(Related(x), N)
    BY DEF Joined, Explicit
  <2>2. \/ e \in {Explicit(id, x, "links_to") : x \in Projects({W.fest[at[id]]})}
        \/ e \in {Explicit(id, x, "gathered_from") : x \in Projects(W.intent[at[id]].gathered)}
        \/ e \in {Related(x) : x \in Projects(W.intent[at[id]].related)}
    BY DEF MetadataEdges
  <2>3. \A names : Projects(names) \subseteq N
    OBVIOUS
  <2> HIDE DEF Projects, Related
  <2> QED BY <1>1, <2>1, <2>2, <2>3
<1>3. Adds
  BY <1>1, <1>2 DEF Adds, Metadata
<1> QED BY <1>1, <1>3, PassKeeps DEF Metadata, NotInferring

\* A scan that is cut short, or asked to be.
LEMMA StopStep ==
  ASSUME EInv, StopEnumerating \/ Cancel \/ Fail
  PROVE  EInv'
<1>1. CASE StopEnumerating
  BY <1>1, SourceNames DEF StopEnumerating, EInv, RootFolder, Places, IndexNodes, SignalNodes,
         NotesTodo, ListsTodo, EndsExist, N, Ended
<1>2. CASE Cancel
  BY <1>2 DEF Cancel, EInv, RootFolder, Places, IndexNodes, SignalNodes, NotesTodo,
         ListsTodo, EndsExist, N
<1>3. CASE Fail
  BY <1>3, SourceNames DEF Fail, EInv, RootFolder, Places, IndexNodes, SignalNodes, NotesTodo,
         ListsTodo, EndsExist, N, Ended
<1> QED BY <1>1, <1>2, <1>3

-----------------------------------------------------------------------------
LEMMA InitEInv == Init => EInv
BY SourceNames DEF Init, Unscanned, EInv, RootFolder, Places, IndexNodes, SignalNodes, NotesTodo,
       ListsTodo, EndsExist, N, Ended

LEMMA NextEInv == EInv /\ [Next]_vars => EInv'
<1> SUFFICES ASSUME EInv, [Next]_vars PROVE EInv'
  OBVIOUS
<1>1. CASE UNCHANGED vars
  BY <1>1 DEF vars, EInv, RootFolder, Places, IndexNodes, SignalNodes, NotesTodo, ListsTodo,
         EndsExist, N
<1>2. CASE ScanScopes
  BY <1>2, ScopesStep
<1>3. CASE ScanProjects \/ ScanIntents \/ ScanWorkflow
  BY <1>3, ArtifactsStep
<1>4. CASE \E l \in todo : ScanLifecycle(l) \/ StopInLifecycle(l)
  BY <1>4, FestivalsStep
<1>5. CASE ScanNotes \/ IndexNotes
  BY <1>5, NotesStep, IndexStep
<1>6. CASE \E n \in todo : LinkNote(n)
  BY <1>6, LinkStep
<1>7. CASE LinkCanvas \/ Proceed
  BY <1>7, CanvasStep, ProceedStep
<1>8. CASE Bridge \/ CodeSlices
  BY <1>8, BridgeStep, CodeStep
<1>9. CASE \E list \in todo : Enumerate(list)
  BY <1>9, EnumerateStep
<1>10. CASE Aggregate \/ Metadata
  BY <1>10, AggregateStep, MetadataStep
<1>11. CASE StopEnumerating \/ Cancel \/ Fail
  BY <1>11, StopStep
<1> QED
  BY <1>1, <1>2, <1>3, <1>4, <1>5, <1>6, <1>7, <1>8, <1>9, <1>10, <1>11 DEF Next

\* However the passes come to their edges, and whatever a map's order, a
\* budget or a cancellation does to them, both ends are nodes by then
\* (graph.go:29-32 does not check).
THEOREM EndsAlwaysExist == Spec => []EndsExist
<1>1. EInv => EndsExist
  BY DEF EInv
<1> QED BY <1>1, InitEInv, NextEInv, PTL DEF Spec

-----------------------------------------------------------------------------
(***************************************************************************)
(* No part of a festival is left out.                                      *)
(***************************************************************************)
Parts(l) == Festivals(l) \cup Below(Phases(l))
Scanned(l) == \A p \in Parts(l) : FestivalId(l, p) \in N

\* Until the context is done, each stage that is not to be visited has been.
Visited ==
  ~cancelled =>
    /\ pc = "festivals" => \A l \in Lifecycles \ todo : Scanned(l)
    /\ pc \notin {"scopes", "projects", "festivals", "failed"} => \A l \in Lifecycles : Scanned(l)

WInv == EInv /\ Visited /\ (pc = "done" => ~cancelled)

LEMMA AfterProjects == After("projects") = "festivals"
<1>1. \A i \in DOMAIN Passes : Passes[i] = "projects" => i = 2
  BY DEF Passes, Sources
<1>2. 2 \in DOMAIN Passes /\ Passes[2] = "projects" /\ Passes[3] = "festivals"
  BY DEF Passes, Sources
<1>3. (CHOOSE i \in DOMAIN Passes : Passes[i] = "projects") = 2
  BY <1>1, <1>2
<1>4. After("projects") = Passes[1 + 2]
  BY <1>3 DEF After
<1> QED BY <1>2, <1>4

LEMMA NodesStay ==
  ASSUME [Next]_vars
  PROVE  N \subseteq N' /\ camp' = camp
<1>1. ASSUME NEW new, at' = Put(at, new) PROVE N \subseteq N'
  BY <1>1, PutNodes DEF N
<1>2. CASE UNCHANGED at
  BY <1>2 DEF N, Next, vars, ScanScopes, ScanProjects, ScanIntents, ScanWorkflow, Add,
         ScanLifecycle, StopInLifecycle, ScanParts, ScanNotes, IndexNotes, LinkNote, LinkCanvas,
         Proceed, Bridge, CodeSlices, Enumerate, StopEnumerating, Aggregate, Metadata, Cancel, Fail
<1>3. CASE ScanScopes \/ ScanNotes \/ LinkCanvas \/ CodeSlices
  <2>1. at' = at \/ \E new : at' = Put(at, new)
    BY <1>3 DEF ScanScopes, ScanNotes, LinkCanvas, CodeSlices
  <2>2. camp' = camp
    BY <1>3 DEF ScanScopes, ScanNotes, LinkCanvas, CodeSlices
  <2> QED BY <1>1, <1>2, <2>1, <2>2 DEF N
<1>4. CASE ScanProjects \/ ScanIntents \/ ScanWorkflow
  BY <1>1, <1>4 DEF ScanProjects, ScanIntents, ScanWorkflow, Add
<1>5. CASE \E l \in todo : ScanLifecycle(l) \/ StopInLifecycle(l)
  BY <1>1, <1>5 DEF ScanLifecycle, StopInLifecycle, ScanParts
<1>6. CASE \E n \in todo : LinkNote(n)
  BY <1>1, <1>6 DEF LinkNote
<1>7. CASE \/ IndexNotes \/ Proceed \/ Bridge \/ Aggregate \/ Metadata
           \/ StopEnumerating \/ Cancel \/ Fail \/ \E list \in todo : Enumerate(list)
  BY <1>2, <1>7 DEF IndexNotes, Proceed, Bridge, Aggregate, Metadata, StopEnumerating, Cancel,
         Fail, Enumerate
<1>8. CASE UNCHANGED vars
  BY <1>8 DEF vars, N
<1> QED BY <1>3, <1>4, <1>5, <1>6, <1>7, <1>8 DEF Next

\* What is on disk does not change under a scan, and no node goes.
LEMMA ScannedStays ==
  ASSUME [Next]_vars, NEW l, Scanned(l)
  PROVE  Scanned(l)'
<1>1. camp' = camp /\ N \subseteq N'
  BY NodesStay
<1>2. Parts(l)' = Parts(l)
  BY <1>1 DEF Parts, Festivals, Phases, Below, SubDirs, Shown, Dirs, W
<1> QED BY <1>1, <1>2 DEF Scanned

\* A pass that comes after the festivals'.
LEMMA LaterPass ==
  ASSUME WInv, [Next]_vars, NEW pass, Enter(pass), cancelled' = cancelled, ~cancelled,
         \/ pc \notin {"scopes", "projects", "festivals", "failed"}
         \/ pc = "festivals" /\ todo = {}
  PROVE  Visited' /\ (pc' = "done" => ~cancelled')
<1>1. \A l \in Lifecycles : Scanned(l)
  BY DEF WInv, Visited
<1>2. \A l \in Lifecycles : Scanned(l)'
  BY <1>1, ScannedStays
<1> QED BY <1>2 DEF Visited

LEMMA WholeStage ==
  ASSUME WInv, [Next]_vars, NEW l \in todo, ScanLifecycle(l)
  PROVE  Visited'
<1>1. pc = "festivals" /\ pc' = pc /\ todo' = todo \ {l} /\ cancelled' = cancelled
      /\ ScanParts(l, Phases(l)) /\ camp' = camp
  BY DEF ScanLifecycle, ScanParts, Running
<1>2. Scanned(l)'
  <2>1. \A p \in Parts(l) : FestivalId(l, p) \in N'
    BY <1>1, PartsStep DEF WInv, Parts
  <2>2. Parts(l)' = Parts(l)
    BY <1>1 DEF Parts, Festivals, Phases, Below, SubDirs, Shown, Dirs, W
  <2> QED BY <2>1, <2>2 DEF Scanned
<1>3. ASSUME ~cancelled, NEW k \in Lifecycles \ todo' PROVE Scanned(k)'
  BY <1>1, <1>2, <1>3, ScannedStays DEF WInv, Visited
<1> QED BY <1>1, <1>3 DEF Visited

LEMMA NextWInv == WInv /\ [Next]_vars => WInv'
<1> SUFFICES ASSUME WInv, [Next]_vars PROVE Visited' /\ (pc' = "done" => ~cancelled')
  BY NextEInv DEF WInv
<1>1. CASE ScanScopes
  BY <1>1 DEF ScanScopes, Enter, Visited
<1>2. CASE ScanProjects
  <2>1. pc' = "festivals" /\ todo' = Lifecycles
    <3>1. Enter(After("projects"))
      BY <1>2 DEF ScanProjects, Add
    <3>2. Enter("festivals")
      BY <3>1, AfterProjects
    <3>3. ToVisit("festivals", DOMAIN at', edges') = Lifecycles
      BY SourceNames DEF ToVisit
    <3> QED BY <3>2, <3>3 DEF Enter
  <2> QED BY <2>1 DEF Visited
<1>3. CASE \E l \in todo : ScanLifecycle(l)
  BY <1>3, WholeStage DEF ScanLifecycle, Running, ScanParts
<1>4. CASE \E l \in todo : StopInLifecycle(l)
  BY <1>4 DEF StopInLifecycle, ScanParts, Running, Visited
<1>5. CASE ScanIntents \/ ScanWorkflow
  <2>1. PICK pass \in {"intents", "workflow"} : \E new : Add(pass, new)
    BY <1>5 DEF ScanIntents, ScanWorkflow
  <2> QED BY <2>1, LaterPass DEF Add, Running
<1>6. CASE ScanNotes \/ Bridge \/ CodeSlices \/ Aggregate \/ Metadata \/ IndexNotes
  <2>1. /\ pc \in {"notes", "bridge", "code", "aggregate", "metadata", "index"}
        /\ \E pass : Enter(pass)
        /\ cancelled' = cancelled /\ ~cancelled
    BY <1>6 DEF ScanNotes, Bridge, CodeSlices, Aggregate, Metadata, IndexNotes, Running
  <2> QED BY <2>1, LaterPass
<1>7. CASE Proceed
  <2>1. /\ pc \notin {"scopes", "projects", "failed"} /\ todo = {}
        /\ Enter(After(pc)) /\ cancelled' = cancelled /\ ~cancelled
    BY <1>7, SourceNames DEF Proceed, Running
  <2> QED BY <2>1, LaterPass
<1>8. CASE (\E n \in todo : LinkNote(n)) \/ LinkCanvas \/ \E list \in todo : Enumerate(list)
  <2>1. pc \notin {"scopes", "projects", "festivals", "failed", "done"} /\ pc' = pc
        /\ cancelled' = cancelled
    BY <1>8, SourceNames DEF LinkNote, LinkCanvas, Enumerate, Running
  <2>2. ASSUME ~cancelled, NEW l \in Lifecycles PROVE Scanned(l)'
    BY <2>1, <2>2, ScannedStays DEF WInv, Visited
  <2> QED BY <2>1, <2>2 DEF Visited
<1>9. CASE StopEnumerating \/ Cancel \/ Fail
  BY <1>9 DEF StopEnumerating, Cancel, Fail, Visited
<1>10. CASE UNCHANGED vars
  <2>1. pc' = pc /\ todo' = todo /\ cancelled' = cancelled
    BY <1>10 DEF vars
  <2> QED BY <2>1, ScannedStays DEF WInv, Visited
<1> QED
  BY <1>1, <1>2, <1>3, <1>4, <1>5, <1>6, <1>7, <1>8, <1>9, <1>10 DEF Next

\* The festivals' hierarchy stops in silence when the context is done
\* (scanner.go:192-195), and yet no scan that ends well lacks a part of one:
\* every way on from there asks the context again.
THEOREM FestivalsEndWhole == Spec => []WholeFestivals
<1>1. Init => WInv
  BY InitEInv DEF Init, WInv, Visited
<1>2. WInv => WholeFestivals
  BY DEF WInv, Visited, WholeFestivals, Scanned, Parts
<1> QED BY <1>1, <1>2, NextWInv, PTL DEF Spec
-----------------------------------------------------------------------------
(***************************************************************************)
(* Containers nest.  The places of all nodes but the artifacts are settled  *)
(* when they are added, and no artifact is put in a folder before the      *)
(* passes that place artifacts are over; a festival's place changes when    *)
(* another stage has one of its name, and only then.                       *)
(***************************************************************************)
NamedKinds == {"repo", "folder", "note", "canvas", "attachment", "file"}
Unbridged == {"scopes", "projects", "festivals", "intents", "workflow", "notes", "index",
              "links", "canvases", "bridge"}

\* The place that an identifier tells.
Tells(id, p) == /\ id[1] \in NamedKinds => p = Tail(id)
                /\ id[1] = "package" => p = Front(Tail(id))
PathsKept == \A id \in N : Tells(id, at[id])

FestivalEdge(e) ==
  \E l \in Lifecycles :
    /\ {Tail(e.from), Tail(e.to)} \subseteq Seq(STRING)
    /\ e.to[2] = e.from[2] /\ \E f \in Festivals(l) : Last(f) = e.from[2]
    /\ Within(Tail(e.to), Tail(e.from))
    /\ SeveralPlaces(e.from[2]) \/ \A id \in {e.from, e.to} : at[id] = l \o Tail(id)

Nests(e) ==
  \/ e.from[1] = "festival" /\ e.to[1] = "festival" /\ FestivalEdge(e)
  \/ /\ e.from[1] \in {"repo", "folder", "package"} /\ Within(at[e.to], at[e.from])
     /\ e.to[1] \in NamedKinds \cup {"package"} \/ pc \notin Unbridged

Containing(es) == {e \in es : e.type = "contains"}
StagesTodo == pc = "festivals" => todo \subseteq Lifecycles
NestInv == PathsKept /\ StagesTodo /\ \A e \in Containing(edges) : Nests(e)

LEMMA StringPaths == \A p \in Seq(STRING) : p \in Paths
<1> SUFFICES ASSUME NEW p \in Seq(STRING) PROVE p \in Seq(Names)
  BY DEF Paths
<1>1. p \in [1 .. Len(p) -> STRING] /\ Len(p) \in Nat
  OBVIOUS
<1>2. p \in [1 .. Len(p) -> Names]
  BY <1>1 DEF Names
<1> QED BY <1>1, <1>2

LEMMA ParentWithin == \A p \in Seq(STRING) : Within(p, Parent(p))
<1> SUFFICES ASSUME NEW p \in Seq(STRING) PROVE Within(p, Parent(p))
  OBVIOUS
<1>1. p \in Paths
  BY StringPaths
<1>2. CASE p = <<>>
  BY <1>1, <1>2, WithinItself DEF Parent
<1>3. CASE p # <<>>
  BY <1>1, <1>3, FrontPath
<1> QED BY <1>2, <1>3

LEMMA PassAfter ==
  /\ After("festivals") = "intents" /\ After("links") = "canvases"
  /\ After("canvases") = "bridge" /\ After("intents") = "workflow"
  /\ After("workflow") = "notes" /\ After("code") \notin Unbridged
  /\ \A pass \in ToSet(Sources) : After(pass) \notin Unbridged
  /\ \A pass \in ToSet(Sources) \cup {"code"} : After(pass) \in ToSet(Sources) \cup {"aggregate"}
  /\ After("code") = "same_folder" /\ After("same_folder") = "shared_ancestor"
  /\ After("shared_ancestor") = "shared_tag" /\ After("shared_tag") = "shared_frontmatter"
  /\ After("shared_frontmatter") = "shared_repo_root" /\ After("shared_repo_root") = "aggregate"
<1>1. /\ DOMAIN Passes = 1 .. 19
      /\ Passes[1] = "scopes" /\ Passes[2] = "projects"
      /\ Passes[3] = "festivals" /\ Passes[4] = "intents"
      /\ Passes[5] = "workflow" /\ Passes[6] = "notes"
      /\ Passes[7] = "index" /\ Passes[8] = "links"
      /\ Passes[9] = "canvases" /\ Passes[10] = "bridge"
      /\ Passes[11] = "code" /\ Passes[12] = "same_folder"
      /\ Passes[13] = "shared_ancestor" /\ Passes[14] = "shared_tag"
      /\ Passes[15] = "shared_frontmatter" /\ Passes[16] = "shared_repo_root"
      /\ Passes[17] = "aggregate" /\ Passes[18] = "metadata"
      /\ Passes[19] = "done"
  BY DEF Passes, Sources
<1>2. \A i, j \in 1 .. 19 : Passes[i] = Passes[j] => i = j
  BY <1>1
<1>3. \A i \in 1 .. 18 : After(Passes[i]) = Passes[i + 1]
  <2> SUFFICES ASSUME NEW i \in 1 .. 18 PROVE After(Passes[i]) = Passes[i + 1]
    OBVIOUS
  <2>1. DOMAIN Passes = 1 .. 19
    BY <1>1
  <2>2. (CHOOSE j \in DOMAIN Passes : Passes[j] = Passes[i]) = i
    BY <1>2, <2>1
  <2>3. After(Passes[i]) = Passes[1 + i]
    BY <2>2, Zenon DEF After
  <2>4. 1 + i = i + 1
    OBVIOUS
  <2> QED BY <2>3, <2>4
<1> QED BY <1>1, <1>3, SourceNames DEF Unbridged

LEMMA CutWithin ==
  ASSUME NEW p \in Seq(STRING), NEW i \in 0 .. Len(p)
  PROVE  /\ SubSeq(p, 1, i) \in Seq(STRING) /\ SubSeq(p, 1, i) \in Paths
         /\ Within(p, SubSeq(p, 1, i))
<1> DEFINE d == SubSeq(p, 1, i)
<1>1. p \in Paths /\ Len(p) \in Nat
  BY StringPaths
<1>2. d \in Seq(STRING)
  OBVIOUS
<1>3. d \in Paths /\ Len(d) = i /\ \A k \in 1 .. i : d[k] = p[k]
  BY <1>1, Cut
<1> HIDE DEF d
<1>4. Len(d) <= Len(p) /\ \A k \in 1 .. Len(d) : d[k] = p[k]
  BY <1>1, <1>3
<1>5. Within(p, d)
  BY <1>1, <1>3, <1>4, WithinMeans
<1> QED BY <1>2, <1>3, <1>5 DEF d

\* The folder that something is placed in is above it.
LEMMA PlacedNests ==
  ASSUME PathsKept, <<"folder">> \in N, NEW p \in Seq(STRING), NEW id
  PROVE  /\ Placed(N, p, id).from \in N /\ Placed(N, p, id).from[1] = "folder"
         /\ Placed(N, p, id).to = id /\ Within(Parent(p), at[Placed(N, p, id).from])
<1> DEFINE d == Parent(p)
<1>1. d \in Seq(STRING)
  BY ParentPath
<1> DEFINE home == Home(N, d)
<1>2. Placed(N, p, id).from = home /\ Placed(N, p, id).to = id
  BY DEF Placed, Structural
<1>3. PICK i \in 0 .. Len(d) : home = <<"folder">> \o SubSeq(d, 1, i)
  BY <1>1, HomeAbove
<1>4. home \in N
  BY <1>1, HomeAbove
<1> DEFINE x == SubSeq(d, 1, i)
<1>5. x \in Seq(STRING) /\ x \in Paths /\ Within(d, x)
  BY <1>1, CutWithin
<1> HIDE DEF x
<1>6. Tail(home) = x /\ home[1] = "folder"
  BY <1>3, <1>5, PathId DEF x
<1>7. at[home] = x
  BY <1>4, <1>6 DEF PathsKept, Tells, NamedKinds
<1> QED BY <1>2, <1>4, <1>5, <1>6, <1>7

LEMMA NamedTells ==
  ASSUME NEW kind \in NamedKinds, NEW ps, ps \subseteq Seq(STRING)
  PROVE  \A id \in DOMAIN Named(kind, ps) : id[1] = kind /\ Tells(id, Named(kind, ps)[id])
<1>1. ASSUME NEW p \in ps
      PROVE  (<<kind>> \o p)[1] = kind /\ Named(kind, ps)[<<kind>> \o p] = Tail(<<kind>> \o p)
  <2>1. p \in Seq(STRING)
    OBVIOUS
  <2> QED BY <2>1, PathId DEF Named
<1>2. DOMAIN Named(kind, ps) = {<<kind>> \o p : p \in ps}
  BY DEF Named
<1>3. kind # "package"
  BY DEF NamedKinds
<1> QED BY <1>1, <1>2, <1>3 DEF Tells

LEMMA SameFestivals ==
  ASSUME camp' = camp
  PROVE  /\ \A l : Festivals(l)' = Festivals(l)
         /\ \A name : SeveralPlaces(name)' <=> SeveralPlaces(name)
<1>1. W' = W
  BY DEF W
<1>2. \A l : Festivals(l)' = Festivals(l)
  BY <1>1 DEF Festivals, Shown, SubDirs, Dirs
<1> QED BY <1>2 DEF SeveralPlaces

\* A step that changes the place of no end of a containing edge.
LEMMA NestKeeps ==
  ASSUME NestInv, camp' = camp, PathsKept', StagesTodo',
         \A e \in Containing(edges) : at'[e.from] = at[e.from] /\ at'[e.to] = at[e.to],
         pc \notin Unbridged => pc' \notin Unbridged,
         \A e \in Containing(edges' \ edges) : Nests(e)'
  PROVE  NestInv'
<1>1. ASSUME NEW e \in Containing(edges) PROVE Nests(e)'
  <2>1. Nests(e) /\ at'[e.from] = at[e.from] /\ at'[e.to] = at[e.to]
    BY DEF NestInv
  <2>2. ASSUME FestivalEdge(e) PROVE FestivalEdge(e)'
    <3>1. \A id \in {e.from, e.to} : at'[id] = at[id]
      BY <2>1
    <3> QED BY <2>2, <3>1, SameFestivals DEF FestivalEdge
  <2> QED BY <2>1, <2>2 DEF Nests
<1> QED BY <1>1 DEF NestInv, Containing

\* The ends of containing edges, before artifacts are placed.
LEMMA EndsSettled ==
  ASSUME NestInv, NEW e \in Containing(edges), pc \in Unbridged
  PROVE  {e.from[1], e.to[1]} \subseteq NamedKinds \cup {"package", "festival"}
BY DEF NestInv, Nests, NamedKinds

Puts(new) ==
  /\ PathsKept' /\ N' = N \cup DOMAIN new
  /\ \A id \in N : id \notin DOMAIN new \/ id[1] \in NamedKinds \cup {"package"}
                    => at'[id] = at[id]

LEMMA PutKept ==
  ASSUME PathsKept, NEW new, at' = Put(at, new), \A id \in DOMAIN new : Tells(id, new[id])
  PROVE  Puts(new)
<1>1. N' = N \cup DOMAIN new
  BY PutNodes DEF N
<1>2. \A id \in DOMAIN new : at'[id] = new[id]
  BY DEF Put
<1>3. \A id \in N \ DOMAIN new : at'[id] = at[id]
  BY PutNodes DEF N
<1>4. PathsKept'
  BY <1>1, <1>2, <1>3 DEF PathsKept
<1>5. ASSUME NEW id \in N, id[1] \in NamedKinds \cup {"package"} PROVE at'[id] = at[id]
  BY <1>2, <1>3, <1>5 DEF PathsKept, Tells
<1> QED BY <1>1, <1>3, <1>4, <1>5 DEF Puts

\* What is put is new, or has the place that it had, or is at no edge's end.
LEMMA EndsSame ==
  ASSUME EInv, NestInv, NEW new, Puts(new),
         \/ pc \in Unbridged /\ \A id \in DOMAIN new : id[1] # "festival"
         \/ \A id \in DOMAIN new : id \notin N \/ id[1] \in NamedKinds \cup {"package"}
  PROVE  \A e \in Containing(edges) : at'[e.from] = at[e.from] /\ at'[e.to] = at[e.to]
<1> SUFFICES ASSUME NEW e \in Containing(edges)
             PROVE  at'[e.from] = at[e.from] /\ at'[e.to] = at[e.to]
  OBVIOUS
<1>1. e.from \in N /\ e.to \in N
  BY DEF EInv, EndsExist, Containing
<1>2. CASE pc \in Unbridged /\ \A id \in DOMAIN new : id[1] # "festival"
  BY <1>1, <1>2, EndsSettled DEF Puts
<1>3. CASE \A id \in DOMAIN new : id \notin N \/ id[1] \in NamedKinds \cup {"package"}
  BY <1>1, <1>3 DEF Puts
<1> QED BY <1>2, <1>3

LEMMA NestScopes ==
  ASSUME EInv, NestInv, ScanScopes
  PROVE  NestInv'
<1> DEFINE repos == Named("repo", W.nested)  folders == Named("folder", Folders)
           new == Put(repos, folders)
<1>1. W.nested \subseteq Seq(STRING) /\ Folders \subseteq Seq(STRING)
  BY FolderPaths, FilePaths DEF EInv
<1>2. \A id \in DOMAIN new : Tells(id, new[id])
  <2>1. "repo" \in NamedKinds /\ "folder" \in NamedKinds
    BY DEF NamedKinds
  <2>2. /\ \A id \in DOMAIN repos : Tells(id, repos[id])
        /\ \A id \in DOMAIN folders : Tells(id, folders[id])
    BY <1>1, <2>1, NamedTells
  <2> HIDE DEF repos, folders
  <2> QED BY <2>2 DEF Put
<1>3. /\ DOMAIN repos = {<<"repo">> \o p : p \in W.nested}
      /\ DOMAIN folders = {<<"folder">> \o p : p \in Folders}
  BY DEF Named
<1>4. Puts(new)
  <2>1. at' = Put(at, new)
    BY DEF ScanScopes
  <2> HIDE DEF new
  <2> QED BY <1>2, <2>1, PutKept DEF NestInv
<1>5. DOMAIN new = DOMAIN repos \cup DOMAIN folders
  BY PutNodes
<1> HIDE DEF new
<1>6. ASSUME NEW kind \in {"repo", "folder"}, NEW p \in Seq(STRING), <<kind>> \o p \in N'
      PROVE  (<<kind>> \o p)[1] = kind /\ at'[<<kind>> \o p] = p
  <2> DEFINE id == <<kind>> \o p
  <2>1. id[1] = kind /\ Tail(id) = p
    BY PathId
  <2> HIDE DEF id
  <2> QED BY <1>4, <1>6, <2>1 DEF Puts, PathsKept, Tells, NamedKinds, id
<1>7. ASSUME NEW e \in Containing(edges' \ edges) PROVE Nests(e)'
  <2>1. CASE \E d \in Folders : /\ Parent(d) \in Folders
                                /\ e = Structural(<<"folder">> \o Parent(d), <<"folder">> \o d)
    <3>1. PICK d \in Folders : /\ Parent(d) \in Folders
                               /\ e = Structural(<<"folder">> \o Parent(d), <<"folder">> \o d)
      BY <2>1
    <3>2. <<"folder">> \o Parent(d) \in N' /\ <<"folder">> \o d \in N'
      BY <1>3, <1>4, <1>5, <3>1 DEF Puts
    <3>3. e.from[1] = "folder" /\ at'[e.from] = Parent(d) /\ e.to[1] = "folder" /\ at'[e.to] = d
      BY <1>1, <1>6, <3>1, <3>2 DEF Structural
    <3> QED BY <1>1, <3>3, ParentWithin DEF Nests, NamedKinds
  <2>2. CASE \E b \in W.nested : e = Structural(<<"repo">> \o b, <<"folder">> \o b)
    <3>1. PICK b \in W.nested : e = Structural(<<"repo">> \o b, <<"folder">> \o b)
      BY <2>2
    <3>2. <<"repo">> \o b \in N' /\ <<"folder">> \o b \in N' /\ b \in Seq(STRING)
      BY <1>1, <1>3, <1>4, <1>5 DEF Folders, Puts
    <3>3. e.from[1] = "repo" /\ at'[e.from] = b /\ e.to[1] = "folder" /\ at'[e.to] = b
      BY <1>6, <3>1, <3>2 DEF Structural
    <3> QED BY <3>2, <3>3, StringPaths, WithinItself DEF Nests, NamedKinds
  <2> QED BY <2>1, <2>2 DEF ScanScopes, Containing
<1>8. \A e \in Containing(edges) : at'[e.from] = at[e.from] /\ at'[e.to] = at[e.to]
  <2>1. \A id \in DOMAIN new : id[1] \in NamedKinds
    BY <1>1, <1>3, <1>5, PathId DEF NamedKinds
  <2> QED BY <1>4, <2>1, EndsSame
<1>9. StagesTodo' /\ camp' = camp /\ pc \in Unbridged
  BY DEF ScanScopes, Enter, StagesTodo, Running, Unbridged
<1> QED BY <1>4, <1>7, <1>8, <1>9, NestKeeps DEF Puts

\* Artifacts are added before anything contains them.
LEMMA NestAdd ==
  ASSUME EInv, NestInv, NEW pass \in {"projects", "intents", "workflow"}, NEW new, Add(pass, new),
         \A id \in DOMAIN new : id[1] \in {"project", "intent", "design_doc", "explore_doc"}
  PROVE  NestInv'
<1>1. Puts(new)
  <2>1. \A id \in DOMAIN new : Tells(id, new[id])
    BY DEF Tells, NamedKinds
  <2> QED BY <2>1, PutKept DEF Add, NestInv
<1>2. pc = pass /\ pc \in Unbridged
  BY DEF Add, Running, Unbridged
<1>3. \A e \in Containing(edges) : at'[e.from] = at[e.from] /\ at'[e.to] = at[e.to]
  BY <1>1, <1>2, EndsSame
<1>4. StagesTodo'
  BY <1>2, AfterProjects, PassAfter, SourceNames DEF Add, Enter, StagesTodo, ToVisit
<1>5. camp' = camp /\ Containing(edges' \ edges) = {}
  BY DEF Add, Containing
<1> QED BY <1>1, <1>2, <1>3, <1>4, <1>5, NestKeeps DEF Puts

LEMMA ByNameKinds ==
  ASSUME NEW kind, NEW ps
  PROVE  \A id \in DOMAIN ByName(kind, ps) : id[1] = kind
BY DEF ByName

LEMMA ArtifactsAdded ==
  ASSUME ScanProjects \/ ScanWorkflow \/ ScanIntents
  PROVE  \E pass \in {"projects", "intents", "workflow"} : \E new :
           /\ Add(pass, new)
           /\ \A id \in DOMAIN new : id[1] \in {"project", "intent", "design_doc", "explore_doc"}
<1>1. CASE ScanProjects
  <2>1. PICK ps : Add("projects", ByName("project", ps))
    BY <1>1 DEF ScanProjects
  <2>2. \A id \in DOMAIN ByName("project", ps) : id[1] = "project"
    BY ByNameKinds
  <2> QED BY <2>1, <2>2
<1>2. CASE ScanWorkflow
  <2>1. PICK ds, es : Add("workflow", Put(ByName("design_doc", ds), ByName("explore_doc", es)))
    BY <1>2 DEF ScanWorkflow
  <2> DEFINE design == ByName("design_doc", ds)  explore == ByName("explore_doc", es)
             new == Put(design, explore)
  <2>4. DOMAIN new = DOMAIN design \cup DOMAIN explore
    BY PutNodes
  <2>2. \A id \in DOMAIN new : id[1] \in {"design_doc", "explore_doc"}
    BY <2>4, ByNameKinds
  <2>3. Add("workflow", new)
    BY <2>1
  <2> HIDE DEF new
  <2> QED BY <2>2, <2>3
<1>3. CASE ScanIntents
  <2>1. PICK new : Add("intents", new) /\ \A id \in DOMAIN new : id[1] = "intent"
    BY <1>3 DEF ScanIntents
  <2> QED BY <2>1
<1> QED BY <1>1, <1>2, <1>3

\* A pass that puts notes, canvases, files or packages into folders.
LEMMA NestPlaced ==
  ASSUME EInv, NestInv, NEW new, at' = Put(at, new), camp' = camp, StagesTodo',
         \A id \in DOMAIN new : /\ id[1] \in NamedKinds \cup {"package"} /\ Tells(id, new[id])
                                /\ new[id] \in Seq(STRING),
         pc \notin Ended, pc \notin Unbridged => pc' \notin Unbridged,
         \A e \in Containing(edges' \ edges) :
           \/ /\ e.to \in DOMAIN new
              /\ \E p \in Seq(STRING) : e = Placed(N, p, e.to) /\ Within(new[e.to], Parent(p))
           \/ /\ e.from \in DOMAIN new /\ e.from[1] = "package" /\ e.to \in DOMAIN new
              /\ Within(new[e.to], new[e.from])
  PROVE  NestInv'
<1>1. Puts(new)
  BY PutKept DEF NestInv
<1>2. \A e \in Containing(edges) : at'[e.from] = at[e.from] /\ at'[e.to] = at[e.to]
  BY <1>1, EndsSame
<1>3. \A id \in DOMAIN new : at'[id] = new[id]
  BY DEF Put
<1>4. ASSUME NEW e \in Containing(edges' \ edges),
             e.to \in DOMAIN new, NEW p \in Seq(STRING), e = Placed(N, p, e.to),
             Within(new[e.to], Parent(p))
      PROVE  Nests(e)'
  <2>1. <<"folder">> \in N
    BY DEF EInv, RootFolder
  <2>2. e.from \in N /\ e.from[1] = "folder" /\ Within(Parent(p), at[e.from])
    BY <1>4, <2>1, PlacedNests DEF NestInv
  <2>3. at'[e.from] = at[e.from]
    BY <1>1, <2>2 DEF Puts, NamedKinds
  <2>4. at[e.from] \in Paths /\ Parent(p) \in Paths /\ new[e.to] \in Paths
    <3>1. e.to[1] # "tag" /\ e.from[1] # "tag"
      BY <1>4, <2>2 DEF NamedKinds
    <3> QED BY <1>4, <2>2, <3>1, ParentPath, StringPaths DEF EInv, Places
  <2>5. Within(at'[e.to], at'[e.from])
    BY <1>3, <1>4, <2>2, <2>3, <2>4, WithinChain
  <2> QED BY <1>4, <2>2, <2>5 DEF Nests
<1>5. ASSUME NEW e \in Containing(edges' \ edges),
             e.from \in DOMAIN new, e.from[1] = "package", e.to \in DOMAIN new,
             Within(new[e.to], new[e.from])
      PROVE  Nests(e)'
  BY <1>3, <1>5 DEF Nests
<1> QED BY <1>1, <1>2, <1>4, <1>5, NestKeeps DEF Puts

LEMMA NestNotes ==
  ASSUME EInv, NestInv, ScanNotes
  PROVE  NestInv'
<1> DEFINE new == Named("note", NotePaths)
<1>1. NotePaths \subseteq Seq(STRING)
  BY FilePaths DEF NotePaths, Listed, EInv
<1>2. /\ DOMAIN new = {<<"note">> \o p : p \in NotePaths}
      /\ \A id \in DOMAIN new : id[1] = "note" /\ Tells(id, new[id]) /\ new[id] \in Seq(STRING)
  <2>1. "note" \in NamedKinds
    BY DEF NamedKinds
  <2> QED BY <1>1, <2>1, NamedPlaces, NamedTells
<1>3. \A p \in NotePaths : new[<<"note">> \o p] = p
  BY <1>1, PathId DEF Named
<1>4. ASSUME NEW e \in Containing(edges' \ edges)
      PROVE  /\ e.to \in DOMAIN new
             /\ \E p \in Seq(STRING) : e = Placed(N, p, e.to) /\ Within(new[e.to], Parent(p))
  <2>1. PICK p \in NotePaths : e = Placed(N, p, <<"note">> \o p)
    BY DEF ScanNotes, Containing
  <2> DEFINE id == <<"note">> \o p
  <2>2. e.to = id /\ id \in DOMAIN new /\ new[id] = p
    <3>1. e.to = id
      BY <2>1 DEF Placed, Structural
    <3>2. id \in DOMAIN new /\ new[id] = p
      <4> HIDE DEF new
      <4> QED BY <1>2, <1>3
    <3> QED BY <3>1, <3>2
  <2>3. p \in Seq(STRING) /\ Within(p, Parent(p))
    BY <1>1, ParentWithin
  <2> HIDE DEF id, new
  <2> QED BY <2>1, <2>2, <2>3 DEF id
<1>5. /\ at' = Put(at, new) /\ camp' = camp /\ pc = "notes" /\ StagesTodo'
      /\ pc \notin Ended /\ pc \in Unbridged
  BY DEF ScanNotes, Running, Enter, StagesTodo, Ended, Unbridged
<1>6. \A id \in DOMAIN new : /\ id[1] \in NamedKinds \cup {"package"} /\ Tells(id, new[id])
                             /\ new[id] \in Seq(STRING)
  BY <1>2 DEF NamedKinds
<1> HIDE DEF new
<1> QED BY <1>4, <1>5, <1>6, NestPlaced

LEMMA NestLinks ==
  ASSUME EInv, NestInv, NEW n \in todo, LinkNote(n)
  PROVE  NestInv'
<1> DEFINE tags == {<<"tag", t>> : t \in TextOf(Tail(n)).inline}
           ids == (LinkTargets(n) \cup tags) \ N
           new == [id \in ids |-> IF id[1] = "tag" THEN NoPath ELSE Tail(id)]
<1>1. at' = Put(at, new)
  BY DEF LinkNote
<1>2. ASSUME NEW id \in ids PROVE Tells(id, new[id])
  <2>1. CASE id \in tags
    BY <2>1 DEF Tells, NamedKinds
  <2>2. CASE id \in LinkTargets(n) \ N
    <3>1. PICK p \in Seq(STRING) : id = <<"attachment">> \o p
      BY <2>2, LinkTargetKinds
    <3>2. id[1] = "attachment"
      BY <3>1, PathId
    <3> QED BY <3>2 DEF Tells
  <2> QED BY <2>1, <2>2
<1>3. DOMAIN new = ids /\ \A id \in DOMAIN new : id \notin N
  OBVIOUS
<1> HIDE DEF new
<1>4. Puts(new)
  BY <1>1, <1>2, <1>3, PutKept DEF NestInv
<1>5. \A e \in Containing(edges) : at'[e.from] = at[e.from] /\ at'[e.to] = at[e.to]
  BY <1>3, <1>4, EndsSame
<1>6. camp' = camp /\ pc' = pc /\ StagesTodo' /\ Containing(edges' \ edges) = {}
  BY DEF LinkNote, Running, StagesTodo, Containing, Explicit
<1> QED BY <1>4, <1>5, <1>6, NestKeeps DEF Puts

LEMMA NestSame ==
  ASSUME EInv, NestInv, UNCHANGED <<at, camp>>, StagesTodo',
         pc \notin Unbridged => pc' \notin Unbridged,
         \A e \in Containing(edges' \ edges) : Nests(e)'
  PROVE  NestInv'
<1>1. PathsKept'
  BY DEF NestInv, PathsKept, N
<1> QED BY <1>1, NestKeeps

LEMMA NestCanvas ==
  ASSUME EInv, NestInv, LinkCanvas
  PROVE  NestInv'
<1> DEFINE p == SelectSeq(Order, LAMBDA x : x \in todo)[1]
           canvas == <<"canvas">> \o p
           new == Named("canvas", {p})
<1>1. camp' = camp /\ pc' = pc /\ pc = "canvases" /\ StagesTodo' /\ pc \notin Ended
  BY DEF LinkCanvas, Running, StagesTodo, Ended
<1>2. CASE UNCHANGED <<at, edges>>
  <2>1. Containing(edges' \ edges) = {}
    BY <1>2 DEF Containing
  <2> QED BY <1>1, <1>2, <2>1, NestSame
<1>3. CASE ~ UNCHANGED <<at, edges>>
  <2>1. /\ p \in DOMAIN W.canvas
        /\ at' = Put(at, new)
        /\ Containing(edges' \ edges) \subseteq {Placed(N, p, canvas)}
    <3> DEFINE targets == UNION {KnownAt(N \cup {canvas}, Resolve(<<>>, names)) :
                                   names \in W.canvas[p]}
    <3>1. /\ p \in DOMAIN W.canvas
          /\ at' = Put(at, new)
          /\ edges' = edges \cup {Placed(N, p, canvas)}
                           \cup {Explicit(canvas, id, "links_to") : id \in targets}
      BY <1>3 DEF LinkCanvas
    <3>2. \A id : Explicit(canvas, id, "links_to").type # "contains"
      BY DEF Explicit
    <3> HIDE DEF targets, p, canvas, new
    <3> QED BY <3>1, <3>2 DEF Containing
  <2>2. p \in Seq(STRING) /\ {p} \subseteq Seq(STRING)
    BY <2>1, FilePaths DEF EInv
  <2>3. /\ DOMAIN new = {canvas} /\ new[canvas] = p
        /\ \A id \in DOMAIN new : id[1] = "canvas" /\ Tells(id, new[id])
    <3> HIDE DEF p
    <3>1. "canvas" \in NamedKinds
      BY DEF NamedKinds
    <3>2. \A id \in DOMAIN new : id[1] = "canvas" /\ Tells(id, new[id])
      BY <2>2, <3>1, NamedTells
    <3>3. DOMAIN new = {canvas} /\ new[canvas] = p
      BY <2>2, PathId DEF Named
    <3> QED BY <3>2, <3>3
  <2>4. Within(p, Parent(p))
    <3> HIDE DEF p
    <3> QED BY <2>2, ParentWithin
  <2>5. Placed(N, p, canvas).to = canvas
    BY DEF Placed, Structural
  <2> HIDE DEF p, canvas, new
  <2>6. \A e \in Containing(edges' \ edges) :
          /\ e.to \in DOMAIN new
          /\ \E q \in Seq(STRING) : e = Placed(N, q, e.to) /\ Within(new[e.to], Parent(q))
    BY <2>1, <2>2, <2>3, <2>4, <2>5
  <2>7. \A id \in DOMAIN new : /\ id[1] \in NamedKinds \cup {"package"} /\ Tells(id, new[id])
                               /\ new[id] \in Seq(STRING)
    BY <2>2, <2>3 DEF NamedKinds
  <2> QED BY <1>1, <2>1, <2>6, <2>7, NestPlaced
<1> QED BY <1>2, <1>3

LEMMA FrontOfAppend ==
  ASSUME NEW d \in Seq(STRING), NEW x \in STRING
  PROVE  Front(Append(d, x)) = d
<1> DEFINE path == Append(d, x)
<1>1. /\ path \in Seq(STRING) /\ Len(path) = Len(d) + 1 /\ Len(d) \in Nat
      /\ \A i \in 1 .. Len(d) : path[i] = d[i]
  <2>1. Len(d) \in Nat
    OBVIOUS
  <2>2. path \in Seq(STRING)
    BY AppendProperties
  <2>3. Len(path) = Len(d) + 1
    BY AppendProperties
  <2>4. \A i \in 1 .. Len(d) : path[i] = d[i]
    BY AppendProperties
  <2> QED BY <2>1, <2>2, <2>3, <2>4
<1> HIDE DEF path
<1>2. Len(path) - 1 = Len(d) /\ Len(d) \in 0 .. Len(path)
  BY <1>1
<1>3. /\ SubSeq(path, 1, Len(d)) \in Paths /\ Len(SubSeq(path, 1, Len(d))) = Len(d)
      /\ \A i \in 1 .. Len(d) : SubSeq(path, 1, Len(d))[i] = path[i]
  BY <1>1, <1>2, StringPaths, Cut
<1>4. SubSeq(path, 1, Len(d)) = d
  BY <1>1, <1>3, StringPaths, SamePath
<1> QED BY <1>2, <1>4 DEF Front, path

LEMMA NestCode ==
  ASSUME EInv, NestInv, CodeSlices
  PROVE  NestInv'
<1> DEFINE packages == {PackageOf(p) : p \in GoFiles}
           own == [id \in packages |-> Front(Tail(id))]
           files == Named("file", CodeFiles)
           new == Put(files, own)
<1>1. CodeFiles \subseteq Seq(STRING) /\ GoFiles \subseteq CodeFiles
      /\ \A p \in GoFiles : W.package[p] \in STRING
  BY FilePaths DEF CodeFiles, GoFiles, Listed, EInv
<1>2. /\ DOMAIN files = {<<"file">> \o p : p \in CodeFiles}
      /\ \A id \in DOMAIN files : /\ id[1] = "file" /\ Tells(id, files[id])
                                  /\ files[id] \in Seq(STRING)
  <2>1. "file" \in NamedKinds
    BY DEF NamedKinds
  <2> QED BY <1>1, <2>1, NamedPlaces, NamedTells
<1>3. ASSUME NEW p \in GoFiles
      PROVE  /\ PackageOf(p)[1] = "package" /\ Front(Tail(PackageOf(p))) = Parent(p)
             /\ Parent(p) \in Seq(STRING)
  <2> DEFINE d == Parent(p)  path == Append(d, W.package[p])
  <2>1. d \in Seq(STRING) /\ W.package[p] \in STRING
    BY <1>1, ParentPath
  <2> HIDE DEF d
  <2>2. path \in Seq(STRING) /\ Len(path) = Len(d) + 1 /\ Len(d) \in Nat
        /\ \A i \in 1 .. Len(d) : path[i] = d[i]
    BY <2>1
  <2>3. PackageOf(p)[1] = "package" /\ Tail(PackageOf(p)) = path
    BY <2>2, PathId DEF PackageOf, d
  <2>4. Front(path) = d
    BY <2>1, FrontOfAppend
  <2> QED BY <2>1, <2>3, <2>4 DEF d
<1>4. /\ DOMAIN new = DOMAIN files \cup packages
      /\ \A id \in packages : id[1] = "package" /\ new[id] = Front(Tail(id))
      /\ \A id \in DOMAIN files : new[id] = files[id]
  <2>1. \A id \in packages : id[1] = "package"
    BY <1>3
  <2>2. DOMAIN own = packages /\ \A id \in packages : own[id] = Front(Tail(id))
    OBVIOUS
  <2> HIDE DEF packages, own, files
  <2> QED BY <1>2, <2>1, <2>2 DEF Put
<1>5. \A p \in CodeFiles : <<"file">> \o p \in DOMAIN new /\ new[<<"file">> \o p] = p
  <2> SUFFICES ASSUME NEW p \in CodeFiles
               PROVE <<"file">> \o p \in DOMAIN new /\ new[<<"file">> \o p] = p
    OBVIOUS
  <2>1. <<"file">> \o p \in DOMAIN files /\ files[<<"file">> \o p] = p
    BY <1>1, PathId DEF Named
  <2> HIDE DEF files, new
  <2> QED BY <1>4, <2>1
<1>6. \A p \in GoFiles : PackageOf(p) \in DOMAIN new /\ new[PackageOf(p)] = Parent(p)
  BY <1>3, <1>4
<1>7. \A id \in DOMAIN new : /\ id[1] \in NamedKinds \cup {"package"} /\ Tells(id, new[id])
                             /\ new[id] \in Seq(STRING)
  <2>1. \A id \in packages : Tells(id, new[id]) /\ new[id] \in Seq(STRING)
    BY <1>3, <1>4 DEF Tells, NamedKinds
  <2> HIDE DEF packages, files, new
  <2> QED BY <1>2, <1>4, <2>1 DEF NamedKinds
<1>8. at' = Put(at, new) /\ camp' = camp
  BY DEF CodeSlices
<1>9. \A e \in edges' \ edges :
        \/ \E p \in CodeFiles : e = Placed(N, p, <<"file">> \o p)
        \/ \E p \in GoFiles : \/ e = Placed(N, p, PackageOf(p))
                              \/ e = Structural(PackageOf(p), <<"file">> \o p)
  BY DEF CodeSlices
<1> HIDE DEF new, packages
<1>10. ASSUME NEW e \in Containing(edges' \ edges)
       PROVE  \/ /\ e.to \in DOMAIN new
                 /\ \E p \in Seq(STRING) : e = Placed(N, p, e.to) /\ Within(new[e.to], Parent(p))
              \/ /\ e.from \in DOMAIN new /\ e.from[1] = "package" /\ e.to \in DOMAIN new
                 /\ Within(new[e.to], new[e.from])
  <2>1. \A p, id : Placed(N, p, id).to = id
    BY DEF Placed, Structural
  <2>2. CASE \E p \in CodeFiles : e = Placed(N, p, <<"file">> \o p)
    <3>1. PICK p \in CodeFiles : e = Placed(N, p, <<"file">> \o p)
      BY <2>2
    <3>2. p \in Seq(STRING) /\ Within(p, Parent(p))
      BY <1>1, ParentWithin
    <3> QED BY <1>5, <2>1, <3>1, <3>2
  <2>3. CASE \E p \in GoFiles : e = Placed(N, p, PackageOf(p))
    <3>1. PICK p \in GoFiles : e = Placed(N, p, PackageOf(p))
      BY <2>3
    <3>2. p \in Seq(STRING) /\ Within(Parent(p), Parent(p))
      BY <1>1, ParentPath, StringPaths, WithinItself
    <3> QED BY <1>6, <2>1, <3>1, <3>2
  <2>4. CASE \E p \in GoFiles : e = Structural(PackageOf(p), <<"file">> \o p)
    <3>1. PICK p \in GoFiles : e = Structural(PackageOf(p), <<"file">> \o p)
      BY <2>4
    <3>2. p \in Seq(STRING) /\ Within(p, Parent(p)) /\ p \in CodeFiles
      BY <1>1, ParentWithin
    <3>3. e.from = PackageOf(p) /\ e.to = <<"file">> \o p
      BY <3>1 DEF Structural
    <3> QED BY <1>3, <1>5, <1>6, <3>2, <3>3
  <2> QED BY <1>9, <2>2, <2>3, <2>4 DEF Containing
<1>11. /\ pc \notin Ended /\ pc' \notin Unbridged /\ StagesTodo'
  BY PassAfter DEF CodeSlices, Running, Enter, StagesTodo, Ended, Unbridged
<1> QED BY <1>7, <1>8, <1>10, <1>11, NestPlaced

LEMMA NestBridge ==
  ASSUME EInv, NestInv, Bridge
  PROVE  NestInv'
<1>1. /\ at' = at /\ camp' = camp /\ pc = "bridge" /\ pc' = "code" /\ StagesTodo'
      /\ <<"folder">> \in N
  BY DEF Bridge, Running, Enter, StagesTodo, EInv, RootFolder, Ended
<1>2. ASSUME NEW e \in Containing(edges' \ edges) PROVE Nests(e)'
  <2>1. PICK id \in N : IsBridgeable(id) /\ e = Placed(N, at[id], id)
    BY DEF Bridge, Containing
  <2>2. at[id] \in Seq(STRING)
    BY <2>1 DEF EInv, Places, IsBridgeable
  <2>3. e.to = id /\ e.from \in N /\ e.from[1] = "folder" /\ Within(Parent(at[id]), at[e.from])
    BY <1>1, <2>1, <2>2, PlacedNests DEF NestInv
  <2>4. /\ at[id] \in Paths /\ Parent(at[id]) \in Paths /\ at[e.from] \in Paths
        /\ Within(at[id], Parent(at[id]))
    <3>1. e.from[1] # "tag"
      BY <2>3
    <3> QED BY <2>2, <2>3, <3>1, ParentPath, ParentWithin, StringPaths DEF EInv, Places
  <2>5. Within(at[id], at[e.from])
    BY <2>3, <2>4, WithinChain
  <2> QED BY <1>1, <2>3, <2>5 DEF Nests, Unbridged
<1> QED BY <1>1, <1>2, NestSame DEF Unbridged

\* What a festival holds, by its place below the stage.
LEMMA InFestival ==
  ASSUME EInv, NEW l, NEW phases \in SUBSET Phases(l)
  PROVE  /\ \A p \in Festivals(l) \cup Below(phases) :
              p \in Seq(STRING) /\ \E f \in Festivals(l) : Within(p, f)
         /\ \A p \in Below(phases) : p # <<>> /\ Parent(p) \in Festivals(l) \cup Below(phases)
<1> DEFINE seqs == Shown(phases)
           tasks == {p \in W.files : /\ Parent(p) \in seqs \cap Dirs
                                     /\ Ext(p) = "md" /\ Last(p) # "SEQUENCE_GOAL.md"}
           In(p) == \E f \in Festivals(l) : Within(p, f)
<1>1. Below(phases) = phases \cup seqs \cup tasks
  BY DEF Below
<1>2. Festivals(l) \cup phases \cup seqs \subseteq W.dirs /\ tasks \subseteq W.files
  BY DEF Festivals, Phases, Shown, SubDirs
<1>3. W.dirs \subseteq Seq(STRING) /\ W.files \subseteq Seq(STRING)
  BY FilePaths DEF EInv
<1>4. /\ \A p \in phases : p # <<>> /\ Parent(p) \in Festivals(l)
      /\ \A p \in seqs : p # <<>> /\ Parent(p) \in phases
      /\ \A p \in tasks : Parent(p) \in seqs
  BY DEF Phases, Shown, SubDirs
<1>5. \A p \in tasks : p # <<>>
  <2>1. <<>> \in W.dirs /\ W.dirs \cap W.files = {}
    BY ScanAssumption DEF EInv, W, CampaignType
  <2> QED BY <1>2, <2>1
<1>6. ASSUME NEW p \in Seq(STRING), Parent(p) \in Seq(STRING), In(Parent(p)) PROVE In(p)
  <2>1. PICK f \in Festivals(l) : Within(Parent(p), f)
    BY <1>6
  <2>2. f \in Paths /\ p \in Paths /\ Parent(p) \in Paths
    BY <1>2, <1>3, <1>6, StringPaths
  <2>3. Within(p, f)
    BY <2>1, <2>2, <1>6, ParentWithin, WithinChain
  <2> QED BY <2>3
<1>7. \A p \in Festivals(l) : In(p)
  BY <1>2, <1>3, StringPaths, WithinItself
<1> HIDE DEF seqs, tasks, In
<1>8. \A p \in phases : In(p)
  BY <1>2, <1>3, <1>4, <1>6, <1>7
<1>9. \A p \in seqs : In(p)
  BY <1>2, <1>3, <1>4, <1>6, <1>8
<1>10. \A p \in tasks : In(p)
  BY <1>2, <1>3, <1>4, <1>6, <1>9
<1>11. \A p \in Below(phases) : p # <<>> /\ Parent(p) \in Festivals(l) \cup Below(phases)
  BY <1>1, <1>4, <1>5
<1> QED BY <1>1, <1>2, <1>3, <1>7, <1>8, <1>9, <1>10, <1>11 DEF In

LEMMA FestivalPart ==
  ASSUME EInv, NEW l \in Seq(STRING), NEW f \in Festivals(l), NEW p \in Seq(STRING), Within(p, f),
         NEW rest, rest = SubSeq(p, Len(l) + 1, Len(p))
  PROVE  /\ rest \in Seq(STRING) /\ Len(rest) = Len(p) - Len(l) /\ Len(rest) >= 1
         /\ \A i \in 1 .. Len(rest) : rest[i] = p[Len(l) + i]
         /\ FestivalId(l, p) = <<"festival">> \o rest
         /\ Tail(FestivalId(l, p)) = rest /\ FestivalId(l, p)[1] = "festival"
         /\ FestivalId(l, p)[2] = Last(f)
<1>1. f \in Seq(STRING) /\ f \in Paths /\ p \in Paths /\ f # <<>> /\ Parent(f) = l
  BY FilePaths, StringPaths DEF EInv, Festivals, Shown, SubDirs
<1>2. Len(f) = Len(l) + 1 /\ Len(l) \in Nat /\ Len(f) \in Nat /\ Len(p) \in Nat
  <2>1. Front(f) = l /\ Len(f) \in Nat \ {0} /\ Len(Front(f)) = Len(f) - 1
    BY <1>1, FrontPath
  <2> QED BY <2>1, <1>1, PathLen
<1>3. Len(f) <= Len(p) /\ \A i \in 1 .. Len(f) : f[i] = p[i]
  BY <1>1, WithinMeans
<1>4. /\ rest \in Seq(STRING) /\ Len(rest) = Len(p) - Len(l)
      /\ \A i \in 1 .. Len(rest) : rest[i] = p[Len(l) + i]
  <2>1. \A i \in Len(l) + 1 .. Len(p) : p[i] \in STRING
    BY <1>2
  <2>2. /\ rest \in Seq(STRING)
        /\ Len(rest) = IF Len(l) + 1 <= Len(p) THEN Len(p) - (Len(l) + 1) + 1 ELSE 0
        /\ \A i \in 1 .. Len(p) - (Len(l) + 1) + 1 : rest[i] = p[Len(l) + 1 + i - 1]
    BY <1>2, <2>1, SubSeqProperties
  <2>3. Len(p) - (Len(l) + 1) + 1 = Len(p) - Len(l) /\ Len(l) + 1 <= Len(p)
    BY <1>2, <1>3
  <2>4. \A i \in 1 .. Len(p) - Len(l) : Len(l) + 1 + i - 1 = Len(l) + i
    BY <1>2
  <2> QED BY <2>2, <2>3, <2>4
<1>5. Len(rest) >= 1 /\ rest[1] = Last(f)
  BY <1>2, <1>3, <1>4 DEF Last
<1>6. FestivalId(l, p) = <<"festival">> \o rest
  BY DEF FestivalId
<1>7. Tail(FestivalId(l, p)) = rest /\ FestivalId(l, p)[1] = "festival"
  BY <1>4, <1>6, PathId
<1>8. FestivalId(l, p)[2] = rest[1]
  <2>1. Len(rest) \in Nat /\ Len(<<"festival">>) = 1
    BY <1>4
  <2>2. (<<"festival">> \o rest)[2] = rest[1]
    BY <1>4, <1>5, <2>1
  <2> QED BY <1>6, <2>2
<1> QED BY <1>4, <1>5, <1>6, <1>7, <1>8

LEMMA StageIsPath ==
  ASSUME EInv, NEW l, NEW f \in Festivals(l)
  PROVE  l \in Seq(STRING)
<1>1. f \in Seq(STRING) /\ Parent(f) = l
  BY FilePaths DEF EInv, Festivals, Shown, SubDirs
<1> QED BY <1>1, ParentPath

\* The edges that a stage adds.
LEMMA FestivalNests ==
  ASSUME EInv, NEW l, NEW phases \in SUBSET Phases(l), NEW p \in Below(phases),
         NEW from, from = FestivalId(l, Parent(p)), NEW to, to = FestivalId(l, p)
  PROVE  /\ {Tail(from), Tail(to)} \subseteq Seq(STRING) /\ Within(Tail(to), Tail(from))
         /\ from[1] = "festival" /\ to[1] = "festival" /\ to[2] = from[2]
         /\ \E f \in Festivals(l) : Last(f) = from[2]
<1> DEFINE d == Parent(p)
<1>1. d \in Festivals(l) \cup Below(phases) /\ p \in Seq(STRING) /\ p # <<>>
  BY InFestival
<1>2. PICK f \in Festivals(l) : Within(d, f) /\ d \in Seq(STRING)
  BY <1>1, InFestival
<1>3. /\ l \in Seq(STRING) /\ f \in Paths /\ d \in Paths /\ p \in Paths
      /\ Within(p, d) /\ Within(p, f) /\ Len(d) = Len(p) - 1
  <2>1. l \in Seq(STRING) /\ f \in Paths /\ d \in Paths /\ p \in Paths
    BY <1>1, <1>2, StageIsPath, StringPaths, FilePaths DEF EInv, Festivals, Shown, SubDirs
  <2>2. Within(p, d) /\ Len(d) = Len(p) - 1
    BY <1>1, <2>1, ParentWithin, FrontPath
  <2> QED BY <1>2, <2>1, <2>2, WithinChain
<1> DEFINE r == SubSeq(d, Len(l) + 1, Len(d))  q == SubSeq(p, Len(l) + 1, Len(p))
<1>4. /\ r \in Seq(STRING) /\ Len(r) = Len(d) - Len(l) /\ Len(r) >= 1
      /\ \A i \in 1 .. Len(r) : r[i] = d[Len(l) + i]
      /\ Tail(from) = r /\ from[1] = "festival" /\ from[2] = Last(f)
  <2>1. r = SubSeq(d, Len(l) + 1, Len(d))
    OBVIOUS
  <2>2. from = FestivalId(l, d)
    OBVIOUS
  <2> HIDE DEF d, r
  <2>3. /\ r \in Seq(STRING) /\ Len(r) = Len(d) - Len(l) /\ Len(r) >= 1
        /\ \A i \in 1 .. Len(r) : r[i] = d[Len(l) + i]
        /\ Tail(FestivalId(l, d)) = r /\ FestivalId(l, d)[1] = "festival"
        /\ FestivalId(l, d)[2] = Last(f)
    <3>1. r \in Seq(STRING)
      BY <1>2, <1>3, <2>1, FestivalPart
    <3>2. Len(r) = Len(d) - Len(l) /\ Len(r) >= 1
      BY <1>2, <1>3, <2>1, FestivalPart
    <3>3. \A i \in 1 .. Len(r) : r[i] = d[Len(l) + i]
      BY <1>2, <1>3, <2>1, FestivalPart
    <3>4. Tail(FestivalId(l, d)) = r
      BY <2>1, <3>1, PathId DEF FestivalId
    <3>6. FestivalId(l, d)[1] = "festival"
      BY <1>2, <1>3, <2>1, FestivalPart
    <3>5. FestivalId(l, d)[2] = Last(f)
      BY <1>2, <1>3, <2>1, FestivalPart
    <3> QED BY <3>1, <3>2, <3>3, <3>4, <3>5, <3>6
  <2> QED BY <2>2, <2>3, Zenon
<1>5. /\ q \in Seq(STRING) /\ Len(q) = Len(p) - Len(l) /\ Len(q) >= 1
      /\ \A i \in 1 .. Len(q) : q[i] = p[Len(l) + i]
      /\ Tail(to) = q /\ to[1] = "festival" /\ to[2] = Last(f)
  <2>1. q = SubSeq(p, Len(l) + 1, Len(p))
    OBVIOUS
  <2> HIDE DEF q
  <2>2. /\ q \in Seq(STRING) /\ Len(q) = Len(p) - Len(l) /\ Len(q) >= 1
        /\ \A i \in 1 .. Len(q) : q[i] = p[Len(l) + i]
        /\ Tail(FestivalId(l, p)) = q /\ FestivalId(l, p)[1] = "festival"
        /\ FestivalId(l, p)[2] = Last(f)
    <3>1. q \in Seq(STRING)
      BY <1>1, <1>3, <2>1, FestivalPart
    <3>2. Len(q) = Len(p) - Len(l) /\ Len(q) >= 1
      BY <1>1, <1>3, <2>1, FestivalPart
    <3>3. \A i \in 1 .. Len(q) : q[i] = p[Len(l) + i]
      BY <1>1, <1>3, <2>1, FestivalPart
    <3>4. Tail(FestivalId(l, p)) = q
      BY <2>1, <3>1, PathId DEF FestivalId
    <3>6. FestivalId(l, p)[1] = "festival"
      BY <1>1, <1>3, <2>1, FestivalPart
    <3>5. FestivalId(l, p)[2] = Last(f)
      BY <1>1, <1>3, <2>1, FestivalPart
    <3> QED BY <3>1, <3>2, <3>3, <3>4, <3>5, <3>6
  <2> QED BY <2>2, Zenon
<1> HIDE DEF r, q, d
<1>6. Within(q, r)
  <2>1. Len(p) \in Nat /\ Len(d) \in Nat /\ Len(l) \in Nat
    BY <1>3, PathLen, StringPaths
  <2>2. \A i \in 1 .. Len(d) : d[i] = p[i]
    BY <1>3, WithinMeans
  <2>3. Len(r) <= Len(q)
    BY <1>3, <1>4, <1>5, <2>1
  <2>4. \A i \in 1 .. Len(r) : i \in 1 .. Len(q) /\ Len(l) + i \in 1 .. Len(d)
    BY <1>3, <1>4, <1>5, <2>1
  <2>5. \A i \in 1 .. Len(r) : r[i] = q[i]
    BY <1>4, <1>5, <2>2, <2>4
  <2> QED BY <1>4, <1>5, <2>3, <2>5, StringPaths, WithinMeans
<1> QED BY <1>4, <1>5, <1>6

LEMMA StagesFinite == IsFiniteSet(Lifecycles)
<1> DEFINE S == {<<"festivals", "active">>} \cup {<<"festivals", "planning">>}
                \cup {<<"festivals", "ready">>} \cup {<<"festivals", "ritual">>}
           T == {<<"festivals", "dungeon", "completed">>}
                \cup {<<"festivals", "dungeon", "archived">>}
                \cup {<<"festivals", "dungeon", "someday">>}
<1>1. IsFiniteSet(S) /\ IsFiniteSet(T)
  BY FS_Singleton, FS_Union
<1>2. Lifecycles = S \cup T
  BY DEF Lifecycles
<1> HIDE DEF S, T
<1> QED BY <1>1, <1>2, FS_Union

\* A festival of one name in two stages is at several places.
LEMMA TwoStages ==
  ASSUME NEW k \in Lifecycles, NEW l \in Lifecycles, k # l, NEW f \in Festivals(k),
         NEW g \in Festivals(l), Last(f) = Last(g)
  PROVE  SeveralPlaces(Last(f))
<1> DEFINE S == {x \in Lifecycles : \E p \in Festivals(x) : Last(p) = Last(f)}
<1>1. IsFiniteSet(S) /\ {k, l} \subseteq S
  BY StagesFinite, FS_Subset
<1>2. Cardinality({k, l}) = 2
  <2>1. IsFiniteSet({k}) /\ Cardinality({k}) = 1
    BY FS_Singleton
  <2>2. Cardinality({k} \cup {l}) = 1 + 1
    BY <2>1, FS_AddElement
  <2>3. {k} \cup {l} = {k, l}
    OBVIOUS
  <2> QED BY <2>2, <2>3
<1> HIDE DEF S
<1>3. Cardinality({k, l}) <= Cardinality(S) /\ Cardinality(S) \in Nat
  BY <1>1, FS_Subset, FS_CardinalityType
<1>4. Cardinality(S) > 1
  BY <1>2, <1>3
<1> QED BY <1>4 DEF S, SeveralPlaces

LEMMA NestParts ==
  ASSUME EInv, NestInv, pc = "festivals", NEW l \in Lifecycles,
         NEW phases \in SUBSET Phases(l), ScanParts(l, phases)
  PROVE  NestInv'
<1> DEFINE parts == Festivals(l) \cup Below(phases)
           ids == {FestivalId(l, p) : p \in parts}
           new == [id \in ids |-> l \o Tail(id)]
<1>1. ASSUME NEW id \in ids
      PROVE  id[1] = "festival" /\ \E f \in Festivals(l) : Last(f) = id[2]
  <2>1. PICK p \in parts : id = FestivalId(l, p)
    OBVIOUS
  <2>2. PICK f \in Festivals(l) : Within(p, f) /\ p \in Seq(STRING)
    BY InFestival
  <2>3. l \in Seq(STRING)
    BY <2>2, StageIsPath
  <2>4. FestivalId(l, p)[1] = "festival" /\ FestivalId(l, p)[2] = Last(f)
    <3> DEFINE rest == SubSeq(p, Len(l) + 1, Len(p))
    <3> HIDE DEF rest
    <3>1. rest = SubSeq(p, Len(l) + 1, Len(p))
      BY DEF rest
    <3> QED BY <2>2, <2>3, <3>1, FestivalPart
  <2> QED BY <2>1, <2>4
<1>2. DOMAIN new = ids /\ \A id \in ids : new[id] = l \o Tail(id)
  OBVIOUS
<1>3. at' = Put(at, new)
  BY DEF ScanParts
<1> HIDE DEF new, ids
<1>4. Puts(new) /\ \A id \in ids : at'[id] = l \o Tail(id)
  <2>1. \A id \in DOMAIN new : Tells(id, new[id])
    BY <1>1, <1>2 DEF Tells, NamedKinds
  <2>2. \A id \in ids : at'[id] = new[id]
    BY <1>2, <1>3 DEF Put
  <2> QED BY <1>2, <1>3, <2>1, <2>2, PutKept DEF NestInv
<1>5. camp' = camp /\ pc' = pc /\ todo' \subseteq todo
  BY DEF ScanParts
<1>6. ASSUME NEW e \in Containing(edges), FestivalEdge(e) PROVE FestivalEdge(e)'
  <2>1. PICK k \in Lifecycles :
          /\ {Tail(e.from), Tail(e.to)} \subseteq Seq(STRING)
          /\ e.to[2] = e.from[2] /\ \E f \in Festivals(k) : Last(f) = e.from[2]
          /\ Within(Tail(e.to), Tail(e.from))
          /\ SeveralPlaces(e.from[2]) \/ \A id \in {e.from, e.to} : at[id] = k \o Tail(id)
    BY <1>6 DEF FestivalEdge
  <2>2. e.from \in N /\ e.to \in N
    BY DEF EInv, EndsExist, Containing
  <2>3. SeveralPlaces(e.from[2]) \/ \A id \in {e.from, e.to} : at'[id] = k \o Tail(id)
    <3>1. CASE k = l
      BY <1>2, <1>4, <2>1, <2>2, <3>1 DEF Puts
    <3>2. CASE e.from \notin ids /\ e.to \notin ids
      BY <1>2, <1>4, <2>1, <2>2, <3>2 DEF Puts
    <3>3. CASE k # l /\ (e.from \in ids \/ e.to \in ids)
      BY <1>1, <2>1, <3>3, TwoStages
    <3> QED BY <3>1, <3>2, <3>3
  <2> QED BY <1>5, <2>1, <2>3, SameFestivals DEF FestivalEdge
<1>7. ASSUME NEW e \in Containing(edges), ~(e.from[1] = "festival" /\ e.to[1] = "festival")
      PROVE  Nests(e)'
  <2>1. /\ e.from[1] \in {"repo", "folder", "package"} /\ Within(at[e.to], at[e.from])
        /\ e.to[1] \in NamedKinds \cup {"package"}
    BY <1>7 DEF NestInv, Nests, Unbridged
  <2>2. e.from \notin ids /\ e.to \notin ids /\ e.from \in N /\ e.to \in N
    BY <1>1, <2>1 DEF NamedKinds, EInv, EndsExist, Containing
  <2>3. at'[e.from] = at[e.from] /\ at'[e.to] = at[e.to]
    BY <1>2, <1>4, <2>2 DEF Puts
  <2> QED BY <2>1, <2>3 DEF Nests
<1>8. ASSUME NEW e \in Containing(edges' \ edges) PROVE Nests(e)'
  <2>1. PICK p \in Below(phases) : e = Structural(FestivalId(l, Parent(p)), FestivalId(l, p))
    BY DEF ScanParts, Containing
  <2>2. e.from = FestivalId(l, Parent(p)) /\ e.to = FestivalId(l, p)
    BY <2>1 DEF Structural
  <2>3. e.from \in ids /\ e.to \in ids
    BY <2>2, InFestival DEF ids
  <2>4. /\ {Tail(e.from), Tail(e.to)} \subseteq Seq(STRING) /\ Within(Tail(e.to), Tail(e.from))
        /\ e.from[1] = "festival" /\ e.to[1] = "festival" /\ e.to[2] = e.from[2]
        /\ \E f \in Festivals(l) : Last(f) = e.from[2]
    BY <2>2, FestivalNests
  <2>5. FestivalEdge(e)'
    BY <1>4, <1>5, <2>3, <2>4, SameFestivals DEF FestivalEdge
  <2> QED BY <2>4, <2>5 DEF Nests
<1>9. \A e \in Containing(edges) : Nests(e)'
  BY <1>6, <1>7 DEF NestInv, Nests
<1> QED BY <1>4, <1>5, <1>8, <1>9 DEF NestInv, Puts, StagesTodo, Containing

LEMMA BelowBoth ==
  ASSUME NEW l \in Seq(STRING), NEW x \in Seq(STRING), NEW y \in Seq(STRING), Within(y, x)
  PROVE  Within(l \o y, l \o x)
<1>1. Len(l) \in Nat /\ Len(x) \in Nat /\ Len(y) \in Nat
  OBVIOUS
<1>2. Len(x) <= Len(y) /\ \A i \in 1 .. Len(x) : x[i] = y[i]
  BY StringPaths, WithinMeans
<1> DEFINE u == l \o x  v == l \o y
<1>3. /\ u \in Seq(STRING) /\ Len(u) = Len(l) + Len(x)
      /\ \A i \in 1 .. Len(l) + Len(x) : u[i] = IF i <= Len(l) THEN l[i] ELSE x[i - Len(l)]
  BY ConcatProperties
<1>4. /\ v \in Seq(STRING) /\ Len(v) = Len(l) + Len(y)
      /\ \A i \in 1 .. Len(l) + Len(y) : v[i] = IF i <= Len(l) THEN l[i] ELSE y[i - Len(l)]
  BY ConcatProperties
<1> HIDE DEF u, v
<1>5. Len(u) <= Len(v)
  BY <1>1, <1>2, <1>3, <1>4
<1>6. ASSUME NEW i \in 1 .. Len(u) PROVE u[i] = v[i]
  <2>1. i \in 1 .. Len(l) + Len(x) /\ i \in 1 .. Len(l) + Len(y)
    BY <1>1, <1>2, <1>3
  <2>2. ~(i <= Len(l)) => i - Len(l) \in 1 .. Len(x)
    BY <1>1, <2>1
  <2> QED BY <1>2, <1>3, <1>4, <2>1, <2>2
<1> QED BY <1>3, <1>4, <1>5, <1>6, StringPaths, WithinMeans DEF u, v

\* Passes that add no containing edge, and steps that end a pass early.
LEMMA NestRest ==
  ASSUME EInv, NestInv,
         \/ IndexNotes \/ Proceed \/ Aggregate \/ Metadata \/ StopEnumerating \/ Cancel \/ Fail
         \/ (\E list \in todo : Enumerate(list)) \/ UNCHANGED vars
  PROVE  NestInv'
<1>1. UNCHANGED <<at, camp>>
  BY DEF IndexNotes, Proceed, Aggregate, Metadata, StopEnumerating, Cancel, Fail, Enumerate, vars
<1>2. Containing(edges' \ edges) = {}
  <2>1. \A e \in InferredEdges(signals) : e.type # "contains"
    BY DEF InferredEdges, InferredEdge
  <2>2. \A id \in N : \A e \in MetadataEdges(id) : e.type # "contains"
    <3> SUFFICES ASSUME NEW id \in N, NEW e \in MetadataEdges(id) PROVE e.type # "contains"
      OBVIOUS
    <3> DEFINE Related(x) == [Explicit(id, x, "relates_to") EXCEPT !.conf = 8000]
    <3>1. \A x : /\ Explicit(id, x, "links_to").type # "contains"
                 /\ Explicit(id, x, "gathered_from").type # "contains"
                 /\ Related(x).type # "contains"
      BY DEF Explicit
    <3>2. PICK x : \/ e = Explicit(id, x, "links_to") \/ e = Explicit(id, x, "gathered_from")
                   \/ e = Related(x)
      BY DEF MetadataEdges
    <3> HIDE DEF Related
    <3> QED BY <3>1, <3>2
  <2>3. CASE Aggregate
    BY <2>1, <2>3 DEF Aggregate, Containing
  <2>4. CASE Metadata
    BY <2>2, <2>4 DEF Metadata, Containing
  <2>5. CASE edges' = edges
    BY <2>5 DEF Containing
  <2> QED
    BY <2>3, <2>4, <2>5 DEF IndexNotes, Proceed, StopEnumerating, Cancel, Fail, Enumerate, vars
<1>3. StagesTodo' /\ (pc \notin Unbridged => pc' \notin Unbridged)
  <2>1. CASE IndexNotes \/ Aggregate \/ Metadata \/ Fail \/ StopEnumerating
    BY <2>1 DEF IndexNotes, Aggregate, Metadata, Fail, StopEnumerating, Enter, Running,
                StagesTodo, Unbridged
  <2>2. CASE Proceed
    <3>1. pc \in {"festivals", "links", "canvases"} \cup ToSet(Sources) /\ pc' = After(pc)
      BY <2>2 DEF Proceed, Enter
    <3>2. pc' # "festivals"
      BY <3>1, PassAfter DEF Unbridged
    <3>3. pc \notin Unbridged => pc' \notin Unbridged
      BY <3>1, PassAfter DEF Unbridged
    <3> QED BY <3>2, <3>3 DEF StagesTodo
  <2>3. CASE Cancel \/ UNCHANGED vars
    BY <2>3 DEF Cancel, vars, NestInv, StagesTodo
  <2>4. CASE \E list \in todo : Enumerate(list)
    BY <2>4, SourceNames DEF Enumerate, StagesTodo
  <2> QED BY <2>1, <2>2, <2>3, <2>4
<1> QED BY <1>1, <1>2, <1>3, NestSame

LEMMA NextNestInv == ASSUME EInv, NestInv, [Next]_vars PROVE NestInv'
<1>1. CASE \E l \in todo : ScanLifecycle(l) \/ StopInLifecycle(l)
  <2>1. PICK l \in todo : \E phases \in SUBSET Phases(l) : ScanParts(l, phases)
    BY <1>1 DEF ScanLifecycle, StopInLifecycle
  <2>2. pc = "festivals" /\ l \in Lifecycles
    BY <1>1, <2>1 DEF ScanLifecycle, StopInLifecycle, Running, NestInv, StagesTodo
  <2> QED BY <2>1, <2>2, NestParts
<1>2. CASE ScanScopes
  BY <1>2, NestScopes
<1>3. CASE ScanProjects \/ ScanIntents \/ ScanWorkflow
  BY <1>3, ArtifactsAdded, NestAdd
<1>4. CASE ScanNotes
  BY <1>4, NestNotes
<1>5. CASE \E n \in todo : LinkNote(n)
  BY <1>5, NestLinks
<1>6. CASE LinkCanvas
  BY <1>6, NestCanvas
<1>7. CASE Bridge
  BY <1>7, NestBridge
<1>8. CASE CodeSlices
  BY <1>8, NestCode
<1>9. CASE \/ IndexNotes \/ Proceed \/ Aggregate \/ Metadata \/ StopEnumerating \/ Cancel \/ Fail
           \/ (\E list \in todo : Enumerate(list)) \/ UNCHANGED vars
  BY <1>9, NestRest
<1> QED BY <1>1, <1>2, <1>3, <1>4, <1>5, <1>6, <1>7, <1>8, <1>9 DEF Next

LEMMA InitNestInv == Init => NestInv
BY DEF Init, Unscanned, NestInv, PathsKept, StagesTodo, N, Containing

LEMMA NestInvNests == ASSUME EInv, NestInv PROVE ContainersNest
<1> SUFFICES ASSUME NEW e \in edges, e.type = "contains"
             PROVE  \/ Within(at[e.to], at[e.from])
                    \/ e.from[1] = "festival" /\ SeveralPlaces(e.from[2])
  BY DEF ContainersNest
<1>1. Nests(e)
  BY DEF NestInv, Containing
<1>2. ASSUME e.from[1] = "festival", e.to[1] = "festival", NEW l \in Lifecycles,
             {Tail(e.from), Tail(e.to)} \subseteq Seq(STRING), Within(Tail(e.to), Tail(e.from)),
             NEW f \in Festivals(l), \A id \in {e.from, e.to} : at[id] = l \o Tail(id)
      PROVE  Within(at[e.to], at[e.from])
  <2>1. l \in Seq(STRING)
    BY <1>2, StageIsPath
  <2>2. \A x, y \in Seq(STRING) : Within(y, x) => Within(l \o y, l \o x)
    BY <2>1, BelowBoth
  <2> QED BY <1>2, <2>2
<1>3. CASE e.from[1] = "festival" /\ e.to[1] = "festival" /\ FestivalEdge(e)
  BY <1>2, <1>3 DEF FestivalEdge
<1> QED BY <1>1, <1>3 DEF Nests

\* A container lies at or above what it contains, whichever folder a walk
\* up from a file ends at, but for a festival that two stages have
\* (scopes.go:187-216, scanner.go:175-178).
THEOREM ContainersLieAbove == Spec => []ContainersNest
<1>1. Init => EInv /\ NestInv
  BY InitEInv, InitNestInv
<1>2. EInv /\ NestInv /\ [Next]_vars => (EInv /\ NestInv)'
  BY NextEInv, NextNestInv
<1>3. EInv /\ NestInv => ContainersNest
  BY NestInvNests
<1> QED BY <1>1, <1>2, <1>3, PTL DEF Spec
-----------------------------------------------------------------------------
(***************************************************************************)
(* What has a place in the tree is in a container: from the pass that adds  *)
(* it, or for artifacts from the pass that places them.                    *)
(***************************************************************************)
InContainer(id) == \E e \in edges : e.type = "contains" /\ e.to = id
Waits(id) == IsBridgeable(id) /\ pc \in Unbridged \cup {"failed"}
Held(id) == Unplaced(id) \/ InContainer(id) \/ Waits(id)
HeldInv == \A id \in N : Held(id)

LEMMA HeldStays ==
  ASSUME camp' = camp, edges \subseteq edges',
         pc' \in Unbridged \cup {"failed"} \/ pc \notin Unbridged \cup {"failed"}
  PROVE  \A id : Held(id) => Held(id)'
<1>1. W' = W
  BY DEF W
<1> QED BY <1>1 DEF Held, Unplaced, InContainer, Waits

LEMMA EdgeHolds ==
  ASSUME NEW e \in edges', e.type = "contains", NEW id, e.to = id
  PROVE  Held(id)'
BY DEF Held, InContainer

LEMMA PlacedHolds ==
  ASSUME NEW ids, NEW p, NEW id, Placed(ids, p, id) \in edges'
  PROVE  Held(id)'
<1>1. Placed(ids, p, id).type = "contains" /\ Placed(ids, p, id).to = id
  BY DEF Placed, Structural
<1> QED BY <1>1, EdgeHolds

\* The folder above a folder is one, unless a repository holds it.
LEMMA FolderAbove ==
  ASSUME camp \in DOMAIN Campaign, NEW d \in Folders, d # <<>>, d \notin W.nested
  PROVE  Parent(d) \in Folders
<1>0. PICK p \in W.listed : d \in Ancestors(p)
  BY DEF Folders
<1>1. PICK i \in 1 .. Len(p) - 1 : d = SubSeq(p, 1, i)
  BY <1>0 DEF Ancestors
<1>2. p \in Seq(STRING) /\ p \in Paths /\ Len(p) \in Nat
  BY FilePaths, StringPaths
<1>3. i \in 0 .. Len(p) /\ i - 1 \in 0 .. Len(p) /\ i - 1 <= i
  BY <1>2
<1>4. d \in Paths /\ Len(d) = i /\ \A k \in 1 .. i : d[k] = p[k]
  BY <1>1, <1>2, <1>3, Cut
<1> DEFINE x == SubSeq(p, 1, i - 1)
<1>5. x \in Paths /\ Len(x) = i - 1 /\ \A k \in 1 .. i - 1 : x[k] = p[k]
  BY <1>2, <1>3, Cut
<1>6. /\ Front(d) \in Paths /\ Len(Front(d)) = i - 1 /\ Parent(d) = Front(d)
      /\ \A k \in 1 .. i - 1 : Front(d)[k] = d[k]
  <2>1. Front(d) \in Paths /\ Len(Front(d)) = Len(d) - 1 /\ Parent(d) = Front(d)
        /\ Within(d, Front(d))
    BY <1>4, FrontPath
  <2> HIDE DEF x
  <2>2. \A k \in 1 .. Len(Front(d)) : Front(d)[k] = d[k]
    BY <1>4, <2>1, WithinMeans
  <2> QED BY <1>4, <2>1, <2>2
<1> HIDE DEF x
<1>7. \A k \in 1 .. i - 1 : Front(d)[k] = x[k]
  BY <1>3, <1>4, <1>5, <1>6
<1>8. Front(d) = x
  BY <1>5, <1>6, <1>7, SamePath
<1>9. CASE i = 1
  <2>1. Len(x) = 0
    BY <1>5, <1>9
  <2>2. x = <<>>
    BY <1>5, <2>1, EmptySeq DEF Paths
  <2> QED BY <1>6, <1>8, <2>2 DEF Folders
<1>10. CASE i # 1
  <2>1. i - 1 \in 1 .. Len(p) - 1
    BY <1>2, <1>10
  <2>2. x \in Ancestors(p)
    BY <2>1 DEF Ancestors, x
  <2> QED BY <1>6, <1>8, <2>2 DEF Folders
<1> QED BY <1>9, <1>10

LEMMA HeldScopes ==
  ASSUME EInv, HeldInv, ScanScopes
  PROVE  HeldInv'
<1> DEFINE repos == Named("repo", W.nested)  folders == Named("folder", Folders)
<1>1. N' = N \cup DOMAIN repos \cup DOMAIN folders
  <2>1. /\ DOMAIN Put(repos, folders) = DOMAIN repos \cup DOMAIN folders
        /\ DOMAIN Put(at, Put(repos, folders)) = N \cup DOMAIN Put(repos, folders)
    BY PutNodes DEF N
  <2> QED BY <2>1 DEF ScanScopes, N
<1>2. camp' = camp /\ pc' = "projects" /\ pc' \in Unbridged /\ edges \subseteq edges'
  BY DEF ScanScopes, Enter, Unbridged
<1>3. W.nested \subseteq Seq(STRING) /\ Folders \subseteq Seq(STRING)
  BY FilePaths, FolderPaths DEF EInv
<1>4. ASSUME NEW id \in DOMAIN repos PROVE Held(id)'
  <2>1. id[1] = "repo"
    BY <1>3, PathId DEF Named
  <2> QED BY <2>1 DEF Held, Unplaced
<1>5. ASSUME NEW id \in DOMAIN folders PROVE Held(id)'
  <2>1. PICK d \in Folders : id = <<"folder">> \o d
    BY DEF Named
  <2>2. CASE d = <<>>
    BY <2>1, <2>2, RootId DEF Held, Unplaced
  <2>3. CASE d \in W.nested
    <3> DEFINE e == Structural(<<"repo">> \o d, <<"folder">> \o d)
    <3>1. e \in edges'
      BY <2>3 DEF ScanScopes
    <3>2. e.type = "contains" /\ e.to = id
      BY <2>1 DEF Structural
    <3> QED BY <3>1, <3>2, EdgeHolds
  <2>4. CASE d # <<>> /\ d \notin W.nested
    <3> DEFINE e == Structural(<<"folder">> \o Parent(d), <<"folder">> \o d)
    <3>1. Parent(d) \in Folders
      BY <2>4, FolderAbove DEF EInv
    <3>2. e \in edges'
      BY <2>4, <3>1 DEF ScanScopes
    <3>3. e.type = "contains" /\ e.to = id
      BY <2>1 DEF Structural
    <3> QED BY <3>2, <3>3, EdgeHolds
  <2> QED BY <2>2, <2>3, <2>4
<1>6. \A id \in N : Held(id)'
  BY <1>2, HeldStays DEF HeldInv
<1> QED BY <1>1, <1>4, <1>5, <1>6 DEF HeldInv

\* A step within the passes before the artifacts are placed, or after it.
LEMMA HeldKeeps ==
  ASSUME HeldInv, camp' = camp, edges \subseteq edges', \A id \in N' \ N : Held(id)',
         pc' \in Unbridged \cup {"failed"} \/ pc \notin Unbridged \cup {"failed"}
  PROVE  HeldInv'
BY HeldStays DEF HeldInv

LEMMA HeldAdd ==
  ASSUME HeldInv, NEW pass \in {"projects", "intents", "workflow"}, NEW new, Add(pass, new),
         \A id \in DOMAIN new : id[1] \in {"project", "intent", "design_doc", "explore_doc"}
  PROVE  HeldInv'
<1>1. N' = N \cup DOMAIN new /\ camp' = camp /\ edges' = edges
  BY PutNodes DEF Add, N
<1>2. pc' \in Unbridged
  BY AfterProjects, PassAfter DEF Add, Enter, Unbridged
<1>3. \A id \in DOMAIN new : Held(id)'
  BY <1>2 DEF Held, Waits, IsBridgeable
<1> QED BY <1>1, <1>2, <1>3, HeldKeeps


LEMMA LenId ==
  ASSUME NEW k, NEW p \in Seq(STRING)
  PROVE  Len(<<k>> \o p) = Len(p) + 1
<1> DEFINE T == STRING \cup {k}
<1>1. p \in Seq(T)
  <2>1. p \in [1 .. Len(p) -> STRING] /\ Len(p) \in Nat
    OBVIOUS
  <2>2. p \in [1 .. Len(p) -> T]
    BY <2>1
  <2> QED BY <2>1, <2>2
<1>2. k \in T
  OBVIOUS
<1> HIDE DEF T
<1>3. <<k>> \in Seq(T) /\ Len(<<k>>) = 1
  BY <1>2
<1> QED BY <1>1, <1>3

LEMMA HeldParts ==
  ASSUME EInv, HeldInv, pc = "festivals", NEW l, NEW phases \in SUBSET Phases(l),
         ScanParts(l, phases)
  PROVE  HeldInv'
<1> DEFINE ids == {FestivalId(l, p) : p \in Festivals(l) \cup Below(phases)}
           new == [id \in ids |-> l \o Tail(id)]
<1>1. N' = N \cup ids /\ camp' = camp /\ pc' \in Unbridged /\ edges \subseteq edges'
  <2>1. at' = Put(at, new) /\ DOMAIN new = ids
    BY DEF ScanParts
  <2> HIDE DEF new
  <2>2. N' = N \cup ids
    BY <2>1, PutNodes DEF N
  <2> QED BY <2>2 DEF ScanParts, Unbridged
<1>2. ASSUME NEW p \in Festivals(l) PROVE Held(FestivalId(l, p))'
  <2>1. /\ l \in Seq(STRING) /\ p \in Seq(STRING) /\ p \in Paths /\ Within(p, p)
        /\ p # <<>> /\ Parent(p) = l
    BY StageIsPath, FilePaths, StringPaths, WithinItself DEF EInv, Festivals, Shown, SubDirs
  <2>2. Len(l) = Len(p) - 1 /\ Len(p) \in Nat
    BY <2>1, FrontPath
  <2> DEFINE rest == SubSeq(p, Len(l) + 1, Len(p))  id == FestivalId(l, p)
  <2>3. rest = SubSeq(p, Len(l) + 1, Len(p))
    OBVIOUS
  <2> HIDE DEF rest
  <2>4. rest \in Seq(STRING) /\ Len(rest) = 1
    <3>1. rest \in Seq(STRING) /\ Len(rest) = Len(p) - Len(l)
      BY <2>1, <2>3, FestivalPart
    <3> QED BY <2>2, <3>1
  <2>5. id = <<"festival">> \o rest
    BY DEF rest, FestivalId
  <2> HIDE DEF id
  <2>6. id[1] = "festival"
    BY <2>4, <2>5, PathId
  <2>7. Len(id) = 2
    <3>1. Len(<<"festival">> \o rest) = Len(rest) + 1
      BY <2>4, LenId
    <3> QED BY <2>4, <2>5, <3>1
  <2> QED BY <1>1, <2>6, <2>7 DEF Held, Waits, IsBridgeable, id
<1>3. ASSUME NEW p \in Below(phases) PROVE Held(FestivalId(l, p))'
  <2> DEFINE e == Structural(FestivalId(l, Parent(p)), FestivalId(l, p))
  <2>1. e \in edges'
    BY DEF ScanParts
  <2>2. e.type = "contains" /\ e.to = FestivalId(l, p)
    BY DEF Structural
  <2> HIDE DEF e
  <2> QED BY <2>1, <2>2, EdgeHolds
<1> QED BY <1>1, <1>2, <1>3, HeldKeeps

LEMMA HeldNotes ==
  ASSUME EInv, HeldInv, ScanNotes
  PROVE  HeldInv'
<1>1. N' = N \cup {<<"note">> \o p : p \in NotePaths}
  <2>1. at' = Put(at, Named("note", NotePaths))
    BY DEF ScanNotes
  <2>2. DOMAIN Named("note", NotePaths) = {<<"note">> \o p : p \in NotePaths}
    BY DEF Named
  <2> QED BY <2>1, <2>2, PutNodes DEF N
<1>2. camp' = camp /\ pc' \in Unbridged /\ edges \subseteq edges'
  BY DEF ScanNotes, Enter, Unbridged
<1>3. ASSUME NEW p \in NotePaths PROVE Held(<<"note">> \o p)'
  <2>1. CASE p \in W.unread
    <3>1. p \in Seq(STRING)
      BY FilePaths DEF EInv, NotePaths, Listed
    <3>2. Tail(<<"note">> \o p) = p /\ (<<"note">> \o p)[1] = "note"
      BY <3>1, PathId
    <3> QED BY <1>2, <2>1, <3>2 DEF Held, Unplaced, W
  <2>2. CASE p \notin W.unread
    <3>1. Placed(N, p, <<"note">> \o p) \in edges'
      BY <2>2 DEF ScanNotes
    <3> QED BY <3>1, PlacedHolds
  <2> QED BY <2>1, <2>2
<1> QED BY <1>1, <1>2, <1>3, HeldKeeps

LEMMA HeldLinks ==
  ASSUME EInv, HeldInv, NEW n \in todo, LinkNote(n)
  PROVE  HeldInv'
<1> DEFINE tags == {<<"tag", t>> : t \in TextOf(Tail(n)).inline}
           ids == (LinkTargets(n) \cup tags) \ N
           new == [id \in ids |-> IF id[1] = "tag" THEN NoPath ELSE Tail(id)]
<1>1. N' = N \cup ids
  <2>1. at' = Put(at, new) /\ DOMAIN new = ids
    BY DEF LinkNote
  <2> HIDE DEF new
  <2> QED BY <2>1, PutNodes DEF N
<1>2. camp' = camp /\ pc' \in Unbridged /\ edges \subseteq edges'
  BY DEF LinkNote, Running, Unbridged
<1>3. ASSUME NEW id \in ids PROVE id[1] \in {"tag", "attachment"}
  <2>1. CASE id \in tags
    BY <2>1
  <2>2. CASE id \in LinkTargets(n) \ N
    <3>1. PICK p \in Seq(STRING) : id = <<"attachment">> \o p
      BY <2>2, LinkTargetKinds
    <3> QED BY <3>1, PathId
  <2> QED BY <2>1, <2>2
<1>4. \A id \in ids : Held(id)'
  BY <1>3 DEF Held, Unplaced
<1> QED BY <1>1, <1>2, <1>4, HeldKeeps

LEMMA HeldCanvas ==
  ASSUME HeldInv, LinkCanvas
  PROVE  HeldInv'
<1> DEFINE p == SelectSeq(Order, LAMBDA x : x \in todo)[1]
           canvas == <<"canvas">> \o p
           new == Named("canvas", {p})
<1>1. camp' = camp /\ pc' \in Unbridged /\ edges \subseteq edges'
  BY DEF LinkCanvas, Running, Unbridged
<1>2. CASE UNCHANGED <<at, edges>>
  <2>1. N' = N
    BY <1>2 DEF N
  <2> QED BY <1>1, <2>1, HeldKeeps
<1>3. CASE ~ UNCHANGED <<at, edges>>
  <2>1. at' = Put(at, new) /\ Placed(N, p, canvas) \in edges'
    BY <1>3 DEF LinkCanvas
  <2>2. \A ids, q, id : Placed(ids, q, id).type = "contains" /\ Placed(ids, q, id).to = id
    BY DEF Placed, Structural
  <2>3. DOMAIN new = {canvas}
    BY DEF Named
  <2> HIDE DEF p, canvas, new
  <2>4. N' = N \cup {canvas}
    BY <2>1, <2>3, PutNodes DEF N
  <2>5. ASSUME NEW id \in N' \ N PROVE Held(id)'
    <3>1. id = canvas
      BY <2>4
    <3>2. \E e \in edges' : e.type = "contains" /\ e.to = id
      BY <2>1, <2>2, <3>1
    <3> QED BY <3>2, EdgeHolds
  <2> QED BY <1>1, <2>5, HeldKeeps
<1> QED BY <1>2, <1>3

LEMMA HeldBridge ==
  ASSUME HeldInv, Bridge
  PROVE  HeldInv'
<1>1. N' = N /\ camp' = camp /\ edges \subseteq edges'
  BY DEF Bridge, N
<1>2. ASSUME NEW id \in N, Waits(id) PROVE Held(id)'
  <2>1. Placed(N, at[id], id) \in edges'
    BY <1>2 DEF Bridge, Waits
  <2> QED BY <2>1, PlacedHolds
<1>3. ASSUME NEW id \in N, Unplaced(id) \/ InContainer(id) PROVE Held(id)'
  BY <1>1, <1>3 DEF Held, Unplaced, InContainer, W
<1> QED BY <1>1, <1>2, <1>3 DEF HeldInv, Held

LEMMA HeldCode ==
  ASSUME HeldInv, CodeSlices
  PROVE  HeldInv'
<1> DEFINE files == Named("file", CodeFiles)
           own == [id \in {PackageOf(p) : p \in GoFiles} |-> Front(Tail(id))]
           new == Put(files, own)
<1>1. N' = N \cup {<<"file">> \o p : p \in CodeFiles} \cup {PackageOf(p) : p \in GoFiles}
  <2>1. /\ DOMAIN files = {<<"file">> \o p : p \in CodeFiles}
        /\ DOMAIN own = {PackageOf(p) : p \in GoFiles}
    BY DEF Named
  <2>2. at' = Put(at, new)
    BY DEF CodeSlices
  <2>3. DOMAIN new = DOMAIN files \cup DOMAIN own
    <3> HIDE DEF files, own
    <3> QED BY PutNodes
  <2> HIDE DEF new
  <2>4. N' = N \cup DOMAIN new
    BY <2>2, PutNodes DEF N
  <2> HIDE DEF files, own
  <2> QED BY <2>1, <2>3, <2>4
<1>2. camp' = camp /\ pc \notin Unbridged \cup {"failed"} /\ edges \subseteq edges'
  BY DEF CodeSlices, Running, Unbridged
<1>3. \A p \in CodeFiles : Placed(N, p, <<"file">> \o p) \in edges'
  BY DEF CodeSlices
<1>4. \A p \in GoFiles : Placed(N, p, PackageOf(p)) \in edges'
  BY DEF CodeSlices
<1> QED BY <1>1, <1>2, <1>3, <1>4, PlacedHolds, HeldKeeps

LEMMA HeldRest ==
  ASSUME HeldInv,
         \/ IndexNotes \/ Proceed \/ Aggregate \/ Metadata \/ StopEnumerating \/ Cancel \/ Fail
         \/ (\E list \in todo : Enumerate(list)) \/ UNCHANGED vars
  PROVE  HeldInv'
<1>1. N' = N /\ camp' = camp /\ edges \subseteq edges'
  BY DEF IndexNotes, Proceed, Aggregate, Metadata, StopEnumerating, Cancel, Fail, Enumerate,
         vars, N
<1>2. pc' \in Unbridged \cup {"failed"} \/ pc \notin Unbridged \cup {"failed"}
  <2>1. CASE IndexNotes \/ Aggregate \/ Metadata \/ Fail
    BY <2>1 DEF IndexNotes, Aggregate, Metadata, Fail, Enter, Running, Unbridged
  <2>2. CASE Proceed
    BY <2>2, PassAfter, SourceNames DEF Proceed, Enter, Unbridged
  <2>3. CASE StopEnumerating
    BY <2>3, SourceNames DEF StopEnumerating, Unbridged
  <2>4. CASE pc' = pc
    BY <2>4
  <2> QED BY <2>1, <2>2, <2>3, <2>4 DEF Cancel, Enumerate, vars
<1> QED BY <1>1, <1>2, HeldKeeps

LEMMA NextHeldInv == ASSUME EInv, HeldInv, [Next]_vars PROVE HeldInv'
<1>1. CASE \E l \in todo : ScanLifecycle(l) \/ StopInLifecycle(l)
  <2>1. PICK l \in todo : \E phases \in SUBSET Phases(l) : ScanParts(l, phases)
    BY <1>1 DEF ScanLifecycle, StopInLifecycle
  <2>2. pc = "festivals"
    BY <1>1 DEF ScanLifecycle, StopInLifecycle, Running
  <2> QED BY <2>1, <2>2, HeldParts
<1>2. CASE ScanScopes
  BY <1>2, HeldScopes
<1>3. CASE ScanProjects \/ ScanIntents \/ ScanWorkflow
  BY <1>3, ArtifactsAdded, HeldAdd
<1>4. CASE ScanNotes
  BY <1>4, HeldNotes
<1>5. CASE \E n \in todo : LinkNote(n)
  BY <1>5, HeldLinks
<1>6. CASE LinkCanvas
  BY <1>6, HeldCanvas
<1>7. CASE Bridge
  BY <1>7, HeldBridge
<1>8. CASE CodeSlices
  BY <1>8, HeldCode
<1>9. CASE \/ IndexNotes \/ Proceed \/ Aggregate \/ Metadata \/ StopEnumerating \/ Cancel \/ Fail
           \/ (\E list \in todo : Enumerate(list)) \/ UNCHANGED vars
  BY <1>9, HeldRest
<1> QED BY <1>1, <1>2, <1>3, <1>4, <1>5, <1>6, <1>7, <1>8, <1>9 DEF Next

\* In a finished graph whatever has a place in the tree is in a container:
\* no folder, artifact, note, canvas or file hangs loose, and no artifact is
\* forgotten by the pass that places them (scopes.go:187-216).
THEOREM AllContained == Spec => []Contained
<1>1. Init => EInv /\ HeldInv
  BY InitEInv DEF Init, HeldInv, N, Unscanned
<1>2. EInv /\ HeldInv /\ [Next]_vars => (EInv /\ HeldInv)'
  BY NextEInv, NextHeldInv
<1>3. HeldInv => Contained
  BY DEF HeldInv, Held, Waits, Contained, InContainer, Unbridged
<1> QED BY <1>1, <1>2, <1>3, PTL DEF Spec

-----------------------------------------------------------------------------
(***************************************************************************)
(* What notes link to.  While links are read the notes are those of the     *)
(* files, no canvas is a node and no markdown file an attachment; so what   *)
(* a link finds is told by the files.                                      *)
(***************************************************************************)
BeforeNotes == {"scopes", "projects", "festivals", "intents", "workflow", "notes"}
Linking == {"index", "links", "canvases"}

NoteIds == {<<"note">> \o p : p \in NotePaths}
LinksOf(n) == {e.to : e \in {x \in edges : x.from = n /\ x.src = "explicit"}}

IndexOfStems ==
  /\ noteIndex \in [StemsOf(N) -> NotesIn(N)]
  /\ \A stem \in StemsOf(N) : Name(Tail(noteIndex[stem])).stem = stem

NoLinkKinds == \A id \in N : id[1] \notin {"note", "canvas", "attachment"}
NoCanvasYet ==
  \A id \in N : /\ id[1] # "canvas"
                /\ id[1] = "attachment" => Ext(Tail(id)) \notin Markdown
NoneExplicit == \A e \in edges : e.src # "explicit"

LinkInv ==
  /\ pc \in BeforeNotes => NoLinkKinds
  /\ pc \in BeforeNotes \cup {"index"} => NoneExplicit
  /\ pc \in Linking => NotesIn(N) = NoteIds
  /\ pc \in {"index", "links"} => NoCanvasYet
  /\ pc = "links" =>
       /\ IndexOfStems
       /\ \A n \in NotesIn(N) : IF n \in todo THEN LinksOf(n) = {} ELSE LinksAsDeclared(n)
  /\ pc = "canvases" => \A n \in NotesIn(N) : LinksAsDeclared(n)

LEMMA NotePathsAre ==
  ASSUME EInv
  PROVE  /\ NotePaths \subseteq Seq(STRING) \ {<<>>} /\ IsFiniteSet(NotePaths)
         /\ \A p \in NotePaths : Ext(p) \in Markdown
<1>1. NotePaths \subseteq W.listed
  BY DEF NotePaths, Listed
<1>2. W.listed \subseteq Seq(STRING) /\ <<>> \notin W.listed /\ IsFiniteSet(W.listed)
  BY ScanAssumption DEF EInv, W, CampaignType
<1>3. IsFiniteSet(NotePaths)
  BY <1>1, <1>2, FS_Subset
<1> QED BY <1>1, <1>2, <1>3 DEF NotePaths

LEMMA NoteIn ==
  ASSUME EInv, NotesIn(N) = NoteIds, NEW p \in Seq(STRING)
  PROVE  <<"note">> \o p \in N <=> p \in NotePaths
<1>1. (<<"note">> \o p)[1] = "note" /\ Tail(<<"note">> \o p) = p
  BY PathId
<1>2. ASSUME NEW q \in NotePaths, <<"note">> \o p = <<"note">> \o q PROVE p = q
  <2>1. q \in Seq(STRING) /\ Tail(<<"note">> \o q) = q
    BY NotePathsAre, PathId
  <2> QED BY <1>1, <1>2, <2>1
<1> QED BY <1>1, <1>2 DEF NotesIn, NoteIds

\* A link to a path finds what the files tell.
LEMMA LinksFound ==
  ASSUME EInv, NotesIn(N) = NoteIds, NoCanvasYet, NEW n
  PROVE  LinkTargets(n) = DeclaredLinks(n)
<1> DEFINE To(p) == IF KnownAt(N, p) # {} THEN KnownAt(N, p)
                    ELSE IF Ext(p) \in Markdown THEN {} ELSE {<<"attachment">> \o p}
           Declared(p) == IF p \in NotePaths THEN {<<"note">> \o p}
                          ELSE IF Ext(p) \in Markdown THEN {} ELSE {<<"attachment">> \o p}
<1>1. ASSUME NEW p \in Seq(STRING) PROVE To(p) = Declared(p)
  <2>1. <<"canvas">> \o p \notin N
    <3>1. (<<"canvas">> \o p)[1] = "canvas"
      BY PathId
    <3> QED BY <3>1 DEF NoCanvasYet
  <2>2. <<"attachment">> \o p \in N => Ext(p) \notin Markdown
    <3>1. (<<"attachment">> \o p)[1] = "attachment" /\ Tail(<<"attachment">> \o p) = p
      BY PathId
    <3> QED BY <3>1 DEF NoCanvasYet
  <2>3. <<"note">> \o p \in N <=> p \in NotePaths
    BY NoteIn
  <2> DEFINE known == {kind \in {"note", "canvas", "attachment"} : <<kind>> \o p \in N}
  <2>4. CASE p \in NotePaths
    <3>1. "note" \in known
      BY <2>3, <2>4
    <3> QED BY <2>4, <3>1 DEF KnownAt
  <2>5. CASE p \notin NotePaths /\ <<"attachment">> \o p \in N
    <3>1. known = {"attachment"}
      BY <2>1, <2>3, <2>5
    <3>2. KnownAt(N, p) = {<<"attachment">> \o p}
      BY <3>1 DEF KnownAt
    <3> QED BY <2>2, <2>5, <3>2
  <2>6. CASE p \notin NotePaths /\ <<"attachment">> \o p \notin N
    <3>1. known = {}
      BY <2>1, <2>3, <2>6
    <3>2. KnownAt(N, p) = {}
      BY <3>1 DEF KnownAt
    <3> QED BY <2>6, <3>2
  <2> QED BY <2>4, <2>5, <2>6
<1>2. LinkTargets(n) = UNION {To(p) : p \in Linked(n)}
  BY DEF LinkTargets
<1>3. DeclaredLinks(n) = UNION {Declared(p) : p \in Linked(n)}
  BY DEF DeclaredLinks
<1>4. \A p \in Linked(n) : To(p) = Declared(p)
  BY <1>1, LinkedPaths
<1> HIDE DEF To, Declared
<1> QED BY <1>2, <1>3, <1>4

\* What is found by name in a directory.
LEMMA SuffixedFound ==
  ASSUME EInv, NotesIn(N) = NoteIds, NEW target \in Seq(STRING), target # <<>>
  PROVE  {id \in NotesIn(N) :
            /\ Len(id) = Len(target) + 1 /\ Front(Tail(id)) = Front(target)
            /\ Name(Tail(id)).bare = Last(target) /\ Ext(Tail(id)) = "md"}
         = {<<"note">> \o p : p \in {q \in NotePaths :
              /\ Parent(q) = Parent(target) /\ Ext(q) = "md" /\ Name(q).bare = Last(target)}}
<1>1. ASSUME NEW p \in NotePaths
      PROVE  /\ Tail(<<"note">> \o p) = p
             /\ Len(<<"note">> \o p) = Len(target) + 1 /\ Front(p) = Front(target)
                  <=> Parent(p) = Parent(target)
  <2>1. p \in Seq(STRING) /\ p # <<>>
    BY NotePathsAre
  <2>2. Tail(<<"note">> \o p) = p
    BY <2>1, PathId
  <2>3. Len(<<"note">> \o p) = Len(p) + 1 /\ Len(p) \in Nat /\ Len(target) \in Nat
    BY <2>1
  <2>4. Parent(p) = Front(p) /\ Parent(target) = Front(target)
    BY <2>1 DEF Parent
  <2>5. \A q \in Seq(STRING) : q # <<>> => Len(Front(q)) = Len(q) - 1
    BY StringPaths, FrontPath DEF Parent
  <2>6. Front(p) = Front(target) => Len(p) = Len(target)
    BY <2>1, <2>3, <2>5
  <2> QED BY <2>2, <2>3, <2>4, <2>6
<1> QED BY <1>1 DEF NoteIds

LEMMA OneOfStem ==
  ASSUME EInv, NEW stem, Cardinality(NotesOfStem(stem)) <= 1,
         NEW p \in NotesOfStem(stem), NEW q \in NotesOfStem(stem)
  PROVE  p = q
<1>1. IsFiniteSet(NotesOfStem(stem))
  BY NotePathsAre, FS_Subset DEF NotesOfStem
<1> QED BY <1>1, FS_CardinalityType, FS_Singleton, FS_EmptySet

\* A wiki link finds a note that the files tell, and where they tell one it
\* is that one.
LEMMA WikiFound ==
  ASSUME EInv, NotesIn(N) = NoteIds, IndexOfStems, NEW target \in Seq(STRING), target # <<>>
  PROVE  /\ WikiTarget(target) \subseteq DeclaredWiki(target)
         /\ ~Ambiguous(target) => WikiTarget(target) = DeclaredWiki(target)
<1> DEFINE stem == Name(target).stem
           exact == {<<"note">> \o target} \cap N
           suffixed == {id \in NotesIn(N) :
                          /\ Len(id) = Len(target) + 1 /\ Front(Tail(id)) = Front(target)
                          /\ Name(Tail(id)).bare = Last(target) /\ Ext(Tail(id)) = "md"}
           byStem == {noteIndex[x] : x \in {stem} \cap DOMAIN noteIndex}
           beside == {q \in NotePaths :
                        /\ Parent(q) = Parent(target) /\ Ext(q) = "md"
                        /\ Name(q).bare = Last(target)}
<1>1. exact = IF target \in NotePaths THEN {<<"note">> \o target} ELSE {}
  BY NoteIn
<1>2. suffixed = {<<"note">> \o p : p \in beside}
  BY SuffixedFound
<1>3. WikiTarget(target) = IF exact # {} THEN exact ELSE IF suffixed # {} THEN suffixed ELSE byStem
  BY DEF WikiTarget
<1>4. NotesAt(target) = IF target \in NotePaths THEN {target} ELSE beside
  BY DEF NotesAt
<1> HIDE DEF exact, suffixed, beside
<1>5. CASE NotesAt(target) # {}
  <2>1. DeclaredWiki(target) = {<<"note">> \o p : p \in NotesAt(target)}
    BY <1>5 DEF DeclaredWiki
  <2>2. CASE target \in NotePaths
    <3>1. WikiTarget(target) = {<<"note">> \o target}
      BY <1>1, <1>3, <2>2
    <3> QED BY <1>4, <2>1, <2>2, <3>1
  <2>3. CASE target \notin NotePaths
    <3>1. WikiTarget(target) = suffixed
      BY <1>1, <1>2, <1>3, <1>4, <1>5, <2>3
    <3> QED BY <1>2, <1>4, <2>1, <2>3, <3>1
  <2> QED BY <2>2, <2>3
<1>6. CASE NotesAt(target) = {}
  <2>1. WikiTarget(target) = byStem
    BY <1>1, <1>2, <1>3, <1>4, <1>6
  <2>2. DeclaredWiki(target) = {<<"note">> \o p : p \in NotesOfStem(stem)}
    BY <1>6 DEF DeclaredWiki
  <2>3. StemsOf(N) = {Name(p).stem : p \in NotePaths} \ {""}
    <3>1. \A p \in NotePaths : Tail(<<"note">> \o p) = p
      BY NotePathsAre, PathId
    <3> QED BY <3>1 DEF StemsOf, NoteIds
  <2>4. stem \in DOMAIN noteIndex <=> NotesOfStem(stem) # {}
    <3> HIDE DEF stem
    <3>1. DOMAIN noteIndex = {Name(p).stem : p \in NotePaths} \ {""}
      BY <2>3 DEF IndexOfStems
    <3> QED BY <3>1 DEF NotesOfStem
  <2>5. byStem \subseteq DeclaredWiki(target)
    <3> SUFFICES ASSUME stem \in DOMAIN noteIndex PROVE noteIndex[stem] \in DeclaredWiki(target)
      OBVIOUS
    <3>1. noteIndex[stem] \in NoteIds /\ Name(Tail(noteIndex[stem])).stem = stem
      BY DEF IndexOfStems
    <3>2. PICK p \in NotePaths : noteIndex[stem] = <<"note">> \o p
      BY <3>1 DEF NoteIds
    <3>3. Tail(noteIndex[stem]) = p
      BY <3>2, NotePathsAre, PathId
    <3>4. stem # ""
      BY <2>3 DEF IndexOfStems
    <3> QED BY <2>2, <3>1, <3>2, <3>3, <3>4 DEF NotesOfStem
  <2>6. ASSUME ~Ambiguous(target) PROVE byStem = DeclaredWiki(target)
    <3>1. Cardinality(NotesOfStem(stem)) \in Nat
      BY NotePathsAre, FS_Subset, FS_CardinalityType DEF NotesOfStem
    <3>2. Cardinality(NotesOfStem(stem)) <= 1
      BY <1>6, <2>6, <3>1 DEF Ambiguous
    <3>3. \A p, q \in NotesOfStem(stem) : p = q
      BY <3>2, OneOfStem
    <3>4. \A x, y \in DeclaredWiki(target) : x = y
      BY <2>2, <3>3
    <3>5. DeclaredWiki(target) # {} => byStem # {}
      BY <2>2, <2>4
    <3> QED BY <2>5, <3>4, <3>5
  <2> QED BY <2>1, <2>5, <2>6
<1> QED BY <1>5, <1>6

Sure(n) ==
  DeclaredLinks(n) \cup {<<"tag", t>> : t \in TextOf(Tail(n)).inline}
    \cup UNION {DeclaredWiki(t) : t \in {x \in TextOf(Tail(n)).wiki : ~Ambiguous(x)}}
Either(n) == UNION {DeclaredWiki(t) : t \in {x \in TextOf(Tail(n)).wiki : Ambiguous(x)}}

LEMMA AsDeclared ==
  ASSUME NEW n
  PROVE  LinksAsDeclared(n) <=> Sure(n) \subseteq LinksOf(n) /\ LinksOf(n) \subseteq Sure(n) \cup Either(n)
BY DEF LinksAsDeclared, LinksOf, Sure, Either

\* What is declared is told by the files, which a scan does not change.
LEMMA DeclaredStays ==
  ASSUME camp' = camp
  PROVE  NoteIds' = NoteIds /\ \A n : Sure(n)' = Sure(n) /\ Either(n)' = Either(n)
<1>1. W' = W
  BY DEF W
<1>2. NotePaths' = NotePaths /\ \A p : TextOf(p)' = TextOf(p)
  BY <1>1 DEF NotePaths, Listed, OwnedByArtifact, TextOf
<1>3. \A t : DeclaredWiki(t)' = DeclaredWiki(t) /\ (Ambiguous(t)' <=> Ambiguous(t))
  BY <1>2 DEF DeclaredWiki, Ambiguous, NotesAt, NotesOfStem
<1>4. \A n : DeclaredLinks(n)' = DeclaredLinks(n)
  BY <1>2 DEF DeclaredLinks, Linked
<1> QED BY <1>2, <1>3, <1>4 DEF Sure, Either, NoteIds

LEMMA AsDeclaredStays ==
  ASSUME camp' = camp, NEW n, LinksAsDeclared(n), LinksOf(n)' = LinksOf(n)
  PROVE  LinksAsDeclared(n)'
<1>1. Sure(n)' = Sure(n) /\ Either(n)' = Either(n)
  BY DeclaredStays
<1>2. Sure(n)' \subseteq LinksOf(n)' /\ LinksOf(n)' \subseteq Sure(n)' \cup Either(n)'
  BY <1>1, AsDeclared
<1> QED BY <1>2 DEF LinksAsDeclared, LinksOf, Sure, Either

LEMMA WikiTyped ==
  ASSUME EInv, NEW p
  PROVE  TextOf(p).wiki \subseteq Seq(STRING) \ {<<>>}
<1>1. CASE p \in DOMAIN W.text \ W.unread
  BY <1>1, ScanAssumption DEF EInv, W, TextOf, CampaignType
<1>2. CASE p \notin DOMAIN W.text \ W.unread
  BY <1>2 DEF TextOf, Blank
<1> QED BY <1>1, <1>2

\* What a note without links gets from its text is what is declared.
LEMMA NoteLinked ==
  ASSUME EInv, NotesIn(N) = NoteIds, NoCanvasYet, IndexOfStems,
         NEW n \in todo, LinksOf(n) = {}, LinkNote(n)
  PROVE  LinksAsDeclared(n)'
<1> DEFINE tags == {<<"tag", t>> : t \in TextOf(Tail(n)).inline}
           wiki == UNION {WikiTarget(t) : t \in TextOf(Tail(n)).wiki}
           found == LinkTargets(n) \cup wiki
<1>1. edges' = edges \cup {Explicit(n, id, "links_to") : id \in found}
                    \cup {Explicit(n, id, "references") : id \in tags}
  BY DEF LinkNote
<1> HIDE DEF tags, wiki, found
<1>2. LinksOf(n)' = found \cup tags
  <2>1. \A id, type : /\ Explicit(n, id, type).from = n /\ Explicit(n, id, type).to = id
                       /\ Explicit(n, id, type).src = "explicit"
    BY DEF Explicit
  <2> DEFINE new == {Explicit(n, id, "links_to") : id \in found}
                    \cup {Explicit(n, id, "references") : id \in tags}
  <2>2. /\ \A e \in new : e.from = n /\ e.src = "explicit" /\ e.to \in found \cup tags
        /\ \A id \in found \cup tags : \E e \in new : e.to = id
    BY <2>1
  <2>3. edges' = edges \cup new
    BY <1>1
  <2>4. \A e \in edges : ~ (e.from = n /\ e.src = "explicit")
    BY DEF LinksOf
  <2> HIDE DEF new
  <2>5. {x \in edges' : x.from = n /\ x.src = "explicit"} = new
    BY <2>2, <2>3, <2>4
  <2> QED BY <2>2, <2>5 DEF LinksOf
<1>3. LinkTargets(n) = DeclaredLinks(n)
  BY LinksFound
<1>4. ASSUME NEW t \in TextOf(Tail(n)).wiki
      PROVE  /\ WikiTarget(t) \subseteq DeclaredWiki(t)
             /\ ~Ambiguous(t) => WikiTarget(t) = DeclaredWiki(t)
  BY WikiTyped, WikiFound
<1>5. Sure(n) \subseteq found \cup tags
  BY <1>3, <1>4 DEF Sure, found, tags, wiki
<1>6. found \cup tags \subseteq Sure(n) \cup Either(n)
  BY <1>3, <1>4 DEF Sure, Either, found, tags, wiki
<1>7. Sure(n)' = Sure(n) /\ Either(n)' = Either(n)
  BY DeclaredStays DEF LinkNote
<1>8. Sure(n)' \subseteq LinksOf(n)' /\ LinksOf(n)' \subseteq Sure(n)' \cup Either(n)'
  BY <1>2, <1>5, <1>6, <1>7
<1> QED BY <1>8 DEF LinksAsDeclared, LinksOf, Sure, Either

-----------------------------------------------------------------------------
\* A pass before that of the notes adds neither notes, canvases, attachments
\* nor edges that files declare.
EarlyKinds == {"repo", "folder", "project", "intent", "design_doc", "explore_doc", "festival"}
AddsEarly ==
  /\ pc \in BeforeNotes \ {"notes"} /\ pc' \in BeforeNotes
  /\ camp' = camp /\ signals' = signals /\ edges \subseteq edges'
  /\ \A id \in N' \ N : id[1] \in EarlyKinds
  /\ \A e \in edges' \ edges : e.type = "contains" /\ e.src = "structural"

LEMMA EarlyScopes ==
  ASSUME EInv, ScanScopes
  PROVE  AddsEarly
<1>1. N' \ N \subseteq {<<"repo">> \o p : p \in W.nested} \cup {<<"folder">> \o p : p \in Folders}
  <2> DEFINE repos == Named("repo", W.nested)  folders == Named("folder", Folders)
  <2>1. /\ DOMAIN repos = {<<"repo">> \o p : p \in W.nested}
        /\ DOMAIN folders = {<<"folder">> \o p : p \in Folders}
    BY DEF Named
  <2> DEFINE new == Put(repos, folders)
  <2>2. at' = Put(at, new)
    BY DEF ScanScopes
  <2>3. DOMAIN new = DOMAIN repos \cup DOMAIN folders
    BY PutNodes
  <2> HIDE DEF repos, folders, new
  <2>4. DOMAIN Put(at, new) = DOMAIN at \cup DOMAIN new
    BY PutNodes
  <2> QED BY <2>1, <2>2, <2>3, <2>4 DEF N
<1>2. \A id \in N' \ N : id[1] \in EarlyKinds
  BY <1>1, FolderPaths, FilePaths, PathId DEF EInv, EarlyKinds
<1>3. /\ \A e \in edges' \ edges : e.type = "contains" /\ e.src = "structural"
      /\ edges \subseteq edges'
  BY DEF ScanScopes, Structural
<1>4. pc = "scopes" /\ pc' = "projects" /\ camp' = camp /\ signals' = signals
  BY DEF ScanScopes, Running, Enter, NotInferring
<1> QED BY <1>2, <1>3, <1>4 DEF AddsEarly, BeforeNotes

LEMMA EarlyArtifacts ==
  ASSUME ScanProjects \/ ScanWorkflow \/ ScanIntents
  PROVE  AddsEarly
<1> PICK pass \in {"projects", "intents", "workflow"} : \E new :
           /\ Add(pass, new)
           /\ \A id \in DOMAIN new : id[1] \in {"project", "intent", "design_doc", "explore_doc"}
  BY ArtifactsAdded
<1>1. PICK new :
           /\ Add(pass, new)
           /\ \A id \in DOMAIN new : id[1] \in {"project", "intent", "design_doc", "explore_doc"}
  OBVIOUS
<1>2. pc = pass /\ pc' \in {"festivals", "workflow", "notes"}
  BY <1>1, AfterProjects, PassAfter DEF Add, Running, Enter
<1>3. edges' = edges /\ camp' = camp /\ signals' = signals
  BY <1>1 DEF Add, NotInferring
<1>4. N' \ N \subseteq DOMAIN new
  <2>1. at' = Put(at, new) /\ DOMAIN Put(at, new) = DOMAIN at \cup DOMAIN new
    BY <1>1, PutNodes DEF Add
  <2> QED BY <2>1 DEF N
<1> QED BY <1>1, <1>2, <1>3, <1>4 DEF AddsEarly, BeforeNotes, EarlyKinds

LEMMA EarlyParts ==
  ASSUME EInv, NEW l, NEW phases \in SUBSET Phases(l), ScanParts(l, phases), pc = "festivals"
  PROVE  AddsEarly
<1> DEFINE ids == {FestivalId(l, p) : p \in Festivals(l) \cup Below(phases)}
           new == [id \in ids |-> l \o Tail(id)]
<1>1. at' = Put(at, new) /\ DOMAIN new = ids
  BY DEF ScanParts
<1>2. N' \ N \subseteq ids
  <2> HIDE DEF new
  <2> QED BY <1>1, PutNodes DEF N
<1>3. \A id \in ids : id[1] = "festival"
  <2> SUFFICES ASSUME NEW p \in Festivals(l) \cup Below(phases)
               PROVE  FestivalId(l, p)[1] = "festival"
    OBVIOUS
  <2>1. PICK f \in Festivals(l) : Within(p, f) /\ p \in Seq(STRING)
    BY InFestival
  <2>2. l \in Seq(STRING)
    BY <2>1, StageIsPath
  <2> DEFINE rest == SubSeq(p, Len(l) + 1, Len(p))
  <2>3. rest \in Seq(STRING)
    <3> HIDE DEF rest
    <3>1. rest = SubSeq(p, Len(l) + 1, Len(p))
      BY DEF rest
    <3> QED BY <2>1, <2>2, <3>1, FestivalPart
  <2> QED BY <2>3, PathId DEF FestivalId
<1>4. /\ \A e \in edges' \ edges : e.type = "contains" /\ e.src = "structural"
      /\ edges \subseteq edges'
  BY DEF ScanParts, Structural
<1>5. pc' = pc /\ camp' = camp /\ signals' = signals
  BY DEF ScanParts, NotInferring
<1> HIDE DEF ids
<1> QED BY <1>2, <1>3, <1>4, <1>5 DEF AddsEarly, BeforeNotes, EarlyKinds

LEMMA EarlyPass ==
  ASSUME EInv,
         \/ ScanScopes \/ ScanProjects \/ ScanIntents \/ ScanWorkflow
         \/ \E l \in todo : ScanLifecycle(l) \/ StopInLifecycle(l)
  PROVE  AddsEarly
<1>1. CASE \E l \in todo : ScanLifecycle(l) \/ StopInLifecycle(l)
  <2>1. PICK l \in todo : \E phases \in SUBSET Phases(l) : ScanParts(l, phases)
    BY <1>1 DEF ScanLifecycle, StopInLifecycle
  <2>2. pc = "festivals"
    BY <1>1 DEF ScanLifecycle, StopInLifecycle, Running
  <2> QED BY <2>1, <2>2, EarlyParts
<1> QED BY <1>1, EarlyScopes, EarlyArtifacts

LEMMA LinkEarly == ASSUME LinkInv, AddsEarly PROVE LinkInv'
BY DEF LinkInv, AddsEarly, EarlyKinds, BeforeNotes, Linking, NoLinkKinds, NoneExplicit

LEMMA LinkNotes == ASSUME EInv, LinkInv, ScanNotes PROVE LinkInv'
<1>1. pc = "notes" /\ pc' = "index" /\ camp' = camp
  BY DEF ScanNotes, Running, Enter
<1>2. N' = N \cup NoteIds
  <2> DEFINE new == Named("note", NotePaths)
  <2>1. at' = Put(at, new) /\ DOMAIN new = NoteIds
    BY DEF ScanNotes, Named, NoteIds
  <2> HIDE DEF new
  <2> QED BY <2>1, PutNodes DEF N
<1>3. \A id \in NoteIds : id[1] = "note"
  BY NotePathsAre, PathId DEF NoteIds
<1>4. NotesIn(N') = NoteIds'
  <2>1. NoteIds' = NoteIds
    BY <1>1, DeclaredStays
  <2> QED BY <1>1, <1>2, <1>3, <2>1 DEF LinkInv, NoLinkKinds, NotesIn, BeforeNotes
<1>5. NoCanvasYet'
  BY <1>1, <1>2, <1>3 DEF LinkInv, NoLinkKinds, NoCanvasYet, BeforeNotes
<1>6. NoneExplicit'
  <2>1. \A e \in edges' \ edges : e.src # "explicit"
    BY DEF ScanNotes, Placed, Structural
  <2> QED BY <1>1, <2>1 DEF LinkInv, NoneExplicit, BeforeNotes
<1> QED BY <1>1, <1>4, <1>5, <1>6 DEF LinkInv, BeforeNotes, Linking

LEMMA LinkIndex == ASSUME EInv, LinkInv, IndexNotes PROVE LinkInv'
<1>1. pc = "index" /\ pc' = "links" /\ camp' = camp /\ at' = at /\ edges' = edges
  BY DEF IndexNotes, Running, Enter
<1>2. N' = N /\ NotesIn(N) = NoteIds /\ NoteIds' = NoteIds /\ NoCanvasYet'
  BY <1>1, DeclaredStays DEF N, LinkInv, Linking, NoCanvasYet
<1>3. todo' = NotesIn(N)
  <2>1. ToVisit("links", DOMAIN at', edges') = NotesIn(DOMAIN at')
    BY SourceNames DEF ToVisit
  <2> QED BY <1>1, <2>1 DEF IndexNotes, Enter, N
<1>4. IndexOfStems'
  BY <1>2 DEF IndexNotes, IndexOfStems
<1>5. \A n \in NotesIn(N) : LinksOf(n)' = {}
  BY <1>1 DEF LinkInv, NoneExplicit, LinksOf
<1> QED BY <1>1, <1>2, <1>3, <1>4, <1>5 DEF LinkInv, BeforeNotes, Linking

LEMMA LinkLinks == ASSUME EInv, LinkInv, NEW n \in todo, LinkNote(n) PROVE LinkInv'
<1> DEFINE tags == {<<"tag", t>> : t \in TextOf(Tail(n)).inline}
           ids == (LinkTargets(n) \cup tags) \ N
           new == [id \in ids |-> IF id[1] = "tag" THEN NoPath ELSE Tail(id)]
<1>1. /\ pc = "links" /\ pc' = pc /\ camp' = camp /\ noteIndex' = noteIndex
      /\ todo' = todo \ {n}
  BY DEF LinkNote, Running
<1>2. NotesIn(N) = NoteIds /\ NoCanvasYet /\ IndexOfStems
  BY <1>1 DEF LinkInv, Linking
<1>3. N' = N \cup ids
  <2>1. at' = Put(at, new) /\ DOMAIN new = ids
    BY DEF LinkNote
  <2> HIDE DEF new
  <2> QED BY <2>1, PutNodes DEF N
<1>4. ASSUME NEW id \in ids
      PROVE  \/ id[1] = "tag"
             \/ id[1] = "attachment" /\ Ext(Tail(id)) \notin Markdown
  <2>1. CASE id \in LinkTargets(n)
    <3>1. PICK p \in Linked(n) :
            id \in IF KnownAt(N, p) # {} THEN KnownAt(N, p)
                   ELSE IF Ext(p) \in Markdown THEN {} ELSE {<<"attachment">> \o p}
      BY <2>1 DEF LinkTargets
    <3>2. id = <<"attachment">> \o p /\ Ext(p) \notin Markdown
      BY <3>1, KnownNodes
    <3> QED BY <3>2, LinkedPaths, PathId
  <2>2. CASE id \in tags
    BY <2>2
  <2> QED BY <2>1, <2>2
<1> HIDE DEF ids
<1>5. NotesIn(N') = NotesIn(N) /\ NoteIds' = NoteIds
  BY <1>1, <1>3, <1>4, DeclaredStays DEF NotesIn
<1>6. NoCanvasYet'
  BY <1>2, <1>3, <1>4 DEF NoCanvasYet
<1>7. IndexOfStems'
  BY <1>1, <1>2, <1>5 DEF IndexOfStems, StemsOf
<1>8. ASSUME NEW m \in NotesIn(N), m # n PROVE LinksOf(m)' = LinksOf(m)
  <2>1. \A e \in edges' \ edges : e.from = n
    BY DEF LinkNote, Explicit
  <2>2. edges \subseteq edges'
    BY DEF LinkNote
  <2> QED BY <1>8, <2>1, <2>2 DEF LinksOf
<1>9. ASSUME NEW m \in NotesIn(N)
      PROVE  IF m \in todo' THEN LinksOf(m)' = {} ELSE LinksAsDeclared(m)'
  <2>1. CASE m = n
    <3>1. LinksOf(n) = {}
      BY <1>1, <1>9, <2>1 DEF LinkInv
    <3> QED BY <1>1, <1>2, <2>1, <3>1, NoteLinked
  <2>2. CASE m # n
    BY <1>1, <1>8, <2>2, AsDeclaredStays DEF LinkInv
  <2> QED BY <2>1, <2>2
<1> QED BY <1>1, <1>2, <1>5, <1>6, <1>7, <1>9 DEF LinkInv, BeforeNotes, Linking

LEMMA CanvasKinds ==
  ASSUME EInv, LinkCanvas
  PROVE  \A id \in N' \ N : id[1] = "canvas"
<1> DEFINE p == SelectSeq(Order, LAMBDA x : x \in todo)[1]
           canvas == <<"canvas">> \o p
           new == Named("canvas", {p})
<1>1. CASE UNCHANGED <<at, edges>>
  BY <1>1 DEF N
<1>2. CASE ~ UNCHANGED <<at, edges>>
  <2>1. p \in DOMAIN W.canvas /\ at' = Put(at, new)
    BY <1>2 DEF LinkCanvas
  <2>2. p \in Seq(STRING)
    BY <2>1, FilePaths DEF EInv
  <2>3. canvas[1] = "canvas" /\ DOMAIN new = {canvas}
    <3> HIDE DEF p
    <3> QED BY <2>2, PathId DEF Named
  <2> HIDE DEF p, new, canvas
  <2>4. DOMAIN Put(at, new) = DOMAIN at \cup DOMAIN new
    BY PutNodes
  <2> QED BY <2>1, <2>3, <2>4 DEF N
<1> QED BY <1>1, <1>2

LEMMA LinkCanvases == ASSUME EInv, LinkInv, LinkCanvas PROVE LinkInv'
<1> DEFINE p == SelectSeq(Order, LAMBDA x : x \in todo)[1]
           canvas == <<"canvas">> \o p
<1>1. camp' = camp /\ pc' = pc /\ pc = "canvases"
  BY DEF LinkCanvas, Running
<1>2. \A id \in N' \ N : id[1] = "canvas"
  BY CanvasKinds
<1>3. N \subseteq N' /\ edges \subseteq edges'
  <2>1. N \subseteq N'
    <3>1. [Next]_vars
      BY DEF Next
    <3> QED BY <3>1, NodesStay
  <2> QED BY <2>1 DEF LinkCanvas
<1>4. \A e \in edges' \ edges : e.src = "explicit" => e.from[1] = "canvas"
  <2>1. CASE UNCHANGED <<at, edges>>
    BY <2>1
  <2>2. CASE ~ UNCHANGED <<at, edges>>
    <3> DEFINE targets == UNION {KnownAt(N \cup {canvas}, Resolve(<<>>, names)) :
                                   names \in W.canvas[p]}
    <3>1. /\ p \in DOMAIN W.canvas
          /\ edges' = edges \cup {Placed(N, p, canvas)}
                           \cup {Explicit(canvas, id, "links_to") : id \in targets}
      BY <2>2 DEF LinkCanvas
    <3>2. p \in Seq(STRING)
      BY <3>1, FilePaths DEF EInv
    <3>3. canvas[1] = "canvas"
      <4> HIDE DEF p
      <4> QED BY <3>2, PathId
    <3>4. Placed(N, p, canvas).src = "structural"
      BY DEF Placed, Structural
    <3>5. \A id : Explicit(canvas, id, "links_to").from = canvas
      BY DEF Explicit
    <3> HIDE DEF targets, p, canvas
    <3> QED BY <3>1, <3>3, <3>4, <3>5
  <2> QED BY <2>1, <2>2
<1>5. NotesIn(N') = NotesIn(N) /\ NoteIds' = NoteIds
  BY <1>1, <1>2, <1>3, DeclaredStays DEF NotesIn
<1>6. ASSUME NEW n \in NotesIn(N) PROVE LinksOf(n)' = LinksOf(n)
  BY <1>3, <1>4, <1>6 DEF LinksOf, NotesIn
<1>7. ASSUME NEW n \in NotesIn(N) PROVE LinksAsDeclared(n)'
  BY <1>1, <1>6, AsDeclaredStays DEF LinkInv
<1> QED BY <1>1, <1>5, <1>7 DEF LinkInv, BeforeNotes, Linking

\* A step that changes neither nodes nor edges.
LEMMA LinkRest ==
  ASSUME EInv, LinkInv,
         Proceed \/ StopEnumerating \/ Cancel \/ Fail \/ UNCHANGED vars
  PROVE  LinkInv'
<1>1. UNCHANGED <<camp, at, edges, noteIndex>>
  BY DEF Proceed, StopEnumerating, Cancel, Fail, vars
<1>2. /\ NotesIn(N)' = NotesIn(N) /\ NoteIds' = NoteIds /\ \A n : LinksOf(n)' = LinksOf(n)
      /\ (NoLinkKinds => NoLinkKinds') /\ (NoCanvasYet => NoCanvasYet')
      /\ (NoneExplicit => NoneExplicit') /\ (IndexOfStems => IndexOfStems')
  BY <1>1, DeclaredStays
     DEF N, NotesIn, LinksOf, NoLinkKinds, NoCanvasYet, NoneExplicit, IndexOfStems, StemsOf
<1>3. \A n : LinksAsDeclared(n) => LinksAsDeclared(n)'
  BY <1>1, <1>2, AsDeclaredStays
<1>4. CASE Cancel \/ UNCHANGED vars
  <2>1. pc' = pc /\ todo' = todo
    BY <1>4 DEF Cancel, vars
  <2> QED BY <1>2, <1>3, <2>1 DEF LinkInv
<1>5. CASE StopEnumerating \/ Fail
  <2>1. pc' \in {"aggregate", "failed"}
    BY <1>5 DEF StopEnumerating, Fail
  <2> QED BY <2>1 DEF LinkInv, BeforeNotes, Linking
<1>6. CASE Proceed
  <2>1. todo = {} /\ pc \in {"festivals", "links", "canvases"} \cup ToSet(Sources)
        /\ pc' = After(pc)
    BY <1>6 DEF Proceed, Enter
  <2>2. CASE pc = "festivals"
    <3>1. pc' = "intents"
      BY <2>1, <2>2, PassAfter
    <3> QED BY <1>2, <2>2, <3>1 DEF LinkInv, BeforeNotes, Linking
  <2>3. CASE pc = "links"
    <3>1. pc' = "canvases"
      BY <2>1, <2>3, PassAfter
    <3> QED BY <1>2, <1>3, <2>1, <2>3, <3>1 DEF LinkInv, BeforeNotes, Linking
  <2>4. CASE pc = "canvases" \/ pc \in ToSet(Sources)
    <3>1. pc' \notin BeforeNotes \cup Linking
      BY <2>1, <2>4, PassAfter DEF BeforeNotes, Linking, Unbridged
    <3> QED BY <3>1 DEF LinkInv, BeforeNotes, Linking
  <2> QED BY <2>1, <2>2, <2>3, <2>4
<1> QED BY <1>4, <1>5, <1>6

LEMMA LinkLater ==
  ASSUME Bridge \/ CodeSlices \/ Aggregate \/ Metadata \/ \E list \in todo : Enumerate(list)
  PROVE  LinkInv'
<1>1. pc' \notin BeforeNotes \cup Linking
  <2>1. CASE Bridge \/ Aggregate \/ Metadata
    BY <2>1 DEF Bridge, Aggregate, Metadata, Enter, BeforeNotes, Linking
  <2>2. CASE CodeSlices
    BY <2>2, PassAfter DEF CodeSlices, Enter, BeforeNotes, Linking, Unbridged
  <2>3. CASE \E list \in todo : Enumerate(list)
    BY <2>3, SourceNames DEF Enumerate, BeforeNotes, Linking
  <2> QED BY <2>1, <2>2, <2>3
<1> QED BY <1>1 DEF LinkInv, BeforeNotes, Linking

LEMMA InitLinkInv == Init => LinkInv
BY DEF Init, Unscanned, LinkInv, BeforeNotes, Linking, NoLinkKinds, NoneExplicit, N

LEMMA NextLinkInv == ASSUME EInv, LinkInv, [Next]_vars PROVE LinkInv'
<1>1. CASE \/ ScanScopes \/ ScanProjects \/ ScanIntents \/ ScanWorkflow
           \/ \E l \in todo : ScanLifecycle(l) \/ StopInLifecycle(l)
  BY <1>1, EarlyPass, LinkEarly
<1>2. CASE ScanNotes \/ IndexNotes
  BY <1>2, LinkNotes, LinkIndex
<1>3. CASE (\E n \in todo : LinkNote(n)) \/ LinkCanvas
  BY <1>3, LinkLinks, LinkCanvases
<1>4. CASE Bridge \/ CodeSlices \/ Aggregate \/ Metadata \/ \E list \in todo : Enumerate(list)
  BY <1>4, LinkLater
<1>5. CASE Proceed \/ StopEnumerating \/ Cancel \/ Fail \/ UNCHANGED vars
  BY <1>5, LinkRest
<1> QED BY <1>1, <1>2, <1>3, <1>4, <1>5 DEF Next

\* Whatever order a map gives the notes up in, what they link to is what the
\* files declare, where no two notes share a stem (links.go:48-62, 330-391).
THEOREM LinksStayOrderFree == Spec => []LinksOrderFree
<1>1. LinkInv => LinksOrderFree
  BY DEF LinkInv, LinksOrderFree
<1> QED BY <1>1, InitEInv, NextEInv, InitLinkInv, NextLinkInv, PTL DEF Spec

-----------------------------------------------------------------------------
(***************************************************************************)
(* No markdown file has two nodes or is lost.  Three passes add the nodes   *)
(* that stand for files; each node tells the place it got last.            *)
(***************************************************************************)
Owned == {"note", "intent", "festival"}
UntilIntents == {"scopes", "projects", "festivals", "intents", "failed"}
UntilNotes == BeforeNotes \cup {"failed"}

IntentNode(id) == at[id] \in Intents /\ id = <<"intent", Name(at[id]).bare>>
FestivalNode(id) ==
  \E l \in Lifecycles : \E p \in Parts(l) : id = FestivalId(l, p) /\ at[id] = l \o Tail(id)

\* An intent that no other takes the place of.
ReadLast(p) == \A q \in Intents \ {p} : Name(q).bare = Name(p).bare => Overtakes(p, q)
IntentKept(p) == <<"intent", Name(p).bare>> \in N /\ at[<<"intent", Name(p).bare>>] = p

IntentsKept == IntentDirs \cap W.unread = {} /\ \A p \in Intents : ReadLast(p) => IntentKept(p)

IdInv ==
  /\ \A id \in N : /\ id[1] = "intent" => IntentNode(id)
                   /\ id[1] = "festival" => FestivalNode(id)
                   /\ id[1] = "note" => id \in NoteIds
  /\ pc \notin UntilIntents => IntentsKept
  /\ pc \notin UntilNotes => NoteIds \subseteq N

\* What the files tell does not change under a scan.
LEMMA FilesStay ==
  ASSUME camp' = camp
  PROVE  /\ Intents' = Intents /\ NoteIds' = NoteIds /\ IntentDirs' = IntentDirs /\ W' = W
         /\ \A p : ReadLast(p)' <=> ReadLast(p)
         /\ \A l : Parts(l)' = Parts(l)
<1>1. W' = W
  BY DEF W
<1>2. IntentDirs' = IntentDirs /\ Dirs' = Dirs
  BY <1>1 DEF IntentDirs, Dirs, Shown, SubDirs
<1>3. Intents' = Intents
  BY <1>1, <1>2 DEF Intents
<1>4. \A l : Parts(l)' = Parts(l)
  BY <1>1 DEF Parts, Festivals, Phases, Below, SubDirs, Shown, Dirs
<1> QED BY <1>1, <1>2, <1>3, <1>4, DeclaredStays DEF ReadLast, Overtakes

\* A step that leaves the nodes of files as they are.
OwnedStay ==
  /\ camp' = camp /\ N \subseteq N'
  /\ \A id \in N' : id[1] \in Owned => id \in N /\ at'[id] = at[id]

LEMMA IntentFirst == \A name : <<"intent", name>>[1] = "intent"
OBVIOUS

LEMMA NoteFirst == ASSUME EInv PROVE \A id \in NoteIds : id[1] = "note"
BY NotePathsAre, PathId DEF NoteIds

LEMMA OwnedKeeps ==
  ASSUME IdInv, OwnedStay,
         pc' \in UntilIntents \/ pc \notin UntilIntents,
         pc' \in UntilNotes \/ pc \notin UntilNotes
  PROVE  IdInv'
<1>1. ASSUME NEW id \in N'
      PROVE  /\ id[1] = "intent" => IntentNode(id)'
             /\ id[1] = "festival" => FestivalNode(id)'
             /\ id[1] = "note" => id \in NoteIds'
  <2>1. CASE id[1] \in Owned
    <3>1. id \in N /\ at'[id] = at[id] /\ camp' = camp
      BY <2>1 DEF OwnedStay
    <3> QED BY <3>1, FilesStay DEF IdInv, IntentNode, FestivalNode
  <2> QED BY <2>1 DEF Owned
<1>2. ASSUME IntentsKept PROVE IntentsKept'
  <2>1. ASSUME NEW p \in Intents, IntentKept(p) PROVE IntentKept(p)'
    BY <2>1, IntentFirst DEF IntentKept, OwnedStay, Owned
  <2> QED BY <1>2, <2>1, FilesStay DEF IntentsKept, OwnedStay
<1>3. NoteIds' = NoteIds /\ N \subseteq N'
  BY FilesStay DEF OwnedStay
<1> QED BY <1>1, <1>2, <1>3 DEF IdInv

LEMMA PutIs ==
  ASSUME NEW new, NEW ids, DOMAIN new = ids, at' = Put(at, new)
  PROVE  /\ N' = N \cup ids /\ \A id \in N \ ids : at'[id] = at[id]
         /\ \A id \in ids : at'[id] = new[id]
BY PutNodes DEF N

LEMMA PutOwned ==
  ASSUME NEW new, at' = Put(at, new), camp' = camp,
         \A id \in DOMAIN new : id[1] \notin Owned
  PROVE  OwnedStay
<1>1. N' = N \cup DOMAIN new /\ \A id \in N \ DOMAIN new : at'[id] = at[id]
  BY PutNodes DEF N
<1> QED BY <1>1 DEF OwnedStay

LEMMA NamedKind ==
  ASSUME NEW kind, NEW ps \in SUBSET Seq(STRING)
  PROVE  \A id \in DOMAIN Named(kind, ps) : id[1] = kind
<1>1. \A p \in ps : (<<kind>> \o p)[1] = kind
  BY PathId
<1> QED BY <1>1 DEF Named

LEMMA IdScopes == ASSUME EInv, IdInv, ScanScopes PROVE IdInv'
<1> DEFINE repos == Named("repo", W.nested)  folders == Named("folder", Folders)
           new == Put(repos, folders)
<1>1. W.nested \subseteq Seq(STRING) /\ Folders \subseteq Seq(STRING)
  BY FolderPaths, FilePaths DEF EInv
<1>2. at' = Put(at, new) /\ camp' = camp /\ pc' = "projects"
  BY DEF ScanScopes, Enter
<1>3. DOMAIN new = DOMAIN repos \cup DOMAIN folders
  BY PutNodes
<1>4. \A id \in DOMAIN new : id[1] \in {"repo", "folder"}
  BY <1>1, <1>3, NamedKind
<1> HIDE DEF new
<1>5. OwnedStay
  BY <1>2, <1>4, PutOwned DEF Owned
<1> QED BY <1>2, <1>5, OwnedKeeps DEF UntilIntents, UntilNotes, BeforeNotes

LEMMA IdArtifacts == ASSUME EInv, IdInv, ScanProjects \/ ScanWorkflow PROVE IdInv'
<1>1. CASE ScanProjects
  <2>1. PICK ps : Add("projects", ByName("project", ps))
    BY <1>1 DEF ScanProjects
  <2>2. \A id \in DOMAIN ByName("project", ps) : id[1] = "project"
    BY ByNameKinds
  <2>3. OwnedStay
    BY <2>1, <2>2, PutOwned DEF Add, Owned
  <2> QED BY <2>1, <2>3, OwnedKeeps, AfterProjects
          DEF Add, Enter, UntilIntents, UntilNotes, BeforeNotes
<1>2. CASE ScanWorkflow
  <2>1. PICK ds, es : Add("workflow", Put(ByName("design_doc", ds), ByName("explore_doc", es)))
    BY <1>2 DEF ScanWorkflow
  <2> DEFINE design == ByName("design_doc", ds)  explore == ByName("explore_doc", es)
             new == Put(design, explore)
  <2>2. DOMAIN new = DOMAIN design \cup DOMAIN explore
    BY PutNodes
  <2>3. \A id \in DOMAIN new : id[1] \in {"design_doc", "explore_doc"}
    BY <2>2, ByNameKinds
  <2>4. Add("workflow", new)
    BY <2>1
  <2> HIDE DEF new
  <2>5. OwnedStay
    BY <2>3, <2>4, PutOwned DEF Add, Owned
  <2>6. pc = "workflow" /\ pc' = "notes"
    BY <2>4, PassAfter DEF Add, Enter, Running
  <2> QED BY <2>5, <2>6, OwnedKeeps DEF UntilIntents, UntilNotes, BeforeNotes
<1> QED BY <1>1, <1>2

LEMMA IdLinks == ASSUME EInv, IdInv, NEW n \in todo, LinkNote(n) PROVE IdInv'
<1> DEFINE tags == {<<"tag", t>> : t \in TextOf(Tail(n)).inline}
           ids == (LinkTargets(n) \cup tags) \ N
           new == [id \in ids |-> IF id[1] = "tag" THEN NoPath ELSE Tail(id)]
<1>1. at' = Put(at, new) /\ camp' = camp /\ pc' = pc
  BY DEF LinkNote
<1>2. \A id \in ids : id[1] \in {"tag", "attachment"}
  <2>1. ASSUME NEW id \in LinkTargets(n) \ N PROVE id[1] = "attachment"
    BY LinkTargetKinds, PathId
  <2> QED BY <2>1
<1>3. DOMAIN new = ids
  OBVIOUS
<1> HIDE DEF new, ids
<1>4. OwnedStay
  BY <1>1, <1>2, <1>3, PutOwned DEF Owned
<1> QED BY <1>1, <1>4, OwnedKeeps

LEMMA IdCanvas == ASSUME EInv, IdInv, LinkCanvas PROVE IdInv'
<1> DEFINE p == SelectSeq(Order, LAMBDA x : x \in todo)[1]
           new == Named("canvas", {p})
<1>1. camp' = camp /\ pc' = pc
  BY DEF LinkCanvas
<1>2. CASE UNCHANGED <<at, edges>>
  <2>1. OwnedStay
    BY <1>1, <1>2 DEF OwnedStay, N
  <2> QED BY <1>1, <2>1, OwnedKeeps
<1>3. CASE ~ UNCHANGED <<at, edges>>
  <2>1. p \in DOMAIN W.canvas /\ at' = Put(at, new)
    BY <1>3 DEF LinkCanvas
  <2>2. {p} \subseteq Seq(STRING)
    BY <2>1, FilePaths DEF EInv
  <2>3. \A id \in DOMAIN new : id[1] = "canvas"
    <3> HIDE DEF p
    <3> QED BY <2>2, NamedKind
  <2> HIDE DEF new
  <2>4. OwnedStay
    BY <1>1, <2>1, <2>3, PutOwned DEF Owned
  <2> QED BY <1>1, <2>4, OwnedKeeps
<1> QED BY <1>2, <1>3

LEMMA IdCode == ASSUME EInv, IdInv, CodeSlices PROVE IdInv'
<1> DEFINE packages == {PackageOf(p) : p \in GoFiles}
           own == [id \in packages |-> Front(Tail(id))]
           files == Named("file", CodeFiles)
           new == Put(files, own)
<1>1. /\ CodeFiles \subseteq Seq(STRING) /\ GoFiles \subseteq CodeFiles
      /\ \A p \in GoFiles : W.package[p] \in STRING
  BY FilePaths DEF CodeFiles, GoFiles, Listed, EInv
<1>2. at' = Put(at, new) /\ camp' = camp /\ pc = "code" /\ pc' = After("code")
  BY DEF CodeSlices, Enter, Running
<1>3. DOMAIN new = DOMAIN files \cup packages
  BY PutNodes
<1>4. ASSUME NEW p \in GoFiles PROVE PackageOf(p)[1] = "package"
  <2> DEFINE d == Parent(p)  path == Append(d, W.package[p])
  <2>1. d \in Seq(STRING) /\ W.package[p] \in STRING
    BY <1>1, ParentPath
  <2> HIDE DEF d
  <2>2. path \in Seq(STRING)
    BY <2>1
  <2> QED BY <2>2, PathId DEF PackageOf, d
<1>5. \A id \in DOMAIN new : id[1] \in {"file", "package"}
  BY <1>1, <1>3, <1>4, NamedKind
<1> HIDE DEF new
<1>6. OwnedStay
  BY <1>2, <1>5, PutOwned DEF Owned
<1> QED BY <1>2, <1>6, OwnedKeeps DEF UntilIntents, UntilNotes, BeforeNotes

\* Passes that add no node.
LEMMA IdRest ==
  ASSUME EInv, IdInv,
         \/ IndexNotes \/ Bridge \/ Proceed \/ Aggregate \/ Metadata \/ StopEnumerating
         \/ Cancel \/ Fail \/ (\E list \in todo : Enumerate(list)) \/ UNCHANGED vars
  PROVE  IdInv'
<1>1. OwnedStay
  BY DEF IndexNotes, Bridge, Proceed, Aggregate, Metadata, StopEnumerating, Cancel, Fail,
         Enumerate, vars, OwnedStay, N
<1>2. \/ pc' = pc \/ pc' = "failed" \/ pc \notin UntilNotes \cup UntilIntents
      \/ pc = "festivals" /\ pc' = "intents"
  <2>1. CASE Cancel \/ (\E list \in todo : Enumerate(list)) \/ UNCHANGED vars
    BY <2>1 DEF Cancel, Enumerate, vars
  <2>2. CASE Fail
    BY <2>2 DEF Fail
  <2>3. CASE IndexNotes \/ Bridge \/ Aggregate \/ Metadata \/ StopEnumerating
    BY <2>3, SourceNames DEF IndexNotes, Bridge, Aggregate, Metadata, StopEnumerating, Running,
                             UntilIntents, UntilNotes, BeforeNotes
  <2>4. CASE Proceed
    BY <2>4, SourceNames, PassAfter DEF Proceed, Enter, UntilIntents, UntilNotes, BeforeNotes
  <2> QED BY <2>1, <2>2, <2>3, <2>4
<1> QED BY <1>1, <1>2, OwnedKeeps DEF UntilIntents, UntilNotes, BeforeNotes

LEMMA IdNotes == ASSUME EInv, IdInv, ScanNotes PROVE IdInv'
<1> DEFINE new == Named("note", NotePaths)
<1>1. at' = Put(at, new) /\ camp' = camp /\ pc = "notes" /\ pc' = "index"
  BY DEF ScanNotes, Enter, Running
<1>2. DOMAIN new = NoteIds
  BY DEF Named, NoteIds
<1> HIDE DEF new
<1>3. N' = N \cup NoteIds /\ \A id \in N \ NoteIds : at'[id] = at[id]
  BY <1>1, <1>2, PutNodes DEF N
<1>4. NoteIds' = NoteIds /\ \A id \in NoteIds : id[1] = "note"
  BY <1>1, FilesStay, NoteFirst
<1>5. ASSUME NEW id \in N'
      PROVE  /\ id[1] = "intent" => IntentNode(id)'
             /\ id[1] = "festival" => FestivalNode(id)'
             /\ id[1] = "note" => id \in NoteIds'
  <2>1. CASE id \in NoteIds
    BY <1>4, <2>1
  <2>2. CASE id \notin NoteIds
    <3>1. id \in N /\ at'[id] = at[id]
      BY <1>3, <2>2
    <3> QED BY <1>1, <1>4, <2>2, <3>1, FilesStay DEF IdInv, IntentNode, FestivalNode
  <2> QED BY <2>1, <2>2
<1>6. IntentsKept'
  <2>1. IntentsKept
    BY <1>1 DEF IdInv, UntilIntents
  <2>2. ASSUME NEW p \in Intents, IntentKept(p) PROVE IntentKept(p)'
    BY <1>3, <1>4, <2>2, IntentFirst DEF IntentKept
  <2> QED BY <1>1, <2>1, <2>2, FilesStay DEF IntentsKept
<1> QED BY <1>3, <1>4, <1>5, <1>6 DEF IdInv

LEMMA IdParts ==
  ASSUME EInv, IdInv, pc = "festivals", NEW l \in Lifecycles,
         NEW phases \in SUBSET Phases(l), ScanParts(l, phases)
  PROVE  IdInv'
<1> DEFINE ids == {FestivalId(l, p) : p \in Festivals(l) \cup Below(phases)}
           new == [id \in ids |-> l \o Tail(id)]
<1>1. at' = Put(at, new) /\ camp' = camp /\ pc' = pc
  BY DEF ScanParts
<1>2. DOMAIN new = ids /\ \A id \in ids : new[id] = l \o Tail(id)
  OBVIOUS
<1>3. Festivals(l) \cup Below(phases) \subseteq Parts(l)
  BY DEF Parts, Below, Shown, SubDirs
<1>4. \A id \in ids : id[1] = "festival" /\ \E p \in Parts(l) : id = FestivalId(l, p)
  <2> SUFFICES ASSUME NEW p \in Festivals(l) \cup Below(phases)
               PROVE  FestivalId(l, p)[1] = "festival" /\ p \in Parts(l)
    OBVIOUS
  <2>1. PICK f \in Festivals(l) : Within(p, f) /\ p \in Seq(STRING)
    BY InFestival
  <2>2. l \in Seq(STRING)
    BY <2>1, StageIsPath
  <2> DEFINE rest == SubSeq(p, Len(l) + 1, Len(p))
  <2>3. rest \in Seq(STRING)
    <3> HIDE DEF rest
    <3>1. rest = SubSeq(p, Len(l) + 1, Len(p))
      BY DEF rest
    <3> QED BY <2>1, <2>2, <3>1, FestivalPart
  <2> QED BY <1>3, <2>3, PathId DEF FestivalId
<1> HIDE DEF new, ids
<1>5. /\ N' = N \cup ids /\ \A id \in N \ ids : at'[id] = at[id]
      /\ \A id \in ids : at'[id] = new[id]
  BY <1>1, <1>2, PutIs
<1>6. ASSUME NEW id \in N'
      PROVE  /\ id[1] = "intent" => IntentNode(id)'
             /\ id[1] = "festival" => FestivalNode(id)'
             /\ id[1] = "note" => id \in NoteIds'
  <2>1. CASE id \in ids
    <3>1. PICK p \in Parts(l) : id = FestivalId(l, p)
      BY <1>4, <2>1
    <3>2. FestivalNode(id)'
      BY <1>1, <1>2, <1>5, <2>1, <3>1, FilesStay DEF FestivalNode
    <3> QED BY <1>4, <2>1, <3>2
  <2>2. CASE id \notin ids
    <3>1. id \in N /\ at'[id] = at[id]
      BY <1>5, <2>2
    <3> QED BY <1>1, <3>1, FilesStay DEF IdInv, IntentNode, FestivalNode
  <2> QED BY <2>1, <2>2
<1> QED BY <1>1, <1>6 DEF IdInv, UntilIntents, UntilNotes, BeforeNotes

\* When its directory is read is a number.
LEMMA TurnTyped ==
  ASSUME EInv, NEW p \in Intents
  PROVE  Turn(Parent(p)) \in Nat
<1> DEFINE d == Parent(p)
<1>1. d \in IntentDirs /\ d \in W.dirs
  BY DEF Intents, Dirs
<1> HIDE DEF d
<1>2. CASE Parent(d) = IntentDungeon
  <2>1. d \in ToSet(Order)
    BY <1>1, <1>2, ScanAssumption DEF EInv, W, Ordered
  <2>2. \E i \in DOMAIN Order : Order[i] = d
    BY <2>1 DEF ToSet
  <2>3. (CHOOSE i \in DOMAIN Order : Order[i] = d) \in DOMAIN Order
    BY <2>2
  <2>4. \A i \in DOMAIN Order : 3 + i \in Nat
    BY ScanAssumption
  <2>5. Len(IntentStages) = 3
    BY DEF IntentStages
  <2>6. Turn(d) = 3 + CHOOSE i \in DOMAIN Order : Order[i] = d
    BY <1>2, <2>5 DEF Turn
  <2> QED BY <2>3, <2>4, <2>6 DEF d
<1>3. CASE Parent(d) # IntentDungeon
  <2>1. PICK stage \in ToSet(IntentStages) : d = <<".campaign", "intents", stage>>
    BY <1>1, <1>3 DEF IntentDirs, Shown, SubDirs
  <2>2. Last(d) = stage
    BY <2>1 DEF Last
  <2>3. \E i \in DOMAIN IntentStages : IntentStages[i] = Last(d)
    BY <2>2 DEF ToSet
  <2>4. (CHOOSE i \in DOMAIN IntentStages : IntentStages[i] = Last(d)) \in DOMAIN IntentStages
    BY <2>3
  <2>5. DOMAIN IntentStages \subseteq Nat
    BY DEF IntentStages
  <2> QED BY <1>3, <2>4, <2>5 DEF Turn, d
<1> QED BY <1>2, <1>3

LEMMA IdIntents == ASSUME EInv, IdInv, ScanIntents PROVE IdInv'
<1> DEFINE last == {p \in Intents : \A q \in Intents : ~Overtakes(q, p)}
           ids == {<<"intent", Name(p).bare>> : p \in last}
           new == [id \in ids |-> CHOOSE p \in last : Name(p).bare = id[2]]
<1>1. Add("intents", new)
  BY DEF ScanIntents
<1>2. DOMAIN new = ids
  OBVIOUS
<1>3. ASSUME NEW id \in ids
      PROVE  /\ new[id] \in last /\ id = <<"intent", Name(new[id]).bare>>
             /\ id[1] = "intent"
  <2>1. PICK p \in last : id = <<"intent", Name(p).bare>>
    OBVIOUS
  <2> HIDE DEF last
  <2>2. id[1] = "intent" /\ id[2] = Name(p).bare
    BY <2>1
  <2>3. \E q \in last : Name(q).bare = id[2]
    BY <2>2
  <2>4. new[id] \in last /\ Name(new[id]).bare = id[2]
    BY <2>3
  <2> QED BY <2>1, <2>2, <2>4
<1> HIDE DEF new
<1>4. at' = Put(at, new) /\ camp' = camp /\ pc = "intents" /\ pc' = "workflow"
  BY <1>1, PassAfter DEF Add, Enter, Running
<1>5. /\ N' = N \cup ids /\ \A id \in N \ ids : at'[id] = at[id]
      /\ \A id \in ids : at'[id] = new[id]
  BY <1>2, <1>4, PutIs
<1>6. ASSUME NEW id \in N'
      PROVE  /\ id[1] = "intent" => IntentNode(id)'
             /\ id[1] = "festival" => FestivalNode(id)'
             /\ id[1] = "note" => id \in NoteIds'
  <2>1. CASE id \in ids
    <3>1. at'[id] \in Intents' /\ id = <<"intent", Name(at'[id]).bare>>
      BY <1>3, <1>4, <1>5, <2>1, FilesStay
    <3> QED BY <1>3, <2>1, <3>1 DEF IntentNode
  <2>2. CASE id \notin ids
    <3>1. id \in N /\ at'[id] = at[id]
      BY <1>5, <2>2
    <3> QED BY <1>4, <3>1, FilesStay DEF IdInv, IntentNode, FestivalNode
  <2> QED BY <2>1, <2>2
<1>7. ASSUME NEW p \in Intents, ReadLast(p) PROVE IntentKept(p)'
  <2>1. \A q \in Intents \ {p} : Name(q).bare = Name(p).bare => Overtakes(p, q)
    BY <1>7 DEF ReadLast
  <2>2. p \in last
    <3> SUFFICES ASSUME NEW q \in Intents, Overtakes(q, p) PROVE FALSE
      OBVIOUS
    <3>1. Name(q).bare = Name(p).bare /\ Turn(Parent(p)) < Turn(Parent(q))
      BY DEF Overtakes
    <3>2. q = p \/ Turn(Parent(q)) < Turn(Parent(p))
      BY <2>1, <3>1 DEF Overtakes
    <3> QED BY <3>1, <3>2, TurnTyped
  <2>3. \A q \in last : Name(q).bare = Name(p).bare => q = p
    BY <2>1
  <2> DEFINE id == <<"intent", Name(p).bare>>
  <2>4. id \in ids
    BY <2>2
  <2>5. new[id] \in last /\ Name(new[id]).bare = Name(p).bare
    BY <1>3, <2>4
  <2> QED BY <1>5, <2>3, <2>4, <2>5 DEF IntentKept
<1>8. IntentDirs \cap W.unread = {}
  <2>1. MustRead("intents") \cap W.unread = {}
    BY <1>1 DEF Add, Running
  <2> QED BY <2>1 DEF MustRead
<1>9. IntentsKept'
  BY <1>4, <1>7, <1>8, FilesStay DEF IntentsKept
<1> QED BY <1>4, <1>6, <1>9 DEF IdInv, UntilNotes, BeforeNotes

LEMMA NextIdInv == ASSUME EInv, NestInv, IdInv, [Next]_vars PROVE IdInv'
<1>1. CASE \E l \in todo : ScanLifecycle(l) \/ StopInLifecycle(l)
  <2>1. PICK l \in todo : \E phases \in SUBSET Phases(l) : ScanParts(l, phases)
    BY <1>1 DEF ScanLifecycle, StopInLifecycle
  <2>2. pc = "festivals" /\ l \in Lifecycles
    BY <1>1, <2>1 DEF ScanLifecycle, StopInLifecycle, Running, NestInv, StagesTodo
  <2> QED BY <2>1, <2>2, IdParts
<1>2. CASE ScanScopes \/ ScanProjects \/ ScanWorkflow \/ ScanIntents
  BY <1>2, IdScopes, IdArtifacts, IdIntents
<1>3. CASE ScanNotes \/ LinkCanvas \/ CodeSlices \/ \E n \in todo : LinkNote(n)
  BY <1>3, IdNotes, IdCanvas, IdCode, IdLinks
<1>4. CASE \/ IndexNotes \/ Bridge \/ Proceed \/ Aggregate \/ Metadata \/ StopEnumerating
           \/ Cancel \/ Fail \/ (\E list \in todo : Enumerate(list)) \/ UNCHANGED vars
  BY <1>4, IdRest
<1> QED BY <1>1, <1>2, <1>3, <1>4 DEF Next

LEMMA InitIdInv == Init => IdInv
BY DEF Init, Unscanned, IdInv, N, UntilIntents, UntilNotes, BeforeNotes

\* Directories above a file, one by one.
LEMMA CutParent ==
  ASSUME NEW p \in Seq(STRING), NEW i \in 1 .. Len(p)
  PROVE  LET d == SubSeq(p, 1, i)
         IN  /\ d \in Seq(STRING) /\ d # <<>> /\ Len(d) = i
             /\ Last(d) = p[i] /\ Parent(d) = SubSeq(p, 1, i - 1)
<1> DEFINE d == SubSeq(p, 1, i)
<1>1. p \in Paths /\ Len(p) \in Nat /\ i \in 0 .. Len(p)
  BY StringPaths
<1>2. d \in Seq(STRING) /\ d \in Paths /\ Len(d) = i /\ \A k \in 1 .. i : d[k] = p[k]
  BY <1>1, CutWithin, Cut
<1>3. SubSeq(d, 1, i - 1) = SubSeq(p, 1, i - 1)
  <2>1. /\ SubSeq(d, 1, i - 1) \in Paths /\ Len(SubSeq(d, 1, i - 1)) = i - 1
        /\ \A k \in 1 .. i - 1 : SubSeq(d, 1, i - 1)[k] = d[k]
    <3> HIDE DEF d
    <3>1. i - 1 \in 0 .. Len(d)
      BY <1>1, <1>2
    <3> QED BY <1>2, <3>1, Cut
  <2>2. /\ SubSeq(p, 1, i - 1) \in Paths /\ Len(SubSeq(p, 1, i - 1)) = i - 1
        /\ \A k \in 1 .. i - 1 : SubSeq(p, 1, i - 1)[k] = p[k]
    <3>1. i - 1 \in 0 .. Len(p)
      BY <1>1
    <3> QED BY <1>1, <3>1, Cut
  <2> DEFINE a == SubSeq(d, 1, i - 1)  b == SubSeq(p, 1, i - 1)
  <2>3. a \in Paths /\ b \in Paths /\ Len(a) = Len(b)
        /\ \A k \in 1 .. Len(a) : a[k] = b[k]
    <3>1. \A k \in 1 .. i - 1 : k \in 1 .. i
      BY <1>1
    <3> HIDE DEF d
    <3> QED BY <1>2, <2>1, <2>2, <3>1
  <2> HIDE DEF a, b
  <2>4. a = b
    BY <2>3, SamePath
  <2> QED BY <2>4 DEF a, b
<1> HIDE DEF d
<1>4. d # <<>> /\ i \in Nat
  BY <1>1, <1>2
<1>5. Last(d) = p[i]
  BY <1>1, <1>2 DEF Last
<1>6. Parent(d) = SubSeq(d, 1, i - 1)
  BY <1>2, <1>4 DEF Parent, Front
<1> QED BY <1>2, <1>3, <1>4, <1>5, <1>6 DEF d

LEMMA ParentItems ==
  ASSUME NEW p \in Seq(STRING), p # <<>>
  PROVE  /\ Len(p) \in Nat /\ Len(p) = Len(Parent(p)) + 1 /\ Len(Parent(p)) \in Nat
         /\ \A i \in 1 .. Len(Parent(p)) : Parent(p)[i] = p[i]
<1>1. p \in Paths /\ Parent(p) \in Paths /\ Within(p, Parent(p))
      /\ Len(p) \in Nat \ {0} /\ Len(Parent(p)) = Len(p) - 1
  BY StringPaths, FrontPath
<1> QED BY <1>1, WithinMeans

\* A part of a festival, put back below the stage, is where it was.
LEMMA PartPlace ==
  ASSUME EInv, NEW l \in Lifecycles, NEW p \in Parts(l)
  PROVE  /\ l \in Seq(STRING) /\ p \in Seq(STRING) /\ l \o Tail(FestivalId(l, p)) = p
         /\ FestivalId(l, p)[1] = "festival" /\ FestivalId(l, p)[2] = p[Len(l) + 1]
         /\ \E f \in Festivals(l) : FestivalId(l, p)[2] = Last(f)
<1>1. PICK f \in Festivals(l) : Within(p, f) /\ p \in Seq(STRING)
  BY InFestival DEF Parts
<1>2. l \in Seq(STRING)
  BY StageIsPath
<1> DEFINE rest == SubSeq(p, Len(l) + 1, Len(p))  whole == l \o rest
<1>3. rest = SubSeq(p, Len(l) + 1, Len(p))
  OBVIOUS
<1> HIDE DEF rest
<1>4. /\ rest \in Seq(STRING) /\ Len(rest) = Len(p) - Len(l) /\ Len(rest) >= 1
      /\ \A i \in 1 .. Len(rest) : rest[i] = p[Len(l) + i]
      /\ Tail(FestivalId(l, p)) = rest /\ FestivalId(l, p)[2] = Last(f)
      /\ FestivalId(l, p)[1] = "festival"
  <2>1. rest \in Seq(STRING) /\ Len(rest) = Len(p) - Len(l) /\ Len(rest) >= 1
    BY <1>1, <1>2, <1>3, FestivalPart
  <2>2. \A i \in 1 .. Len(rest) : rest[i] = p[Len(l) + i]
    BY <1>1, <1>2, <1>3, FestivalPart
  <2>3. Tail(FestivalId(l, p)) = rest /\ FestivalId(l, p)[1] = "festival"
    BY <1>3, <2>1, PathId DEF FestivalId
  <2>4. FestivalId(l, p)[2] = Last(f)
    BY <1>1, <1>2, <1>3, FestivalPart
  <2> QED BY <2>1, <2>2, <2>3, <2>4
<1>5. /\ l \in Paths /\ p \in Paths /\ Len(l) \in Nat /\ Len(p) \in Nat
      /\ \A i \in 1 .. Len(l) : l[i] = p[i]
  <2>1. f \in Seq(STRING) /\ Parent(f) = l
    BY FilePaths DEF EInv, Festivals, Shown, SubDirs
  <2>2. l \in Paths /\ p \in Paths /\ f \in Paths /\ Within(f, l)
    BY <1>1, <1>2, <2>1, StringPaths, ParentWithin
  <2>3. Within(p, l)
    BY <1>1, <2>2, WithinChain
  <2> QED BY <2>2, <2>3, WithinMeans, PathLen
<1>6. /\ whole \in Seq(STRING) /\ Len(whole) = Len(l) + Len(rest)
      /\ \A i \in 1 .. Len(l) + Len(rest) : whole[i] = IF i <= Len(l) THEN l[i] ELSE rest[i - Len(l)]
  BY <1>2, <1>4, ConcatProperties
<1> HIDE DEF whole
<1>7. Len(whole) = Len(p)
  BY <1>4, <1>5, <1>6
<1>8. ASSUME NEW i \in 1 .. Len(p) PROVE whole[i] = p[i]
  <2>1. i \in 1 .. Len(l) + Len(rest)
    BY <1>4, <1>5
  <2>2. CASE i <= Len(l)
    BY <1>5, <1>6, <2>1, <2>2
  <2>3. CASE ~(i <= Len(l))
    <3>1. i - Len(l) \in 1 .. Len(rest) /\ Len(l) + (i - Len(l)) = i
      BY <1>4, <1>5, <2>3
    <3> QED BY <1>4, <1>6, <2>1, <2>3, <3>1
  <2> QED BY <2>2, <2>3
<1>10. Last(f) = p[Len(l) + 1]
  <2>1. f \in Seq(STRING) /\ f # <<>> /\ Parent(f) = l
    BY FilePaths DEF EInv, Festivals, Shown, SubDirs
  <2>2. Len(f) = Len(l) + 1 /\ Len(f) \in 1 .. Len(f)
    BY <1>5, <2>1, ParentItems
  <2>3. \A i \in 1 .. Len(f) : f[i] = p[i]
    BY <1>1, <2>1, StringPaths, WithinMeans
  <2> QED BY <2>2, <2>3 DEF Last
<1>9. whole = p
  BY <1>5, <1>6, <1>7, <1>8, StringPaths, SamePath
<1> QED BY <1>1, <1>2, <1>4, <1>9, <1>10 DEF whole

LEMMA StageNames ==
  ASSUME NEW l \in Lifecycles
  PROVE  /\ l[1] = "festivals"
         /\ \/ Len(l) = 2 /\ l = <<l[1], l[2]>>
            \/ \E stage : l = <<"festivals", "dungeon", stage>>
<1>1. CASE \E stage : l = <<"festivals", stage>>
  BY <1>1
<1>2. CASE \E stage : l = <<"festivals", "dungeon", stage>>
  BY <1>2
<1> QED BY <1>1, <1>2 DEF Lifecycles

\* A part of a festival that is no directory is a task.
LEMMA TaskPart ==
  ASSUME EInv, NEW l \in Lifecycles, NEW p \in Parts(l), p \notin W.dirs
  PROVE  /\ p \in Seq(STRING) /\ Len(p) = Len(l) + 4 /\ Len(l) \in Nat
         /\ p[Len(l) + 2] \in PhaseName /\ Ext(p) = "md"
         /\ \A i \in 1 .. Len(l) : p[i] = l[i]
<1> DEFINE s == Parent(p)  ph == Parent(s)  f == Parent(ph)
<1>1. /\ p \in W.files /\ Ext(p) = "md" /\ s \in Shown(Phases(l))
  BY DEF Parts, Below, Festivals, Phases, Shown, SubDirs
<1>2. ph \in Phases(l) /\ s # <<>> /\ s \in W.dirs
  BY <1>1 DEF Shown, SubDirs
<1>3. f \in Festivals(l) /\ ph # <<>> /\ ph \in W.dirs /\ Last(ph) \in PhaseName
  BY <1>2 DEF Phases, SubDirs
<1>4. f # <<>> /\ f \in W.dirs /\ Parent(f) = l
  BY <1>3 DEF Festivals, Shown, SubDirs
<1>5. p # <<>>
  BY ScanAssumption DEF EInv, W, CampaignType
<1>6. {p, s, ph, f, l} \subseteq Seq(STRING)
  BY <1>1, <1>2, <1>3, <1>4, FilePaths, ParentPath DEF EInv
<1> HIDE DEF s, ph, f
<1>7. /\ Len(s) = Len(p) - 1 /\ Len(ph) = Len(s) - 1 /\ Len(f) = Len(ph) - 1
      /\ Len(l) = Len(f) - 1 /\ {Len(p), Len(s), Len(ph), Len(f), Len(l)} \subseteq Nat
      /\ Within(p, s) /\ Within(s, ph) /\ Within(ph, f) /\ Within(f, l)
  <2>1. {p, s, ph, f, l} \subseteq Paths
    BY <1>6, StringPaths
  <2>2. \A d \in {p, s, ph, f} : /\ Len(Parent(d)) = Len(d) - 1 /\ Within(d, Parent(d))
    BY <1>2, <1>3, <1>4, <1>5, <2>1, FrontPath
  <2>3. {Len(p), Len(s), Len(ph), Len(f), Len(l)} \subseteq Nat
    BY <2>1, PathLen
  <2> QED BY <1>4, <2>2, <2>3 DEF s, ph, f
<1>8. Len(p) = Len(l) + 4 /\ Len(ph) = Len(l) + 2
  BY <1>7
<1>9. Within(p, ph) /\ Within(p, l)
  BY <1>6, <1>7, StringPaths, WithinChain
<1>10. p[Len(l) + 2] = Last(ph)
  <2>1. \A i \in 1 .. Len(ph) : ph[i] = p[i]
    BY <1>6, <1>9, StringPaths, WithinMeans
  <2> QED BY <1>7, <1>8, <2>1 DEF Last
<1>11. \A i \in 1 .. Len(l) : p[i] = l[i]
  BY <1>6, <1>9, StringPaths, WithinMeans
<1> QED BY <1>1, <1>3, <1>6, <1>7, <1>8, <1>10, <1>11

\* What a path in a known stage, and nothing hidden above it, makes a task.
LEMMA TaskIsPart ==
  ASSUME EInv, NEW p \in W.files, IsTaskPlace(p), p[4] \in PhaseName, Ext(p) = "md"
  PROVE  LET l == <<p[1], p[2]>>
         IN  l \in Lifecycles /\ p \in Parts(l) /\ \E f \in Festivals(l) : Last(f) = p[3]
<1> DEFINE l == <<p[1], p[2]>>
<1>1. p \in Seq(STRING) /\ Len(p) = 6
  BY FilePaths DEF EInv, IsTaskPlace
<1> DEFINE d(i) == SubSeq(p, 1, i)
<1>2. \A i \in 1 .. 6 : /\ d(i) # <<>> /\ Last(d(i)) = p[i] /\ Parent(d(i)) = d(i - 1)
  BY <1>1, CutParent
<1>3. d(6) = p /\ d(2) = l
  <2>1. /\ d(6) \in Paths /\ Len(d(6)) = 6 /\ \A k \in 1 .. 6 : d(6)[k] = p[k]
    <3>1. p \in Paths /\ 6 \in 0 .. Len(p)
      BY <1>1, StringPaths
    <3> QED BY <3>1, Cut
  <2>2. /\ d(2) \in Paths /\ Len(d(2)) = 2 /\ \A k \in 1 .. 2 : d(2)[k] = p[k]
    <3>1. p \in Paths /\ 2 \in 0 .. Len(p)
      BY <1>1, StringPaths
    <3> QED BY <3>1, Cut
  <2>3. d(6) = p
    <3> HIDE DEF d
    <3> QED BY <1>1, <2>1, StringPaths, SamePath
  <2>4. d(2) = l
    <3>1. l \in Seq(STRING) /\ Len(l) = 2 /\ l[1] = p[1] /\ l[2] = p[2]
      <4>1. \A i \in 1 .. 6 : p[i] \in STRING
        <5>1. \A q \in Seq(STRING) : \A i \in 1 .. Len(q) : q[i] \in STRING
          OBVIOUS
        <5> QED BY <1>1, <5>1
      <4> QED BY <4>1
    <3> HIDE DEF d, l
    <3> QED BY <2>2, <3>1, StringPaths, SamePath
  <2> QED BY <2>3, <2>4
<1>4. \A i \in 2 .. 5 : d(i) \notin W.unread
  <2>1. \A i \in 1 .. 5 : d(i) \in Ancestors(p)
    BY <1>1 DEF Ancestors
  <2> QED BY <2>1 DEF IsTaskPlace
<1> HIDE DEF d
<1>5. \A q \in (W.dirs \cup W.files) \ {<<>>} : Parent(q) \in W.dirs
  BY ScanAssumption DEF EInv, W, CampaignType
<1>6. d(6) \in W.files /\ d(5) \in W.dirs /\ d(4) \in W.dirs /\ d(3) \in W.dirs /\ d(2) \in W.dirs
  <2>1. d(6) \in W.files /\ d(5) \in W.dirs
    BY <1>2, <1>3, <1>5
  <2>2. d(4) \in W.dirs
    BY <1>2, <1>5, <2>1
  <2>3. d(3) \in W.dirs
    BY <1>2, <1>5, <2>2
  <2>4. d(2) \in W.dirs
    BY <1>2, <1>5, <2>3
  <2> QED BY <2>1, <2>2, <2>3, <2>4
<1>7. {d(2), d(3), d(4), d(5)} \subseteq Dirs
  BY <1>4, <1>6 DEF Dirs
<1>8. p[3] \notin Hidden /\ p[5] \notin Hidden /\ l \in Lifecycles /\ Last(p) # "SEQUENCE_GOAL.md"
  BY DEF IsTaskPlace
<1>9. /\ Parent(d(3)) = d(2) /\ Parent(d(4)) = d(3) /\ Parent(d(5)) = d(4) /\ Parent(p) = d(5)
      /\ Last(d(3)) = p[3] /\ Last(d(4)) = p[4] /\ Last(d(5)) = p[5]
      /\ d(3) # <<>> /\ d(4) # <<>> /\ d(5) # <<>>
  BY <1>2, <1>3
<1>10. d(3) \in Festivals(l)
  BY <1>3, <1>6, <1>7, <1>8, <1>9 DEF Festivals, Shown, SubDirs
<1>11. d(4) \in Phases(l)
  BY <1>6, <1>7, <1>9, <1>10 DEF Phases, SubDirs
<1>12. d(5) \in Shown(Phases(l))
  BY <1>6, <1>7, <1>8, <1>9, <1>11 DEF Shown, SubDirs
<1>13. p \in Parts(l)
  BY <1>7, <1>8, <1>9, <1>12 DEF Parts, Below
<1> QED BY <1>8, <1>9, <1>10, <1>13

LEMMA AtMostOne ==
  ASSUME NEW S, \A a, b \in S : a = b
  PROVE  Cardinality(S) <= 1
<1>1. CASE S = {}
  BY <1>1, FS_EmptySet
<1>2. CASE S # {}
  <2>1. PICK a \in S : S = {a}
    BY <1>2
  <2> QED BY <2>1, FS_Singleton
<1> QED BY <1>1, <1>2

\* The three kinds of nodes that a listed file can have, and when it has which.
LEMMA StandingNote ==
  ASSUME EInv, PathsKept, IdInv, NEW p \in Listed, NEW id \in Standing(p), id[1] = "note"
  PROVE  id = <<"note">> \o p /\ ~OwnedByArtifact(p)
<1>1. id \in N /\ at[id] = p /\ id \in NoteIds /\ at[id] = Tail(id)
  BY DEF Standing, IdInv, PathsKept, Tells, NamedKinds
<1>2. PICK q \in NotePaths : id = <<"note">> \o q
  BY <1>1 DEF NoteIds
<1>3. q = p
  BY <1>1, <1>2, NotePathsAre, PathId
<1> QED BY <1>2, <1>3 DEF NotePaths

LEMMA CutTwo ==
  ASSUME NEW S, NEW q \in Seq(S), Len(q) >= 2
  PROVE  /\ SubSeq(q, 1, 2) \in Seq(S) /\ Len(SubSeq(q, 1, 2)) = 2
         /\ SubSeq(q, 1, 2)[1] = q[1] /\ SubSeq(q, 1, 2)[2] = q[2]
OBVIOUS

LEMMA PrefixTwo ==
  ASSUME NEW a, NEW b, NEW p \in Seq(STRING)
  PROVE  IsStrictPrefix(<<a, b>>, p) <=> Len(p) > 2 /\ p[1] = a /\ p[2] = b
<1> DEFINE S == STRING \cup {a, b}  top == <<a, b>>
<1>1. p \in Seq(S) /\ Len(p) \in Nat
  <2>1. p \in [1 .. Len(p) -> STRING] /\ Len(p) \in Nat
    OBVIOUS
  <2>2. p \in [1 .. Len(p) -> S]
    BY <2>1
  <2> QED BY <2>1, <2>2
<1>2. a \in S /\ b \in S
  OBVIOUS
<1> HIDE DEF S
<1>3. top \in Seq(S) /\ Len(top) = 2 /\ top[1] = a /\ top[2] = b
  BY <1>2
<1> HIDE DEF top
<1>4. SubSeq(top, 1, 2) \in Seq(S) /\ Len(SubSeq(top, 1, 2)) = 2
      /\ SubSeq(top, 1, 2)[1] = a /\ SubSeq(top, 1, 2)[2] = b
  BY <1>3, CutTwo
<1>5. ASSUME Len(p) >= 2
      PROVE  /\ SubSeq(p, 1, 2) \in Seq(S) /\ Len(SubSeq(p, 1, 2)) = 2
             /\ SubSeq(p, 1, 2)[1] = p[1] /\ SubSeq(p, 1, 2)[2] = p[2]
  BY <1>1, <1>5, CutTwo
<1>6. IsPrefix(top, p) <=> Len(p) >= 2 /\ p[1] = a /\ p[2] = b
  <2>1. IsPrefix(top, p) <=> Len(p) >= 2 /\ SubSeq(top, 1, 2) = SubSeq(p, 1, 2)
    BY <1>1, <1>3 DEF IsPrefix
  <2> DEFINE u == SubSeq(top, 1, 2)  v == SubSeq(p, 1, 2)
  <2>2. ASSUME Len(p) >= 2, p[1] = a, p[2] = b PROVE u = v
    <3>1. /\ u \in Seq(S) /\ Len(u) = 2 /\ u[1] = a /\ u[2] = b
          /\ v \in Seq(S) /\ Len(v) = 2 /\ v[1] = a /\ v[2] = b
      BY <1>4, <1>5, <2>2
    <3> HIDE DEF u, v
    <3>2. \A i \in 1 .. Len(u) : u[i] = v[i]
      BY <3>1
    <3> QED BY <3>1, <3>2, SeqEqual
  <2> QED BY <1>4, <1>5, <2>1, <2>2
<1>7. p # top <=> ~(Len(p) = 2 /\ p[1] = a /\ p[2] = b)
  <2>1. ASSUME Len(p) = 2, p[1] = a, p[2] = b PROVE p = top
    <3>1. \A i \in 1 .. Len(p) : p[i] = top[i]
      BY <1>3, <2>1
    <3> QED BY <1>1, <1>3, <2>1, <3>1, SeqEqual
  <2> QED BY <1>3, <2>1
<1>8. IsStrictPrefix(top, p) <=> IsPrefix(top, p) /\ top # p
  BY DEF IsStrictPrefix
<1>9. IsStrictPrefix(top, p) <=> Len(p) > 2 /\ p[1] = a /\ p[2] = b
  <2>1. Len(p) > 2 <=> Len(p) >= 2 /\ Len(p) # 2
    <3>1. \A n \in Nat : n > 2 <=> n >= 2 /\ n # 2
      OBVIOUS
    <3> QED BY <1>1, <3>1
  <2> QED BY <1>6, <1>7, <1>8, <2>1, Zenon
<1> QED BY <1>9 DEF top

LEMMA IntentPlace ==
  ASSUME EInv, NEW p \in Intents
  PROVE  IsStrictPrefix(<<".campaign", "intents">>, p) /\ p[1] = ".campaign"
<1> DEFINE d == Parent(p)
<1>1. d \in IntentDirs /\ d \in W.dirs /\ p \in W.files
  BY DEF Intents, Dirs
<1>2. p \in Seq(STRING) /\ d \in Seq(STRING) /\ p # <<>>
  BY <1>1, FilePaths, ScanAssumption DEF EInv, W, CampaignType
<1>3. /\ Len(p) \in Nat /\ Len(p) = Len(d) + 1 /\ Len(d) \in Nat
      /\ \A i \in 1 .. Len(d) : d[i] = p[i]
  BY <1>2, ParentItems
<1> HIDE DEF d
<1>4. Len(d) >= 3 /\ d[1] = ".campaign" /\ d[2] = "intents"
  <2>1. CASE \E stage : d = <<".campaign", "intents", stage>>
    BY <2>1
  <2>2. CASE d # <<>> /\ Parent(d) = IntentDungeon
    <3>1. Len(IntentDungeon) = 3 /\ IntentDungeon[1] = ".campaign" /\ IntentDungeon[2] = "intents"
      BY DEF IntentDungeon
    <3>2. Len(d) = Len(IntentDungeon) + 1 /\ \A i \in 1 .. Len(IntentDungeon) : IntentDungeon[i] = d[i]
      BY <1>2, <2>2, ParentItems
    <3> QED BY <3>1, <3>2
  <2>3. d \in Shown({IntentDungeon}) => d # <<>> /\ Parent(d) = IntentDungeon
    BY DEF Shown, SubDirs
  <2> QED BY <1>1, <2>1, <2>2, <2>3 DEF IntentDirs
<1>5. Len(p) > 2 /\ p[1] = ".campaign" /\ p[2] = "intents"
  BY <1>3, <1>4
<1> QED BY <1>2, <1>5, PrefixTwo

LEMMA StandingIntent ==
  ASSUME EInv, IdInv, NEW p, NEW id \in Standing(p), id[1] = "intent"
  PROVE  id = <<"intent", Name(p).bare>> /\ OwnedByArtifact(p) /\ p[1] = ".campaign"
<1>1. p \in Intents /\ id = <<"intent", Name(p).bare>>
  BY DEF Standing, IdInv, IntentNode
<1> QED BY <1>1, IntentPlace DEF OwnedByArtifact

LEMMA StandingTask ==
  ASSUME EInv, IdInv, NEW p \in Listed, NEW id \in Standing(p), id[1] = "festival", ~InDungeon(p)
  PROVE  id = FestivalId(<<p[1], p[2]>>, p) /\ OwnedByArtifact(p) /\ p[1] = "festivals"
<1>1. PICK l \in Lifecycles : \E r \in Parts(l) : id = FestivalId(l, r) /\ p = l \o Tail(id)
  BY DEF Standing, IdInv, FestivalNode
<1>2. id = FestivalId(l, p) /\ p \in Parts(l) /\ l \in Seq(STRING)
  BY <1>1, PartPlace
<1>3. /\ p \in Seq(STRING) /\ Len(p) = Len(l) + 4 /\ Len(l) \in Nat
      /\ p[Len(l) + 2] \in PhaseName /\ Ext(p) = "md"
      /\ \A i \in 1 .. Len(l) : p[i] = l[i]
  BY <1>2, TaskPart DEF Listed
<1>4. ASSUME NEW stage, l = <<"festivals", "dungeon", stage>> PROVE FALSE
  <2>1. Len(p) > 2 /\ p[1] = "festivals" /\ p[2] = "dungeon"
    BY <1>3, <1>4
  <2>2. IsStrictPrefix(<<"festivals", "dungeon">>, p)
    BY <1>3, <2>1, PrefixTwo
  <2> QED BY <2>2 DEF IsStrictPrefix, InDungeon, Within
<1>5. l[1] = "festivals" /\ Len(l) = 2 /\ l = <<l[1], l[2]>>
  BY <1>4, StageNames
<1>6. l = <<p[1], p[2]>> /\ p[1] = "festivals" /\ Len(p) = 6 /\ p[4] \in PhaseName
  BY <1>3, <1>5
<1>7. OwnedByArtifact(p)
  BY <1>3, <1>6 DEF OwnedByArtifact
<1> QED BY <1>2, <1>6, <1>7

LEMMA OneNode ==
  ASSUME EInv, PathsKept, IdInv, NEW p \in Listed, ~InDungeon(p)
  PROVE  Cardinality(Standing(p)) <= 1
<1> SUFFICES ASSUME NEW a \in Standing(p), NEW b \in Standing(p) PROVE a = b
  BY AtMostOne
<1>1. ".campaign" # "festivals"
  OBVIOUS
<1>2. \A id \in Standing(p) : id[1] \in {"note", "intent", "festival"}
  BY DEF Standing
<1>3. \A id \in Standing(p) :
        /\ id[1] = "note" => id = <<"note">> \o p /\ ~OwnedByArtifact(p)
        /\ id[1] = "intent" =>
             id = <<"intent", Name(p).bare>> /\ OwnedByArtifact(p) /\ p[1] = ".campaign"
        /\ id[1] = "festival" =>
             id = FestivalId(<<p[1], p[2]>>, p) /\ OwnedByArtifact(p) /\ p[1] = "festivals"
  BY StandingNote, StandingIntent, StandingTask
<1> QED BY <1>1, <1>2, <1>3

LEMMA NoneLost ==
  ASSUME WInv, PathsKept, IdInv, pc = "done", NEW p \in Listed, Ext(p) \in Markdown, p \in W.files
  PROVE  Standing(p) # {} \/ LookedPast(p)
<1> SUFFICES ASSUME ~LookedPast(p) PROVE \E id \in N : id[1] \in Owned /\ at[id] = p
  BY DEF Standing, Owned
<1> USE DEF WInv
<1>1. p \in Seq(STRING)
  BY FilePaths DEF EInv
<1>2. CASE ~OwnedByArtifact(p)
  <2>1. p \in NotePaths
    BY <1>2 DEF NotePaths
  <2>2. <<"note">> \o p \in N
    BY <2>1 DEF IdInv, UntilNotes, BeforeNotes, NoteIds
  <2>3. (<<"note">> \o p)[1] = "note" /\ Tail(<<"note">> \o p) = p
    BY <1>1, PathId
  <2>4. at[<<"note">> \o p] = p
    BY <2>2, <2>3 DEF PathsKept, Tells, NamedKinds
  <2> QED BY <2>2, <2>3, <2>4 DEF Owned
<1>3. CASE IsStrictPrefix(<<".campaign", "intents">>, p)
  <2>1. Parent(p) \in IntentDirs /\ Ext(p) = "md" /\ ReadLast(p)
    BY <1>3 DEF LookedPast, ReadLast
  <2>2. IntentsKept
    BY DEF IdInv, UntilIntents
  <2>3. p # <<>> /\ Parent(p) \in W.dirs
    BY ScanAssumption DEF EInv, W, CampaignType
  <2>4. p \in Intents
    BY <2>1, <2>2, <2>3 DEF Intents, Dirs, IntentsKept
  <2>5. IntentKept(p)
    BY <2>1, <2>2, <2>4 DEF IntentsKept
  <2> QED BY <2>5, IntentFirst DEF IntentKept, Owned
<1>4. CASE p[1] = "festivals" /\ Len(p) >= 5 /\ p[4] \in PhaseName /\ Ext(p) = "md"
  <2> DEFINE l == <<p[1], p[2]>>  id == FestivalId(l, p)
  <2>1. IsTaskPlace(p) /\ ~SeveralPlaces(p[3])
    BY <1>4 DEF LookedPast
  <2>2. l \in Lifecycles /\ p \in Parts(l) /\ \E f \in Festivals(l) : Last(f) = p[3]
    BY <1>4, <2>1, TaskIsPart
  <2>3. Len(l) + 1 = 3
    OBVIOUS
  <2> HIDE DEF l
  <2>4. id \in N
    BY <2>2 DEF Visited, Scanned
  <2>5. id[1] = "festival" /\ id[2] = p[3] /\ l \o Tail(id) = p
    BY <2>2, <2>3, PartPlace
  <2> HIDE DEF id
  <2>6. PICK k \in Lifecycles : \E r \in Parts(k) : id = FestivalId(k, r) /\ at[id] = k \o Tail(id)
    BY <2>4, <2>5 DEF IdInv, FestivalNode
  <2>7. \E g \in Festivals(k) : id[2] = Last(g)
    BY <2>6, PartPlace
  <2>8. k = l
    BY <2>1, <2>2, <2>5, <2>7, TwoStages
  <2> QED BY <2>4, <2>5, <2>6, <2>8 DEF Owned
<1> QED BY <1>2, <1>3, <1>4 DEF OwnedByArtifact

\* The artifact passes and the notes' own rule (notes.go:157-193) divide the
\* markdown of every campaign: one node for each file, but for what they
\* are said to look past.
THEOREM FilesHaveOneNode == Spec => []OneIdentity
<1> DEFINE Inv == WInv /\ NestInv /\ IdInv
<1>1. Init => Inv
  BY InitEInv, InitNestInv, InitIdInv DEF Init, WInv, Visited
<1>2. Inv /\ [Next]_vars => Inv'
  BY NextWInv, NextNestInv, NextIdInv DEF WInv
<1>3. Inv => OneIdentity
  <2> SUFFICES ASSUME Inv, pc = "done", NEW p \in Listed, Ext(p) \in Markdown
               PROVE  /\ Cardinality(Standing(p)) <= 1 \/ InDungeon(p)
                      /\ Standing(p) # {} \/ p \notin W.files \/ LookedPast(p)
    BY DEF OneIdentity
  <2> QED BY OneNode, NoneLost DEF WInv, NestInv
<1> QED BY <1>1, <1>2, <1>3, PTL DEF Spec
=============================================================================
