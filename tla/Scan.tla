--------------------------------- MODULE Scan ---------------------------------
(***************************************************************************)
(* Scanner.Scan (internal/scanner): the passes that turn a campaign        *)
(* directory and the inventory of its files into a graph.  The passes run   *)
(* one after the other; where one of them walks a Go map, the order is      *)
(* left open.                                                              *)
(*                                                                         *)
(* A node identifier is its kind followed by the names it is made of, as    *)
(* in LedgerNames.  Subtypes, titles and other display data are left out.   *)
(***************************************************************************)
EXTENDS Inference

CONSTANTS
  Campaign,  \* campaign -> what is in its directory, see CampaignType
  PhaseName  \* names of the form 001_NAME

\* dirs and files are on disk, listed is the inventory, nested are the
\* repositories below the root, unread what a read fails on.
CampaignType(c) ==
  /\ c.dirs \cup c.files \cup c.listed \cup c.nested \cup c.unread
       \subseteq Seq(STRING)
  /\ IsFiniteSet(c.listed)
  /\ <<>> \in c.dirs /\ <<>> \notin c.listed \cup c.nested
  /\ c.listed \cap c.nested = {} /\ c.dirs \cap c.files = {}
  /\ \A p \in (c.dirs \cup c.files) \ {<<>>} : Parent(p) \in c.dirs
  /\ DOMAIN c.text \cup DOMAIN c.canvas \subseteq c.files
  /\ \A p \in DOMAIN c.text :
       /\ c.text[p].wiki \subseteq Seq(STRING) \ {<<>>} /\ c.text[p].aliases \in Seq(STRING)
       /\ IsFiniteSet(c.text[p].tags) /\ IsFiniteSet(c.text[p].inline)
       /\ c.text[p].inline \subseteq STRING
  /\ \A p \in DOMAIN c.package : c.package[p] \in STRING

\* A link leads to a path, be it the one outside: the type of Resolve.
LinkedIn(c) ==
  UNION {{Resolve(IF link.abs THEN <<>> ELSE Parent(p), link.to) : link \in c.text[p].links} :
           p \in DOMAIN c.text}
LinksArePaths(c) == LinkedIn(c) \subseteq Seq(STRING)

IntentDungeon == <<".campaign", "intents", "dungeon">>

\* Order has what may become a note, a canvas or an attachment, and the
\* directories of the dungeon's intents.
Ordered(c) ==
  /\ DOMAIN c.canvas \cup {p \in c.listed : Ext(p) \in Markdown \cup {"canvas"}}
       \subseteq ToSet(Order)
  /\ {p \in LinkedIn(c) \ {Outside} : Ext(p) \notin Markdown} \subseteq ToSet(Order)
  /\ {d \in c.dirs : Parent(d) = IntentDungeon} \subseteq ToSet(Order)

ASSUME ScanAssumption ==
  /\ \A c \in DOMAIN Campaign :
       CampaignType(Campaign[c]) /\ LinksArePaths(Campaign[c]) /\ Ordered(Campaign[c])
  /\ Order \in Seq(Seq(STRING))
  /\ \A n \in DOMAIN NameOf : NameOf[n].bare \in STRING
  /\ MaxMembers \in Nat \ {0} /\ MaxPairs \in Nat \ {0}  \* or else the defaults

\* What identifiers begin with, and what stands for no name.
ASSUME KindsAreStrings ==
  {"", "repo", "folder", "project", "design_doc", "explore_doc", "intent", "festival", "note",
   "tag", "canvas", "attachment", "file", "package"} \subseteq STRING

VARIABLES
  camp,      \* the campaign scanned
  pc,        \* the pass to run next
  cancelled, \* the context is done
  todo,      \* what the pass has yet to visit
  at,        \* node -> its path
  edges,     \* {[from, to, type, src, conf]}
  noteIndex, \* stem -> the note that wiki links to it find
  signals,   \* {<<pair, source, value>>}, the candidate pairs
  npairs,    \* how many pairs were taken
  truncated  \* a budget cut the enumeration

vars == <<camp, pc, cancelled, todo, at, edges, noteIndex, signals, npairs, truncated>>

W == Campaign[camp]
N == DOMAIN at

Passes == <<"scopes", "projects", "festivals", "intents", "workflow", "notes",
            "index", "links", "canvases", "bridge", "code">>
          \o Sources \o <<"aggregate", "metadata", "done">>

After(pass) == Passes[1 + CHOOSE i \in DOMAIN Passes : Passes[i] = pass]

-----------------------------------------------------------------------------
(* What the files say. *)

Blank == [links |-> {}, wiki |-> {}, inline |-> {}, tags |-> {},
          type |-> None, status |-> None, aliases |-> <<>>]
TextOf(p) == IF p \in DOMAIN W.text \ W.unread THEN W.text[p] ELSE Blank

Boundaries == {<<>>} \cup W.nested
Listed == W.listed \ W.dirs    \* files
Dirs == W.dirs \ W.unread      \* directories that can be read

SubDirs(ds) == {d \in W.dirs : d # <<>> /\ Parent(d) \in ds \cap Dirs}
Shown(ds) == {d \in SubDirs(ds) : Last(d) \notin Hidden}

-----------------------------------------------------------------------------
(* Nodes and edges. *)

\* Nodes of a kind that are named by their path.
Named(kind, ps) == [id \in {<<kind>> \o p : p \in ps} |-> Tail(id)]

\* AddNode: takes the place of a node of the same identifier.
Put(old, new) ==
  [id \in DOMAIN old \cup DOMAIN new |-> IF id \in DOMAIN new THEN new[id] ELSE old[id]]

Structural(from, to) ==
  [from |-> from, to |-> to, type |-> "contains", src |-> "structural", conf |-> 10000]
Explicit(from, to, type) ==
  [from |-> from, to |-> to, type |-> type, src |-> "explicit", conf |-> 10000]

\* findExistingFolderAncestor
Home(ids, d) ==
  <<"folder">> \o Deepest({x \in UpFrom(d) : <<"folder">> \o x \in ids})

Placed(ids, p, id) == Structural(Home(ids, Parent(p)), id)

\* The parts of a pass that are visited one by one.
NotesIn(ids) == {id \in ids : id[1] = "note"}
Canvases == {p \in Listed : Ext(p) = "canvas"}
Lifecycles ==
  {<<"festivals", stage>> : stage \in {"active", "planning", "ready", "ritual"}}
  \cup {<<"festivals", "dungeon", stage>> : stage \in {"completed", "archived", "someday"}}

References(ids, es) ==
  {<<e.from, e.to>> : e \in {x \in es : x.type = "references" /\ x.to[1] = "tag"}}
Meta(ids) == [id \in Candidates(ids) |-> IF id[1] = "note" THEN TextOf(Tail(id)) ELSE Blank]

Posting(source, ids, es) ==
  Groups(source, Candidates(ids), References(ids, es), Boundaries, Meta(ids))

ToVisit(pass, ids, es) ==
  CASE pass = "festivals" -> Lifecycles
    [] pass = "links" -> NotesIn(ids)
    [] pass = "canvases" -> Canvases
    [] pass \in ToSet(Sources) ->
         LET groups == Posting(pass, ids, es)
         IN  {list \in {<<v, groups[v]>> : v \in DOMAIN groups} : Cardinality(list[2]) >= 2}
    [] OTHER -> {}

Enter(pass) == pc' = pass /\ todo' = ToVisit(pass, DOMAIN at', edges')

\* Where intents are: three stages and, after them, those of the dungeon.
IntentStages == <<"inbox", "active", "ready">>
IntentDirs ==
  {<<".campaign", "intents", stage>> : stage \in ToSet(IntentStages)} \cup Shown({IntentDungeon})
Turn(d) ==
  IF Parent(d) = IntentDungeon THEN Len(IntentStages) + CHOOSE i \in DOMAIN Order : Order[i] = d
  ELSE CHOOSE i \in DOMAIN IntentStages : IntentStages[i] = Last(d)

\* Directories and files that a pass fails without.
MustRead(pass) ==
  CASE pass = "projects" -> {<<"projects">>}
    [] pass = "festivals" -> Lifecycles
    [] pass = "intents" -> {IntentDungeon} \cup IntentDirs
    [] pass = "workflow" -> {<<"workflow", "design">>, <<"workflow", "explore">>}
    [] pass = "canvases" -> Canvases
    [] OTHER -> {}

RunningOn(pass) == pc = pass /\ MustRead(pass) \cap W.unread = {}  \* mutant
Running(pass) == pc = pass /\ ~cancelled /\ MustRead(pass) \cap W.unread = {}

-----------------------------------------------------------------------------
Unscanned == [id \in {} |-> <<>>]
Init ==
  /\ camp \in DOMAIN Campaign
  /\ pc = "scopes" /\ cancelled = FALSE /\ todo = {}
  /\ at = Unscanned /\ edges = {} /\ noteIndex = Unscanned
  /\ signals = {} /\ npairs = 0 /\ truncated = FALSE

NotInferring == UNCHANGED <<signals, npairs, truncated>>

\* scanScopes: a folder for the root, for each nested repository and for
\* each directory above something listed.
FoldersOfFiles == {<<>>} \cup W.nested \cup {Parent(p) : p \in W.listed}  \* mutant
Folders == {<<>>} \cup W.nested \cup UNION {Ancestors(p) : p \in W.listed}

ScanScopes ==
  /\ Running("scopes")
  /\ at' = Put(at, Put(Named("repo", W.nested), Named("folder", Folders)))
  /\ edges' = edges
               \cup {Structural(<<"folder">> \o Parent(d), <<"folder">> \o d) :
                       d \in {f \in Folders : f # <<>> /\ Parent(f) \in Folders}}
               \cup {Structural(<<"repo">> \o b, <<"folder">> \o b) : b \in W.nested}
  /\ Enter("projects")
  /\ NotInferring /\ UNCHANGED <<camp, cancelled, noteIndex>>

\* A pass that adds nodes for what is in certain directories.
Add(pass, new) ==
  /\ Running(pass)
  /\ at' = Put(at, new) /\ UNCHANGED edges
  /\ Enter(After(pass))
  /\ NotInferring /\ UNCHANGED <<camp, cancelled, noteIndex>>

ByName(kind, ps) ==
  [id \in {<<kind, Last(p)>> : p \in ps} |-> CHOOSE p \in ps : id = <<kind, Last(p)>>]

ScanProjects == Add("projects", ByName("project", Shown({<<"projects">>})))

ScanWorkflow ==
  Add("workflow",
      Put(ByName("design_doc", Shown({<<"workflow", "design">>})),
          ByName("explore_doc", Shown({<<"workflow", "explore">>}))))

\* The name of an intent is that of its file; the last directory wins.
Intents == {p \in W.files : Parent(p) \in IntentDirs \cap Dirs /\ Ext(p) = "md"}
Overtakes(q, p) == Name(q).bare = Name(p).bare /\ Turn(Parent(p)) < Turn(Parent(q))
ScanIntents ==
  LET intents == {p \in Intents : \A q \in Intents : ~Overtakes(q, p)}
  IN  Add("intents", [id \in {<<"intent", Name(p).bare>> : p \in intents} |->
                        CHOOSE p \in intents : Name(p).bare = id[2]])

-----------------------------------------------------------------------------
(* scanFestivals, scanFestivalHierarchy: phases, sequences and tasks are   *)
(* named by their place below the festival, wherever that one is.           *)

Festivals(l) == Shown({l})
Phases(l) == {d \in SubDirs(Festivals(l)) : Last(d) \in PhaseName}
Below(phases) ==
  LET seqs == Shown(phases)
  IN  phases \cup seqs
      \cup {p \in W.files : /\ Parent(p) \in seqs \cap Dirs
                            /\ Ext(p) = "md" /\ Last(p) # "SEQUENCE_GOAL.md"}

FestivalId(l, p) == <<"festival">> \o SubSeq(p, Len(l) + 1, Len(p))

ScanParts(l, phases) ==
  LET parts == Below(phases)
  IN  /\ at' = Put(at, [id \in {FestivalId(l, p) : p \in Festivals(l) \cup parts}
                          |-> l \o Tail(id)])
      /\ edges' = edges \cup {Structural(FestivalId(l, Parent(p)), FestivalId(l, p)) :
                                  p \in parts}
      /\ todo' = todo \ {l}
      /\ NotInferring /\ UNCHANGED <<camp, pc, noteIndex>>

ScanLifecycle(l) ==
  /\ Running("festivals") /\ l \in todo
  /\ ScanParts(l, Phases(l))
  /\ UNCHANGED cancelled

\* Cancelled in the middle of it, the hierarchy is left as it is, silently.
StopInLifecycle(l) ==
  /\ Running("festivals") /\ l \in todo
  /\ \E some \in SUBSET Phases(l) : some # Phases(l) /\ ScanParts(l, some)
  /\ cancelled' = TRUE
-----------------------------------------------------------------------------
(* Notes, links and canvases. *)

\* shouldEmitNoteNode: intents and festival tasks have nodes of their own.
OwnedByPhase(p) ==                                  \* mutant
  \/ IsStrictPrefix(<<".campaign", "intents">>, p)
  \/ p[1] = "festivals" /\ Len(p) >= 5 /\ p[4] \in PhaseName
OwnedByArtifact(p) ==
  \/ IsStrictPrefix(<<".campaign", "intents">>, p)
  \/ p[1] = "festivals" /\ Len(p) >= 5 /\ p[4] \in PhaseName /\ Ext(p) = "md"

NotePaths == {p \in Listed : Ext(p) \in Markdown /\ ~OwnedByArtifact(p)}

\* A note that cannot be read gets its node and nothing else.
ScanNotes ==
  /\ Running("notes")
  /\ at' = Put(at, Named("note", NotePaths))
  /\ edges' = edges \cup {Placed(N, p, <<"note">> \o p) : p \in NotePaths \ W.unread}
  /\ Enter("index")
  /\ NotInferring /\ UNCHANGED <<camp, cancelled, noteIndex>>

\* buildNoteBasenameIndex: of the notes of one stem, any may be the first.
StemsOf(ids) == {Name(Tail(id)).stem : id \in NotesIn(ids)} \ {""}
IndexNotes ==
  /\ Running("index")
  /\ noteIndex' \in {index \in [StemsOf(N) -> NotesIn(N)] :
                       \A stem \in StemsOf(N) : Name(Tail(index[stem])).stem = stem}
  /\ UNCHANGED <<at, edges>>
  /\ Enter("links")
  /\ NotInferring /\ UNCHANGED <<camp, cancelled>>

\* resolveTargetID
KnownAssumed(ids, p) == {<<"note">> \o p}           \* mutant
KnownAt(ids, p) ==
  LET known == {kind \in {"note", "canvas", "attachment"} : <<kind>> \o p \in ids}
  IN  IF "note" \in known THEN {<<"note">> \o p}
      ELSE IF "canvas" \in known THEN {<<"canvas">> \o p}
      ELSE {<<kind>> \o p : kind \in known}

\* emitMarkdownLinks: what is not markdown and not known is an attachment.
Linked(n) ==
  {Resolve(IF link.abs THEN <<>> ELSE Parent(Tail(n)), link.to) :
     link \in TextOf(Tail(n)).links} \ {Outside}
LinkTargets(n) ==
  UNION {IF KnownAt(N, p) # {} THEN KnownAt(N, p)
         ELSE IF Ext(p) \in Markdown THEN {} ELSE {<<"attachment">> \o p} : p \in Linked(n)}

\* resolveWikiTargetID
WikiByStem(target) ==                               \* mutant
  {noteIndex[x] : x \in {Name(target).stem} \cap DOMAIN noteIndex}
WikiTarget(target) ==
  LET exact == {<<"note">> \o target} \cap N
      stem == Name(target).stem
      suffixed == {id \in NotesIn(N) :
                     /\ Len(id) = Len(target) + 1 /\ Front(Tail(id)) = Front(target)
                     /\ Name(Tail(id)).bare = Last(target) /\ Ext(Tail(id)) = "md"}
  IN  IF exact # {} THEN exact
      ELSE IF suffixed # {} THEN suffixed
      ELSE {noteIndex[x] : x \in {stem} \cap DOMAIN noteIndex}

NoPath == <<"">>

LinkNote(n) ==
  /\ Running("links") /\ n \in todo
  /\ LET text == TextOf(Tail(n))
         tags == {<<"tag", t>> : t \in text.inline}
         found == LinkTargets(n) \cup UNION {WikiTarget(t) : t \in text.wiki}
     IN  /\ at' = Put(at, [id \in (LinkTargets(n) \cup tags) \ N |->
                             IF id[1] = "tag" THEN NoPath ELSE Tail(id)])
         /\ edges' = edges \cup {Explicit(n, id, "links_to") : id \in found}
                            \cup {Explicit(n, id, "references") : id \in tags}
  /\ todo' = todo \ {n}
  /\ NotInferring /\ UNCHANGED <<camp, pc, cancelled, noteIndex>>

\* extractCanvasLinks, in the order of the paths: a canvas finds those before
\* it, itself, and no file that nothing made an attachment.
LinkCanvas ==
  /\ Running("canvases") /\ todo # {}
  /\ LET p == SelectSeq(Order, LAMBDA x : x \in todo)[1]
         canvas == <<"canvas">> \o p
         targets == UNION {KnownAt(N \cup {canvas}, Resolve(<<>>, names)) : names \in W.canvas[p]}
     IN  /\ IF p \notin DOMAIN W.canvas THEN UNCHANGED <<at, edges>>    \* malformed
            ELSE /\ at' = Put(at, Named("canvas", {p}))
                 /\ edges' = edges \cup {Placed(N, p, canvas)}
                              \cup {Explicit(canvas, id, "links_to") : id \in targets}
         /\ todo' = todo \ {p}
  /\ NotInferring /\ UNCHANGED <<camp, pc, cancelled, noteIndex>>

\* The walk of a pass is at its end.
Proceed ==
  /\ Running(pc) /\ todo = {}
  /\ pc \in {"festivals", "links", "canvases"} \cup ToSet(Sources)
  /\ UNCHANGED <<at, edges>>
  /\ Enter(After(pc))
  /\ NotInferring /\ UNCHANGED <<camp, cancelled, noteIndex>>

-----------------------------------------------------------------------------
(* bridgeArtifactsToScopes: an artifact in the folder of its last path. *)

IsBridgeable(id) ==
  \/ id[1] \in {"project", "intent", "design_doc", "explore_doc"}
  \/ id[1] = "festival" /\ Len(id) = 2

Bridge ==
  /\ Running("bridge")
  /\ edges' = edges \cup {Placed(N, at[id], id) : id \in {x \in N : IsBridgeable(x)}}
  /\ UNCHANGED at
  /\ Enter("code")
  /\ NotInferring /\ UNCHANGED <<camp, cancelled, noteIndex>>

-----------------------------------------------------------------------------
(* extractCodeSlices: source files of the nested repositories. *)

Languages == {"go", "ts", "tsx", "js", "jsx", "py", "rs", "rb", "java",
              "c", "h", "cc", "cpp", "hpp"}

CodeFiles == {p \in Listed : Ext(p) \in Languages /\ BoundaryFor(Boundaries, p) # <<>>}

\* The Go files whose package clause is found, and the package's node.
GoFiles == {p \in CodeFiles \cap DOMAIN W.package : Ext(p) = "go" /\ p \notin W.unread}
PackageByName(p) == <<"package", W.package[p]>>     \* mutant
PackageOf(p) == <<"package">> \o Append(Parent(p), W.package[p])

CodeSlices ==
  /\ Running("code")
  /\ at' = Put(at, Put(Named("file", CodeFiles),
                       [id \in {PackageOf(p) : p \in GoFiles} |-> Front(Tail(id))]))
  /\ edges' = edges
       \cup {Placed(N, p, <<"file">> \o p) : p \in CodeFiles}
       \cup UNION {{Placed(N, p, PackageOf(p)), Structural(PackageOf(p), <<"file">> \o p)} :
                     p \in GoFiles}
  /\ Enter(After("code"))
  /\ NotInferring /\ UNCHANGED <<camp, cancelled, noteIndex>>

-----------------------------------------------------------------------------
(* GenerateCandidates: once truncated, each source stops after its first   *)
(* posting list.                                                           *)

Enumerate(list) ==
  /\ Running(pc) /\ pc \in ToSet(Sources) /\ list \in todo
  /\ \E kept \in Kept(list[2]) :
       LET pairs == PairsIn(kept)
           taken == Taken(pairs, MaxPairs - npairs)
       IN  /\ signals' = signals \cup {<<<<q[1][1], q[2][1]>>, pc, list[1]>> : q \in taken}
           /\ npairs' = npairs + Cardinality(taken)
           /\ truncated' = (truncated \/ kept # list[2] \/ taken # pairs)
  /\ todo' = IF truncated' THEN {} ELSE todo \ {list}
  /\ UNCHANGED <<camp, pc, cancelled, at, edges, noteIndex>>

\* A cancelled enumeration says that it was truncated, and no more.
StopEnumerating ==
  /\ cancelled /\ pc \in ToSet(Sources)
  /\ truncated' = TRUE
  /\ pc' = "aggregate" /\ todo' = {}
  /\ UNCHANGED <<camp, cancelled, at, edges, noteIndex, signals, npairs>>

Aggregate ==
  /\ Running("aggregate")
  /\ edges' = edges \cup InferredEdges(signals)
  /\ UNCHANGED at
  /\ Enter("metadata")
  /\ NotInferring /\ UNCHANGED <<camp, cancelled, noteIndex>>

\* extractFestivalMetadata, extractIntentMetadata.  No pass adds chains, and
\* so no festival is found to be in one.
MetadataEdges(id) ==
  LET p == at[id]
      Related(x) == [Explicit(id, x, "relates_to") EXCEPT !.conf = 8000]
      Projects(names) == {<<"project", n>> : n \in names} \cap N
  IN  IF p \in W.unread THEN {}
      ELSE IF id[1] = "festival" /\ Len(id) = 2 /\ p \in DOMAIN W.fest
      THEN {Explicit(id, x, "links_to") : x \in Projects({W.fest[p]})}
      ELSE IF id[1] = "intent" /\ p \in DOMAIN W.intent
      THEN {Explicit(id, x, "gathered_from") : x \in Projects(W.intent[p].gathered)}
           \cup {Related(x) : x \in Projects(W.intent[p].related)}
      ELSE {}

Metadata ==
  /\ Running("metadata")
  /\ edges' = edges \cup UNION {MetadataEdges(id) : id \in N}
  /\ UNCHANGED at
  /\ Enter("done")
  /\ NotInferring /\ UNCHANGED <<camp, cancelled, noteIndex>>

-----------------------------------------------------------------------------
Cancel ==
  /\ pc \notin {"done", "failed"} /\ ~cancelled
  /\ cancelled' = TRUE
  /\ UNCHANGED <<camp, pc, todo, at, edges, noteIndex, signals, npairs, truncated>>

\* The scan returns an error and no graph.
Fail ==
  /\ pc \notin {"done", "failed"} \cup ToSet(Sources)
  /\ cancelled \/ MustRead(pc) \cap W.unread # {}
  /\ pc' = "failed" /\ todo' = {}
  /\ UNCHANGED <<camp, cancelled, at, edges, noteIndex, signals, npairs, truncated>>

Next ==
  \/ ScanScopes \/ ScanProjects \/ ScanIntents \/ ScanWorkflow
  \/ \E l \in todo : ScanLifecycle(l) \/ StopInLifecycle(l)
  \/ ScanNotes \/ IndexNotes
  \/ \E n \in todo : LinkNote(n)
  \/ LinkCanvas \/ Proceed \/ Bridge \/ CodeSlices
  \/ \E list \in todo : Enumerate(list)
  \/ StopEnumerating \/ Aggregate \/ Metadata
  \/ Cancel \/ Fail

Spec == Init /\ [][Next]_vars

-----------------------------------------------------------------------------
(* Properties. *)

\* The shape of the state: paths and identifiers, one confidence range, and
\* no more pairs than the budget allows (inference.go:255-283).
TypeOK ==
  /\ camp \in DOMAIN Campaign /\ pc \in ToSet(Passes) \cup {"failed"}
  /\ cancelled \in BOOLEAN /\ truncated \in BOOLEAN
  /\ N \subseteq Seq(STRING) \ {<<>>}
  /\ \A id \in N : at[id] \in Seq(STRING)
  /\ \A e \in edges : e.src \in {"structural", "explicit", "inferred"}
                      /\ e.conf \in MinConfidence .. 10000
  /\ npairs \in 0 .. MaxPairs

\* Every edge joins two nodes of the graph: what the store's foreign keys
\* and the ledger's ingest both rely on, and AddEdge does not check.
EndsExist == \A e \in edges : {e.from, e.to} \subseteq N

\* A container lies at or above what it contains.  The exception is a
\* festival of the same name in two stages: they are one node, at one of the
\* two places, with the phases of both (scanner.go:175-178).
SeveralPlaces(name) ==
  Cardinality({l \in Lifecycles : \E p \in Festivals(l) : Last(p) = name}) > 1

ContainersNest ==
  \A e \in edges : e.type = "contains" =>
    \/ Within(at[e.to], at[e.from])
    \/ e.from[1] = "festival" /\ SeveralPlaces(e.from[2])

\* In a finished graph whatever has a place in the tree is in a container,
\* so that it is reached from the root or, for a repository in a directory
\* with nothing listed, from its repository: a parent that is no scope is passed
\* over there (scopes.go:187-216), though the comment at 212-214 has it
\* registered.  A note that could not be read is in none (notes.go:75-81).
Unplaced(id) ==
  \/ id[1] \in {"repo", "tag", "attachment"} \/ id = <<"folder">>
  \/ id[1] = "note" /\ Tail(id) \in W.unread

Contained ==
  pc = "done" =>
    \A id \in N : Unplaced(id) \/ \E e \in edges : e.type = "contains" /\ e.to = id

\* Two passes, each with a rule of its own, divide the markdown between
\* artifacts and notes (scanner.go:217-222, notes.go:157-193).  No file gets
\* two nodes, but for the tasks of festivals in the dungeon; and none that is
\* on disk gets lost but what the artifact passes look past: intents not
\* directly in a stage, or of one name with one that is read later; and what
\* looks like a task to the notes' rule and has no place in a known stage, is
\* below something hidden or unreadable, or shares its festival's name.
Standing(p) == {id \in N : id[1] \in {"note", "intent", "festival"} /\ at[id] = p}

IsTaskPlace(p) ==
  /\ Len(p) = 6 /\ <<p[1], p[2]>> \in Lifecycles /\ Last(p) # "SEQUENCE_GOAL.md"
  /\ {p[3], p[5]} \cap Hidden = {} /\ Ancestors(p) \cap W.unread = {}

LookedPast(p) ==
  \/ IsStrictPrefix(<<".campaign", "intents">>, p)
       /\ \/ Parent(p) \notin IntentDirs \/ Ext(p) # "md"
          \/ \E q \in Intents \ {p} : Name(q).bare = Name(p).bare /\ ~Overtakes(p, q)
  \/ p[1] = "festivals" /\ Len(p) >= 5 /\ p[4] \in PhaseName /\ Ext(p) = "md"
       /\ (~IsTaskPlace(p) \/ SeveralPlaces(p[3]))

InDungeon(p) == Within(p, <<"festivals", "dungeon">>)

OneIdentity ==
  pc = "done" =>
    \A p \in {x \in Listed : Ext(x) \in Markdown} :
      /\ Cardinality(Standing(p)) <= 1 \/ InDungeon(p)
      /\ Standing(p) # {} \/ p \notin W.files \/ LookedPast(p)

\* What notes link to is a matter of the files and not of the order in which
\* a map gives the notes up, where no two notes share a stem (links.go:52-62):
\* a link finds the note of that path, or else is to an attachment, even if
\* a canvas of that path is found later; a wiki link finds the note of that
\* path, or of that name in its directory, or else by the stem, if there is one.
DeclaredLinks(n) ==
  {IF p \in NotePaths THEN <<"note">> \o p ELSE <<"attachment">> \o p :
     p \in {q \in Linked(n) : q \in NotePaths \/ Ext(q) \notin Markdown}}

NotesAt(target) ==
  LET suffixed == {p \in NotePaths : /\ Parent(p) = Parent(target) /\ Ext(p) = "md"
                                     /\ Name(p).bare = Last(target)}
  IN  IF target \in NotePaths THEN {target} ELSE suffixed

NotesOfStem(stem) == {p \in NotePaths : Name(p).stem = stem /\ stem # ""}

Ambiguous(target) ==
  NotesAt(target) = {} /\ Cardinality(NotesOfStem(Name(target).stem)) > 1

DeclaredWiki(target) ==
  {<<"note">> \o p : p \in IF NotesAt(target) # {} THEN NotesAt(target)
                            ELSE NotesOfStem(Name(target).stem)}

LinksAsDeclared(n) ==
  LET text == TextOf(Tail(n))
      found == {e.to : e \in {x \in edges : x.from = n /\ x.src = "explicit"}}
      sure == DeclaredLinks(n) \cup {<<"tag", t>> : t \in text.inline}
              \cup UNION {DeclaredWiki(t) : t \in {x \in text.wiki : ~Ambiguous(x)}}
      either == UNION {DeclaredWiki(t) : t \in {x \in text.wiki : Ambiguous(x)}}
  IN  sure \subseteq found /\ found \subseteq sure \cup either

LinksOrderFree == pc = "canvases" => \A n \in NotesIn(N) : LinksAsDeclared(n)

\* A cancelled hierarchy stops without an error (scanner.go:192-195); yet a
\* scan that returns a graph has every part of every festival in it, because
\* a later pass asks the context again.
WholeFestivals ==
  pc = "done" =>
    \A l \in Lifecycles : \A p \in Festivals(l) \cup Below(Phases(l)) : FestivalId(l, p) \in N

-----------------------------------------------------------------------------
(* What two nodes share, stated of the pair and of the files alone. *)

SharedValues(a, b) ==
  LET p == Tail(a)  q == Tail(b)  x == Meta(N)[a]  y == Meta(N)[b]
      Over(r) == {SubSeq(r, 1, i) : i \in 1 .. Len(r) - 2}
      Tags(id) == Meta(N)[id].tags \cup (IF id[1] = "note" THEN TextOf(Tail(id)).inline ELSE {})
      Same(kind, u, v) == IF u = v /\ u # None THEN {<<"shared_frontmatter", <<kind, u>>>>} ELSE {}
  IN  (IF Parent(p) = Parent(q) THEN {<<"same_folder", Parent(p)>>} ELSE {})
      \cup {<<"shared_ancestor", d>> : d \in Over(p) \cap Over(q)}
      \cup {<<"shared_tag", t>> : t \in Tags(a) \cap Tags(b)}
      \cup Same("type", x.type, y.type) \cup Same("status", x.status, y.status)
      \cup {<<"shared_frontmatter", <<"alias", v>>>> :
               v \in (ToSet(x.aliases) \cap ToSet(y.aliases)) \ {None}}
      \cup (IF a[1] = "note" /\ b[1] = "note"
               /\ BoundaryFor(Boundaries, p) = BoundaryFor(Boundaries, q)
            THEN {<<"shared_repo_root", BoundaryFor(Boundaries, p)>>} ELSE {})

\* A note shares with itself an alias that it states twice.
Repeated(aliases) ==
  {aliases[i] : i \in {k \in DOMAIN aliases : \E j \in 1 .. k - 1 : aliases[j] = aliases[k]}} \ {None}

Shared(a, b) ==
  IF a # b THEN SharedValues(a, b)
  ELSE {<<"shared_frontmatter", <<"alias", v>>>> : v \in Repeated(Meta(N)[a].aliases)}

\* The type is the one the code gives, and not the one its comment promises
\* to a pair that shares an alias: see InferredEdge.
DeclaredEdge(a, b) ==
  InferredEdge(<<a, b>>, Evidence({<<<<a, b>>, s[1], s[2]>> : s \in Shared(a, b)}, <<a, b>>))

Inferred == {e \in edges : e.src = "inferred"}

\* However the budgets cut the enumeration, what it yields is evidence that
\* the files give: an inferred edge joins, in one direction only, two nodes
\* that share something, and is not surer than all they share would make it.
\* It is similar_to for three shared tokens and relates_to for all else, a shared
\* alias included: the code's rule (inference_aggregate.go:39-46), which differs
\* from its comment (36-38).
InferenceSound ==
  \A e \in Inferred :
    /\ {e.from, e.to} \subseteq Candidates(N)
    /\ Shared(e.from, e.to) # {}
    /\ e.conf <= DeclaredEdge(e.from, e.to).conf
    /\ e.type = DeclaredEdge(e.from, e.to).type
    /\ \A x \in Inferred : {x.from, x.to} = {e.from, e.to} => x = e

\* Within the budgets, no list cut and room for all pairs, nothing is missed:
\* each pair that shares something has the edge that all of it adds up to,
\* and the set says whether it was cut (inference.go:60-69, 251-284).  Types
\* are the code's here, too, and relates_to where only an alias is shared.
PostingLists ==
  UNION {{<<s, v>> : v \in DOMAIN Posting(s, N, edges)} : s \in ToSet(Sources)}
MembersOf(list) == Posting(list[1], N, edges)[list[2]]

WithinBudget ==
  /\ \A list \in PostingLists : Cardinality(MembersOf(list)) <= MaxMembers
  /\ FoldSet(LAMBDA list, n : Cardinality(PairsIn(MembersOf(list))) + n, 0, PostingLists)
       <= MaxPairs

InferenceComplete ==
  pc = "done" =>
    /\ truncated = ~WithinBudget
    /\ WithinBudget =>
         Inferred = {e \in {DeclaredEdge(q[1], q[2]) :
                               q \in {x \in Candidates(N) \X Candidates(N) :
                                         x[1] = x[2] \/ Earlier(x[1], x[2])}} :
                       e.conf >= MinConfidence /\ Shared(e.from, e.to) # {}}
=============================================================================
