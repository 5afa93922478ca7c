# camp-graph: a TLA+ development

camp-graph scans a *campaign* (a directory of projects, notes, festivals,
intents and git repositories), builds a graph of it, keeps the graph and a
full-text index in one SQLite file, and answers queries from that file on the
command line and in a terminal browser.  This directory holds TLA+ modules
translated from the Go sources, the TLC configurations that check them, and
TLAPS proofs.  Names follow the code; `PROJECT.json` maps every definition to
its lines.

## 1. The system

| part | state it keeps | operations | talks to |
|---|---|---|---|
| refresh runtime (`internal/runtime`) | none of its own; `indexed_files` and `graph_meta` rows | decide mode, load prior rows, diff, stamp, rebuild | scanner, ledger, store |
| build command (`cmd/camp-graph/build.go`) | none | scan, ingest, search documents, save | scanner, ledger, store |
| store (`internal/graph/store.go`, `persist.go`) | the SQLite file: nodes, edges, search_docs (+ FTS mirror), indexed_files, graph_meta | open/migrate, save in one transaction, wipe, load | every command |
| in-memory graph (`graph.go`) | node map, edge slice | AddNode, AddEdge, Subgraph, Neighbors | scanner, ledger, TUI, renderers |
| scanner inventory (`inventory*.go`, `repo_inventory.go`, `git_probe.go`) | boundaries and file entries of one scan | discover nested repositories, classify with git, walk | file system, git |
| scanner passes (`scanner.go`, `notes.go`, `links.go`, `scopes.go`, `code.go`) | the graph being built | artifacts, scopes, notes, links, code slices | file system |
| inference (`inference*.go`) | candidate pairs under a budget, score per pair | generate, aggregate, emit edges | graph |
| ledger ingest (`internal/ledger`) | edge set already seen, workitem index | apply events in order, reconcile, repair | graph, event log |
| search (`internal/search`) | search_docs and FTS rows | upsert/delete document, query, related, resolve | store |
| TUI browser (`internal/tui`, `chips`) | query text, filters, generation, results, cursor, preview, micrograph history | key handlers; two kinds of asynchronous answers | search, graph |
| other commands, renderers, errors, release tooling | none | flag parsing and formatting | the above |

**How the parts meet.** There is no daemon.  Commands are separate processes
that share the worktree (which the user edits at any time) and the SQLite file
(which any command may open, and opening may drop and recreate its tables).
Inside the browser, key presses are handled one at a time while query and
preview goroutines answer later and in any order.

**What is hard.**

1. A note is read at five moments of one run (frontmatter, links, search body,
   hash, mtime), and the row written last is what all later runs trust.
2. Commands interleave with each other, with edits and with crashes; the schema
   is probed outside the transaction that drops the tables.
3. `refresh` may skip all work (no-op path) on the word of rows an earlier run
   wrote; whether it may is a property of the whole history.
4. `graph_meta` is also written outside the big transaction, one key at a time.
5. Readers (`LoadGraph`, `LoadStatus`) issue several queries without a
   transaction.
6. Browser answers arrive late, in any order, after the user moved on.
7. Ledger events correct and reconcile earlier ones, so their order matters.
8. Inference truncates at a budget before it sorts.

**What makes each part correct.**

- *refresh/build*: after a run that nobody disturbed the database describes the
  worktree; a matching row vouches for its node and document; no needless
  rebuild; everything heals once edits cease.
- *store*: what was indexed is what the documents say, through any sequence of
  builds, single writes, wipes and migrations; a search answers for the
  documents as they are; opening never loses a current database.
- *readers*: a list of related nodes is ranked and without repetition, a
  neighbourhood is what lies within the hops, whatever is committed between
  their queries.
- *browser*: the list belongs to the current query and filters once answers are
  in; one live query at a time; the cursor is on a row; the way
  back through the micrograph is the way that led there.
- *ledger*: what an event adds does not depend on the events before it, every
  edge has its ends, no later event makes an edge less sure.
- *inventory*: every file is listed once, by its own repository; none that is
  ignored; none that is not is lost.
- *scanner*: every edge has its ends; containers nest and contain all; no file
  has two identities; neither a map's order nor a cancellation shows in a graph
  that is returned.
- *inference*: an edge is evidence that the files give, and within the budgets
  all of it.

## 2. Plan

Most important first.  Runs are few and each asks one question.

1. **Refresh** (done): the commands against worktree and database; proofs in
   `RefreshProofs`.
2. **Browser** (done): the event loop with its asynchronous queries and
   previews; proofs in `BrowserProofs`.
3. **Store** and **Readers** (done): every writer of the tables, and commands
   that read them with several queries; proofs in `StoreProofs`.
4. **Ledger** (done): `Ingest` event by event, shown to implement the abstract
   `LedgerView`; whether a log can yield an edge to a node that does not exist,
   which the store's foreign keys refuse; proofs in
   `LedgerProofs`.
5. **Worktree**, **Inference**, **Scan** (done): the passes that make a graph of
   a campaign, with map orders, unreadable files, cancellation and budgets;
   proofs in `ScanProofs` (the passes) and `InferenceProofs` (the inferred edges).
6. **Inventory** (done): discovery, git and the walk against a user who edits;
   proofs in `WorktreeProofs` (paths and boundaries) and `InventoryProofs`.
7. Left: `LoadStatus` as a reader; the score boosts of `related` and `query`.

Composition: `Readers` extends `Store` with processes that read it; `Scan` is
built on `Inference` and both, like `Inventory`, on `Worktree`.  What a scan
returns is what `Ledger` starts from (its scan is a parameter) and what `Store`
saves (its builds are a parameter); `Ledger` and `Store` assume of it what
`EndsExist` of `Scan` says.

## 3. Module Refresh

`Refresh.tla` models `build`, `refresh` and every command that only opens the
store (`cmd` = `"read"`), as processes of `Proc`, against one worktree `fs` and
one database.

| model | code |
|---|---|
| `fs` | the files the inventory lists: `Note` (markdown notes) and `DbFile` (the database itself, when it lies in the campaign and git does not ignore it) |
| `tables`, `schema` | existence of the managed tables; `graph_meta.graph_schema_version` |
| `scopes`, `nodes`, `docs`, `rows` | nodes table (folder nodes, note nodes), search_docs, indexed_files |
| `at`, `mode` | `last_refresh_at` (as the mode of the run that wrote it) and `last_refresh_mode` |
| `lock` | the process that holds SQLite's write lock |
| `pc` and the memory variables | where a command is and what it holds: prior rows, inventory, scanned graph, documents, index records |
| `edited`, `raced`, `torn`, `dbTorn`, `touched` | history, read by no action of the program; they delimit what the properties may ask for |

Actions, in program order: `Probe`, `Drop`, `Create` (OpenStore); `Decide`,
`CountNodes` (decideMode: two queries); `LoadPrior`; `BuildInventory`; `Diff`
(diffInventory and the fast-path test); `WriteStamp` (UpdateRefreshMeta, one
autocommitted write per step); `Scan`, `ReadNote`, `ReadLinks`, `ReadDoc`,
`Hash`, `Stat`, `NextPass` (the heavy path, one file read per step); `Save`,
`Commit` (SaveFullBuildWithIndex); `Finish`; `Fail` (the errors that other
processes cause); `Kill` (crash, cancelled context or I/O error at any point).
`build` scans before it opens the store, `refresh` after.  `Write`, `Delete`,
`Touch` are the user's; `DeleteAll` empties the graph behind the index's back.

What the abstraction keeps of a node is what each read saw: `fm` for the
frontmatter pass, `links` for the link pass.  Contents, hashes and bodies are
one set, because a SHA-256 of the bytes stands for the bytes.

Choices a reader should know:

- *Diff is one step.*  The loop stats file after file.  Each file's verdict
  depends on that file alone, and the prior rows and the inventory are already
  fixed, so a run of the loop interleaved with edits gives the verdicts of a
  single moment for which each edit is placed before or after it.
- *createTablesSQL is one step.*  Its statements are `IF NOT EXISTS` and are
  not one transaction; a crash between them is completed by the next opening
  command, and what another command can meet meanwhile is the failure `Fail`.
- *A fresh edit takes a fresh mtime.*  Editors that restore an old mtime defeat
  any stat-first scheme and are not modelled.
- `scopes` stands for the nodes no note produces; `scanScopes` always writes
  `folder:.`, so the nodes table of a saved build is never empty.
- `Init` has no command running and no database, or one of another schema.
  Databases of the current schema are reached by running commands.
- Git state, boundaries and ignore rules reduce to *which files the inventory
  lists*.  A scan error (an unreadable canvas, a directory that vanishes under
  the walk) ends the run, as `Kill` does.
- A scanned graph can be saved.  An edge to a node that does not exist would
  fail `Commit` on every run; module Ledger shows where such an edge can come
  from.
- `liveCounts`, reports and printed text are read-only and left out.

### Properties

| property | says |
|---|---|
| `TypeOK` | type invariant |
| `QuietRunFresh` | a run that succeeds undisturbed leaves the database equal to the worktree, whatever came before, except for notes edited inside the read window of the last committed run (`dbTorn`) |
| `RowsVouch` | a row that matches the file by mtime or by hash vouches for node and document, in every state |
| `DbCoherent` | documents, nodes and rows agree in every committed state |
| `NoNeedlessRebuild` | an incremental refresh rebuilds only because a note's content changed |
| `IInv` | the inductive invariant of section 11 |
| `NeverDropsCurrent` | a database of the current schema is never thrown away (one command at a time) |
| `Heals` | liveness: once interference ceases the database becomes and stays current |
| `StaleAfterIsRight` | what comments of the code promise and the code does not keep (section 10) |

## 4. Module Browser

`Browser.tla` models the Bubble Tea program of `internal/tui`: `Update` takes
one message at a time, a key or the answer of a goroutine.  Queries in flight
(`asks`) and previews in flight (`fetches`) are sets: their answers may come in
any order, and none need come.  Search results (`Hits`), filtered anchors
(`Anchors`), types and neighbors are parameters, so every statement holds for
any database and graph.

| model | code |
|---|---|
| `term`, `chip`, `scope` | `search.Value()`, the three chips' settings as one value, `m.scope` |
| `queryGen`, `held` | `m.queryGen`; which query `m.queryCancel` cancels, 0 for nil |
| `asks` | goroutines of `runQueryCmd`, `live` until their context is cancelled |
| `groups`, `anchors`, `cursor` | `m.groups` (and `m.results`, from which it is derived), `m.filteredAnchors`, `m.cursor` |
| `fetches`, `pHeld`, `pFocus`, `pane`, `issued` | goroutines of `runPreviewCmd`, `m.previewCancel`, `m.previewFocusID`, `m.previewNode`, a number that tells two previews of one row apart |
| `focus` | `m.focus`, `m.searching`, and `prevFocus` under the help overlay |
| `micro`, `history` | `m.focusNode` while `mode` is the micrograph, `m.history` |
| `failed`, `stray` | history, read by no action of the program |

Actions: `Move` (every motion, with `issuePreview`), `SwitchFocus`,
`ClearScope` (`C`), `Widen` (`a`), `ToggleGroup` and `OpenRow` (`enter`);
`Type`, `SearchEsc`; `PickChip`; `PickScope`; `Help`; `MicroFollow`,
`MicroBack`, `MicroQuit`; `Quit`; and the two messages, `LandQuery` and
`LandPreview`.  `IssueQuery` is the whole of `issueQuery`, with its
empty-text path.

Choices a reader should know:

- *An answer's content is decided when it lands.*  A goroutine ends with rows or
  an error at some moment before; nothing reads its content earlier.  A
  cancelled one may still end with rows (it was done before it looked) and a
  live one with an error.
- *The database does not change while a browser is open* as far as `Hits` goes:
  a refresh under an open browser changes what a query finds, and the properties
  relate the list to the query, not to time.  That a result may name a node
  newer than the loaded graph is kept (`Known`).
- `return m, m.issueQuery()` returns a copy of `m` and calls a method that
  changes `m` in one statement.  The language leaves the order of the copy and
  the call open; the gc compiler calls first, as the tests rely on, and so does
  the model.
- The count prefix is a number up to `MaxCount`, half a page a constant; window
  size, scrolling of the pane, the micrograph's own cursor and the cursors of
  chips and picker are not state here: a step chooses what they would select.
- `m.focus` stays `focusSearch` after the search field is left, which no handler
  tells from `focusList`; in a narrow window `tab` does nothing, a stutter.
- The generation is 64 bits wide and does not wrap.
- `previewEdges`, `previewRelated` and the scroll position are assigned with
  `previewNode` and never apart from it.

### Properties

| property | says |
|---|---|
| `TypeOK` | type invariant |
| `ListIsCurrent` | with a search text, once the newest query has landed, the list shows what the search finds for the current settings, in display order; `Displayed` says it without `groupByType`, by how many hits come before |
| `AnchorsFollowFilters` | without one, the anchors are those of the current chips and scope |
| `OneLiveQuery` | only the newest query runs uncancelled, none when the text is empty |
| `CursorOnGroups` | the cursor is on a line of the groups through folding, shrinking and late answers |
| `PreviewSettles` | after a cursor move the pane settles on the row under the cursor, whatever the order of answers |
| `HistoryIsWalk` | the micrograph's history is a walk along shown edges; the list has none |
| `BInv` | the inductive invariant of section 11 |
| `Settles` | liveness: once no setting changes and no query is issued, the list comes to show the current result and keeps it, however the user goes on moving and folding |

`PreviewSettles` leaves out states where the row under the cursor changed
without a motion (`stray`): landing, folding and filtering issue no preview.
`CursorOnGroups` is about groups because a filter that shortens the anchors
does not clamp the cursor; `enter` and the preview test the range instead.

## 5. Modules LedgerNames, Ledger and LedgerView

`Ledger.tla` models `Ingest`: one step per event, on the graph that the scan
left.  `LedgerNames.tla` holds the lookups of names, `LedgerView.tla` what an
ingest promises.

| model | code |
|---|---|
| `nodes`, `edges` | the graph: identifier to status, times and the repaired mark; edge to source and confidence |
| `edgeSeen` | `ingestState.edgeSeen` |
| `index` | the workitem index, fixed before the first event |
| `log` | the events read, in order |

Actions, one per kind of event: `CreatedOrTransitioned`, `Completed`, `Decided`,
`Evidence`, `Repaired`, `Reconciled`, `Unknown`.  A reconciled event that names
another kind is applied as that one, with the source `reconciled` (`AppliedAs`).

Choices a reader should know:

- *A lookup is the set of what it may find.*  Several of them take the first match
  of a Go map's iteration: a festival by the end of its name, a task by its own
  name, a document by its slug.  The code looks the same scope up more than once
  in one event, each time anew, and so does the model.
- *An identifier is a tuple of names*, so that "the part before the last slash" is
  `Front`.  Which names end with which reference is a parameter, `EndsWith`.
- *An edge is told by its ends and type.*  The scan may leave several that agree
  on them; the store keeps the first, and so does `addEdge` when it looks for
  one.
- *Events come in any order and may repeat.*  The reader merges files, and each
  prefix of a ledger is a ledger, so that every state is the result of one; a
  cancelled context ends an ingest and its graph is dropped.
- Titles, notes, subtypes, paths and the counts of the report are left out.
- Confidences are in tenths.

`LedgerView` has no order: an event adds `Names(e)` to the nodes and, to the
edges, at least `Must(e)` and at most `May(e)`, sets that depend on the event,
the scan and the index alone.  They differ only where a name is ambiguous.  So
reading a ledger in another order, or events of it again, gives the same
nodes and edges, as the comment of `ingest.go` asks, unless a name is ambiguous.

### Properties

| property | says |
|---|---|
| `TypeOK` | type invariant; a containment edge starts at a node's name |
| `OnlyPriorsDangle` | every edge has both nodes, except a decision's to a prior one |
| `NeverLessSure` | no event removes an edge, lowers its confidence or turns it into a guess |
| `AddsWhatItSays` | Ledger implements LedgerView |
| `EndsExist` | what the schema demands of every edge (section 10) |

## 6. Modules Worktree, Inference and Scan

`Scan.tla` models `Scanner.Scan`: the passes that make a graph of a campaign
directory and its inventory.  `Worktree.tla` holds paths, `Inference.tla` the
posting lists, pairs and scores as operators over nodes.

| model | code |
|---|---|
| `camp` (`W`) | the campaign: `dirs`, `files` on disk, `listed` by the inventory, `nested` repositories, `unread` files and directories, what the files say |
| `pc`, `todo` | the pass, and what of it is yet to be visited: stages, notes, canvases, posting lists |
| `at`, `edges` | the graph: node to path, edges by ends, type, source and confidence |
| `noteIndex` | the result of `buildNoteBasenameIndex` |
| `signals`, `npairs`, `truncated` | the `CandidateSet` |
| `cancelled` | the context is done |

One action per pass (`ScanScopes`, `ScanProjects`, `ScanIntents`, `ScanWorkflow`,
`ScanNotes`, `IndexNotes`, `Bridge`, `CodeSlices`, `Aggregate`, `Metadata`) and,
where a pass walks a map or may stop in the middle, one per thing visited
(`ScanLifecycle`, `LinkNote`, `LinkCanvas`, `Enumerate`).  `StopInLifecycle` and
`StopEnumerating` are the two places where a done context ends a loop without an
error; `Fail` is every other.

Choices a reader should know:

- *A path is the tuple of its names*, an identifier its kind followed by names.  What
  a name's extension and stem are is a parameter (`NameOf`), as is the order of
  paths as strings.
- *Passes whose order does not show are one step.*  A step stands for a loop whose
  rounds add nodes and edges that no later round reads.  Notes are linked one by
  one, because a link finds what earlier notes have added.
- *A file does not change under a scan*; Refresh has that.
- *The front matter, links and tags of a note are sets*, what a regular expression
  finds; the aliases are a sequence, because stating one twice counts.
- Posting lists are lists of members, a node and a number, as an alias may make a
  node a member twice.  Weights are in hundredths and confidences in
  ten-thousandths, which is exact: `saturate` is a square.

### Properties

| property | says |
|---|---|
| `TypeOK` | type invariant, the budget of pairs included |
| `EndsExist` | every edge joins two nodes, after every step of every pass |
| `ContainersNest` | a container lies at or above what it contains, except for a festival of one name in two stages |
| `Contained` | in a finished graph what has a place in the tree is in a container, its repository where the folders between them are none the scan knows |
| `OneIdentity` | no markdown file has two nodes, and none on disk gets lost, but for what the artifact passes look past |
| `LinksOrderFree` | what notes link to does not depend on the order in which a map gives them up, except for stems that two notes share |
| `WholeFestivals` | a scan that returns a graph has every part of every festival in it |
| `InferenceSound` | an inferred edge joins, in one direction, two nodes that share something, is not surer than all they share makes it, and has the type the code gives to what they share (for a shared alias not the one its comment names: section 10) |
| `InferenceComplete` | within the budgets every pair that shares enough has its edge, of the code's type as above, and the set says whether it was cut |

`Shared` states what two nodes share of the two and of the files alone, without
posting lists; the last two properties compare the pipeline with it.

## 7. Modules Store and Readers

`Store.tla` has every statement and transaction that changes nodes, edges,
`search_docs` and its full-text mirror, `Readers.tla` two commands that read them
with several queries, interleaved with any of those.

| model | code |
|---|---|
| `nodes`, `edges` | the tables, by identifier and by ends |
| `docs`, `last` | `search_docs`: node to row number and words; AUTOINCREMENT's memory |
| `mirror` | `search_docs_fts`: what was indexed under which row number |
| `version` | `graph_meta`'s schema version |
| `wiping` | a `DeleteAll` is between its two statements |
| `orphaned` | history: what cascades left in the mirror |
| `call`, `pc`, `source`, `items`, `loaded` | a call of `related` or `context`, its next query and what it holds |

Writers: `InsertNode`, `InsertEdge`, `DeleteAllEdges`/`DeleteAllNodes`/
`DeleteAllStops`, `SaveFullBuild`, `SaveGraph`, `Migrate`, `Upsert`,
`DeleteDocument`.  Readers: `ExactNodeID`, `ExactDocPath`, `ExactNodePath`,
`TopHit` (Resolve), `Explicit`, `Scope`, `Lexical` (Related), `LoadNodes`,
`LoadEdges`, `Target` (context).

Choices a reader should know:

- *The mirror is an external-content table.*  It has no content of its own: a
  deletion removes what the caller says was indexed, and `DELETE FROM` what the
  content table holds at that moment.  So the documents that a cascade deletes
  leave their entries behind, and `wipeBuildState` must run while the documents
  are still there.  A search joins entries to documents by row number, and finds
  none for what was left behind, because AUTOINCREMENT never hands a number out
  twice.  This is how SQLite behaves; it is external to the code.
- *A document is the set of words the tokenizer finds in it*; a query is one, too,
  and hits come in any order (bm25 depends on the whole mirror).
- *A node is its identifier.*  Where `related` and `context` look at a path, folder
  or name, it is a parameter (`About`).
- A transaction that fails changes nothing and is left out.

| property | says |
|---|---|
| `MirrorAccounted` | the mirror holds the documents' words and what cascades left, and nothing else |
| `SearchExact` | a search finds exactly the documents that say one of its words |
| `RelatedRanked` | each node once, never the source, stronger reasons first, whatever is committed meanwhile; if nothing is, with the strongest reason there is, and none left out |
| `NeighbourhoodExact` | the neighbourhood is what lies within the hops, even of a graph loaded around a commit |

## 8. Module Inventory

`Inventory.tla` models `BuildInventory`: `Discover` (one directory of
`DiscoverBoundaries`), `Classify` (one of the three calls of git for a boundary),
`Walk` (one directory of `walkBoundary`), against a user who creates, deletes,
stages, ignores, makes and removes repositories anywhere in between.

| model | code |
|---|---|
| `world` | the worktree: `dirs`, `files`, `.git` markers, which of them git accepts, index, ignore rules, unreadable directories |
| `stage`, `open`, `pending` | where the command is: directories yet to read, boundaries yet to finish |
| `boundaries`, `marked`, `cls` | what discovery found, and what git said of each: both in the order of the paths, which `FirstOf` takes from a set |
| `entries` | the inventory |
| `touched` | history: where edits were made |

`LsFiles` is external: what `git ls-files` lists for a directory, which belongs to
the repository above it if it is none itself, shows a repository inside as one
entry, and never looks into it.  The repository that a path belongs to is the
innermost one around it (`Owner`); the one that git finds from a directory may be
the directory itself (`RunIn`).  `Fail` covers a directory that vanishes before
it is read, a call of git that fails and a done context.

Discovery does not descend into a repository, so that one inside a nested one is
no boundary; its files are listed with the nested one, with neither's rules.

| property | says |
|---|---|
| `OneOwner` | every path is listed once, by the deepest boundary it lies in |
| `IgnoredLeftOut` | a file that was ignored all the while by the repository it is listed in is not listed |
| `NothingLost` | a file that was there all the while and whose directories can be read is listed, unless the repository that git finds from its boundary ignores it |

`NothingLost` lets the rules of one repository only excuse a missing file.  A file
of a repository below a directory whose own `.git` git does not accept is classified
from there, by the repository above, and the rules of any other have no say.

The last two quantify over files whose place nobody edited (`Untouched`); edits
anywhere else may have happened at any time.

## 9. Runs

| run | instance | question | states |
|---|---|---|---|
| `refresh_one` | 1 command at a time, 2 notes, 2 contents, 3 ticks | all invariants and `NeverDropsCurrent` | 0.44 M |
| `refresh_two` | 2 commands, 1 note, 2 contents, 2 ticks | which guarantees survive concurrency | 2.3 M |
| `refresh_heals` | 1 command, 1 note, 4 ticks | `Heals` | 0.37 M |
| `refresh_lost_edit` | 1 command, 1 note | violation | |
| `refresh_drop_race` | 2 commands | violation | |
| `refresh_db_in_tree` | 1 command, database in the tree | violation | |
| `browser` | 2 queries, 2 previews, 3 nodes (one newer than the graph), 2 chip settings, 1 scope, history of 2 | all properties of Browser, `Settles` under its fairness | 1.4 M |
| `ledger` | 13 scanned nodes, 33 events, ledgers of up to 3 | all properties of Ledger | 147 k |
| `ledger_dangling` | as `ledger` | violation | |
| `scan` | 6 campaigns, lists of 4 members, 17 pairs | all properties of Scan | 4.4 k |
| `readers` | 3 nodes, 2 edges, 2 texts, 3 builds, 7 calls, 3 row numbers, 1 commit during a call | all properties of Store and Readers | 2.0 M |
| `inventory` | 3 worktrees, 2 edits | all properties of Inventory | 175 k |

**Bounds, refresh.**  `MaxTime` bounds the clock, hence edits, touches and deletions
together; runs, crashes and wipes are unbounded.  Two ticks after the first
state let a note be edited twice, or edited and deleted, around and inside a
run: the tear needs one edit between two reads, and hiding it needs one more
run.  Two notes make "one torn, one not" possible; notes do not interact in
these modules otherwise.  Two commands give every two-party interleaving, and
only the database couples them.  Two contents let a note change and change
back.  Processes, notes and contents are symmetric and the safety runs use it;
the liveness run does not.

**Bounds, browser.**  `MaxGen` and `MaxFetch` bound how many queries and
previews are issued in a whole run, and all of them may be in flight at once.
Two queries give an older answer before and after a newer one; two previews the
same for rows.  The results differ in length (3, 1, 1 and 0 rows, two groups), so
that an answer shrinks the list below the cursor; one node has no place in the
loaded graph.  `MaxDepth` lets the history grow, be popped and run out.
Everything else (motions, focus changes, foldings, filters without a text) is
unbounded.  The identities are told apart by their types and order, so no
symmetry is used.

**Bounds, ledger.**  The 33 events hold each kind, each source, each level of a
scope, present and gone, and every ambiguous name.  What one event leaves for
another is an edge already seen, a node already added or a confidence: two events
make such a pair, and a third repairs or repeats it.

**Bounds, scan.**  The six campaigns of `MCScan` are made so that each rule of a
pass has a case: notes that link to each other by every form, before and after
what they link to exists (*vault*); festivals, intents and tasks whose names
collide, in stages that are walked in a map's order (*artifacts*); nested
repositories with packages of one name, one repository with nothing listed and a
note that cannot be read (*repos*); what ends a scan (*bad canvas*, *bad dir*);
and five notes so alike that a list of four members and a budget of 17 pairs cut
them in every way (*crowd*).  The same budgets leave the other campaigns whole,
and so `InferenceComplete` is asked in both cases.  A scan is sequential: what it
meets is decided by the campaign, the map orders and the moment of cancellation,
all of which are exhausted.

**Bounds, readers.**  `MaxRow` bounds the row numbers handed out between two
migrations; three let a document be written, lost by a cascade, written anew and
a build saved over both.  `MaxCommits` bounds the commits during one call, not
those before it: one is enough to fall between any two queries, and the tables
it changes may come from any history.  One build has an edge without its nodes,
which no save accepts; one is of another schema version.

**Bounds, inventory.**  Two edits, each at a place of its own, in any two of the
moments between directory reads and calls of git: one can come between the
first and the second call, or make a boundary that the walk does not know.  The
worktrees hold repositories in repositories, in an ignored directory and in one
ignored in part, a `.git` that is no repository, one that git does not accept
around a repository, and a directory that cannot be read.

**Deadlock** is checked in the refresh runs and in `readers`.  In the browser run it
is not: the program may quit with nothing in flight, and then it has ended.  A
ledger, a scan and an inventory end, too.

**Fairness.**  The refresh `FairSpec` gives each command weak fairness of its next step (a
command is a straight-line program: the scheduler runs it until it returns)
and strong fairness of *starting* `refresh`, the assumption that somebody keeps
asking.  Nothing is assumed of the user, of crashes or of wipes; `Heals` asks
for its conclusion only if they cease for good.  In the browser, `Fairness` says
that each query's answer is delivered in the end: a goroutine returns, with rows
or an error, because a cancelled context or the end of the scan stops it, and
Bubble Tea hands every message to `Update`.  No key is assumed to be pressed.

## 10. Findings

- **Lost edit** (`refresh_lost_edit`).  The hash and mtime in `indexed_files`
  are taken after the reads they vouch for.  An edit in between is recorded as
  indexed; the node stays stale and every later refresh reports
  `StaleAfter=false`.  All passing properties exclude exactly these notes, by
  `dbTorn`, which shows that this window is the only way to lose an edit.
- **Dropped rebuild** (`refresh_drop_race`).  Two commands open a drifted
  database; the second drops what the first has rebuilt.
- **Database in the tree** (`refresh_db_in_tree`).  With the default path and no
  ignore rule the database is one of the files it indexes, and the no-op path is
  never taken.
- **Dangling prior** (`ledger_dangling`).  A decision that cites a decision the
  ledger does not hold yields an edge without an end.  The store enforces its
  foreign keys and saves in one transaction, so that from then on no build or
  rebuilding refresh can save.  `OnlyPriorsDangle` shows that no other edge does
  this.

Divergences that were met while modelling and have no run, because the model
follows the code in them and the properties are stated accordingly:

- `UpdateRefreshMeta` writes time and mode of the last refresh in two statements
  (`WriteStamp`); no step of the program reads them together.
- Clearing the search text cancels the query and keeps its generation; rows that
  were on their way fill the list until the next key (`ListIsCurrent` is asked
  with a text).  Leaving a row and coming back, the answer of the first visit
  clears the cancel function of the second.  `q` in the micrograph quits without
  cancelling.
- `links.go:52-56` calls "first note wins" deterministic; the notes come in a map's
  order (`IndexNotes`), so a wiki link to a stem that two notes share finds
  either.  `LinksOrderFree` shows that nothing else depends on that order.
- `scanner.go:103` calls inference deterministic; once a budget cuts it, which
  pairs are kept depends on map order (`Kept`, and the order of the lists).
- `inference_aggregate.go:137-139` speaks of one signal per kind; several values
  of a kind, two shared tags for instance, add up (`Evidence`).
- `inference_aggregate.go:36-38` has pairs that share an alias be `similar_to`, and
  line 41 tests for signals of kind `alias_match`.  Nothing emits one: a shared
  alias is a signal `shared_frontmatter` with value `alias=...`.  Such a pair, for
  instance `s/a.md` and `s/b.md` of the campaign *vault*, is `relates_to` unless the
  notes share three tokens as well.  `InferredEdge` has the test as it is written, and
  `InferenceSound` and `InferenceComplete` state the type that the code gives; they
  pass because the promise of the comment is not what they state.
- `scopes.go:212-214` says that ancestors that are missing among the folders are
  registered; the code passes over them, so that a repository in a directory
  with nothing listed has a folder that no folder contains.  It is reached from
  its repository alone, which is what `Contained` says.
- A note that states an alias twice shares it with itself and gets an inferred
  edge to itself (`Repeated`).
- `links.go:252-255` lets a malformed canvas be a node without links; it gets no
  node (`LinkCanvas`).
- Tasks of festivals in the dungeon have a task node and a note node
  (`notes.go:158-161`, `InDungeon`); two festivals, or intents, of one name are one
  node; markdown of a phase that is not a task of a sequence, `SEQUENCE_GOAL.md`,
  and what `notes.go:164-168` takes for a task although the festival's stage is none
  the scan knows, or its sequence is hidden, has none (`LookedPast`).
- `related` fetches one more hit than it has room for, as one may be the source;
  hits that are listed already are dropped, too, so that a list may end short of
  its limit although more documents match.  `related.go:26-28` promises neighbours of
  the same folder and of the same artifact subtree, and hits for the source
  document's title and scope.  The code takes both from the path as it was typed
  and not from the node it found (`Asked`): neighbours are those of the same
  folder, and the term searched for is the stem of the file name; neither
  the artifact subtree, the title nor the scope plays a part.

## 11. Proofs

For every value of the constants, the bounds included:

| theorem | module | states |
|---|---|---|
| `TypeCorrect` | `RefreshProofs` | `Spec => []TypeOK` |
| `ScanStaysRight` | `RefreshProofs` | `Spec => []IInv` |
| `RowsMayBeTrusted` | `RefreshProofs` | `Spec => []RowsVouch` |
| `TablesAgree` | `RefreshProofs` | `Spec => []DbCoherent` |
| `QuietRunsServe` | `RefreshProofs` | `Spec => []QuietRunFresh` |
| `RebuildsAreNeeded` | `RefreshProofs` | `DbFile = {} => (Spec => []NoNeedlessRebuild)`: with the database outside the inventory |
| `LoneCommandKeepsDatabase` | `RefreshProofs` | `Alone => (Spec => NeverDropsCurrent)`: with one command at a time |
| `QueriesStayCurrent` | `BrowserProofs` | `Spec => []BInv` |
| `OneQueryAtATime` | `BrowserProofs` | `Spec => []OneLiveQuery` |
| `AnchorsStayFiltered` | `BrowserProofs` | `Spec => []AnchorsFollowFilters` |
| `PaneSettles` | `BrowserProofs` | `Spec => []PreviewSettles` |
| `HistoryWalks` | `BrowserProofs` | `Spec => []HistoryIsWalk` |
| `BrowserTypes` | `BrowserProofs` | `Spec => []TypeOK` |
| `CursorStays` | `BrowserProofs` | `Spec => []CursorOnGroups` |
| `ListStaysCurrent` | `BrowserProofs` | `Spec => []ListIsCurrent` |
| `LedgerTypes` | `LedgerProofs` | `Spec => []TypeOK` |
| `PriorsAloneDangle` | `LedgerProofs` | `Spec => []OnlyPriorsDangle` |
| `NoEdgeLessSure` | `LedgerProofs` | `Spec => NeverLessSure` |
| `ImplementsView` | `LedgerProofs` | `Spec => AddsWhatItSays`, that is `View!Spec` |
| `EndsAlwaysExist` | `ScanProofs` | `Spec => []EndsExist` |
| `FestivalsEndWhole` | `ScanProofs` | `Spec => []WholeFestivals` |
| `ContainersLieAbove` | `ScanProofs` | `Spec => []ContainersNest` |
| `AllContained` | `ScanProofs` | `Spec => []Contained` |
| `LinksStayOrderFree` | `ScanProofs` | `Spec => []LinksOrderFree` |
| `FilesHaveOneNode` | `ScanProofs` | `Spec => []OneIdentity` |
| `InferredIsSound` | `InferenceProofs` | `Spec => []InferenceSound` |
| `ScanTypes` | `InferenceProofs` | `Spec => []TypeOK` |
| `InferenceIsComplete` | `InferenceProofs` | `Spec => []InferenceComplete` |
| `EveryPathOwned` | `InventoryProofs` | `Spec => []OneOwner` |
| `IgnoredStaysOut` | `InventoryProofs` | `Spec => []IgnoredLeftOut` |
| `NoFileLost` | `InventoryProofs` | `Spec => []NothingLost` |
| `MirrorStaysAccounted` | `StoreProofs` | `ReadersSpec => []MirrorAccounted` |
| `SearchStaysExact` | `StoreProofs` | `ReadersSpec => []SearchExact` |
| `ReadersOnlyRead` | `StoreProofs` | `ReadersSpec => Spec`: readers and writers together implement the store |
| `NeighbourhoodsExact` | `StoreProofs` | `ReadersSpec => []NeighbourhoodExact` |
| `RelatedStaysRanked` | `StoreProofs` | `ReadersSpec => []RelatedRanked` |

**Refresh.**  The only assumptions are `RefreshAssumption` and `NoneIsNoRecord`: notes and
database files are different paths, and the sentinels `None` and `Unread` are
no contents, records or numbers.

`RowsVouch` is not inductive: that a committed row is right depends on what the
committing run held in memory, and that on what it read.  `IInv` says so:
`MtimesPast` (no recorded mtime is later than the clock, so a future edit can
never collide with it), `RowsSettled` (a committed row, its node and its
document carry the same bytes, and its mtime belongs to no other bytes), and
`ScanInv` (what a running scan holds of a note nobody edited in its window is
what the worktree holds, pass by pass).  The step lemmas split by who moves: the
user (`ScanEdited`, `ScanTouched`), the run itself (one lemma per phase) and
any other process, whose steps leave the memory of this one alone
(`OthersMemory`, `ScanKept`).  Commit carries `ScanInv` over to `RowsSettled`.

`DbCoherent` needs two more facts about a running command (`TInv`): a scan leaves
a node and a row for every note it listed, the ones edited or deleted under it
included (`Complete`), and whoever is about to commit holds the lock of a database
that has its tables (`Locked`).  `NeverDropsCurrent` holds for a lone command,
because the schema it probed is still the one it drops (`DropsOldOnly`).

`QuietRunFresh` brings these together.  `QInv` follows a run that nobody disturbs:
until the comparison its mode, its loaded rows and its inventory are the
database's and the worktree's (`Informed`), from the scan to the commit each
recorded hash is the note's (`Faithful`), and then the database describes the
worktree (`Served`).  The comparison is where the earlier theorems enter
(`NoDiffNoChange`): a row that is not older than its file vouches for node and
document, a note that is gone and has no row has no node either.  The lemmas about
other commands say that whoever changes the tables races the run (`WritersRace`).
`NoNeedlessRebuild` follows from the same facts: until a note changes, the database
describes the worktree (`StillFresh`), and a comparison with such a database finds
nothing (`FreshNoDiff`).  The last two theorems have a premise; the findings of
section 10 are about what happens without it.

**Browser.**  The assumption is `BrowserAssumption`: `None`, `NoTerm` and
`NoScope` are not among the things they stand beside, and the tables have their
types.  `OneLiveQuery` is not inductive by itself, since it needs generations
to be distinct and never from the future (`Generations`): else a new query
could share its number with an old one and the loop would take the wrong
answer.  `BInv` adds `NewestIsCurrent` (a change of text, chips or scope always
issues a new generation or leaves an empty text) and `GroupsAreCurrent` (once
the newest query has landed the groups hold its rows).  The lemmas split by
kind of step (`StepKinds`): issuing, clearing, landing, folding, quitting and
the rest.

`ListIsCurrent` says the same as `GroupsAreCurrent` of the displayed order.  That
`groupByType` gives that order, for every search, is `GroupsInOrder`, an induction
over the hits and one over the groups, both carried by the smallest counterexample
(`Least`).  A bucket holds the positions of its rank in ascending order
(`BucketIs`); the first groups end to end are a head of the display order
(`HeadGrows`), since before a hit come the groups before its own and the earlier
hits of its group (`PlaceInGroup`).  `Ranked` is the fact about counting both rest
on: in a finite order each member is told by how many come before it.

`CursorOnGroups` follows with the types (`BrowserInv`): a motion ends below the last
line (`TargetsIn`), every group adds a header's line at least (`GroupLinesGrow`), so
that the header of a folded group stays above the new end (`FoldKeepsAbove`), and an
answer clamps.  The lines are `FlattenSeq` of the groups' lines, which the lemmas on
`Joins` take apart.

The pane has an invariant of its own, `PaneInv`: as
long as the row under the cursor is the one the last motion asked for, the pane
shows it or a preview of it is in flight.  It holds although previews are told
apart by row only, since each answer about the row under the cursor brings the
same node.  The history needs only its types besides (`WalkInv`): chips, which
decide what is an edge, change in the list alone.

**Ledger.**  The assumptions are `NamesAssumption` and `LedgerAssumption`: the
scan left the root folder, its edges have both ends among its nodes and none is
a `because_of` edge, the workitem index holds scanned documents, and the fields
of an event have their types; and `LiteralsAreStrings`, which TLA+ grants and
these provers do not know of the strings that name kinds and edge types.  The
argument has three parts.  The
nodes that events add are decisions, actions and files, and no lookup asks for
one of these kinds; hence every lookup finds in the grown graph what it finds in
the scan (`SameKnown` up to `SameArtifact`, `SameParent` and `SameRepo`).  Each
action then adds exactly what `LedgerView` lets its event add (the `Step`
lemmas), and what `LedgerView` lets an event add has its ends among the scan and
the event's own nodes (`MayEnds`).  `LInv` carries this from step to step; it
also records that a `because_of` edge is never structural, because otherwise a
reconciled decision could replace a scanned edge with a confidence of 0.7.
`LedgerInv` adds the types: those of an edge follow from those of the nodes, since
its ends are nodes or, for a `because_of` edge, decisions that the event names
(`MayTyped`), while `edgeSeen` marks only edges that are there (`ApplySeen`).

**Scan.**  The assumption is `ScanAssumption`: a campaign has finitely many files,
paths are tuples of names, files lie in directories, a text holds finitely many
tags, and a link leads to a path; and the order of strings that the code sorts by
(`Order`) has all that may become a note, a canvas or an attachment, and the
directories of the dungeon's intents.  (That a link
leads to a path is the type of a fold over its names; TLC evaluates it, an
induction over data is outside what the provers do.)  `EndsExist` is not inductive: edges are made of
what earlier passes left behind.  `EInv` adds that the root's folder is a node
once the first pass is over (every walk up to an existing folder ends there:
`HomeFound`), that nodes have places, that the note index and the candidate pairs
hold nodes, and that what a pass has yet to visit does.  `PassKeeps` and
`VisitKeeps` then reduce each pass to what it adds.  `WInv` adds that until the
context is done every stage that is not to be visited has been; the sequence of
the passes enters by `AfterProjects`.

`ContainersNest` looks at the places of both ends of an edge, and a later pass may
give a node another place: a festival of the same name in the next stage moves its
phases.  `NestInv` therefore says which ends can move (`FestivalEdge`: only such
festivals, and then the name stands in several stages), that every other node keeps
a place that its identifier tells (`PathsKept`), and that an edge to something whose
place is not in its identifier appears only once the passes that place things are
over (`Nests`).  `Contained` needs to know who is still waiting: `HeldInv` says
that until the bridge a node is in a container, needs none, or is one that the
bridge will see (`Waits`); from then on the last disjunct is gone.  That a folder
is never left without the folder above it is `FolderAbove`.

`LinksOrderFree` compares what a link found with what the files declare, and a link
finds what is a node when it is read.  `LinkInv` says that nothing which the pass
itself adds can change that: while links are read the notes are those of the files
(`NoteIds`), no canvas is a node yet and no attachment is markdown
(`NoCanvasYet`), so that a new attachment answers only to its own path, whose note
would have come first; a note still to be visited has no links, one that was has
those that it declares.  The index of stems holds for each stem one note of that
stem (`IndexOfStems`), which is all that is left to the order.

`OneIdentity` brings three passes together that know nothing of each other.  `IdInv`
says what each node of theirs stands for: a note for a path of `NotePaths`, an intent
for a file that answers to its name, a festival's part for a place below one of the
stages (`FestivalNode`), whichever of the stages came last.  Two nodes for one file
would then be of two kinds, and `OwnedByArtifact` keeps them apart
(`StandingNote`, `StandingIntent`, `StandingTask`).  That none is lost needs what the
passes have left behind: `IntentsKept` (a pass that is over read every stage of
intents, and a file that no later one overtakes has its node) and `Visited` from
above.  The proof was what found the exceptions: the statement that held on the
instance was false of a task place below an unknown stage, below something hidden or
unreadable, and of a file that git lists and the disk lacks; `LookedPast` says so
now and the *artifacts* campaign has two of these.

**Inference.**  `InferenceSound` is about edges that `Aggregate` makes of signals, and
signals are cut at random.  `SoundInv` says of each signal that it is `Evident`: its
two nodes are candidates, in the order of strings, and what it names they share by
the files' own words; the lists still to be enumerated are lists of the sources
(`TextsTodo`), and that a tag's list holds who states the tag rests on the edges of
the link pass (`TagsStated`).  The score is a sum over a set of evidence; `ScoreIsTotal`
regroups it as a sum over the seven kinds (`Total`), so that fewer signals never make
more of it (`ScoreGrows`).  That no edge has its opposite beside it is the order of
the pairs (`Earlier`).

`TypeOK` bounds the pairs taken by the budget, and that is no matter of the shape of
the state: an enumeration takes the pairs that have fewer before them than there is
room for.  `TakenFits` says that these are as many as there is room for and no more,
and all of them if they fit, because `Before` is a strict total order of the members
of a list (`BeforeOrder`, from `SameRank`: no two candidates have one rank).  The
budgets are positive by `ScanAssumption`, as the code replaces any other by its
default (`inference.go:94-100`); `KindsAreStrings` says that a kind is a string.

`InferenceComplete` is the converse of `InferenceSound` and an equality: what was taken
within the budgets is all there is.  `CountInv` says, unless the scan is cancelled,
that the pairs taken are those of the lists visited so far (`Done`: of earlier
sources, and of this one what no longer waits or has too few members to wait), that
the signals are what these pairs give and `npairs` is their number; or else that
something was cut and then the budgets do not suffice (`Fits`).  A step either adds a
list with all its pairs (`AllPairsStep`, `CountEnumerate`) or shows that these would
be one too many (`CutIsOver`, on `TakenFits`).  `BudgetIs` identifies `Fits`, which counts pairs
told apart by their lists, with the sum that `WithinBudget` folds.  That what two
nodes share is a list that holds both, and that a note that states an alias twice meets
itself in one, is `SharedListed`; for the tags in a note's text it needs `TagsInv`:
a note that the link pass has visited has an edge to each.  A list of one member is
never visited and so never cut: this is where the proof needs the budget of members
to be positive.  Cancellation is excluded at the end by the invariant of
`FestivalsEndWhole`: the passes after the enumeration ask the context again.

**Store.**  The assumption is `StoreAssumption`: builds are finite and have
documents of their own nodes only.  Neither `MirrorAccounted` nor `SearchExact` is inductive: that a
deletion of an entry does not take that of another document, and that an orphaned
entry does not answer for a new one, rests on how row numbers are handed out.
`SInv` says so: no row number is above the last one, no two documents share one,
and no orphan's is a document's (`Orphans`).  A migration starts the numbers
anew, which is sound because it drops the mirror as well.

**Readers.**  The assumptions are those of the store and `ReadersAssumption`.
What a call holds is compared with the tables only while nothing was committed
(`LoadInv`, `RelatedInv`); what holds around a commit too is said of the call's own
memory.  `NeighbourhoodsExact` is about the walk itself: `Near` is what paths of at
most k edges end in, `NextRound` that a round whose frontier is the new part of
`Near` yields the next one, and `Keyed`, the foreign keys, that edges loaded with
their nodes have both ends among them.  `RelatedStaysRanked` goes through the list
that `appendUnique` grows: the fold is unfolded once (`FoldIs`, `FoldSteps`), each
row either extends the list or is in it already or meets the limit (`GrowStep`,
`Appended`), and the three queries keep it ordered, because each adds a weaker
reason than those before (`ExplicitStep`, `ScopeStep`, `LexicalStep`).

**Inventory.**  The assumption is `InventoryAssumption`: the worktrees to start from
have a root, files lie in directories, git accepts no repository without a marker,
and no name is empty.  `WorktreeProofs` has what the proofs need of paths: prefixes
of one path are ordered by length, so that the deepest boundary of a path exists
and is one (`BoundaryFound`, `BoundaryIs`), by the smallest element of a set of
numbers (`Least`).

`SInv` carries the shape of worktree and stages: the directories form a tree
(`WorldInv`), a boundary has no answers of git for kinds not asked (`Answered`).
`OneOwner` needs to know of a walk that no two open directories contain each other,
that nothing listed by the boundary at work lies below one, and that boundaries
still to come have no entries (`WalkInv`): a directory is read once, so that its
entries cannot meet earlier ones of another state.  The other two theorems are about
a file nobody touched while anything around it changed.  An edit elsewhere leaves
the file, its directories, its owner or the lack of one and the rules that name it as
they were (`StepBack` compares a state with the one before it, read backwards: what
is untouched and ignored now was so before).  `IgnoredLeftOut` follows from
`Asked`: each kind that git was asked for gave the answer that the file's rules
demand, whenever the three calls came.  `NothingLost` follows from `Sought`: the file
is listed, or an open directory still leads to it, or its boundary is still to
be walked; to descend, the walk needs that git never calls a directory ignored that
holds a file it does not ignore.

Every invariant and action property that a passing run checks is a theorem.  Only
model-checked: `Heals` and `Settles`, as liveness under fairness and ENABLED are outside
what the proof system does, and the four findings of section 10, each of which is a counterexample.

## 12. Not modelled

- **Renderers, error wrapping, release tooling, version**: no state, or text only.
- **`LoadStatus`**: four queries whose results are printed and not related to each
  other; a report may mix two builds.
- **Scores**: bm25, the boost by mode and `query`'s filters; the order of hits is
  any, and so every order a boost may give is covered.
- **Inventory**: `IncludeIgnored`, which no caller sets, and `.gitmodules`, which
  only labels a boundary.  A `.git` file whose gitdir is broken: git gives up there,
  while for the model's git (`RunIn`) a `.git` that is not accepted is not there,
  as for an empty `.git` directory, and the repository above answers.
- **Scanner**: titles, subtypes, the kinds and metadata of folders; what a regular
  expression finds in a text is a parameter (`TextOf`).  The root's own name, by
  which a link that leaves the root may come back to it (`Into`).  `extractChainMetadata` has
  no caller outside tests.
- **`algo.go`**: hands the graph to a library; no caller outside tests.
- **Foreign keys** are enforced on the connection that opened the store
  (`PRAGMA foreign_keys` is per connection).  Commands use one at a time, and so
  the model enforces them always.
- **`IndexState.Upsert` and `Delete`**: no caller outside tests.
- **Chips and panes**: a chip is a cursor over a fixed list, a pane formats text.

Each entry of `PROJECT.json` says what is missing from its component.
