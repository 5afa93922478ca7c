------------------------------- MODULE Refresh -------------------------------
(***************************************************************************)
(* The `build` and `refresh` commands of camp-graph over one campaign      *)
(* worktree and one SQLite graph database, together with the commands that *)
(* only open the database.  A refresh opens (and, on schema drift, drops   *)
(* and recreates) the database, decides between an incremental refresh and *)
(* a rebuild, diffs the worktree against indexed_files and either stamps   *)
(* two metadata rows or scans every note and replaces the whole database   *)
(* in one transaction.  Every file read, every query and every write       *)
(* transaction is an action of its own: the user edits files, other        *)
(* commands run and any command dies between any two of them.              *)
(*                                                                         *)
(* A note is read at five moments of a heavy run: its frontmatter, its     *)
(* links, its search body, its hash and its mtime.  What the model keeps   *)
(* of a node is what each read saw.                                        *)
(***************************************************************************)
EXTENDS Naturals

CONSTANTS
  Proc,     \* the command processes
  Note,     \* the markdown files the scanner turns into note nodes
  DbFile,   \* database files that the inventory lists too ({} when the
            \* database is outside the campaign or ignored by git)
  Content,  \* what a note can hold
  None,     \* no file, no row, no value
  Unread,   \* what a failed read leaves behind (an empty hash, a bare node)
  MaxTime   \* bound on the logical clock: at most MaxTime interferences

ASSUME RefreshAssumption ==
  /\ Note \cap DbFile = {}
  /\ None \notin Content \cup Nat \cup {Unread}
  /\ Unread \notin Content \cup Nat
  /\ None \notin Proc
  /\ MaxTime \in Nat

Path == Note \cup DbFile
Body == Content \cup Nat           \* a database file's body is its version
Cmd == {"refresh", "build", "read"}
Stamp == {"at", "mode"}            \* last_refresh_at, last_refresh_mode

File == [content: Body, mtime: Nat]
Node == [fm: Body \cup {Unread}, links: Body \cup {Unread}]
Row == [hash: Body \cup {Unread}, mtime: Nat]
Hashed == [path: Path, hash: Body \cup {Unread}]

ASSUME NoneIsNoRecord == None \notin File \cup Node \cup Row \cup Hashed

VARIABLES
  fs,       \* the worktree: path -> file or None
  clock,    \* logical time, the source of fresh mtimes
  tables,   \* the managed tables exist
  schema,   \* graph_meta.graph_schema_version
  scopes,   \* the folder nodes, "folder:." among them, are in the nodes table
  nodes,    \* the note rows of the nodes table
  docs,     \* search_docs: the body indexed for each note
  rows,     \* indexed_files
  at,       \* the mode of the run that wrote last_refresh_at
  mode,     \* graph_meta.last_refresh_mode
  lock      \* the process inside a SQLite write transaction

dbVars == <<tables, schema, scopes, nodes, docs, rows, at, mode>>

\* What a running command holds in memory.
VARIABLES
  pc,       \* where it is
  cmd,      \* which command it runs
  chosen,   \* the RefreshMode of decideMode
  prior,    \* indexed_files as loaded
  inv,      \* the inventory
  todo,     \* what the current loop has still to visit
  gNodes,   \* the scanned graph
  gDocs,    \* the document records
  gRows,    \* the indexed_files records
  hashing   \* the file hashed and not yet stat'ed, with its hash

memVars == <<cmd, chosen, prior, inv, todo, gNodes, gDocs, gRows, hashing>>

\* History, read by no action of the program.
VARIABLES
  edited,   \* a file's content changed since the run began
  raced,    \* somebody else wrote the database since the run began
  torn,     \* notes edited after the run's first read and before its stat
  dbTorn,   \* `torn` of the run that committed last
  touched   \* a note's content changed since the last committed run began

history == <<edited, raced, torn, dbTorn, touched>>

vars == <<fs, clock, dbVars, lock, pc, memVars, history>>

NoNodes == [f \in Note |-> None]
NoRows == [x \in Path |-> None]

Pass == {"notes", "links", "docs", "index"}
Busy == {"open", "drop", "create", "decide", "count", "load", "inventory",
         "diff", "stamp", "scan", "save", "commit"} \cup Pass
Finished == {"noop", "full", "opened"}

TypeOK ==
  /\ fs \in [Path -> File \cup {None}]
  /\ clock \in Nat
  /\ tables \in BOOLEAN
  /\ schema \in {"current", "old", None}
  /\ scopes \in BOOLEAN
  /\ nodes \in [Note -> Node \cup {None}]
  /\ docs \in [Note -> Body \cup {None}]
  /\ rows \in [Path -> Row \cup {None}]
  /\ at \in {"refresh", "rebuild", None}
  /\ mode \in {"refresh", "rebuild", None}
  /\ lock \in Proc \cup {None}
  /\ pc \in [Proc -> {"idle"} \cup Busy \cup Finished]
  /\ cmd \in [Proc -> Cmd]
  /\ chosen \in [Proc -> {"refresh", "rebuild"}]
  /\ prior \in [Proc -> [Path -> Row \cup {None}]]
  /\ inv \in [Proc -> SUBSET Path]
  /\ todo \in [Proc -> SUBSET (Path \cup Stamp)]
  /\ gNodes \in [Proc -> [Note -> Node \cup {None}]]
  /\ gDocs \in [Proc -> [Note -> Body \cup {None}]]
  /\ gRows \in [Proc -> [Path -> Row \cup {None}]]
  /\ hashing \in [Proc -> Hashed \cup {None}]
  /\ edited \in [Proc -> BOOLEAN]
  /\ raced \in [Proc -> BOOLEAN]
  /\ torn \in [Proc -> SUBSET Note]
  /\ dbTorn \in SUBSET Note
  /\ touched \in BOOLEAN

-----------------------------------------------------------------------------
(***************************************************************************)
(* Initially no command runs and the campaign's database is missing or was *)
(* written by a release with another schema.  A database of this schema is *)
(* reached by running a command.                                           *)
(***************************************************************************)
Init ==
  /\ \E body \in [Note -> Content \cup {None}] :
       fs = [x \in Path |-> IF x \in Note /\ body[x] # None
                              THEN [content |-> body[x], mtime |-> 1]
                              ELSE None]
  /\ clock = 1
  /\ \/ tables = FALSE /\ schema = None
     \/ tables = TRUE /\ schema = "old"
  /\ scopes = FALSE
  /\ nodes = NoNodes /\ docs = NoNodes /\ rows = NoRows
  /\ at = None /\ mode = None
  /\ lock = None
  /\ pc = [p \in Proc |-> "idle"]
  /\ cmd = [p \in Proc |-> "read"]
  /\ chosen = [p \in Proc |-> "rebuild"]
  /\ prior = [p \in Proc |-> NoRows]
  /\ inv = [p \in Proc |-> {}]
  /\ todo = [p \in Proc |-> {}]
  /\ gNodes = [p \in Proc |-> NoNodes]
  /\ gDocs = [p \in Proc |-> NoNodes]
  /\ gRows = [p \in Proc |-> NoRows]
  /\ hashing = [p \in Proc |-> None]
  /\ edited = [p \in Proc |-> FALSE]
  /\ raced = [p \in Proc |-> FALSE]
  /\ torn = [p \in Proc |-> {}]
  /\ dbTorn = {}
  /\ touched = TRUE

-----------------------------------------------------------------------------
(***************************************************************************)
(* The user's worktree.  An edit takes a fresh mtime; Touch moves the      *)
(* mtime and leaves the bytes alone.                                       *)
(***************************************************************************)
Read(x) == IF fs[x] = None THEN Unread ELSE fs[x].content

\* p has read note f and has not yet recorded its mtime.
InWindow(p, f) ==
  /\ f \in inv[p]
  /\ \/ pc[p] = "notes" /\ f \notin todo[p]
     \/ pc[p] \in {"links", "docs"}
     \/ pc[p] \in {"open", "drop", "create"} /\ cmd[p] = "build"
     \/ pc[p] = "index" /\ f \in todo[p]

Change(f, file) ==
  /\ clock < MaxTime
  /\ clock' = clock + 1
  /\ fs' = [fs EXCEPT ![f] = file]
  /\ UNCHANGED <<dbVars, lock, pc, memVars, raced, dbTorn>>

NoteChanged(f) ==
  /\ edited' = [p \in Proc |-> TRUE]
  /\ torn' = [p \in Proc |-> IF InWindow(p, f) THEN torn[p] \cup {f}
                                               ELSE torn[p]]
  /\ touched' = TRUE

Write(f) ==
  \E c \in Content :
    /\ fs[f] # None => fs[f].content # c
    /\ Change(f, [content |-> c, mtime |-> clock + 1])
    /\ NoteChanged(f)

Delete(f) ==
  /\ fs[f] # None
  /\ Change(f, None)
  /\ NoteChanged(f)

Touch(f) ==
  /\ fs[f] # None
  /\ Change(f, [fs[f] EXCEPT !.mtime = clock + 1])
  /\ UNCHANGED <<edited, torn, touched>>

-----------------------------------------------------------------------------
\* A write transaction of p became visible: it also modifies the database
\* files, which the inventory of another run may list.
DbWritten(p) ==
  /\ raced' = [q \in Proc |-> raced[q] \/ q # p]
  /\ \/ DbFile = {} /\ UNCHANGED <<fs, clock>>
     \/ /\ DbFile # {}
        /\ clock' = clock + 1
        /\ fs' = [x \in Path |->
                    IF x \in DbFile
                      THEN [content |-> clock + 1, mtime |-> clock + 1]
                      ELSE fs[x]]

Goto(p, from, to) == pc[p] = from /\ pc' = [pc EXCEPT ![p] = to]

Start(p, c) ==
  /\ pc[p] = "idle"
  /\ pc' = [pc EXCEPT ![p] = IF c = "build" THEN "scan" ELSE "open"]
  /\ cmd' = [cmd EXCEPT ![p] = c]
  /\ edited' = [edited EXCEPT ![p] = FALSE]
  /\ raced' = [raced EXCEPT ![p] = FALSE]
  /\ UNCHANGED <<fs, clock, dbVars, lock, chosen, prior, inv, todo, gNodes,
                 gDocs, gRows, hashing, torn, dbTorn, touched>>

(***************************************************************************)
(* OpenStore: the version is read outside the transaction that drops.      *)
(***************************************************************************)
DriftedAlways == tables                             \* mutant
Drifted == tables /\ schema \notin {None, "current"}

Probe(p) ==
  /\ Goto(p, "open", IF Drifted THEN "drop" ELSE "create")
  /\ UNCHANGED <<fs, clock, dbVars, lock, memVars, history>>

Drop(p) ==
  /\ Goto(p, "drop", "create")
  /\ lock = None
  /\ tables' = FALSE /\ schema' = None /\ scopes' = FALSE
  /\ nodes' = NoNodes /\ docs' = NoNodes /\ rows' = NoRows
  /\ at' = None /\ mode' = None
  /\ DbWritten(p)
  /\ UNCHANGED <<lock, memVars, edited, torn, dbTorn, touched>>

Create(p) ==
  /\ pc[p] = "create"
  /\ pc' = [pc EXCEPT ![p] = CASE cmd[p] = "refresh" -> "decide"
                               [] cmd[p] = "build" -> "docs"
                               [] cmd[p] = "read" -> "opened"]
  /\ \/ /\ tables
        /\ UNCHANGED <<tables, fs, clock, raced>>
     \/ /\ ~tables /\ lock = None
        /\ tables' = TRUE
        /\ DbWritten(p)
  /\ todo' = [todo EXCEPT ![p] = IF cmd[p] = "build" THEN inv[p] \cap Note
                                                     ELSE {}]
  /\ UNCHANGED <<schema, scopes, nodes, docs, rows, at, mode, lock, cmd,
                 chosen, prior, inv, gNodes, gDocs, gRows, hashing, edited,
                 torn, dbTorn, touched>>

(***************************************************************************)
(* decideMode: a matching schema, then a non-empty nodes table.            *)
(***************************************************************************)
Decide(p) ==
  /\ tables
  /\ Goto(p, "decide", IF schema = "current" THEN "count" ELSE "load")
  /\ chosen' = [chosen EXCEPT ![p] = "rebuild"]
  /\ UNCHANGED <<fs, clock, dbVars, lock, cmd, prior, inv, todo, gNodes,
                 gDocs, gRows, hashing, history>>

HasNodesAssumed == TRUE                             \* mutant
HasNodes == scopes

CountNodes(p) ==
  /\ tables
  /\ Goto(p, "count", "load")
  /\ chosen' = [chosen EXCEPT ![p] = IF HasNodes THEN "refresh" ELSE "rebuild"]
  /\ UNCHANGED <<fs, clock, dbVars, lock, cmd, prior, inv, todo, gNodes,
                 gDocs, gRows, hashing, history>>

LoadPrior(p) ==
  /\ tables
  /\ Goto(p, "load", "inventory")
  /\ prior' = [prior EXCEPT ![p] = rows]
  /\ UNCHANGED <<fs, clock, dbVars, lock, cmd, chosen, inv, todo, gNodes,
                 gDocs, gRows, hashing, history>>

Worktree == {x \in Path : fs[x] # None}

BuildInventory(p) ==
  /\ Goto(p, "inventory", "diff")
  /\ inv' = [inv EXCEPT ![p] = Worktree]
  /\ UNCHANGED <<fs, clock, dbVars, lock, cmd, chosen, prior, todo, gNodes,
                 gDocs, gRows, hashing, history>>

(***************************************************************************)
(* diffInventory: stat first, hash only when the mtime moved; a file that  *)
(* can no longer be read counts as changed.                                *)
(***************************************************************************)
Added(p, x) == x \in inv[p] /\ prior[p][x] = None

ChangedByMtime(p, x) ==                             \* mutant
  /\ x \in inv[p] /\ prior[p][x] # None
  /\ fs[x] = None \/ fs[x].mtime # prior[p][x].mtime

Changed(p, x) ==
  /\ x \in inv[p] /\ prior[p][x] # None
  /\ \/ fs[x] = None
     \/ /\ fs[x].mtime # prior[p][x].mtime
        /\ fs[x].content # prior[p][x].hash

DeletedUnnoticed(p, x) == FALSE                     \* mutant
Deleted(p, x) == x \notin inv[p] /\ prior[p][x] # None

NoDiff(p) == \A x \in Path : ~(Added(p, x) \/ Changed(p, x) \/ Deleted(p, x))

\* Without a difference an incremental refresh only stamps graph_meta.
Diff(p) ==
  /\ pc[p] = "diff"
  /\ \/ /\ chosen[p] = "refresh" /\ NoDiff(p)
        /\ pc' = [pc EXCEPT ![p] = "stamp"]
        /\ todo' = [todo EXCEPT ![p] = Stamp]
     \/ /\ ~(chosen[p] = "refresh" /\ NoDiff(p))
        /\ pc' = [pc EXCEPT ![p] = "scan"]
        /\ UNCHANGED todo
  /\ prior' = [prior EXCEPT ![p] = NoRows]
  /\ UNCHANGED <<fs, clock, dbVars, lock, cmd, chosen, inv, gNodes, gDocs,
                 gRows, hashing, history>>

(***************************************************************************)
(* UpdateRefreshMeta: two autocommitted writes, in map order.              *)
(***************************************************************************)
WriteStamp(p, k) ==
  /\ pc[p] = "stamp" /\ k \in todo[p]
  /\ tables /\ lock = None
  /\ \/ k = "at" /\ at' = chosen[p] /\ UNCHANGED mode
     \/ k = "mode" /\ mode' = chosen[p] /\ UNCHANGED at
  /\ todo' = [todo EXCEPT ![p] = @ \ {k}]
  /\ pc' = [pc EXCEPT ![p] = IF todo[p] = {k} THEN "noop" ELSE "stamp"]
  /\ DbWritten(p)
  /\ UNCHANGED <<tables, schema, scopes, nodes, docs, rows, lock, cmd, chosen,
                 prior, inv, gNodes, gDocs, gRows, hashing, edited, torn,
                 dbTorn, touched>>

-----------------------------------------------------------------------------
(***************************************************************************)
(* The heavy path.  Scan takes an inventory of its own, reads each note's  *)
(* frontmatter and then, in a second pass, each note's links; a note that  *)
(* vanished keeps a bare node.  A build scans before it opens the store, a *)
(* refresh after.                                                          *)
(***************************************************************************)
Scan(p) ==
  /\ Goto(p, "scan", "notes")
  /\ inv' = [inv EXCEPT ![p] = Worktree]
  /\ todo' = [todo EXCEPT ![p] = Worktree \cap Note]
  /\ gNodes' = [gNodes EXCEPT ![p] = NoNodes]
  /\ gDocs' = [gDocs EXCEPT ![p] = NoNodes]
  /\ gRows' = [gRows EXCEPT ![p] = NoRows]
  /\ torn' = [torn EXCEPT ![p] = {}]
  /\ UNCHANGED <<fs, clock, dbVars, lock, cmd, chosen, prior, hashing, edited,
                 raced, dbTorn, touched>>

Visit(p, pass, x) ==
  /\ pc[p] = pass /\ x \in todo[p]
  /\ todo' = [todo EXCEPT ![p] = @ \ {x}]
  /\ UNCHANGED <<fs, clock, dbVars, lock, pc, cmd, chosen, prior, inv, history>>

\* The loop of a pass is over.
NextPass(p) ==
  /\ pc[p] \in Pass /\ todo[p] = {} /\ hashing[p] = None
  /\ LET next == CASE pc[p] = "notes" -> "links"
                   [] pc[p] = "links" /\ cmd[p] = "build" -> "open"
                   [] pc[p] = "links" /\ cmd[p] # "build" -> "docs"
                   [] pc[p] = "docs" -> "index"
                   [] pc[p] = "index" -> "save"
     IN /\ pc' = [pc EXCEPT ![p] = next]
        /\ todo' = [todo EXCEPT ![p] =
                      CASE next \in {"links", "docs"} -> inv[p] \cap Note
                        [] next = "index" -> inv[p]
                        [] OTHER -> {}]
  /\ UNCHANGED <<fs, clock, dbVars, lock, cmd, chosen, prior, inv, gNodes,
                 gDocs, gRows, hashing, history>>

ReadNote(p, f) ==
  /\ Visit(p, "notes", f)
  /\ gNodes' = [gNodes EXCEPT ![p] =
                  [@ EXCEPT ![f] = [fm |-> Read(f), links |-> Unread]]]
  /\ UNCHANGED <<gDocs, gRows, hashing>>

ReadLinks(p, f) ==
  /\ Visit(p, "links", f)
  /\ gNodes[p][f] # None
  /\ gNodes' = [gNodes EXCEPT ![p] =
                  [@ EXCEPT ![f] = [fm |-> gNodes[p][f].fm, links |-> Read(f)]]]
  /\ UNCHANGED <<gDocs, gRows, hashing>>

\* buildSearchDocs skips the note that vanished since the scan.
ReadDoc(p, f) ==
  /\ Visit(p, "docs", f)
  /\ gDocs' = [gDocs EXCEPT ![p] =
                 [@ EXCEPT ![f] = IF fs[f] = None THEN None ELSE fs[f].content]]
  /\ UNCHANGED <<gNodes, gRows, hashing>>

(***************************************************************************)
(* BuildIndexedFileRecords: hash, then stat, long after the scan; both     *)
(* errors are dropped and the row is written all the same.                 *)
(***************************************************************************)
Hash(p, x) ==
  /\ pc[p] = "index" /\ x \in todo[p] /\ hashing[p] = None
  /\ hashing' = [hashing EXCEPT ![p] = [path |-> x, hash |-> Read(x)]]
  /\ UNCHANGED <<fs, clock, dbVars, lock, pc, cmd, chosen, prior, inv, todo,
                 gNodes, gDocs, gRows, history>>

Stat(p, x) ==
  /\ hashing[p] # None /\ hashing[p].path = x
  /\ Visit(p, "index", x)
  /\ hashing' = [hashing EXCEPT ![p] = None]
  /\ gRows' = [gRows EXCEPT ![p] =
                 [@ EXCEPT ![x] = [hash |-> hashing[p].hash,
                                   mtime |-> IF fs[x] = None THEN 0
                                             ELSE fs[x].mtime]]]
  /\ UNCHANGED <<gNodes, gDocs>>

(***************************************************************************)
(* SaveFullBuildWithIndex: the first DELETE takes SQLite's write lock; the *)
(* wiped and rewritten tables become visible together at the commit.       *)
(***************************************************************************)
Save(p) ==
  /\ tables /\ lock = None
  /\ Goto(p, "save", "commit")
  /\ lock' = p
  /\ UNCHANGED <<fs, clock, dbVars, memVars, history>>

SavedNodesUnwiped(p) ==                             \* mutant
  [f \in Note |-> IF nodes[f] # None THEN nodes[f] ELSE gNodes[p][f]]
SavedNodes(p) == gNodes[p]

SavedDocsUnwiped(p) ==                              \* mutant
  [f \in Note |-> IF docs[f] # None THEN docs[f] ELSE gDocs[p][f]]
SavedDocs(p) == gDocs[p]

RunModeIsCommand(p) == cmd[p]                       \* mutant
RunMode(p) == IF cmd[p] = "build" THEN "rebuild" ELSE chosen[p]

Commit(p) ==
  /\ Goto(p, "commit", "full")
  /\ lock' = None
  /\ schema' = "current" /\ scopes' = TRUE
  /\ nodes' = SavedNodes(p) /\ docs' = SavedDocs(p) /\ rows' = gRows[p]
  /\ at' = RunMode(p) /\ mode' = RunMode(p)
  /\ DbWritten(p)
  /\ dbTorn' = torn[p]
  /\ touched' = edited[p]
  /\ UNCHANGED <<tables, memVars, edited, torn>>

-----------------------------------------------------------------------------
\* The command returns: its memory goes, and SQLite rolls back what it had
\* not committed.
Return(p) ==
  /\ pc' = [pc EXCEPT ![p] = "idle"]
  /\ lock' = IF lock = p THEN None ELSE lock
  /\ cmd' = [cmd EXCEPT ![p] = "read"]
  /\ chosen' = [chosen EXCEPT ![p] = "rebuild"]
  /\ prior' = [prior EXCEPT ![p] = NoRows]
  /\ inv' = [inv EXCEPT ![p] = {}]
  /\ todo' = [todo EXCEPT ![p] = {}]
  /\ gNodes' = [gNodes EXCEPT ![p] = NoNodes]
  /\ gDocs' = [gDocs EXCEPT ![p] = NoNodes]
  /\ gRows' = [gRows EXCEPT ![p] = NoRows]
  /\ hashing' = [hashing EXCEPT ![p] = None]
  /\ torn' = [torn EXCEPT ![p] = {}]
  /\ UNCHANGED <<fs, clock, dbVars, edited, raced, dbTorn, touched>>

Finish(p) == pc[p] \in Finished /\ Return(p)

\* Another process dropped the tables, or holds the write lock (the store
\* sets no busy timeout): the statement fails and the command with it.
Fail(p) ==
  /\ \/ ~tables /\ pc[p] \in {"decide", "count", "load", "stamp", "save"}
     \/ lock # None /\ pc[p] \in {"drop", "stamp", "save"}
     \/ lock # None /\ pc[p] = "create" /\ ~tables
  /\ Return(p)

\* A crash, a cancelled context or an I/O error, at any point of a run.
Kill(p) == pc[p] \in Busy /\ Return(p)

\* Store.DeleteAll, or a user emptying the tables by hand: edges and nodes
\* go, and the foreign key cascades to search_docs.
DeleteAll ==
  /\ tables /\ lock = None /\ scopes
  /\ scopes' = FALSE /\ nodes' = NoNodes /\ docs' = NoNodes
  /\ DbWritten(None)
  /\ UNCHANGED <<tables, schema, rows, at, mode, lock, pc, memVars,
                 edited, torn, dbTorn, touched>>

-----------------------------------------------------------------------------
Step(p) ==
  \/ Probe(p) \/ Drop(p) \/ Create(p)
  \/ Decide(p) \/ CountNodes(p) \/ LoadPrior(p)
  \/ BuildInventory(p) \/ Diff(p)
  \/ \E k \in Stamp : WriteStamp(p, k)
  \/ Scan(p) \/ NextPass(p)
  \/ \E f \in Note : ReadNote(p, f) \/ ReadLinks(p, f) \/ ReadDoc(p, f)
  \/ \E x \in Path : Hash(p, x) \/ Stat(p, x)
  \/ Save(p) \/ Commit(p)
  \/ Finish(p) \/ Fail(p)

UserStep == \E f \in Note : Write(f) \/ Delete(f) \/ Touch(f)

Interference == UserStep \/ DeleteAll \/ \E p \in Proc : Kill(p)

Next ==
  \/ Interference
  \/ \E p \in Proc : Step(p) \/ \E c \in Cmd : Start(p, c)

Spec == Init /\ [][Next]_vars

(***************************************************************************)
(* A command is a straight-line program: while it runs it takes its next   *)
(* step.  That somebody keeps asking for a refresh is an assumption on the *)
(* environment.                                                            *)
(***************************************************************************)
Fairness == \A p \in Proc : WF_vars(Step(p)) /\ SF_vars(Start(p, "refresh"))

FairSpec == Spec /\ Fairness

-----------------------------------------------------------------------------
(***************************************************************************)
(* Properties.                                                             *)
(***************************************************************************)
Indexed(f, c) == nodes[f] = [fm |-> c, links |-> c] /\ docs[f] = c

Fresh(f) ==
  \/ /\ fs[f] = None
     /\ nodes[f] = None /\ docs[f] = None /\ rows[f] = None
  \/ /\ fs[f] # None /\ rows[f] # None
     /\ rows[f].hash = fs[f].content
     /\ Indexed(f, fs[f].content)

\* When a build or a refresh succeeds, nobody edited a note and nobody else
\* wrote the database meanwhile, the database describes the worktree, whatever
\* edits, crashes, wipes and rival commands came before; except for a note
\* that was edited inside the read window of the run that committed last.
QuietRunFresh ==
  \A p \in Proc :
    pc[p] \in {"noop", "full"} /\ ~edited[p] /\ ~raced[p] =>
      \A f \in Note \ dbTorn : Fresh(f)

\* What the no-op path relies on: an indexed_files row that still matches the
\* file, by mtime or by hash, vouches for the node and the search document of
\* the file, in every state, under any interleaving of commands.
RowsVouch ==
  \A f \in Note \ dbTorn :
    /\ scopes /\ rows[f] # None /\ fs[f] # None
    /\ rows[f].mtime = fs[f].mtime \/ rows[f].hash = fs[f].content
    => Indexed(f, fs[f].content)

\* The committed tables agree with each other in every state a concurrent
\* reader can see: no document without its node, and a note node exactly for
\* each indexed note, unless the nodes were deleted by hand.
DbCoherent ==
  /\ scopes => tables /\ schema = "current"
  /\ \A f \in Note :
       /\ docs[f] # None => nodes[f] # None
       /\ nodes[f] # None => scopes
       /\ scopes => (nodes[f] # None <=> rows[f] # None)

\* An incremental refresh takes the heavy path only because a note's content
\* changed since the last committed run began: neither a touch, nor its own
\* writes, nor a crash of another run causes a rebuild.
NoNeedlessRebuild ==
  \A p \in Proc :
    /\ pc[p] = "scan" /\ cmd[p] = "refresh" /\ chosen[p] = "refresh"
    /\ ~raced[p]
    => touched

\* Opening the store drops tables of another schema only: a database of the
\* current schema is never thrown away.
NeverDropsCurrent == [][schema = "current" => schema' = "current"]_schema

\* Once edits, wipes and crashes cease, the refreshes that keep running bring
\* the database up to date for good, except for notes lost to a read window.
Heals ==
  <>[][~Interference]_vars => <>[](\A f \in Note \ dbTorn : Fresh(f))

(***************************************************************************)
(* The inductive invariant behind RowsVouch.  A note's record is settled   *)
(* when node, document and row carry the same bytes and the row's mtime    *)
(* belongs to no other bytes.                                              *)
(***************************************************************************)
DocOf(body) == IF body = Unread THEN None ELSE body
Scanned(body) == [fm |-> body, links |-> body]

Settled(n, d, r, f) ==
  /\ n = Scanned(r.hash) /\ d = DocOf(r.hash)
  /\ fs[f] # None /\ fs[f].mtime = r.mtime => fs[f].content = r.hash

MtimesPast ==
  /\ \A x \in Path : fs[x] # None => fs[x].mtime <= clock
  /\ \A x \in Path : rows[x] # None => rows[x].mtime <= clock
  /\ \A p \in Proc, x \in Path :
       gRows[p][x] # None => gRows[p][x].mtime <= clock

RowsSettled ==
  \A f \in Note \ dbTorn :
    scopes /\ rows[f] # None => Settled(nodes[f], docs[f], rows[f], f)

\* p holds the result of a scan.
Holding(p) ==
  \/ pc[p] \in Pass \cup {"save", "commit"}
  \/ pc[p] \in {"open", "drop", "create"} /\ cmd[p] = "build"

\* Only what the inventory lists is visited, and only that has a record.
InInventory(p) ==
  Holding(p) =>
    /\ pc[p] \in Pass => todo[p] \subseteq inv[p]
    /\ \A f \in Note \ inv[p] :
         gNodes[p][f] = None /\ gDocs[p][f] = None /\ gRows[p][f] = None

\* What p holds of a note nobody edited in its window.
Undisturbed(p, f) ==
  /\ pc[p] = "notes" /\ f \notin todo[p] =>
       gNodes[p][f] = [fm |-> Read(f), links |-> Unread]
  /\ pc[p] = "links" =>
       gNodes[p][f] = [fm |-> Read(f),
                       links |-> IF f \in todo[p] THEN Unread ELSE Read(f)]
  /\ pc[p] \in {"open", "drop", "create"} /\ cmd[p] = "build" =>
       gNodes[p][f] = Scanned(Read(f))
  /\ pc[p] = "docs" =>
       /\ gNodes[p][f] = Scanned(Read(f))
       /\ f \notin todo[p] => gDocs[p][f] = DocOf(Read(f))
  /\ pc[p] = "index" /\ f \in todo[p] =>
       /\ gNodes[p][f] = Scanned(Read(f)) /\ gDocs[p][f] = DocOf(Read(f))
       /\ hashing[p] # None /\ hashing[p].path = f => hashing[p].hash = Read(f)
  /\ \/ pc[p] = "index" /\ f \notin todo[p]
     \/ pc[p] \in {"save", "commit"}
     => /\ gRows[p][f] # None
        /\ Settled(gNodes[p][f], gDocs[p][f], gRows[p][f], f)

ScanOf(p) ==
  /\ InInventory(p)
  /\ \A f \in (inv[p] \cap Note) \ torn[p] : Undisturbed(p, f)

ScanInv == \A p \in Proc : ScanOf(p)

IInv == MtimesPast /\ RowsSettled /\ ScanInv

\* A run that reports StaleAfter=false, undisturbed while it ran, leaves a
\* database that describes the worktree.
StaleAfterIsRight ==
  \A p \in Proc :
    pc[p] \in {"noop", "full"} /\ ~edited[p] /\ ~raced[p] =>
      \A f \in Note : Fresh(f)
=============================================================================
