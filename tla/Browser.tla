------------------------------- MODULE Browser -------------------------------
(***************************************************************************)
(* The terminal browser of camp-graph (internal/tui): one event loop that  *)
(* handles a key or a message at a time, and the goroutines of its query   *)
(* and preview commands, which answer later and in any order.              *)
(*                                                                         *)
(* A query is superseded by the next one, told apart by its generation; a  *)
(* preview is superseded by the next cursor move, told apart by the row it *)
(* is about.  Both carry a context that the loop cancels, and a cancelled  *)
(* goroutine still answers: with an error or, when it was done before it   *)
(* looked, with its rows.                                                  *)
(***************************************************************************)
EXTENDS Naturals, Sequences, FiniteSets, SequencesExt

CONSTANTS
  Node,     \* node identifiers
  Known,    \* nodes of the graph loaded when the browser opened; the
            \* database may have been refreshed since
  Term,     \* non-empty search texts
  NoTerm,   \* the empty search text
  Chip,     \* settings of the type, tracked and mode chips
  AllChips, \* every chip at its default
  Scope,    \* the options of the scope picker
  NoScope,  \* no scope chosen
  Hits,     \* term, chip, scope -> the rows Querier.Search returns
  Anchors,  \* chip, scope -> filterAnchors of the scope anchors
  TypeOf,   \* node -> display rank of its type (typePriority)
  Adjacent, \* chip, node -> the neighbors that the chip's relation mode shows
  None,     \* no row, no node
  HalfPage, \* listH / 2
  MaxCount, \* bound on the count prefix of a motion
  MaxGen,   \* bound on the queries issued
  MaxFetch, \* bound on the previews issued
  MaxDepth  \* bound on the micrograph history

Texts == Term \cup {NoTerm}
Scopes == Scope \cup {NoScope}

ASSUME BrowserAssumption ==
  /\ Known \subseteq Node /\ None \notin Node
  /\ NoTerm \notin Term /\ NoScope \notin Scope /\ AllChips \in Chip
  /\ Hits \in [Term \X Chip \X Scopes -> Seq(Node)]
  /\ Anchors \in [Chip \X Scopes -> Seq(Known)]
  /\ TypeOf \in [Node -> Nat]
  /\ Adjacent \in [Chip \X Known -> SUBSET Known]
  /\ HalfPage \in Nat \ {0} /\ MaxCount \in Nat \ {0}
  /\ MaxGen \in Nat /\ MaxFetch \in Nat /\ MaxDepth \in Nat

\* A query in flight, with the generation and what it asks for; a preview in
\* flight, numbered, with the row it is about.  `live` until it is cancelled.
Ask == [gen : Nat, term : Term, chip : Chip, scope : Scopes, live : BOOLEAN]
Fetch == [num : Nat, id : Node, live : BOOLEAN]

Group == [type : Nat, expanded : BOOLEAN, rows : Seq(Node)]
Part == {"list", "search", "chip", "picker", "preview"}

VARIABLES
  term, chip, scope,  \* the search text, the chips, the chosen scope
  queryGen, \* the generation of the last query issued
  asks,     \* the queries in flight
  held,     \* the generation whose cancel function queryCancel is, or 0
  groups,   \* the grouped results on display
  anchors,  \* filteredAnchors, on display while there are no groups
  cursor,
  issued,   \* how many previews were issued
  fetches,  \* the previews in flight
  pHeld,    \* the preview whose cancel function previewCancel is, or 0
  pFocus,   \* previewFocusID
  pane,     \* previewNode
  focus,    \* which part of the screen takes the keys, and whether the help
            \* overlay covers it
  micro,    \* the node the micrograph is about, None in the list
  history,  \* the nodes the micrograph was about before
  quit

\* Read by no action of the program.
VARIABLES
  failed,   \* the last answer taken was an error
  stray     \* the row under the cursor changed since the last cursor move

queryVars == <<term, chip, scope, queryGen, asks, held, groups, anchors, failed>>
paneVars == <<issued, fetches, pHeld, pFocus, pane>>
screenVars == <<focus, micro, history, quit>>
vars == <<queryVars, cursor, paneVars, screenVars, stray>>

TypeOK ==
  /\ term \in Texts /\ chip \in Chip /\ scope \in Scopes
  /\ queryGen \in Nat /\ asks \in SUBSET Ask /\ held \in 0 .. queryGen
  /\ groups \in Seq(Group) /\ anchors \in Seq(Known) /\ cursor \in Nat
  /\ issued \in Nat /\ fetches \in SUBSET Fetch /\ pHeld \in 0 .. issued
  /\ pFocus \in Node \cup {None} /\ pane \in Known \cup {None}
  /\ focus \in [part : Part, help : BOOLEAN]
  /\ micro \in Known \cup {None} /\ history \in Seq(Known)
  /\ quit \in BOOLEAN /\ failed \in BOOLEAN /\ stray \in BOOLEAN

-----------------------------------------------------------------------------
(***************************************************************************)
(* What is on display.                                                     *)
(***************************************************************************)
\* The numbers of a set in ascending order.
Ascending(S) ==
  [k \in 1 .. Cardinality(S) |-> CHOOSE i \in S : Cardinality({j \in S : j < i}) = k - 1]

\* groupByType: buckets in display order, each in the order of the results.
Bucket(hits, rank) ==
  LET rows[k \in 0 .. Len(hits)] ==
        IF k = 0 THEN <<>>
        ELSE IF TypeOf[hits[k]] = rank THEN Append(rows[k - 1], hits[k]) ELSE rows[k - 1]
  IN  rows[Len(hits)]

GroupByType(hits) ==
  LET ranks == {TypeOf[hits[i]] : i \in DOMAIN hits}
      GroupOf(rank) == [type |-> rank, expanded |-> TRUE, rows |-> Bucket(hits, rank)]
  IN  [g \in 1 .. Cardinality(ranks) |-> GroupOf(Ascending(ranks)[g])]

\* The groups of every search.
Grouped == [query \in DOMAIN Hits |-> GroupByType(Hits[query])]

\* The visible lines of the grouped list: a header, then the rows of the
\* group unless it is collapsed.
GroupLines(gs) ==
  FlattenSeq([i \in DOMAIN gs |->
    <<None>> \o (IF gs[i].expanded THEN gs[i].rows ELSE <<>>)])

Lines == IF groups # <<>> THEN GroupLines(groups) ELSE anchors

\* focusedRowID: no row on a header and none past the end.
RowAt(c) == IF c < Len(Lines) THEN Lines[c + 1] ELSE None
FocusedRow == RowAt(cursor)

HeaderOf(gs, g) == Len(GroupLines(SubSeq(gs, 1, g - 1)))

Unclamped(c, ceiling) == c                          \* mutant
Clamp(c, ceiling) == CASE ceiling = 0 -> 0
                       [] c < ceiling -> c
                       [] OTHER -> ceiling - 1

-----------------------------------------------------------------------------
Init ==
  /\ term = NoTerm /\ chip = AllChips /\ scope = NoScope
  /\ queryGen = 0 /\ asks = {} /\ held = 0 /\ failed = FALSE
  /\ groups = <<>> /\ anchors = Anchors[<<AllChips, NoScope>>] /\ cursor = 0
  /\ issued = 0 /\ fetches = {} /\ pHeld = 0 /\ pFocus = None /\ pane = None
  /\ focus = [part |-> "list", help |-> FALSE]
  /\ micro = None /\ history = <<>>
  /\ quit = FALSE /\ stray = TRUE

\* The loop runs and its keys go to a part of the list view.
Keys(part) == ~quit /\ micro = None /\ focus = [part |-> part, help |-> FALSE]

(***************************************************************************)
(* issueQuery: cancel what is in flight; an empty text shows the anchors   *)
(* and asks nothing, and leaves the generation as it was.                  *)
(***************************************************************************)
SupersededUncancelled == asks                       \* mutant
Superseded == {[q EXCEPT !.live = @ /\ q.gen # held] : q \in asks}

ShowAnchorsStale(c, s) == groups' = <<>> /\ UNCHANGED anchors    \* mutant
ShowAnchors(c, s) == groups' = <<>> /\ anchors' = Anchors[<<c, s>>]

IssueQuery(t, c, s) ==
  /\ term' = t /\ chip' = c /\ scope' = s
  /\ \/ /\ t = NoTerm
        /\ asks' = Superseded /\ held' = 0
        /\ ShowAnchors(c, s)
        /\ UNCHANGED queryGen
     \/ /\ t # NoTerm
        /\ queryGen < MaxGen
        /\ queryGen' = queryGen + 1
        /\ asks' = Superseded \cup
             {[gen |-> queryGen + 1, term |-> t, chip |-> c, scope |-> s,
               live |-> TRUE]}
        /\ held' = queryGen + 1
        /\ UNCHANGED <<groups, anchors>>
  /\ UNCHANGED failed

\* A step that shows other lines or moves the cursor without a preview.
NoPreview ==
  /\ stray' = (stray \/ FocusedRow' # FocusedRow)
  /\ UNCHANGED paneVars

OutdatedPreviews ==
  {[f EXCEPT !.live = @ /\ f.num # pHeld] : f \in fetches}

\* issuePreview for row id; a header or an empty list leaves the last
\* preview as it was, in flight or not.
IssuePreview(id) ==
  /\ stray' = FALSE
  /\ UNCHANGED pane
  /\ \/ id = None /\ UNCHANGED <<issued, fetches, pHeld, pFocus>>
     \/ /\ id # None
        /\ issued < MaxFetch
        /\ issued' = issued + 1
        /\ fetches' = OutdatedPreviews \cup
             {[num |-> issued + 1, id |-> id, live |-> TRUE]}
        /\ pHeld' = issued + 1
        /\ pFocus' = id

-----------------------------------------------------------------------------
(***************************************************************************)
(* Keys in the list.                                                       *)
(***************************************************************************)
\* Where a motion can take the cursor: up, down, half a page, to line n, to
\* the first or the last line.  `up` is clamped below only.
Targets ==
  LET end == Len(Lines)
      Minus(n) == IF n < cursor THEN cursor - n ELSE 0
  IN  (UNION {{Minus(n), Clamp(cursor + n, end), Clamp(n - 1, end),
               Clamp(Minus(HalfPage * n), end), Clamp(cursor + HalfPage * n, end)}
              : n \in 1 .. MaxCount})
      \cup {0, IF end > 0 THEN end - 1 ELSE cursor}

Move(c) ==
  /\ Keys("list")
  /\ cursor' = c
  /\ IssuePreview(RowAt(c))
  /\ UNCHANGED <<queryVars, screenVars>>

Goto(from, to) ==
  /\ Keys(from)
  /\ focus' = [focus EXCEPT !.part = to]
  /\ UNCHANGED <<queryVars, cursor, paneVars, micro, history, quit, stray>>

\* `/`, the chip keys, `c` and `tab` leave the list; `esc`, `enter` in the
\* search field and `tab` in the preview pane come back.
SwitchFocus ==
  \E part \in Part \ {"list"} : Goto("list", part) \/ Goto(part, "list")

\* `C`
ClearScope ==
  /\ Keys("list") /\ scope # NoScope
  /\ IssueQuery(term, chip, NoScope)
  /\ UNCHANGED <<cursor, screenVars>>
  /\ NoPreview

\* isExplorerFallback
ExplorerFallback == term = NoTerm /\ scope = NoScope /\ chip = AllChips

\* `a`, in the explorer only.  It replaces m.filtered, which is on display
\* only while filteredAnchors is nil: that is never, since a built graph has
\* the campaign root's folder.
Widen ==
  /\ Keys("list") /\ ExplorerFallback
  /\ cursor' = 0
  /\ UNCHANGED <<queryVars, screenVars>>
  /\ NoPreview

\* `enter` on a header
ToggleGroup(g) ==
  /\ Keys("list")
  /\ cursor = HeaderOf(groups, g)
  /\ groups' = [groups EXCEPT ![g].expanded = ~@]
  /\ UNCHANGED <<term, chip, scope, queryGen, asks, held, anchors, failed,
                 cursor, screenVars>>
  /\ NoPreview

\* `enter` on a row: the micrograph opens on nodes of the loaded graph only.
OpenRow ==
  /\ Keys("list")
  /\ FocusedRow \in Known
  /\ micro' = FocusedRow
  /\ UNCHANGED <<queryVars, cursor, paneVars, focus, history, quit, stray>>

-----------------------------------------------------------------------------
(***************************************************************************)
(* Keys elsewhere.                                                         *)
(***************************************************************************)
\* Any key in the search field that is not `esc` or `enter`.
Type(t) ==
  /\ Keys("search")
  /\ IssueQuery(t, chip, scope)
  /\ UNCHANGED <<cursor, screenVars>>
  /\ NoPreview

\* `esc` in the search field
SearchEsc ==
  /\ Keys("search")
  /\ focus' = [focus EXCEPT !.part = "list"]
  /\ term' = NoTerm
  /\ cursor' = 0
  /\ asks' = Superseded /\ held' = 0
  /\ ShowAnchors(chip, scope)
  /\ UNCHANGED <<chip, scope, queryGen, failed, micro, history, quit>>
  /\ NoPreview

\* A key that changes the focused chip's value.
PickChip(c) ==
  /\ Keys("chip") /\ c # chip
  /\ IssueQuery(term, c, scope)
  /\ UNCHANGED <<cursor, screenVars>>
  /\ NoPreview

\* `enter` in the scope picker, whose list may be empty.
PickScope(s) ==
  /\ Keys("picker")
  /\ focus' = [focus EXCEPT !.part = "list"]
  /\ IssueQuery(term, chip, s)
  /\ UNCHANGED <<cursor, micro, history, quit>>
  /\ NoPreview

\* `?` in every part but the search field, `?` or `esc` back.
Help ==
  /\ ~quit /\ micro = None /\ focus.part # "search"
  /\ focus' = [focus EXCEPT !.help = ~@]
  /\ UNCHANGED <<queryVars, cursor, paneVars, micro, history, quit, stray>>

FollowTarget(from, to) == Append(history, to)       \* mutant
Follow(from, to) == Append(history, from)

\* `enter` and `esc` in the micrograph
MicroFollow(n) ==
  /\ ~quit /\ micro # None
  /\ n \in Adjacent[<<chip, micro>>]
  /\ Len(history) < MaxDepth
  /\ history' = Follow(micro, n)
  /\ micro' = n
  /\ UNCHANGED <<queryVars, cursor, paneVars, focus, quit, stray>>

MicroBack ==
  /\ ~quit /\ micro # None
  /\ \/ /\ history # <<>>
        /\ micro' = Last(history) /\ history' = Front(history)
     \/ history = <<>> /\ micro' = None /\ UNCHANGED history
  /\ UNCHANGED <<queryVars, cursor, paneVars, focus, quit, stray>>

\* quitModel, on ctrl+c anywhere and on `q` in the list
Quit ==
  /\ ~quit /\ quit' = TRUE
  /\ asks' = Superseded /\ held' = 0
  /\ fetches' = OutdatedPreviews /\ pHeld' = 0
  /\ UNCHANGED <<term, chip, scope, queryGen, groups, anchors, failed, cursor,
                 issued, pFocus, pane, focus, micro, history, stray>>

\* `q` in the micrograph
MicroQuit ==
  /\ ~quit /\ micro # None
  /\ quit' = TRUE
  /\ UNCHANGED <<queryVars, cursor, paneVars, focus, micro, history, stray>>

-----------------------------------------------------------------------------
(***************************************************************************)
(* The messages of the goroutines.                                         *)
(***************************************************************************)
AnyGeneration(q) == TRUE                            \* mutant
OwnGeneration(q) == q.gen = queryGen

\* queryResultMsg with rows or an error; a cancelled query may end with
\* either, and so may a live one.  An error empties the list.
LandQuery(q, error) ==
  /\ ~quit
  /\ asks' = asks \ {q}
  /\ UNCHANGED <<term, chip, scope, queryGen, anchors, screenVars>>
  /\ \/ /\ OwnGeneration(q)
        /\ held' = 0
        /\ failed' = error
        /\ groups' = IF error THEN <<>>
                     ELSE Grouped[<<q.term, q.chip, q.scope>>]
        /\ cursor' = Clamp(cursor, Len(Lines'))
     \/ ~OwnGeneration(q) /\ UNCHANGED <<held, failed, groups, cursor>>
  /\ NoPreview

AnyPreview(f) == TRUE                               \* mutant
OwnPreview(f) == f.id = FocusedRow

\* A row newer than the loaded graph has no node to show.
PaneOfAny(id) == id                                 \* mutant
PaneOf(id) == IF id \in Known THEN id ELSE None

\* previewMsg: accepted when it is about the row under the cursor.
LandPreview(f) ==
  /\ ~quit
  /\ fetches' = fetches \ {f}
  /\ \/ /\ OwnPreview(f)
        /\ pHeld' = 0
        /\ pane' = PaneOf(f.id)
     \/ ~OwnPreview(f) /\ UNCHANGED <<pHeld, pane>>
  /\ UNCHANGED <<queryVars, cursor, issued, pFocus, screenVars, stray>>

-----------------------------------------------------------------------------
UserStep ==
  \/ \E c \in Targets : Move(c)
  \/ SwitchFocus \/ ClearScope \/ Widen \/ OpenRow
  \/ \E g \in DOMAIN groups : ToggleGroup(g)
  \/ \E t \in Texts : Type(t)
  \/ SearchEsc
  \/ \E c \in Chip : PickChip(c)
  \/ \E s \in IF Scope = {} THEN {scope} ELSE Scope : PickScope(s)
  \/ Help
  \/ \E n \in Known : MicroFollow(n)
  \/ MicroBack \/ MicroQuit \/ Quit

Answer ==
  \/ \E q \in asks, error \in BOOLEAN : LandQuery(q, error)
  \/ \E f \in fetches : LandPreview(f)

Next == UserStep \/ Answer

Spec == Init /\ [][Next]_vars

(***************************************************************************)
(* A goroutine answers, with rows or an error, and the loop, which never   *)
(* blocks, takes its message: what takes a query out of `asks` is its      *)
(* LandQuery.  Nothing is assumed of the user.                             *)
(***************************************************************************)
Taken(i) == ~quit /\ \E q \in asks : q.gen = i /\ asks' = asks \ {q}

Fairness == \A i \in 1 .. MaxGen : WF_asks(Taken(i))

FairSpec == Spec /\ Fairness

-----------------------------------------------------------------------------
(***************************************************************************)
(* Properties.                                                             *)
(***************************************************************************)
\* The newest query has landed.
Landed == \A q \in asks : q.gen # queryGen

\* The rows of the grouped list, headers and folding aside.
Shown == FlattenSeq([g \in DOMAIN groups |-> groups[g].rows])

\* The hits in display order: by rank of type, then as the search ranked them.
Displayed(hits) ==
  LET Before(i) == {j \in DOMAIN hits : \/ TypeOf[hits[j]] < TypeOf[hits[i]]
                                        \/ TypeOf[hits[j]] = TypeOf[hits[i]] /\ j < i}
  IN  [k \in DOMAIN hits |-> hits[CHOOSE i \in DOMAIN hits : Cardinality(Before(i)) = k - 1]]

Ordered == [query \in DOMAIN Hits |-> Displayed(Hits[query])]

\* The list shows what the search finds for the text, chips and scope that are
\* set now, in display order, or nothing after an error.
ShowsCurrent ==
  Shown = IF failed THEN <<>> ELSE Ordered[<<term, chip, scope>>]

\* With a search text, once the newest query has landed the list shows what
\* the search finds for the current settings; whatever was typed, cleared,
\* picked and answered late on the way.
ListIsCurrent == term # NoTerm /\ Landed => ShowsCurrent

\* Without a search text the anchors are the ones of the chips and scope.
AnchorsFollowFilters == term = NoTerm => anchors = Anchors[<<chip, scope>>]

\* Only the newest query runs uncancelled, and not when the text is empty: an
\* older one that is still searching has been told to stop.
OneLiveQuery ==
  \A q \in asks :
    q.live => q.gen = queryGen /\ held = queryGen /\ term # NoTerm

\* While grouped results are shown the cursor is on a line of theirs, through
\* folding, late answers and shrinking results.
CursorOnGroups == groups # <<>> => cursor < Len(Lines)

\* After a cursor move, and as long as the lines stay, the answers settle on
\* the row under the cursor, in whatever order they come.
PreviewSettles ==
  ~stray /\ FocusedRow \in Known /\ fetches = {} =>
    pFocus = FocusedRow /\ pane = FocusedRow

\* The micrograph's history is a walk along shown edges that ends at the
\* current node, and the list has none.
HistoryIsWalk ==
  IF micro = None THEN history = <<>>
  ELSE LET walk == Append(history, micro)
       IN  \A i \in 1 .. Len(history) :
             walk[i + 1] \in Adjacent[<<chip, walk[i]>>]

\* When the text, the chips and the scope change no more and no query is
\* issued, the list comes to show what the search finds for them and keeps
\* showing it, however the user goes on moving, folding and looking.
Settles ==
  <>[][FALSE]_<<term, chip, scope, queryGen>> =>
    <>[](~quit /\ term # NoTerm => ShowsCurrent)

(***************************************************************************)
(* The inductive invariant behind OneLiveQuery and ListIsCurrent.  The     *)
(* generations of the queries in flight are distinct and not from the      *)
(* future; the newest one asks for what is set now; once it has landed the *)
(* groups hold its rows, folded or not.                                    *)
(***************************************************************************)
RowsOf(gs) == [g \in DOMAIN gs |-> gs[g].rows]

Generations ==
  /\ queryGen \in Nat /\ asks \subseteq Ask
  /\ \A q \in asks : q.gen <= queryGen
  /\ \A q, r \in asks : q.gen = r.gen => q = r

NewestIsCurrent ==
  \A q \in asks :
    term # NoTerm /\ q.gen = queryGen =>
      q.term = term /\ q.chip = chip /\ q.scope = scope

GroupsAreRecords ==
  \A g \in DOMAIN groups :
    groups[g] = [type |-> groups[g].type, expanded |-> groups[g].expanded,
                 rows |-> groups[g].rows]

GroupsAreCurrent ==
  term # NoTerm /\ Landed =>
    RowsOf(groups) =
      IF failed THEN <<>> ELSE RowsOf(Grouped[<<term, chip, scope>>])

BInv ==
  /\ term \in Texts /\ chip \in Chip /\ scope \in Scopes
  /\ Generations /\ NewestIsCurrent /\ OneLiveQuery
  /\ GroupsAreRecords /\ GroupsAreCurrent
  /\ AnchorsFollowFilters

\* What PreviewSettles needs: until the pane shows the row under the cursor,
\* a preview of it is in flight.
PaneInv ==
  ~stray /\ FocusedRow \in Known =>
    /\ pFocus = FocusedRow
    /\ pane = FocusedRow \/ \E f \in fetches : f.id = FocusedRow
=============================================================================
