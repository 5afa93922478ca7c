------------------------------- MODULE Inventory -------------------------------
(***************************************************************************)
(* BuildInventory (internal/scanner: repo_inventory.go, inventory_walker.go,*)
(* git_probe.go): discover the repositories below the campaign root, ask    *)
(* git three times about each, then walk each and list what is not ignored. *)
(* The user edits the tree and its repositories between any two directory   *)
(* reads or calls of git.                                                  *)
(*                                                                         *)
(* filepath.WalkDir decides on a directory and reads it, then decides on    *)
(* what it read from what git said: reading a directory is one step.        *)
(***************************************************************************)
EXTENDS Worktree

CONSTANTS
  Worlds,   \* worktrees to start from, see WorldType
  Order,    \* the paths in the order of WalkDir and of the boundaries
  MaxEdits  \* bound on the edits made meanwhile

Places == ToSet(Order)

\* dirs and files are on disk; markers are directories whose .git looks like
\* a repository's, real those that git accepts; index is a set of <<repo,
\* path>>; rules are the paths that .gitignore files name; unread what only
\* others may read.
World ==
  [dirs : SUBSET Places, files : SUBSET Places, markers : SUBSET Places,
   real : SUBSET Places, unread : SUBSET Places, rules : SUBSET Places,
   index : SUBSET (Places \X Places)]

WorldType(w) ==
  /\ w \in World /\ <<>> \in w.dirs /\ w.dirs \cap w.files = {}
  /\ w.real \subseteq w.markers /\ w.markers \cup w.unread \subseteq w.dirs
  /\ \A p \in w.dirs \cup w.files : Ancestors(p) \subseteq w.dirs

\* No name is empty: git's "r/" is no file.
ASSUME InventoryAssumption ==
  /\ Order \in Seq(Seq(STRING \ {""}))
  /\ \A w \in Worlds : WorldType(w)
  /\ MaxEdits \in Nat

VARIABLES
  world,      \* the worktree
  stage,      \* "discover", "classify", "walk", "done" or "failed"
  open,       \* directories that the current walk has yet to read
  boundaries, \* repository roots found, and the campaign root
  marked,     \* those with a .git marker
  pending,    \* boundaries that the stage has yet to finish
  cls,        \* boundary -> what git said, kind -> set of paths
  entries,    \* the inventory: {[path, repo, state, dir]}
  touched     \* history: the edits made, each by the path it was made at

vars == <<world, stage, open, boundaries, marked, pending, cls, entries, touched>>

-----------------------------------------------------------------------------
(* git ls-files.  A repository inside another is one entry, "r/", and what  *)
(* is in it is listed by itself only.                                      *)

Slash(r) == Append(r, "")
Place(e) == IF Last(e) = "" THEN Front(e) ELSE e

\* The innermost of the repositories at, if any.
Innermost(at) == IF at = {} THEN {} ELSE {Deepest(at)}

\* The repository that a path belongs to, and the one that git finds when it
\* is run in a directory.  For git a .git it does not accept is no repository and it
\* looks further up; a .git file with a broken gitdir, at which it gives up,
\* is not among the worlds.
Owner(p) == Innermost({r \in world.real : IsStrictPrefix(r, p)})
RunIn(b) == Innermost({r \in world.real : Within(b, r)})

IgnoredBy(top, p) == \E x \in world.rules : IsStrictPrefix(top, x) /\ Within(p, x)

Kinds == <<"tracked", "untracked", "ignored">>

\* git -C b ls-files: of the repository at b or, if there is none, above it.
Others(b, top) ==
  {e \in world.files \cup {Slash(r) : r \in world.real \ {<<>>}} :
     /\ Owner(Place(e)) = {top} /\ IsStrictPrefix(b, Place(e))
     /\ <<top, Place(e)>> \notin world.index}

LsFiles(b, kind) ==
  UNION {CASE kind = "tracked" -> {i[2] : i \in {x \in world.index :
                                                  x[1] = top /\ IsStrictPrefix(b, x[2])}}
           [] kind = "untracked" -> {e \in Others(b, top) : ~IgnoredBy(top, Place(e))}
           [] kind = "ignored" -> {e \in Others(b, top) : IgnoredBy(top, Place(e))}
           : top \in RunIn(b)}

-----------------------------------------------------------------------------
Unasked == [kind \in {} |-> {}]
FirstOf(ps) == Order[Min({i \in DOMAIN Order : Order[i] \in ps})]
Tree == world.dirs \cup world.files

Init ==
  /\ world \in Worlds
  /\ stage = "discover" /\ open = {<<>>}
  /\ boundaries = {<<>>} /\ marked = {<<>>} \cap world.markers
  /\ pending = {} /\ cls = [b \in {} |-> Unasked] /\ entries = {} /\ touched = {}

\* DiscoverBoundaries: does not descend into a repository.
Discover ==
  /\ stage = "discover" /\ open # {}
  /\ LET d == FirstOf(open)
     IN  IF d # <<>> /\ d \in world.markers
         THEN /\ boundaries' = boundaries \cup {d} /\ marked' = marked \cup {d}
              /\ open' = open \ {d}
         ELSE /\ d \in world.dirs
              /\ open' = (open \ {d}) \cup (IF d \in world.unread THEN {}
                                            ELSE ChildrenOf(world.dirs, d))
              /\ UNCHANGED <<boundaries, marked>>
  /\ UNCHANGED <<world, stage, pending, cls, entries, touched>>

Discovered ==
  /\ stage = "discover" /\ open = {}
  /\ stage' = "classify" /\ pending' = boundaries
  /\ cls' = [b \in boundaries |-> Unasked]
  /\ UNCHANGED <<world, open, boundaries, marked, entries, touched>>

\* CmdGitProbe.Classify, one call of git at a time.
Classify ==
  /\ stage = "classify" /\ pending # {}
  /\ LET b == FirstOf(pending)
         kind == Kinds[1 + Cardinality(DOMAIN cls[b])]
     IN  /\ IF b \notin marked
            THEN cls' = [cls EXCEPT ![b] = [k \in ToSet(Kinds) |-> {}]]
            ELSE /\ b \in world.dirs
                 /\ cls' = [cls EXCEPT ![b] = [k \in DOMAIN cls[b] \cup {kind} |->
                              IF k = kind THEN LsFiles(b, kind) ELSE cls[b][k]]]
         /\ pending' = IF DOMAIN cls'[b] = ToSet(Kinds) THEN pending \ {b} ELSE pending
  /\ UNCHANGED <<world, stage, open, boundaries, marked, entries, touched>>

Classified ==
  /\ stage = "classify" /\ pending = {}
  /\ stage' = "walk" /\ pending' = boundaries /\ open' = {FirstOf(boundaries)}
  /\ UNCHANGED <<world, boundaries, marked, cls, entries, touched>>

\* GitClassification.Classify
RootState(b, p) ==                                   \* mutant
  IF b \notin marked THEN "unknown"
  ELSE IF p \in cls[<<>>]["ignored"] THEN "ignored"
  ELSE IF p \in cls[<<>>]["tracked"] THEN "tracked" ELSE "unknown"
State(b, p) ==
  IF b \notin marked THEN "unknown"
  ELSE IF p \in cls[b]["ignored"] THEN "ignored"
  ELSE IF p \in cls[b]["tracked"] THEN "tracked"
  ELSE IF p \in cls[b]["untracked"] THEN "untracked"
  ELSE "unknown"

AnyUnder(b, d, kind) == \E e \in cls[b][kind] : IsStrictPrefix(d, e)

SomewhatIgnored(b, d) ==                             \* mutant
  b \in marked /\ AnyUnder(b, d, "ignored")
DirectoryIsIgnored(b, d) ==
  /\ b \in marked
  /\ ~AnyUnder(b, d, "tracked") /\ ~AnyUnder(b, d, "untracked")
  /\ AnyUnder(b, d, "ignored")

StateOf(b, p) ==
  IF p \in world.dirs /\ State(b, p) = "unknown" /\ DirectoryIsIgnored(b, p)
  THEN "ignored" ELSE State(b, p)

\* groupNestedChildren
NestedNone(b) == {}                                  \* mutant
NestedChildren(b) ==
  {c \in boundaries \ {b} : /\ Within(c, b)
                            /\ ~\E x \in boundaries \ {b, c} : Within(c, x) /\ Within(x, b)}

\* walkBoundary, the reading of one directory.
Walk ==
  /\ stage = "walk" /\ open # {}
  /\ LET b == FirstOf(pending)
         d == FirstOf(open)
         found == IF d \in world.unread THEN {}
                  ELSE {p \in ChildrenOf(Tree, d) \ NestedChildren(b) : StateOf(b, p) # "ignored"}
     IN  /\ d \in world.dirs
         /\ entries' = entries \cup
              {[path |-> p, repo |-> b, state |-> StateOf(b, p), dir |-> p \in world.dirs] :
                 p \in found}
         /\ open' = (open \ {d}) \cup (found \cap world.dirs)
  /\ UNCHANGED <<world, stage, boundaries, marked, pending, cls, touched>>

NextBoundary ==
  /\ stage = "walk" /\ open = {}
  /\ pending' = pending \ {FirstOf(pending)}
  /\ IF pending' = {} THEN stage' = "done" /\ UNCHANGED open
     ELSE open' = {FirstOf(pending')} /\ UNCHANGED stage
  /\ UNCHANGED <<world, boundaries, marked, cls, entries, touched>>

Running == stage \notin {"done", "failed"}

\* A directory vanished, git failed, or the context is done: no inventory.
Fail ==
  /\ Running
  /\ stage' = "failed"
  /\ UNCHANGED <<world, open, boundaries, marked, pending, cls, entries, touched>>

-----------------------------------------------------------------------------
(* What the user does meanwhile. *)

Edit(at) ==
  /\ Running /\ Cardinality(touched) < MaxEdits /\ at \notin touched
  /\ touched' = touched \cup {at}
  /\ UNCHANGED <<stage, open, boundaries, marked, pending, cls, entries>>

Beyond(ps, d) == {p \in ps : ~Within(p, d)}

Create(p) ==
  /\ p \notin Tree /\ Parent(p) \in world.dirs
  /\ world' = [world EXCEPT !.files = @ \cup {p}]

Delete(p) ==
  /\ p \in world.files
  /\ world' = [world EXCEPT !.files = @ \ {p}]

RemoveDir(d) ==
  /\ d \in world.dirs \ {<<>>}
  /\ world' = [world EXCEPT !.files = Beyond(@, d), !.dirs = Beyond(@, d),
                            !.markers = Beyond(@, d), !.real = Beyond(@, d),
                            !.unread = Beyond(@, d),
                            !.index = {x \in @ : ~Within(x[1], d)}]

\* git add and git rm --cached
Stage(p) ==
  /\ p \in world.files /\ Owner(p) # {}
  /\ LET x == <<CHOOSE r \in Owner(p) : TRUE, p>>
     IN  world' = [world EXCEPT !.index = IF x \in @ THEN @ \ {x} ELSE @ \cup {x}]

\* A rule is added to or taken from a .gitignore file.
Ignore(p) ==
  /\ p \in Tree \ {<<>>}
  /\ world' = [world EXCEPT !.rules = IF p \in @ THEN @ \ {p} ELSE @ \cup {p}]

\* git init, and the removal of a .git directory.
Repository(d) ==
  /\ d \in world.dirs
  /\ world' = IF d \in world.real
              THEN [world EXCEPT !.real = @ \ {d}, !.markers = @ \ {d},
                                 !.index = {x \in @ : x[1] # d}]
              ELSE [world EXCEPT !.real = @ \cup {d}, !.markers = @ \cup {d}]

User(p) ==
  /\ Edit(p)
  /\ Create(p) \/ Delete(p) \/ RemoveDir(p) \/ Stage(p) \/ Ignore(p) \/ Repository(p)

Next ==
  \/ Discover \/ Discovered \/ Classify \/ Classified \/ Walk \/ NextBoundary \/ Fail
  \/ \E p \in Places : User(p)

Spec == Init /\ [][Next]_vars

-----------------------------------------------------------------------------
Untouched(p) == ~\E x \in touched : Within(p, x)
ListedPaths == {e.path : e \in entries}

\* Every path is listed once, by the deepest boundary it lies in, and a
\* boundary itself by none: what groupNestedChildren and the order of the
\* passes are for (inventory_walker.go:80-110, inventory.go:103-118).
OneOwner ==
  \A e \in entries :
    /\ e.repo = BoundaryFor(boundaries, e.path) /\ e.path \notin boundaries
    /\ \A x \in entries : x.path = e.path => x = e

\* No file is listed that was ignored all the while, by the repository that
\* it is listed in: not even where an edit came between the three calls of
\* git.  Files of a repository inside a nested one are listed with the nested
\* one, which does not know their rules (repo_inventory.go:27-29).
IgnoredLeftOut ==
  \A p \in world.files :
    LET b == BoundaryFor(boundaries, p)
    IN  /\ Untouched(p) /\ b \in marked /\ Owner(p) # {}
        /\ \A r \in Owner(p) : Within(b, r) /\ IgnoredBy(r, p) /\ <<r, p>> \notin world.index
        => p \notin ListedPaths

\* Nothing else gets lost: a file that was there all the while, that nothing
\* ignores and whose directories can be read, is in a finished inventory,
\* even in a directory that is ignored in part, and a nested repository's
\* file even when the directory around the repository is ignored
\* (inventory_walker.go:217-246, 66-69).
NothingLost ==
  stage = "done" =>
    \A p \in world.files :
      LET b == BoundaryFor(boundaries, p)
      IN  \/ ~Untouched(p) \/ p \in ListedPaths
          \/ \E d \in world.unread : IsStrictPrefix(d, p)
          \/ \E r \in RunIn(b) : IgnoredBy(r, p)
=============================================================================
