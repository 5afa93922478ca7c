------------------------------- MODULE Worktree -------------------------------
(***************************************************************************)
(* Paths below a campaign root (internal/scanner: scopes.go, inventory.go). *)
(*                                                                         *)
(* A path is the tuple of its names from the root, which is <<>>.          *)
(***************************************************************************)
EXTENDS Naturals, Sequences, FiniteSets, SequencesExt

CONSTANTS
  NameOf, \* file name -> [ext, bare, stem]: its extension, the name without
          \* it, and that in lower case
  Hidden  \* names that start with a dot

Plain(name) == [ext |-> "", bare |-> name, stem |-> name]
Name(p) == IF p = <<>> THEN Plain("")
           ELSE IF Last(p) \in DOMAIN NameOf THEN NameOf[Last(p)] ELSE Plain(Last(p))
Ext(p) == Name(p).ext

Markdown == {"md", "markdown", "mdx"}

\* pathContains
Within(p, d) == IsPrefix(d, p)

\* ancestorPaths: the directories above p, neither the root nor p itself.
Ancestors(p) == {SubSeq(p, 1, i) : i \in 1 .. Len(p) - 1}

Parent(p) == IF p = <<>> THEN p ELSE Front(p)

\* The directory d and those above it, to the root.
UpFrom(d) == {SubSeq(d, 1, i) : i \in 0 .. Len(d)}

\* What a directory holds, of the paths ps.
ChildrenOf(ps, d) == {p \in ps : p # <<>> /\ Front(p) = d}

Deepest(ds) == CHOOSE d \in ds : \A x \in ds : Len(x) <= Len(d)

\* Inventory.BoundaryFor
BoundaryFor(boundaries, p) == Deepest({b \in boundaries : Within(p, b)})

\* filepath.Join and Rel of a link: ".." leaves a directory, and what leaves
\* the root is outside whatever follows.  The root has no name here by which a
\* link that left it could come back, as it may for Join and Rel.
Outside == <<"..">>
Into(d, name) ==
  IF d = Outside THEN d
  ELSE IF name = "." THEN d
  ELSE IF name # ".." THEN Append(d, name)
  ELSE IF d = <<>> THEN Outside ELSE Front(d)

\* resolveRelativeToRoot
Resolve(from, names) == FoldLeft(Into, from, names)
=============================================================================
