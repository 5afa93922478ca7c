---------------------------- MODULE InventoryProofs ----------------------------
(***************************************************************************)
(* Proofs about Inventory, for any worktree, any order of its paths and any *)
(* number of edits made meanwhile.                                         *)
(*                                                                         *)
(* The argument is about one file that no edit touches, nor any directory   *)
(* above it. What git says of it cannot change (StepBack), so the three     *)
(* calls of git agree on it and on what is around it (Asked), although they *)
(* may disagree on everything else; and the walk is on its way down to it   *)
(* until it is listed (Sought).                                            *)
(***************************************************************************)
EXTENDS Inventory, WorktreeProofs

AllKinds == {"tracked", "untracked", "ignored"}
Asking == {"classify", "walk", "done"}

Here == FirstOf(pending)

\* No file that nobody touched is a boundary.
PlainFiles == \A p \in world.files : Untouched(p) => p \notin boundaries

Stages ==
  /\ stage \in {"discover", "classify", "walk", "done", "failed"}
  /\ open \subseteq Places /\ boundaries \subseteq Places /\ <<>> \in boundaries
  /\ marked \subseteq boundaries /\ pending \subseteq boundaries
  /\ stage \in {"discover", "classify"} => entries = {}
  /\ stage \in Asking => DOMAIN cls = boundaries
  /\ stage = "walk" => pending # {}

\* The three calls of git for one boundary come in their order.
Answered ==
  stage \in Asking =>
    \A b \in boundaries :
      /\ IF stage = "classify" /\ b \in pending
         THEN DOMAIN cls[b] \in {{}, {"tracked"}, {"tracked", "untracked"}}
         ELSE DOMAIN cls[b] = AllKinds
      /\ \A kind \in DOMAIN cls[b] : cls[b][kind] \subseteq Paths \ {<<>>}

-----------------------------------------------------------------------------
(***************************************************************************)
(* Places.                                                                 *)
(***************************************************************************)
LEMMA OfSeq ==
  ASSUME NEW S, NEW s \in Seq(S)
  PROVE  /\ Len(s) \in Nat /\ DOMAIN s = 1 .. Len(s)
         /\ \A i \in 1 .. Len(s) : s[i] \in S
OBVIOUS

LEMMA PlacePaths ==
  /\ Places \subseteq Paths
  /\ \A p \in Places : p # <<>> => Place(p) = p
<1>1. ASSUME NEW p \in Places PROVE p \in Seq(STRING \ {""})
  <2>1. PICK i \in DOMAIN Order : p = Order[i]
    BY DEF Places, ToSet
  <2>2. Order \in Seq(Seq(STRING \ {""}))
    BY InventoryAssumption
  <2>3. i \in 1 .. Len(Order) /\ Order[i] \in Seq(STRING \ {""})
    BY <2>2, OfSeq
  <2> QED BY <2>1, <2>3
<1>2. \A p \in Places : p \in Paths
  <2>1. STRING \ {""} \subseteq Names
    BY DEF Names
  <2>2. Seq(STRING \ {""}) \subseteq Seq(Names)
    BY <2>1, SeqMonotonic
  <2> QED BY <1>1, <2>2 DEF Paths
<1>3. ASSUME NEW p \in Places, p # <<>> PROVE Place(p) = p
  <2>1. p \in Seq(STRING \ {""})
    BY <1>1
  <2>3. Len(p) \in 1 .. Len(p)
    <3>1. Len(p) \in Nat \ {0}
      BY <1>2, <1>3, FrontPath
    <3> QED BY ONLY <3>1
  <2>2. p[Len(p)] \in STRING \ {""}
    BY <2>1, <2>3, OfSeq, Zenon
  <2> QED BY <2>2 DEF Place, Last
<1> QED BY <1>2, <1>3

LEMMA FirstIsOne ==
  ASSUME NEW ps \in SUBSET Places, ps # {}
  PROVE  FirstOf(ps) \in ps
<1> DEFINE S == {i \in DOMAIN Order : Order[i] \in ps}
<1>1. DOMAIN Order = 1 .. Len(Order) /\ Len(Order) \in Nat
  BY InventoryAssumption, OfSeq
<1>2. S \in SUBSET (0 .. Len(Order))
  BY <1>1
<1>3. S # {}
  BY DEF Places, ToSet
<1>4. \E m \in S : \A i \in S : m <= i
  <2> HIDE DEF S
  <2> QED BY <1>1, <1>2, <1>3, Least
<1>5. Min(S) \in S
  <2> HIDE DEF S
  <2> QED BY <1>4 DEF Min
<1> QED BY <1>5 DEF FirstOf

LEMMA SlashPlace ==
  ASSUME NEW r \in Paths
  PROVE  /\ Slash(r) \in Paths \ {<<>>} /\ Place(Slash(r)) = r
         /\ IsStrictPrefix(r, Slash(r))
<1>1. /\ Append(r, "") \in Paths /\ Append(r, "") # <<>>
      /\ Len(Append(r, "")) = Len(r) + 1 /\ Append(r, "")[Len(r) + 1] = ""
      /\ \A i \in 1 .. Len(r) : Append(r, "")[i] = r[i]
  <2>1. PICK x \in Names : x = ""
    BY DEF Names
  <2>2. /\ Append(r, x) \in Seq(Names) /\ Append(r, x) # <<>>
        /\ Len(Append(r, x)) = Len(r) + 1
        /\ \A i \in 1 .. Len(r) : Append(r, x)[i] = r[i]
        /\ Append(r, x)[Len(r) + 1] = x
    <3>1. r \in Seq(Names)
      BY DEF Paths
    <3> QED BY <3>1, AppendProperties
  <2> QED BY <2>1, <2>2, Zenon DEF Paths
<1>2. Slash(r) \in Paths /\ Slash(r) # <<>>
  BY <1>1 DEF Slash
<1>3. Len(r) \in Nat /\ Len(r) < Len(Slash(r)) /\ Len(r) <= Len(Slash(r))
  <2>1. Len(Slash(r)) = Len(r) + 1
    BY <1>1 DEF Slash
  <2> QED BY <2>1, PathLen
<1>4. Within(Slash(r), r)
  <2>1. \A i \in 1 .. Len(r) : r[i] = Slash(r)[i]
    BY <1>1 DEF Slash
  <2> QED BY <1>2, <1>3, <2>1, WithinMeans
<1>5. IsStrictPrefix(r, Slash(r))
  BY <1>2, <1>3, <1>4, StrictlyWithin
<1>6. Last(Slash(r)) = ""
  BY <1>1 DEF Last, Slash
<1>7. Front(Slash(r)) = r
  <2>1. /\ Front(Slash(r)) \in Paths /\ Within(Slash(r), Front(Slash(r)))
        /\ Len(Front(Slash(r))) = Len(r)
    <3>1. Len(Slash(r)) = Len(r) + 1
      BY <1>1 DEF Slash
    <3>2. /\ Front(Slash(r)) \in Paths /\ Within(Slash(r), Front(Slash(r)))
          /\ Len(Front(Slash(r))) = Len(Slash(r)) - 1
      BY <1>2, FrontPath
    <3> QED BY <1>3, <3>1, <3>2
  <2>2. Len(r) <= Len(Front(Slash(r))) /\ Len(Front(Slash(r))) <= Len(r)
    BY <1>3, <2>1
  <2>3. Within(Front(Slash(r)), r)
    BY <1>2, <1>4, <2>1, <2>2, AroundNest
  <2> QED BY <2>1, <2>2, <2>3, WithinEqual
<1> QED BY <1>2, <1>5, <1>6, <1>7 DEF Place

LEMMA PlaceOfPath ==
  ASSUME NEW e \in Paths \ {<<>>}
  PROVE  /\ Place(e) \in Paths
         /\ \A c \in Paths : IsStrictPrefix(c, e) => Within(Place(e), c)
<1>1. CASE Last(e) = ""
  <2>1. Front(e) \in Paths
    BY FrontPath
  <2>2. \A c \in Paths : IsStrictPrefix(c, e) => Within(Front(e), c)
    BY AboveParent
  <2> QED BY <1>1, <2>1, <2>2 DEF Place
<1>2. CASE Last(e) # ""
  BY <1>2, StrictlyWithin DEF Place
<1> QED BY <1>1, <1>2

\* The directories above a path, but for the root, are its ancestors.
LEMMA AncestorsAbove ==
  ASSUME NEW p \in Paths
  PROVE  \A d \in Paths : d \in Ancestors(p) <=> IsStrictPrefix(d, p) /\ d # <<>>
<1>0. Len(p) \in Nat
  BY PathLen
<1>1. ASSUME NEW i \in 1 .. Len(p) - 1
      PROVE  /\ IsStrictPrefix(SubSeq(p, 1, i), p) /\ SubSeq(p, 1, i) # <<>>
  <2> DEFINE d == SubSeq(p, 1, i)
  <2>1. i \in 0 .. Len(p) /\ i < Len(p) /\ i <= Len(p) /\ i # 0
    BY <1>0
  <2>2. d \in Paths /\ Len(d) = i /\ \A k \in 1 .. i : d[k] = p[k]
    BY <2>1, Cut
  <2> HIDE DEF d
  <2>3. Within(p, d) /\ Len(d) < Len(p)
    BY <2>1, <2>2, WithinMeans
  <2>4. d # <<>>
    <3>1. Len(<<>>) = 0
      OBVIOUS
    <3> QED BY <2>1, <2>2, <3>1
  <2> QED BY <2>2, <2>3, <2>4, StrictlyWithin DEF d
<1>2. ASSUME NEW d \in Paths, IsStrictPrefix(d, p), d # <<>>
      PROVE  \E i \in 1 .. Len(p) - 1 : d = SubSeq(p, 1, i)
  <2>1. Within(p, d) /\ Len(d) < Len(p) /\ Len(d) \in Nat \ {0}
    BY <1>2, StrictlyWithin, FrontPath
  <2>2. Len(d) \in 1 .. Len(p) - 1 /\ Len(d) \in 0 .. Len(p)
    BY <1>0, <2>1
  <2> DEFINE c == SubSeq(p, 1, Len(d))
  <2>3. c \in Paths /\ Len(c) = Len(d) /\ \A k \in 1 .. Len(d) : c[k] = p[k]
    BY <2>2, Cut
  <2> HIDE DEF c
  <2>4. \A k \in 1 .. Len(d) : d[k] = p[k]
    BY <2>1, WithinMeans
  <2>5. d = c
    <3>1. \A k \in 1 .. Len(d) : d[k] = c[k]
      BY <2>3, <2>4
    <3> QED BY <2>3, <3>1, SamePath
  <2> QED BY <2>2, <2>5 DEF c
<1> QED BY <1>1, <1>2 DEF Ancestors

LEMMA InnermostIs ==
  ASSUME NEW p \in Paths, NEW ds \in SUBSET Paths, \A x \in ds : Within(p, x)
  PROVE  /\ ds = {} => Innermost(ds) = {}
         /\ ds # {} => \E t \in ds : Innermost(ds) = {t} /\ IsDeepest(ds, t)
         /\ \A t : IsDeepest(ds, t) => Innermost(ds) = {t}
<1>1. ASSUME ds # {} PROVE Innermost(ds) = {Deepest(ds)} /\ IsDeepest(ds, Deepest(ds))
  BY <1>1, DeepestFound DEF Innermost
<1>2. ASSUME NEW t, IsDeepest(ds, t) PROVE Deepest(ds) = t /\ ds # {}
  BY <1>2, DeepestIs DEF IsDeepest
<1> QED BY <1>1, <1>2 DEF Innermost, IsDeepest

-----------------------------------------------------------------------------
(***************************************************************************)
(* The worktree.                                                           *)
(***************************************************************************)
WorldInv == WorldType(world)

\* All directories above what is there are there.
LEMMA DirsAbove ==
  ASSUME WorldInv, NEW p \in Tree, NEW d \in Paths, IsStrictPrefix(d, p)
  PROVE  d \in world.dirs
<1>1. p \in Paths /\ Ancestors(p) \subseteq world.dirs /\ <<>> \in world.dirs
  BY PlacePaths DEF WorldInv, WorldType, World, Tree
<1> QED BY <1>1, AncestorsAbove

LEMMA OwnerIsPlace ==
  ASSUME WorldInv, NEW p \in Paths
  PROVE  Owner(p) \subseteq Places
<1> DEFINE above == {r \in world.real : IsStrictPrefix(r, p)}
<1>1. above \in SUBSET Paths /\ above \subseteq Places
  BY PlacePaths DEF WorldInv, WorldType, World
<1>2. \A x \in above : Within(p, x)
  BY <1>1, StrictlyWithin
<1> HIDE DEF above
<1>3. Innermost(above) \subseteq Places
  BY <1>1, <1>2, InnermostIs
<1> QED BY <1>3 DEF Owner, above

LEMMA CreateType ==
  ASSUME WorldInv, NEW p \in Places, Create(p)
  PROVE  WorldInv'
<1>1. p \in Paths
  BY PlacePaths
<1>2. p # <<>>
  BY DEF Create, Tree, WorldInv, WorldType
<1>3. Front(p) \in world.dirs /\ Front(p) \in Paths
  BY <1>1, <1>2, FrontPath DEF Create
<1>4. Ancestors(p) \subseteq world.dirs
  <2>1. ASSUME NEW d \in Paths, IsStrictPrefix(d, p) PROVE d \in world.dirs
    <3>1. Within(Front(p), d)
      BY <1>1, <2>1, AboveParent
    <3>2. d = Front(p) \/ IsStrictPrefix(d, Front(p))
      BY <1>3, <3>1, StrictlyWithin
    <3> QED BY <1>3, <3>2, DirsAbove DEF Tree
  <2>2. Ancestors(p) \subseteq Paths
    <3>1. \A i \in 1 .. Len(p) - 1 : i \in 0 .. Len(p)
      BY <1>1, PathLen
    <3> QED BY <1>1, <3>1, Cut DEF Ancestors
  <2> QED BY <1>1, <2>1, <2>2, AncestorsAbove
<1>5. /\ world' \in World /\ world'.files = world.files \cup {p}
      /\ world'.dirs = world.dirs /\ world'.real = world.real
      /\ world'.markers = world.markers /\ world'.unread = world.unread
  BY DEF Create, WorldInv, WorldType, World
<1> QED BY <1>4, <1>5 DEF WorldInv, WorldType, Create, Tree

LEMMA RemoveDirType ==
  ASSUME WorldInv, NEW d \in Places, RemoveDir(d)
  PROVE  WorldInv'
<1>1. d \in Paths /\ d # <<>>
  BY PlacePaths DEF RemoveDir
<1>2. /\ world' \in World
      /\ world'.files = Beyond(world.files, d) /\ world'.dirs = Beyond(world.dirs, d)
      /\ world'.markers = Beyond(world.markers, d) /\ world'.real = Beyond(world.real, d)
      /\ world'.unread = Beyond(world.unread, d)
  BY DEF RemoveDir, WorldInv, WorldType, World, Beyond
<1>3. <<>> \in world'.dirs
  <2>1. ~Within(<<>>, d)
    <3>1. <<>> \in Paths /\ Within(d, <<>>)
      BY <1>1, WithinRoot
    <3>2. Len(<<>>) <= Len(d)
      BY <1>1, <3>1, WithinMeans
    <3> QED BY <1>1, <3>1, <3>2, WithinEqual
  <2> QED BY <1>2, <2>1 DEF Beyond, WorldInv, WorldType
<1>4. ASSUME NEW p \in world'.dirs \cup world'.files
      PROVE  Ancestors(p) \subseteq world'.dirs
  <2>1. p \in Paths /\ p \in Tree /\ ~Within(p, d)
    BY <1>2, PlacePaths DEF Beyond, Tree, WorldInv, WorldType, World
  <2>2. Ancestors(p) \subseteq world.dirs
    BY <2>1 DEF WorldInv, WorldType, Tree
  <2>3. Ancestors(p) \subseteq Paths
    BY <2>2, PlacePaths DEF WorldInv, WorldType, World
  <2>4. ASSUME NEW a \in Ancestors(p) PROVE ~Within(a, d)
    <3>1. a \in Paths /\ Within(p, a)
      BY <2>1, <2>3, AncestorsAbove, StrictlyWithin
    <3> QED BY <1>1, <2>1, <3>1, WithinChain
  <2> QED BY <1>2, <2>2, <2>4 DEF Beyond
<1> QED BY <1>2, <1>3, <1>4 DEF Beyond, WorldInv, WorldType

LEMMA UserType ==
  ASSUME WorldInv, NEW p \in Places, User(p)
  PROVE  WorldInv'
<1>1. CASE Create(p)
  BY <1>1, CreateType
<1>2. CASE Delete(p)
  BY <1>2 DEF Delete, WorldInv, WorldType, World
<1>3. CASE RemoveDir(p)
  BY <1>3, RemoveDirType
<1>4. CASE Stage(p)
  <2>1. (CHOOSE r \in Owner(p) : TRUE) \in Places
    BY <1>4, PlacePaths, OwnerIsPlace DEF Stage
  <2>2. PICK o \in Places : o = CHOOSE r \in Owner(p) : TRUE
    BY <2>1
  <2> DEFINE entry == <<o, p>>
  <2>4. entry \in Places \X Places
    OBVIOUS
  <2>3. world' = [world EXCEPT !.index = IF entry \in @ THEN @ \ {entry} ELSE @ \cup {entry}]
    BY <1>4, <2>2, Zenon DEF Stage
  <2> HIDE DEF entry
  <2> QED BY <2>3, <2>4 DEF WorldInv, WorldType, World
<1>5. CASE Ignore(p)
  BY <1>5 DEF Ignore, WorldInv, WorldType, World
<1>6. CASE Repository(p)
  <2>1. CASE p \in world.real
    <3>1. /\ world' \in World /\ world'.dirs = world.dirs /\ world'.files = world.files
          /\ world'.real = world.real \ {p} /\ world'.markers = world.markers \ {p}
          /\ world'.unread = world.unread
      BY <1>6, <2>1 DEF Repository, WorldInv, WorldType, World
    <3> QED BY <3>1 DEF WorldInv, WorldType
  <2>2. CASE p \notin world.real
    <3>1. /\ world' \in World /\ world'.dirs = world.dirs /\ world'.files = world.files
          /\ world'.real = world.real \cup {p} /\ world'.markers = world.markers \cup {p}
          /\ world'.unread = world.unread /\ p \in world.dirs
      BY <1>6, <2>2 DEF Repository, WorldInv, WorldType, World
    <3> QED BY <3>1 DEF WorldInv, WorldType
  <2> QED BY <2>1, <2>2
<1> QED BY <1>1, <1>2, <1>3, <1>4, <1>5, <1>6 DEF User
-----------------------------------------------------------------------------
(***************************************************************************)
(* A file that nobody touched, and the directories above it.               *)
(***************************************************************************)
Steady(p) == p \in world.files /\ Untouched(p)

SameAbout(p) ==
  \A d \in Paths : Within(p, d) =>
    /\ d \in world'.dirs <=> d \in world.dirs
    /\ d \in world'.real <=> d \in world.real
    /\ d \in world'.unread <=> d \in world.unread
    /\ d \in world'.rules <=> d \in world.rules
    /\ \A e \in Paths : Within(p, e) => (<<d, e>> \in world'.index <=> <<d, e>> \in world.index)

LEMMA EditBack ==
  ASSUME WorldInv, NEW x \in Places, User(x), NEW p \in Paths,
         p \in world'.files, Untouched(p)'
  PROVE  p \in world.files /\ Untouched(p) /\ SameAbout(p)
<1>1. Untouched(p) /\ ~Within(p, x) /\ x \in Paths
  BY PlacePaths DEF User, Edit, Untouched
<1>2. Within(p, p)
  BY WithinItself
<1>3. \A d \in Paths : Within(p, d) => d # x /\ ~Within(d, x)
  BY <1>1, WithinChain
<1>4. CASE Create(x)
  <2>1. /\ world'.files = world.files \cup {x} /\ world'.dirs = world.dirs
        /\ world'.real = world.real /\ world'.unread = world.unread
        /\ world'.rules = world.rules /\ world'.index = world.index
    BY <1>4 DEF Create, WorldInv, WorldType, World
  <2> QED BY <1>1, <1>2, <1>3, <2>1 DEF SameAbout
<1>5. CASE Delete(x)
  <2>1. /\ world'.files = world.files \ {x} /\ world'.dirs = world.dirs
        /\ world'.real = world.real /\ world'.unread = world.unread
        /\ world'.rules = world.rules /\ world'.index = world.index
    BY <1>5 DEF Delete, WorldInv, WorldType, World
  <2> QED BY <1>1, <2>1 DEF SameAbout
<1>6. CASE RemoveDir(x)
  <2>1. /\ world'.files = Beyond(world.files, x) /\ world'.dirs = Beyond(world.dirs, x)
        /\ world'.real = Beyond(world.real, x) /\ world'.unread = Beyond(world.unread, x)
        /\ world'.rules = world.rules
        /\ world'.index = {i \in world.index : ~Within(i[1], x)}
    BY <1>6 DEF RemoveDir, WorldInv, WorldType, World
  <2> QED BY <1>1, <1>3, <2>1 DEF SameAbout, Beyond
<1>7. CASE Stage(x)
  <2>1. PICK r : /\ world'.index = IF <<r, x>> \in world.index THEN world.index \ {<<r, x>>}
                                   ELSE world.index \cup {<<r, x>>}
                 /\ world'.files = world.files /\ world'.dirs = world.dirs
                 /\ world'.real = world.real /\ world'.unread = world.unread
                 /\ world'.rules = world.rules
    BY <1>7 DEF Stage, WorldInv, WorldType, World
  <2> QED BY <1>1, <1>3, <2>1 DEF SameAbout
<1>8. CASE Ignore(x)
  <2>1. /\ world'.rules = IF x \in world.rules THEN world.rules \ {x} ELSE world.rules \cup {x}
        /\ world'.files = world.files /\ world'.dirs = world.dirs
        /\ world'.real = world.real /\ world'.unread = world.unread
        /\ world'.index = world.index
    BY <1>8 DEF Ignore, WorldInv, WorldType, World
  <2> QED BY <1>1, <1>3, <2>1 DEF SameAbout
<1>9. CASE Repository(x)
  <2>1. /\ world'.files = world.files /\ world'.dirs = world.dirs
        /\ world'.unread = world.unread /\ world'.rules = world.rules
        /\ world'.real \in {world.real \ {x}, world.real \cup {x}}
        /\ world'.index \in {world.index, {i \in world.index : i[1] # x}}
    BY <1>9 DEF Repository, WorldInv, WorldType, World
  <2> QED BY <1>1, <1>3, <2>1 DEF SameAbout
<1> QED BY <1>4, <1>5, <1>6, <1>7, <1>8, <1>9 DEF User

\* What is steady after a step was steady before, and git says the same of it.
SameAnswers(p) ==
  \A q \in Paths : Within(p, q) =>
    /\ Owner(q)' = Owner(q) /\ RunIn(q)' = RunIn(q)
    /\ \A r \in Paths : IgnoredBy(r, q)' <=> IgnoredBy(r, q)

LEMMA SameAboutAnswers ==
  ASSUME WorldInv, WorldInv', NEW p \in Paths, SameAbout(p)
  PROVE  SameAnswers(p)
<1> SUFFICES ASSUME NEW q \in Paths, Within(p, q)
             PROVE  /\ Owner(q)' = Owner(q) /\ RunIn(q)' = RunIn(q)
                    /\ \A r \in Paths : IgnoredBy(r, q)' <=> IgnoredBy(r, q)
  BY DEF SameAnswers
<1>1. /\ world.real \subseteq Paths /\ world'.real \subseteq Paths
      /\ world.rules \subseteq Paths /\ world'.rules \subseteq Paths
  BY PlacePaths DEF WorldInv, WorldType, World
<1>2. \A d \in Paths : Within(q, d) => Within(p, d)
  BY WithinChain
<1>3. \A d \in Paths : IsStrictPrefix(d, q) => Within(q, d)
  BY StrictlyWithin
<1>4. {r \in world'.real : IsStrictPrefix(r, q)} = {r \in world.real : IsStrictPrefix(r, q)}
  BY <1>1, <1>2, <1>3 DEF SameAbout
<1>5. {r \in world'.real : Within(q, r)} = {r \in world.real : Within(q, r)}
  BY <1>1, <1>2 DEF SameAbout
<1>6. ASSUME NEW r \in Paths
      PROVE  (\E x \in world'.rules : IsStrictPrefix(r, x) /\ Within(q, x))
               <=> (\E x \in world.rules : IsStrictPrefix(r, x) /\ Within(q, x))
  BY <1>1, <1>2 DEF SameAbout
<1> QED BY <1>4, <1>5, <1>6 DEF Owner, RunIn, IgnoredBy

LEMMA StepBack ==
  ASSUME WorldInv, [Next]_vars, NEW p, Steady(p)'
  PROVE  p \in Paths /\ Steady(p) /\ SameAbout(p) /\ SameAnswers(p)
<1>1. CASE world' = world /\ touched' = touched
  <2>1. p \in world.files /\ p \in Paths /\ Untouched(p) /\ SameAbout(p)
    BY <1>1, PlacePaths DEF Steady, Untouched, SameAbout, WorldInv, WorldType, World
  <2>2. WorldInv'
    BY <1>1 DEF WorldInv
  <2> QED BY <2>1, <2>2, SameAboutAnswers DEF Steady
<1>2. ASSUME NEW x \in Places, User(x)
      PROVE  p \in Paths /\ Steady(p) /\ SameAbout(p) /\ SameAnswers(p)
  <2>1. WorldInv'
    BY <1>2, UserType
  <2>2. p \in Paths /\ p \in world'.files /\ Untouched(p)'
    BY <2>1, PlacePaths DEF Steady, WorldInv, WorldType, World
  <2>3. p \in world.files /\ Untouched(p) /\ SameAbout(p)
    BY <1>2, <2>2, EditBack
  <2> QED BY <2>1, <2>2, <2>3, SameAboutAnswers DEF Steady
<1>3. \/ world' = world /\ touched' = touched
      \/ \E x \in Places : User(x)
  BY DEF Next, vars, Discover, Discovered, Classify, Classified, Walk, NextBoundary, Fail
<1> QED BY <1>1, <1>2, <1>3

LEMMA NextWorld ==
  ASSUME WorldInv, [Next]_vars
  PROVE  WorldInv'
<1>1. \/ world' = world
      \/ \E x \in Places : User(x)
  BY DEF Next, vars, Discover, Discovered, Classify, Classified, Walk, NextBoundary, Fail
<1> QED BY <1>1, UserType DEF WorldInv
-----------------------------------------------------------------------------
(***************************************************************************)
(* The stages.                                                             *)
(***************************************************************************)
SInv == WorldInv /\ Stages /\ Answered /\ PlainFiles

LEMMA ListedPathsOf ==
  ASSUME WorldInv, NEW b \in Paths, NEW kind \in AllKinds
  PROVE  LsFiles(b, kind) \subseteq Paths \ {<<>>}
<1>1. ASSUME NEW top
      PROVE  Others(b, top) \subseteq Paths \ {<<>>}
  <2>1. world.files \subseteq Paths \ {<<>>} /\ world.real \subseteq Paths
    BY PlacePaths DEF WorldInv, WorldType, World
  <2>2. \A r \in world.real : Slash(r) \in Paths \ {<<>>}
    BY <2>1, SlashPlace
  <2> QED BY <2>1, <2>2 DEF Others
<1>2. ASSUME NEW i \in world.index, IsStrictPrefix(b, i[2])
      PROVE  i[2] \in Paths \ {<<>>}
  <2>1. i[2] \in Paths
    BY PlacePaths DEF WorldInv, WorldType, World
  <2> QED BY <1>2, <2>1, AboveParent
<1> QED BY <1>1, <1>2 DEF LsFiles, AllKinds

LEMMA KindSet == ToSet(Kinds) = AllKinds
BY DEF ToSet, Kinds, AllKinds

LEMMA KindTurn ==
  /\ Kinds[1 + Cardinality({})] = "tracked"
  /\ Kinds[1 + Cardinality({"tracked"})] = "untracked"
  /\ Kinds[1 + Cardinality({"tracked", "untracked"})] = "ignored"
<1>1. Cardinality({}) = 0
  BY FS_EmptySet
<1>2. IsFiniteSet({"tracked"}) /\ Cardinality({"tracked"}) = 1
  BY FS_Singleton
<1>3. Cardinality({"tracked", "untracked"}) = 2
  <2>1. {"tracked", "untracked"} = {"tracked"} \cup {"untracked"} /\ "untracked" \notin {"tracked"}
    OBVIOUS
  <2>2. Cardinality({"tracked"} \cup {"untracked"}) = Cardinality({"tracked"}) + 1
    BY <1>2, <2>1, FS_AddElement
  <2> QED BY <1>2, <2>1, <2>2
<1> QED BY <1>1, <1>2, <1>3 DEF Kinds

\* What Classify does: git answers for one boundary about the next kind.
ClassifyOne(b) ==
  /\ b \in pending /\ b \in boundaries
  /\ \/ /\ b \notin marked /\ pending' = pending \ {b}
        /\ cls' = [cls EXCEPT ![b] = [k \in AllKinds |-> {}]]
     \/ /\ b \in marked
        /\ \E kind \in AllKinds :
             LET known == DOMAIN cls[b] \cup {kind}
             IN  /\ known \in {{"tracked"}, {"tracked", "untracked"}, AllKinds}
                 /\ cls' = [cls EXCEPT ![b] =
                              [k \in known |-> IF k = kind THEN LsFiles(b, kind) ELSE cls[b][k]]]
                 /\ pending' = IF known = AllKinds THEN pending \ {b} ELSE pending

LEMMA ClassifyIs ==
  ASSUME SInv, Classify
  PROVE  \E b : ClassifyOne(b)
<1> DEFINE b == FirstOf(pending)
           kind == Kinds[1 + Cardinality(DOMAIN cls[b])]
           known == DOMAIN cls[b] \cup {kind}
<1>1. stage = "classify" /\ pending # {} /\ stage \in Asking
  BY DEF Classify, Asking
<1>2. b \in pending /\ b \in boundaries /\ b \in DOMAIN cls
  <2>1. pending \in SUBSET Places
    BY DEF SInv, Stages
  <2>2. b \in pending
    BY <1>1, <2>1, FirstIsOne
  <2> QED BY <1>1, <2>2 DEF SInv, Stages
<1>3. /\ IF b \notin marked
         THEN cls' = [cls EXCEPT ![b] = [k \in AllKinds |-> {}]]
         ELSE cls' = [cls EXCEPT ![b] =
                        [k \in known |-> IF k = kind THEN LsFiles(b, kind) ELSE cls[b][k]]]
      /\ pending' = IF DOMAIN cls'[b] = AllKinds THEN pending \ {b} ELSE pending
  BY KindSet DEF Classify
<1>4. CASE b \notin marked
  <2>1. cls'[b] = [k \in AllKinds |-> {}]
    BY <1>2, <1>3, <1>4
  <2>2. DOMAIN cls'[b] = AllKinds
    BY <2>1
  <2> QED BY <1>2, <1>3, <1>4, <2>2 DEF ClassifyOne
<1>5. CASE b \in marked
  <2>1. DOMAIN cls[b] \in {{}, {"tracked"}, {"tracked", "untracked"}}
    BY <1>1, <1>2 DEF SInv, Answered
  <2>2. kind \in AllKinds /\ known \in {{"tracked"}, {"tracked", "untracked"}, AllKinds}
    BY <2>1, KindTurn DEF AllKinds
  <2> HIDE DEF kind
  <2>3. cls'[b] = [k \in known |-> IF k = kind THEN LsFiles(b, kind) ELSE cls[b][k]]
    BY <1>2, <1>3, <1>5
  <2>4. DOMAIN cls'[b] = known
    BY <2>3
  <2> QED BY <1>2, <1>3, <1>5, <2>2, <2>4 DEF ClassifyOne
<1> QED BY <1>4, <1>5

\* One list more, and the others as they were.
LEMMA ClassifyLists ==
  ASSUME SInv, Classify
  PROVE  /\ DOMAIN cls' = DOMAIN cls
         /\ \A b \in boundaries : \A k \in DOMAIN cls'[b] :
              \/ k \in DOMAIN cls[b] /\ cls'[b][k] = cls[b][k]
              \/ b \in marked /\ k \in AllKinds /\ cls'[b][k] = LsFiles(b, k)
              \/ b \notin marked /\ cls'[b][k] = {}
         /\ \A b \in boundaries :
              IF b \in pending'
              THEN DOMAIN cls'[b] \in {{}, {"tracked"}, {"tracked", "untracked"}}
              ELSE DOMAIN cls'[b] = AllKinds
         /\ pending' \subseteq pending
<1>1. PICK a : ClassifyOne(a)
  BY ClassifyIs
<1>2. /\ stage = "classify" /\ DOMAIN cls = boundaries /\ a \in pending /\ a \in boundaries
      /\ \A b \in boundaries :
           IF b \in pending
           THEN DOMAIN cls[b] \in {{}, {"tracked"}, {"tracked", "untracked"}}
           ELSE DOMAIN cls[b] = AllKinds
  BY <1>1 DEF SInv, Stages, Answered, Asking, Classify, ClassifyOne
<1>3. CASE a \notin marked
  <2>1. pending' = pending \ {a} /\ cls' = [cls EXCEPT ![a] = [k \in AllKinds |-> {}]]
    BY <1>1, <1>3 DEF ClassifyOne
  <2> QED BY <1>2, <1>3, <2>1
<1>4. CASE a \in marked
  <2>1. PICK kind \in AllKinds :
             LET known == DOMAIN cls[a] \cup {kind}
             IN  /\ known \in {{"tracked"}, {"tracked", "untracked"}, AllKinds}
                 /\ cls' = [cls EXCEPT ![a] =
                              [k \in known |-> IF k = kind THEN LsFiles(a, kind) ELSE cls[a][k]]]
                 /\ pending' = IF known = AllKinds THEN pending \ {a} ELSE pending
    BY <1>1, <1>4 DEF ClassifyOne
  <2> DEFINE known == DOMAIN cls[a] \cup {kind}
             lists == [k \in known |-> IF k = kind THEN LsFiles(a, kind) ELSE cls[a][k]]
  <2>2. /\ cls' = [cls EXCEPT ![a] = lists] /\ cls'[a] = lists
        /\ \A b \in boundaries : b # a => cls'[b] = cls[b]
    BY <1>2, <2>1
  <2>3. DOMAIN cls'[a] = known
    BY <2>2
  <2>4. \A k \in known : \/ k \in DOMAIN cls[a] /\ cls'[a][k] = cls[a][k]
                         \/ k \in AllKinds /\ cls'[a][k] = LsFiles(a, k)
    BY <2>2
  <2>5. /\ known \in {{"tracked"}, {"tracked", "untracked"}, AllKinds}
        /\ pending' = IF known = AllKinds THEN pending \ {a} ELSE pending
    BY <2>1
  <2> HIDE DEF lists, known
  <2>6. DOMAIN cls' = DOMAIN cls /\ pending' \subseteq pending
    BY <2>2, <2>5
  <2>7. \A b \in boundaries :
          IF b \in pending'
          THEN DOMAIN cls'[b] \in {{}, {"tracked"}, {"tracked", "untracked"}}
          ELSE DOMAIN cls'[b] = AllKinds
    <3>1. known # AllKinds => known \in {{}, {"tracked"}, {"tracked", "untracked"}}
      BY <2>5
    <3> QED BY <1>2, <2>2, <2>3, <2>5, <3>1
  <2>8. \A b \in boundaries : \A k \in DOMAIN cls'[b] :
          \/ k \in DOMAIN cls[b] /\ cls'[b][k] = cls[b][k]
          \/ b \in marked /\ k \in AllKinds /\ cls'[b][k] = LsFiles(b, k)
    BY <1>4, <2>2, <2>3, <2>4
  <2> QED BY <2>6, <2>7, <2>8
<1> QED BY <1>3, <1>4
LEMMA InitSInv == Init => SInv
<1> SUFFICES ASSUME Init PROVE SInv
  OBVIOUS
<1>1. WorldInv
  BY InventoryAssumption DEF Init, WorldInv
<1>2. <<>> \in Places /\ \A p \in world.files : p # <<>>
  BY <1>1 DEF WorldInv, WorldType, World
<1> QED BY <1>1, <1>2 DEF Init, SInv, Stages, Answered, Asking, PlainFiles

LEMMA NextStages == ASSUME SInv, [Next]_vars PROVE Stages'
<1> USE DEF Stages, Asking
<1>1. Stages /\ WorldInv /\ world.dirs \subseteq Places
  BY DEF SInv, WorldInv, WorldType, World
<1>2. boundaries \in SUBSET Places /\ boundaries # {}
  BY <1>1
<1>3. CASE Discover
  <2>1. /\ open \in SUBSET Places /\ open # {} /\ stage = "discover"
    BY <1>1, <1>3 DEF Discover
  <2>2. FirstOf(open) \in Places
    BY <2>1, FirstIsOne
  <2>3. \A d : ChildrenOf(world.dirs, d) \subseteq Places
    BY <1>1 DEF ChildrenOf
  <2>4. /\ boundaries' \subseteq boundaries \cup {FirstOf(open)}
        /\ boundaries \subseteq boundaries' /\ marked' \subseteq boundaries'
        /\ open' \subseteq Places
    BY <1>1, <1>3, <2>3 DEF Discover
  <2> QED BY <1>1, <1>3, <2>1, <2>2, <2>4 DEF Discover
<1>4. CASE Discovered
  BY <1>1, <1>4 DEF Discovered
<1>5. CASE Classify
  <2>1. pending' \subseteq pending /\ DOMAIN cls' = DOMAIN cls
    BY <1>5, ClassifyLists
  <2> QED BY <1>1, <1>5, <2>1 DEF Classify
<1>6. CASE Classified
  <2>1. FirstOf(boundaries) \in boundaries
    BY <1>2, FirstIsOne
  <2> QED BY <1>1, <1>6, <2>1 DEF Classified
<1>7. CASE Walk
  <2>1. open' \subseteq open \cup world.dirs
    BY <1>7 DEF Walk
  <2> QED BY <1>1, <1>7, <2>1 DEF Walk
<1>8. CASE NextBoundary
  <2>1. pending' \in SUBSET Places /\ pending' \subseteq boundaries
    BY <1>1, <1>8 DEF NextBoundary
  <2>2. pending' # {} => FirstOf(pending') \in pending'
    BY <2>1, FirstIsOne
  <2> QED BY <1>1, <1>8, <2>1, <2>2 DEF NextBoundary
<1>9. CASE Fail
  BY <1>1, <1>9 DEF Fail
<1>10. ASSUME NEW p \in Places, User(p) PROVE Stages'
  BY <1>1, <1>10 DEF User, Edit
<1>11. CASE UNCHANGED vars
  BY <1>1, <1>11 DEF vars
<1> QED
  BY <1>3, <1>4, <1>5, <1>6, <1>7, <1>8, <1>9, <1>10, <1>11 DEF Next

LEMMA NextAnswered == ASSUME SInv, [Next]_vars PROVE Answered'
<1> USE DEF Answered, Asking
<1>1. Stages /\ WorldInv /\ Answered
  BY DEF SInv
<1>2. CASE Classify
  <2>1. stage = "classify" /\ stage' = "classify" /\ boundaries' = boundaries /\ marked' = marked
    BY <1>2 DEF Classify
  <2>2. \A b \in boundaries : \A k \in DOMAIN cls'[b] :
          \/ k \in DOMAIN cls[b] /\ cls'[b][k] = cls[b][k]
          \/ k \in AllKinds /\ cls'[b][k] = LsFiles(b, k)
          \/ cls'[b][k] = {}
    BY <1>2, ClassifyLists
  <2>3. \A b \in boundaries : b \in Paths
    BY <1>1, PlacePaths DEF Stages
  <2>4. \A b \in boundaries : \A k \in DOMAIN cls'[b] : cls'[b][k] \subseteq Paths \ {<<>>}
    BY <1>1, <2>1, <2>2, <2>3, ListedPathsOf
  <2>5. \A b \in boundaries :
          IF b \in pending'
          THEN DOMAIN cls'[b] \in {{}, {"tracked"}, {"tracked", "untracked"}}
          ELSE DOMAIN cls'[b] = AllKinds
    BY <1>2, ClassifyLists
  <2> QED BY <2>1, <2>4, <2>5
<1>3. CASE Discovered
  <2>1. /\ stage' = "classify" /\ pending' = boundaries /\ boundaries' = boundaries
        /\ \A b \in boundaries : cls'[b] = Unasked
    BY <1>3 DEF Discovered
  <2>2. DOMAIN Unasked = {}
    BY DEF Unasked
  <2> QED BY <2>1, <2>2
<1>4. CASE Classified
  <2>1. stage = "classify" /\ pending = {} /\ stage' = "walk" /\ boundaries' = boundaries /\ cls' = cls
    BY <1>4 DEF Classified
  <2> QED BY <1>1, <2>1
<1>5. ASSUME boundaries' = boundaries, cls' = cls,
             \/ stage' = stage /\ pending' = pending
             \/ stage = "walk" /\ stage' \in {"walk", "done"}
             \/ stage' \in {"discover", "failed"}
      PROVE  Answered'
  BY <1>1, <1>5
<1>6. CASE Discover
  BY <1>6 DEF Discover
<1>7. CASE Walk \/ NextBoundary \/ Fail
  BY <1>5, <1>7 DEF Walk, NextBoundary, Fail
<1>8. ASSUME NEW p \in Places, User(p) PROVE Answered'
  BY <1>5, <1>8 DEF User, Edit
<1>9. CASE UNCHANGED vars
  BY <1>5, <1>9 DEF vars
<1> QED BY <1>2, <1>3, <1>4, <1>6, <1>7, <1>8, <1>9 DEF Next

LEMMA NextPlainFiles == ASSUME SInv, [Next]_vars PROVE PlainFiles'
<1> SUFFICES ASSUME NEW p, Steady(p)' PROVE p \notin boundaries'
  BY DEF PlainFiles, Steady
<1>1. Steady(p) /\ p \in world.files /\ p \notin boundaries
  BY StepBack DEF SInv, PlainFiles, Steady
<1>2. p \notin world.markers
  BY <1>1 DEF SInv, WorldInv, WorldType
<1>3. CASE Discover
  BY <1>1, <1>2, <1>3 DEF Discover
<1>4. CASE boundaries' = boundaries
  BY <1>1, <1>4
<1> QED
  BY <1>3, <1>4 DEF Next, vars, Discovered, Classify, Classified, Walk, NextBoundary, Fail,
                    User, Edit

LEMMA NextSInv == SInv /\ [Next]_vars => SInv'
BY NextWorld, NextStages, NextAnswered, NextPlainFiles DEF SInv
-----------------------------------------------------------------------------
(***************************************************************************)
(* The walk.  What is open lies apart from each other and in no boundary    *)
(* below the one walked; nothing below it is listed yet, and nothing in a   *)
(* boundary still to be walked.                                            *)
(***************************************************************************)
WalkInv ==
  /\ OneOwner /\ ListedPaths \subseteq Places
  /\ stage = "walk" =>
       /\ \A d \in open : IsDeepest(Around(boundaries, d), Here)
       /\ \A c, d \in open : Within(c, d) => c = d
       /\ \A e \in entries : e.repo \in pending =>
            e.repo = Here /\ \A d \in open : ~IsStrictPrefix(d, e.path)

LEMMA ChildBoundary ==
  ASSUME boundaries \subseteq Paths, NEW d \in Paths, NEW b,
         IsDeepest(Around(boundaries, d), b),
         NEW p \in Paths, p # <<>>, Front(p) = d, p \notin NestedChildren(b)
  PROVE  p \notin boundaries /\ IsDeepest(Around(boundaries, p), b)
<1>1. /\ b \in boundaries /\ b \in Paths /\ Within(d, b) /\ Len(b) <= Len(d)
      /\ \A x \in boundaries : Within(d, x) => Len(x) <= Len(b)
  BY WithinMeans DEF IsDeepest, Around
<1>2. Within(p, d) /\ IsStrictPrefix(d, p) /\ Len(d) < Len(p)
  BY FrontPath, StrictlyWithin
<1>3. Within(p, b)
  BY <1>1, <1>2, WithinChain
<1>4. ASSUME NEW x \in boundaries, Within(p, x), x # p
      PROVE  Len(x) <= Len(b)
  <2>1. IsStrictPrefix(x, p)
    BY <1>4, StrictlyWithin
  <2>2. Within(d, x)
    BY <2>1, AboveParent
  <2> QED BY <1>1, <2>2
<1>5. p \notin boundaries
  <2> SUFFICES ASSUME p \in boundaries PROVE FALSE
    OBVIOUS
  <2>1. p # b
    BY <1>1, <1>2, PathLen
  <2>2. ASSUME NEW x \in boundaries \ {b, p}, Within(p, x), Within(x, b)
        PROVE  FALSE
    <3>1. Len(x) <= Len(b)
      BY <1>4, <2>2
    <3> QED BY <1>1, <2>2, <3>1, WithinEqual
  <2> QED BY <1>3, <2>1, <2>2 DEF NestedChildren
<1> QED BY <1>1, <1>3, <1>4, <1>5 DEF IsDeepest, Around

LEMMA OwnDeepest ==
  ASSUME boundaries \subseteq Paths, NEW b \in boundaries
  PROVE  IsDeepest(Around(boundaries, b), b)
BY WithinItself, WithinMeans DEF IsDeepest, Around

\* What the reading of one directory finds, of the boundary walked.
Found ==
  LET d == FirstOf(open)
  IN  IF d \in world.unread THEN {}
      ELSE {p \in ChildrenOf(Tree, d) \ NestedChildren(Here) : StateOf(Here, p) # "ignored"}

EntryOf(p) == [path |-> p, repo |-> Here, state |-> StateOf(Here, p), dir |-> p \in world.dirs]

LEMMA WalkIs ==
  ASSUME SInv, WalkInv, Walk
  PROVE  /\ FirstOf(open) \in open /\ FirstOf(open) \in Paths
         /\ entries' = entries \cup {EntryOf(p) : p \in Found}
         /\ open' = (open \ {FirstOf(open)}) \cup (Found \cap world.dirs)
         /\ UNCHANGED <<world, stage, boundaries, marked, pending, cls, touched>>
         /\ \A p \in Found :
              /\ p \in Tree /\ p \in Places /\ p \in Paths /\ p # <<>> /\ Front(p) = FirstOf(open)
              /\ p \notin boundaries /\ IsDeepest(Around(boundaries, p), Here)
              /\ IsStrictPrefix(FirstOf(open), p) /\ Within(p, FirstOf(open))
              /\ Len(p) = Len(FirstOf(open)) + 1
<1>1. stage = "walk" /\ open # {} /\ open \in SUBSET Places
  BY DEF Walk, SInv, Stages
<1>2. FirstOf(open) \in open /\ FirstOf(open) \in Paths
  BY <1>1, FirstIsOne, PlacePaths
<1>3. /\ entries' = entries \cup {EntryOf(p) : p \in Found}
      /\ open' = (open \ {FirstOf(open)}) \cup (Found \cap world.dirs)
      /\ UNCHANGED <<world, stage, boundaries, marked, pending, cls, touched>>
  BY DEF Walk, Here, Found, EntryOf
<1>4. ASSUME NEW p \in Found
      PROVE  /\ p \in Tree /\ p \in Places /\ p \in Paths /\ p # <<>> /\ Front(p) = FirstOf(open)
             /\ p \notin boundaries /\ IsDeepest(Around(boundaries, p), Here)
             /\ IsStrictPrefix(FirstOf(open), p) /\ Within(p, FirstOf(open))
             /\ Len(p) = Len(FirstOf(open)) + 1
  <2>1. p \in Tree /\ p # <<>> /\ Front(p) = FirstOf(open) /\ p \notin NestedChildren(Here)
    BY DEF Found, ChildrenOf
  <2>2. p \in Places /\ p \in Paths
    BY <2>1, PlacePaths DEF Tree, SInv, WorldInv, WorldType, World
  <2>3. IsStrictPrefix(FirstOf(open), p) /\ Within(p, FirstOf(open))
    BY <2>1, <2>2, FrontPath
  <2>4. Len(p) = Len(FirstOf(open)) + 1
    <3>1. Len(p) \in Nat \ {0} /\ Len(Front(p)) = Len(p) - 1
      BY <2>1, <2>2, FrontPath
    <3> QED BY <2>1, <3>1
  <2>5. boundaries \subseteq Paths /\ IsDeepest(Around(boundaries, FirstOf(open)), Here)
    BY <1>1, <1>2, PlacePaths DEF WalkInv, SInv, Stages
  <2>6. p \notin boundaries /\ IsDeepest(Around(boundaries, p), Here)
    BY <1>2, <2>1, <2>2, <2>5, ChildBoundary
  <2> QED BY <2>1, <2>2, <2>3, <2>4, <2>6
<1> QED BY <1>2, <1>3, <1>4

LEMMA WalkKeeps ==
  ASSUME SInv, WalkInv, Walk
  PROVE  WalkInv'
<1> DEFINE d == FirstOf(open)
<1>1. /\ d \in open /\ d \in Paths
      /\ entries' = entries \cup {EntryOf(p) : p \in Found}
      /\ open' = (open \ {d}) \cup (Found \cap world.dirs)
      /\ stage' = stage /\ boundaries' = boundaries /\ pending' = pending /\ stage = "walk"
      /\ \A p \in Found :
           /\ p \in Places /\ p \in Paths /\ p # <<>> /\ Front(p) = d
           /\ p \notin boundaries /\ IsDeepest(Around(boundaries, p), Here)
           /\ IsStrictPrefix(d, p) /\ Within(p, d) /\ Len(p) = Len(d) + 1
  BY WalkIs DEF Walk
<1> HIDE DEF d
<1>2. \A p \in Found : EntryOf(p).path = p /\ EntryOf(p).repo = Here
  BY DEF EntryOf
<1>3. boundaries \subseteq Paths /\ open \subseteq Paths /\ Here' = Here /\ Here \in pending
  <2>1. pending \in SUBSET Places /\ pending # {}
    BY <1>1 DEF SInv, Stages
  <2>2. Here \in pending
    BY <2>1, FirstIsOne DEF Here
  <2> QED BY <1>1, <2>2, PlacePaths DEF SInv, Stages, Here
<1>4. ListedPaths' \subseteq Places
  BY <1>1, <1>2 DEF WalkInv, ListedPaths
<1>5. \A e \in entries : e.path \in Paths
  BY PlacePaths DEF WalkInv, ListedPaths
<1>6. ASSUME NEW p \in Found, NEW x \in entries PROVE x.path # p
  <2> SUFFICES ASSUME x.path = p PROVE FALSE
    OBVIOUS
  <2>1. BoundaryFor(boundaries, p) = Here
    BY <1>1, <1>3, BoundaryIs
  <2>2. x.repo = Here
    BY <2>1 DEF WalkInv, OneOwner
  <2> QED BY <1>1, <1>3, <2>2 DEF WalkInv
<1>7. OneOwner'
  <2>1. ASSUME NEW e \in entries' PROVE e.repo = BoundaryFor(boundaries, e.path) /\ e.path \notin boundaries
    <3>1. CASE e \in entries
      BY <3>1 DEF WalkInv, OneOwner
    <3>2. ASSUME NEW p \in Found, e = EntryOf(p)
          PROVE  e.repo = BoundaryFor(boundaries, e.path) /\ e.path \notin boundaries
      BY <1>1, <1>2, <1>3, <3>2, BoundaryIs
    <3> QED BY <1>1, <2>1, <3>1, <3>2
  <2>2. ASSUME NEW e \in entries', NEW x \in entries', x.path = e.path PROVE x = e
    <3>1. CASE x \in entries /\ e \in entries
      BY <2>2, <3>1 DEF WalkInv, OneOwner
    <3>2. CASE x \notin entries /\ e \in entries
      BY <1>1, <1>2, <1>6, <2>2, <3>2
    <3>3. CASE x \in entries /\ e \notin entries
      BY <1>1, <1>2, <1>6, <2>2, <3>3
    <3>4. CASE x \notin entries /\ e \notin entries
      BY <1>1, <1>2, <2>2, <3>4
    <3> QED BY <3>1, <3>2, <3>3, <3>4
  <2> QED BY <1>1, <2>1, <2>2 DEF OneOwner
<1>8. \A c \in open' : c \in Paths /\ IsDeepest(Around(boundaries, c), Here)
  BY <1>1, <1>3 DEF WalkInv
<1>9. ASSUME NEW c \in open', NEW x \in open', Within(c, x) PROVE c = x
  <2>0. c \in Paths /\ x \in Paths
    BY <1>8
  <2>1. CASE c \in open /\ x \in open
    BY <1>1, <1>9, <2>1 DEF WalkInv
  <2>2. CASE c \in Found /\ x \in open /\ x # d
    <3>1. c = x \/ IsStrictPrefix(x, c)
      BY <1>9, <2>0, StrictlyWithin
    <3>2. ASSUME IsStrictPrefix(x, c) PROVE FALSE
      <4>1. Within(d, x)
        BY <1>1, <2>0, <2>2, <3>2, AboveParent
      <4> QED BY <1>1, <2>2, <4>1 DEF WalkInv
    <3> QED BY <3>1, <3>2
  <2>3. CASE c \in open /\ c # d /\ x \in Found
    <3>1. Within(c, d)
      BY <1>1, <1>9, <2>0, <2>3, WithinChain
    <3> QED BY <1>1, <2>3, <3>1 DEF WalkInv
  <2>4. CASE c \in Found /\ x \in Found
    BY <1>1, <1>9, <2>0, <2>4, WithinEqual, PathLen
  <2> QED BY <1>1, <2>1, <2>2, <2>3, <2>4
<1>10. ASSUME NEW e \in entries', e.repo \in pending
       PROVE  e.repo = Here /\ \A c \in open' : ~IsStrictPrefix(c, e.path)
  <2>1. CASE e \in entries
    <3>1. e.repo = Here /\ \A c \in open : ~IsStrictPrefix(c, e.path)
      BY <1>1, <1>10, <2>1 DEF WalkInv
    <3>2. ASSUME NEW c \in Found, IsStrictPrefix(c, e.path) PROVE FALSE
      <4>1. c \in Paths /\ e.path \in Paths /\ Within(c, d) /\ Len(d) < Len(c)
        BY <1>1, <1>5, <2>1, PathLen
      <4>2. Within(e.path, c) /\ Len(c) < Len(e.path)
        BY <3>2, <4>1, StrictlyWithin
      <4>3. Within(e.path, d)
        BY <1>1, <4>1, <4>2, WithinChain
      <4>4. Len(d) < Len(e.path)
        BY <1>1, <4>1, <4>2, PathLen
      <4>5. IsStrictPrefix(d, e.path)
        BY <1>1, <4>1, <4>3, <4>4, StrictlyWithin
      <4> QED BY <1>1, <3>1, <4>5
    <3> QED BY <1>1, <3>1, <3>2
  <2>2. ASSUME NEW p \in Found, e = EntryOf(p)
        PROVE  e.repo = Here /\ \A c \in open' : ~IsStrictPrefix(c, e.path)
    <3>1. e.repo = Here /\ e.path = p
      BY <1>2, <2>2
    <3>2. ASSUME NEW c \in open, c # d, IsStrictPrefix(c, p) PROVE FALSE
      <4>1. Within(d, c)
        BY <1>1, <1>3, <3>2, AboveParent
      <4> QED BY <1>1, <3>2, <4>1 DEF WalkInv
    <3>3. ASSUME NEW c \in Found, IsStrictPrefix(c, p) PROVE FALSE
      BY <1>1, <3>3, StrictlyWithin, PathLen
    <3> QED BY <1>1, <3>1, <3>2, <3>3
  <2> QED BY <1>1, <2>1, <2>2
<1> QED BY <1>1, <1>3, <1>4, <1>7, <1>8, <1>9, <1>10 DEF WalkInv
\* A walk that begins has one boundary open, and nothing of it is listed.
LEMMA WalkBegins ==
  ASSUME SInv, WalkInv, Classified \/ NextBoundary, stage' = "walk"
  PROVE  /\ pending' \subseteq boundaries /\ open' = {Here'} /\ Here' \in pending'
         /\ Here' \in Paths /\ IsDeepest(Around(boundaries, Here'), Here')
         /\ \A e \in entries : e.repo \notin pending'
<1>1. boundaries \subseteq Paths /\ boundaries \subseteq Places /\ boundaries # {}
  BY PlacePaths DEF SInv, Stages
<1>2. pending' \subseteq boundaries /\ pending' # {} /\ open' = {FirstOf(pending')}
  BY <1>1 DEF Classified, NextBoundary, SInv, Stages
<1>3. Here' = FirstOf(pending') /\ Here' \in pending'
  <2>1. pending' \in SUBSET Places
    BY <1>1, <1>2
  <2>2. Here' = FirstOf(pending')
    BY DEF Here
  <2> QED BY <1>2, <2>1, <2>2, FirstIsOne
<1>4. Here' \in Paths /\ IsDeepest(Around(boundaries, Here'), Here')
  BY <1>1, <1>2, <1>3, OwnDeepest
<1>5. \A e \in entries : e.repo \notin pending'
  BY DEF Classified, NextBoundary, SInv, Stages, WalkInv, Here
<1> QED BY <1>2, <1>3, <1>4, <1>5

LEMMA NextWalkInv == ASSUME SInv, WalkInv, [Next]_vars PROVE WalkInv'
<1>1. CASE Walk
  BY <1>1, WalkKeeps
<1>2. ASSUME entries' = entries, boundaries' = boundaries \/ entries = {}
      PROVE  OneOwner' /\ (ListedPaths \subseteq Places)'
  BY <1>2 DEF WalkInv, OneOwner, ListedPaths
<1>3. CASE (Classified \/ NextBoundary) /\ stage' = "walk"
  <2>1. entries' = entries /\ boundaries' = boundaries
    BY <1>3 DEF Classified, NextBoundary
  <2>2. /\ open' = {Here'} /\ IsDeepest(Around(boundaries, Here'), Here')
        /\ \A e \in entries : e.repo \notin pending'
    BY <1>3, WalkBegins
  <2> QED BY <1>2, <2>1, <2>2 DEF WalkInv
<1>4. CASE UNCHANGED <<stage, open, boundaries, pending, entries>>
  <2>1. Here' = Here
    BY <1>4 DEF Here
  <2> QED BY <1>2, <1>4, <2>1 DEF WalkInv
<1>5. CASE entries' = entries /\ stage' # "walk" /\ (boundaries' = boundaries \/ entries = {})
  BY <1>2, <1>5 DEF WalkInv
<1>6. CASE Discover \/ Discovered \/ Classify
  <2>1. entries' = entries /\ entries = {} /\ stage' # "walk"
    BY <1>6 DEF Discover, Discovered, Classify, SInv, Stages
  <2> QED BY <1>5, <2>1
<1>7. CASE (NextBoundary /\ stage' # "walk") \/ Fail
  BY <1>5, <1>7 DEF NextBoundary, Fail
<1>8. CASE Classified
  BY <1>3, <1>8 DEF Classified
<1>9. ASSUME NEW p \in Places, User(p) PROVE WalkInv'
  BY <1>4, <1>9 DEF User, Edit
<1>10. CASE UNCHANGED vars
  BY <1>4, <1>10 DEF vars
<1> QED BY <1>1, <1>3, <1>6, <1>7, <1>8, <1>9, <1>10 DEF Next

LEMMA InitWalkInv == Init => WalkInv
BY DEF Init, WalkInv, OneOwner, ListedPaths

\* Every path is listed once and by the boundary it belongs to, whatever is
\* edited, created or removed under the walk (inventory_walker.go:80-110).
THEOREM EveryPathOwned == Spec => []OneOwner
<1>1. Init => SInv /\ WalkInv
  BY InitSInv, InitWalkInv
<1>2. SInv /\ WalkInv /\ [Next]_vars => (SInv /\ WalkInv)'
  BY NextSInv, NextWalkInv
<1>3. WalkInv => OneOwner
  BY DEF WalkInv
<1> QED BY <1>1, <1>2, <1>3, PTL DEF Spec

-----------------------------------------------------------------------------
(***************************************************************************)
(* What git was asked.  For a file p that nobody touched, and a boundary b  *)
(* above it, what the lists hold of the paths on the way from b to p is     *)
(* what git would say of them now.                                         *)
(***************************************************************************)
Fits(r, q, kind) ==
  CASE kind = "tracked" -> <<r, q>> \in world.index
    [] kind = "untracked" -> <<r, q>> \notin world.index /\ ~IgnoredBy(r, q)
    [] kind = "ignored" -> <<r, q>> \notin world.index /\ IgnoredBy(r, q)

Line(p, q, kind) == IF kind = "tracked" \/ q = p THEN q ELSE Slash(q)

ToldOf(b, p, kind, list) ==
  /\ RunIn(b) = {} => list = {}
  /\ \A q \in Paths : \A r \in Paths :
       /\ Within(p, q) /\ IsStrictPrefix(b, q) /\ (q = p \/ q \in world.real)
       /\ RunIn(b) = {r} /\ Owner(q) = {r} /\ Fits(r, q, kind)
       => Line(p, q, kind) \in list
  /\ kind = "ignored" =>
       \A e \in list :
         /\ Within(p, Place(e)) => \E r \in RunIn(b) : IgnoredBy(r, Place(e))
         /\ \A r \in world.real :
              Within(p, r) /\ IsStrictPrefix(b, r) => ~IsStrictPrefix(r, Place(e))

Asked ==
  stage \in Asking =>
    \A p : Steady(p) =>
      \A b \in marked : IsStrictPrefix(b, p) =>
        \A kind \in DOMAIN cls[b] : ToldOf(b, p, kind, cls[b][kind])

LEMMA RunInIs ==
  ASSUME WorldInv, NEW b \in Paths
  PROVE  /\ RunIn(b) = {} \/ \E t \in world.real : RunIn(b) = {t}
         /\ \A x \in world.real : Within(b, x) => RunIn(b) # {}
         /\ \A t \in RunIn(b) : /\ t \in world.real /\ t \in Paths /\ Within(b, t)
                                /\ \A x \in world.real : Within(b, x) => Len(x) <= Len(t)
<1> DEFINE at == {r \in world.real : Within(b, r)}
<1>1. at \in SUBSET Paths /\ \A x \in at : Within(b, x)
  BY PlacePaths DEF WorldInv, WorldType, World
<1>2. \A x : x \in at <=> x \in world.real /\ Within(b, x)
  OBVIOUS
<1> HIDE DEF at
<1>3. /\ at # {} => Innermost(at) # {}
      /\ Innermost(at) = {} \/ \E t \in at : Innermost(at) = {t}
      /\ \A t \in Innermost(at) : IsDeepest(at, t)
  BY <1>1, InnermostIs
<1>4. RunIn(b) = Innermost(at)
  BY DEF RunIn, at
<1> QED BY <1>1, <1>2, <1>3, <1>4 DEF IsDeepest

LEMMA OwnerIs ==
  ASSUME WorldInv, NEW q \in Paths
  PROVE  /\ Owner(q) = {} \/ \E t \in world.real : Owner(q) = {t}
         /\ \A t \in Owner(q) :
              /\ t \in world.real /\ t \in Paths /\ IsStrictPrefix(t, q)
              /\ \A x \in world.real : IsStrictPrefix(x, q) => Len(x) <= Len(t)
         /\ \A t \in world.real :
              /\ IsStrictPrefix(t, q)
              /\ \A x \in world.real : IsStrictPrefix(x, q) => Len(x) <= Len(t)
              => Owner(q) = {t}
<1> DEFINE at == {r \in world.real : IsStrictPrefix(r, q)}
<1>1. at \in SUBSET Paths /\ \A x \in at : Within(q, x)
  BY PlacePaths, StrictlyWithin DEF WorldInv, WorldType, World
<1>2. \A x : x \in at <=> x \in world.real /\ IsStrictPrefix(x, q)
  OBVIOUS
<1> HIDE DEF at
<1>3. /\ Innermost(at) = {} \/ \E t \in at : Innermost(at) = {t}
      /\ \A t \in Innermost(at) : IsDeepest(at, t)
      /\ \A t : IsDeepest(at, t) => Innermost(at) = {t}
  BY <1>1, InnermostIs
<1>4. Owner(q) = Innermost(at)
  BY DEF Owner, at
<1> QED BY <1>1, <1>2, <1>3, <1>4 DEF IsDeepest

LEMMA LsFilesTold ==
  ASSUME WorldInv, NEW p \in world.files, NEW b \in Paths, NEW kind \in AllKinds
  PROVE  ToldOf(b, p, kind, LsFiles(b, kind))
<1>1. p \in Places /\ p \in Paths /\ p # <<>> /\ Place(p) = p
  BY PlacePaths DEF WorldInv, WorldType, World
<1>2. RunIn(b) = {} => LsFiles(b, kind) = {}
  BY DEF LsFiles
<1>3. ASSUME NEW q \in Paths, NEW r \in Paths,
             IsStrictPrefix(b, q), q = p \/ q \in world.real,
             RunIn(b) = {r}, Owner(q) = {r}, Fits(r, q, kind)
      PROVE  Line(p, q, kind) \in LsFiles(b, kind)
  <2>1. CASE kind = "tracked"
    <3>1. <<r, q>> \in world.index
      BY <1>3, <2>1 DEF Fits
    <3> QED BY <1>3, <2>1, <3>1 DEF Line, LsFiles
  <2>2. CASE kind # "tracked"
    <3> DEFINE e == IF q = p THEN p ELSE Slash(q)
    <3>1. Place(e) = q /\ e = Line(p, q, kind)
      BY <1>1, <2>2, SlashPlace DEF Line
    <3>2. q # <<>> /\ e \in world.files \cup {Slash(x) : x \in world.real \ {<<>>}}
      BY <1>3, AboveParent
    <3> HIDE DEF e
    <3>3. e \in Others(b, r)
      BY <1>3, <2>2, <3>1, <3>2 DEF Others, Fits, AllKinds
    <3>4. CASE kind = "untracked"
      BY <1>3, <3>1, <3>3, <3>4 DEF LsFiles, Fits
    <3>5. CASE kind = "ignored"
      BY <1>3, <3>1, <3>3, <3>5 DEF LsFiles, Fits
    <3> QED BY <2>2, <3>4, <3>5 DEF AllKinds
  <2> QED BY <2>1, <2>2
<1>4. ASSUME kind = "ignored", NEW e \in LsFiles(b, kind)
      PROVE  /\ \E r \in RunIn(b) : IgnoredBy(r, Place(e))
             /\ \A r \in world.real : IsStrictPrefix(b, r) => ~IsStrictPrefix(r, Place(e))
  <2>1. PICK top \in RunIn(b) : e \in Others(b, top) /\ IgnoredBy(top, Place(e))
    BY <1>4 DEF LsFiles
  <2>2. e \in Paths \ {<<>>} /\ Place(e) \in Paths
    BY <1>4, ListedPathsOf, PlaceOfPath
  <2>3. Owner(Place(e)) = {top} /\ top \in Paths /\ Within(b, top)
    BY <2>1, RunInIs DEF Others
  <2>4. ASSUME NEW r \in world.real, IsStrictPrefix(b, r), IsStrictPrefix(r, Place(e))
        PROVE  FALSE
    <3>1. r \in Paths
      BY PlacePaths DEF WorldInv, WorldType, World
    <3>2. Len(r) <= Len(top)
      BY <2>2, <2>3, <2>4, OwnerIs
    <3>3. Len(b) < Len(r)
      BY <2>4, <3>1, StrictlyWithin
    <3>4. Len(top) <= Len(b)
      BY <2>3, WithinMeans
    <3> QED BY <2>3, <3>1, <3>2, <3>3, <3>4, PathLen
  <2> QED BY <2>1, <2>4
<1> QED BY <1>2, <1>3, <1>4 DEF ToldOf

LEMMA ToldStays ==
  ASSUME WorldInv, NEW p \in Paths, SameAbout(p), SameAnswers(p),
         WorldInv', NEW b \in Paths, IsStrictPrefix(b, p), NEW kind \in AllKinds
  PROVE  \A list : list \subseteq Paths \ {<<>>} =>
            (ToldOf(b, p, kind, list) => ToldOf(b, p, kind, list)')
<1> SUFFICES ASSUME NEW list, list \subseteq Paths \ {<<>>}, ToldOf(b, p, kind, list)
             PROVE  ToldOf(b, p, kind, list)'
  OBVIOUS
<1>1. RunIn(b)' = RunIn(b) /\ RunIn(b) \subseteq Paths
  BY StrictlyWithin, RunInIs DEF SameAnswers
<1>2. ASSUME NEW q \in Paths, NEW r \in Paths, Within(p, q), IsStrictPrefix(b, q),
             (q = p \/ q \in world.real)', RunIn(b)' = {r}, Owner(q)' = {r}, Fits(r, q, kind)'
      PROVE  Line(p, q, kind) \in list
  <2>1. RunIn(b) = {r} /\ Owner(q) = {r} /\ (q = p \/ q \in world.real)
    BY <1>1, <1>2 DEF SameAbout, SameAnswers
  <2>2. r \in Paths /\ Within(p, r)
    <3>1. Within(b, r) /\ Within(p, b)
      BY <2>1, RunInIs, StrictlyWithin
    <3> QED BY <3>1, WithinChain
  <2>3. Fits(r, q, kind)
    <3>1. <<r, q>> \in world'.index <=> <<r, q>> \in world.index
      BY <1>2, <2>2 DEF SameAbout
    <3>2. IgnoredBy(r, q)' <=> IgnoredBy(r, q)
      BY <1>2 DEF SameAnswers
    <3> QED BY <1>2, <3>1, <3>2 DEF Fits, AllKinds
  <2> QED BY <1>2, <2>1, <2>3 DEF ToldOf
<1>3. ASSUME kind = "ignored", NEW e \in list
      PROVE  /\ Within(p, Place(e)) => (\E r \in RunIn(b) : IgnoredBy(r, Place(e)))'
             /\ \A r \in world'.real :
                  Within(p, r) /\ IsStrictPrefix(b, r) => ~IsStrictPrefix(r, Place(e))
  <2>1. Place(e) \in Paths
    BY PlaceOfPath
  <2>2. ASSUME Within(p, Place(e)) PROVE (\E r \in RunIn(b) : IgnoredBy(r, Place(e)))'
    <3>1. PICK r \in RunIn(b) : IgnoredBy(r, Place(e))
      BY <1>3, <2>2 DEF ToldOf
    <3> QED BY <1>1, <2>1, <2>2, <3>1 DEF SameAnswers
  <2>3. \A r \in world'.real : Within(p, r) => r \in world.real
    BY PlacePaths DEF SameAbout, WorldInv, WorldType, World
  <2> QED BY <1>3, <2>2, <2>3 DEF ToldOf
<1> QED BY <1>1, <1>2, <1>3 DEF ToldOf

LEMMA InitAsked == Init => Asked
BY DEF Init, Asked, Asking

LEMMA NextAsked == ASSUME SInv, Asked, [Next]_vars PROVE Asked'
<1> SUFFICES ASSUME (stage \in Asking)', NEW p, Steady(p)', NEW b \in marked',
                    IsStrictPrefix(b, p), NEW kind \in DOMAIN cls'[b], NEW list,
                    list = cls'[b][kind]
             PROVE  ToldOf(b, p, kind, list)'
  BY DEF Asked, ToldOf
<1>1. WorldInv /\ WorldInv' /\ Stages /\ Answered /\ Stages' /\ Answered'
  BY NextSInv DEF SInv
<1>2. p \in Paths /\ Steady(p) /\ SameAbout(p) /\ SameAnswers(p) /\ p \in world.files
  BY <1>1, StepBack DEF Steady
<1>3. b \in Paths /\ b \in boundaries' /\ kind \in AllKinds
  <2>1. b \in boundaries' /\ b \in Paths
    BY <1>1, PlacePaths DEF Stages
  <2> QED BY <1>1, <2>1 DEF Answered, AllKinds
<1>4. ASSUME stage \in Asking, b \in marked, kind \in DOMAIN cls[b], list = cls[b][kind]
      PROVE  ToldOf(b, p, kind, list)'
  <2>1. ToldOf(b, p, kind, list)
    BY <1>2, <1>4 DEF Asked
  <2>2. list \subseteq Paths \ {<<>>}
    BY <1>1, <1>4 DEF Answered, Stages
  <2> QED BY <1>1, <1>2, <1>3, <2>1, <2>2, ToldStays
<1>5. ASSUME stage' = stage, marked' = marked, cls' = cls
      PROVE  ToldOf(b, p, kind, list)'
  BY <1>4, <1>5
<1>6. CASE Classify
  <2>1. /\ stage \in Asking /\ b \in marked /\ b \in boundaries /\ world' = world
        /\ touched' = touched
    BY <1>1, <1>6 DEF Classify, Asking, Stages
  <2>2. CASE kind \in DOMAIN cls[b] /\ list = cls[b][kind]
    BY <1>4, <2>1, <2>2
  <2>3. CASE list = LsFiles(b, kind)
    <3>1. list \subseteq Paths \ {<<>>}
      BY <1>1, <1>3, <2>3, ListedPathsOf
    <3>2. ToldOf(b, p, kind, list)
      BY <1>1, <1>2, <1>3, <2>3, LsFilesTold
    <3> QED BY <1>1, <1>2, <1>3, <3>1, <3>2, ToldStays
  <2> QED BY <1>6, <2>1, <2>2, <2>3, ClassifyLists
<1>7. CASE Discovered
  <2>1. b \in boundaries /\ cls'[b] = Unasked
    BY <1>1, <1>7 DEF Discovered, Stages
  <2> QED BY <2>1 DEF Unasked
<1>8. CASE Discover \/ Fail
  BY <1>8 DEF Discover, Fail, Asking
<1>9. CASE Classified \/ Walk \/ NextBoundary
  <2>1. stage \in Asking /\ marked' = marked /\ cls' = cls
    BY <1>9 DEF Classified, Walk, NextBoundary, Asking
  <2> QED BY <1>4, <2>1
<1>10. ASSUME NEW x \in Places, User(x) PROVE ToldOf(b, p, kind, list)'
  BY <1>5, <1>10 DEF User, Edit
<1>11. CASE UNCHANGED vars
  BY <1>5, <1>11 DEF vars
<1> QED BY <1>6, <1>7, <1>8, <1>9, <1>10, <1>11 DEF Next

-----------------------------------------------------------------------------
(***************************************************************************)
(* What the walk does with a steady file p.                                *)
(***************************************************************************)

\* Git runs for b in the repository that p belongs to.
LEMMA AskedThere ==
  ASSUME WorldInv, NEW p \in Paths, NEW b \in Paths, IsStrictPrefix(b, p),
         NEW r, Owner(p) = {r}, Within(b, r)
  PROVE  RunIn(b) = {r}
<1>1. r \in world.real /\ r \in Paths /\ \A x \in world.real : IsStrictPrefix(x, p) => Len(x) <= Len(r)
  BY OwnerIs
<1>2. PICK t \in world.real : RunIn(b) = {t}
  BY <1>1, RunInIs
<1>3. t \in Paths /\ Within(b, t) /\ Len(r) <= Len(t)
  BY <1>1, <1>2, RunInIs
<1>4. IsStrictPrefix(t, p)
  <2>1. Within(p, b) /\ Len(b) < Len(p) /\ Len(t) <= Len(b)
    BY <1>3, StrictlyWithin, WithinMeans
  <2>2. Within(p, t) /\ Len(t) < Len(p)
    BY <1>3, <2>1, WithinChain, PathLen
  <2> QED BY <1>3, <2>2, StrictlyWithin
<1>5. Len(t) <= Len(r)
  BY <1>1, <1>4
<1>6. Within(t, r)
  BY <1>1, <1>3, AroundNest
<1>7. t = r
  BY <1>1, <1>3, <1>5, <1>6, WithinEqual
<1> QED BY <1>2, <1>7

\* What is found belongs to the boundary walked, and lies below it.
LEMMA FoundBelow ==
  ASSUME SInv, WalkInv, Walk, NEW p \in Found
  PROVE  /\ Here \in boundaries /\ Here \in Paths /\ p \in Paths /\ p \in Places
         /\ BoundaryFor(boundaries, p) = Here /\ IsStrictPrefix(Here, p)
<1>1. /\ p \in Places /\ p \in Paths /\ p \notin boundaries
      /\ IsDeepest(Around(boundaries, p), Here)
  BY WalkIs
<1>2. boundaries \subseteq Paths
  BY PlacePaths DEF SInv, Stages
<1>3. Here \in boundaries /\ Within(p, Here)
  BY <1>1 DEF IsDeepest, Around
<1>4. IsStrictPrefix(Here, p)
  BY <1>1, <1>2, <1>3, StrictlyWithin
<1> QED BY <1>1, <1>2, <1>3, <1>4, BoundaryIs

LEMMA IgnoredNotFound ==
  ASSUME SInv, WalkInv, Asked, Walk, NEW p, Steady(p),
         BoundaryFor(boundaries, p) \in marked, Owner(p) # {},
         \A r \in Owner(p) : /\ Within(BoundaryFor(boundaries, p), r)
                             /\ IgnoredBy(r, p) /\ <<r, p>> \notin world.index
  PROVE  p \notin Found
<1> SUFFICES ASSUME p \in Found PROVE FALSE
  OBVIOUS
<1>1. /\ Here \in boundaries /\ Here \in Paths /\ p \in Paths
      /\ BoundaryFor(boundaries, p) = Here /\ IsStrictPrefix(Here, p) /\ Here \in marked
  BY FoundBelow
<1>2. WorldInv /\ stage = "walk"
  BY DEF SInv, Walk
<1>3. PICK r \in world.real : Owner(p) = {r}
  BY <1>1, <1>2, OwnerIs
<1>4. r \in Paths /\ Within(Here, r) /\ Fits(r, p, "ignored")
  BY <1>1, <1>2, <1>3, OwnerIs DEF Fits
<1>5. RunIn(Here) = {r}
  BY <1>1, <1>2, <1>3, <1>4, AskedThere
<1>6. DOMAIN cls[Here] = AllKinds
  BY <1>1, <1>2 DEF SInv, Answered, Asking
<1>7. p \in cls[Here]["ignored"]
  <2>1. ToldOf(Here, p, "ignored", cls[Here]["ignored"])
    BY <1>1, <1>2, <1>6 DEF Asked, Asking, AllKinds
  <2>2. Line(p, p, "ignored") = p
    BY DEF Line
  <2>3. Within(p, p)
    BY <1>1, WithinItself
  <2> QED BY <1>1, <1>3, <1>4, <1>5, <2>1, <2>2, <2>3 DEF ToldOf
<1>8. StateOf(Here, p) = "ignored"
  BY <1>1, <1>7 DEF StateOf, State
<1> QED BY <1>8 DEF Found

LEMMA NextLeftOut ==
  ASSUME SInv, WalkInv, Asked, IgnoredLeftOut, [Next]_vars
  PROVE  IgnoredLeftOut'
<1> SUFFICES ASSUME NEW p, Steady(p)', (BoundaryFor(boundaries, p) \in marked)', Owner(p)' # {},
                    \A r \in Owner(p)' : /\ Within(BoundaryFor(boundaries', p), r)
                                         /\ IgnoredBy(r, p)' /\ <<r, p>> \notin world'.index,
                    p \in ListedPaths'
             PROVE  FALSE
  BY DEF IgnoredLeftOut, Steady
<1>1. WorldInv /\ Steady(p) /\ p \in world.files /\ p \in Paths /\ SameAbout(p) /\ SameAnswers(p)
  BY StepBack DEF SInv, Steady
<1>2. Owner(p)' = Owner(p)
  BY <1>1, WithinItself DEF SameAnswers
<1>3. ASSUME NEW r \in Owner(p) PROVE IgnoredBy(r, p) /\ <<r, p>> \notin world.index
  <2>1. r \in Paths /\ Within(p, p) /\ Within(p, r)
    BY <1>1, <1>3, OwnerIs, StrictlyWithin, WithinItself
  <2> QED BY <1>1, <1>2, <2>1 DEF SameAbout, SameAnswers
<1>4. CASE entries' = entries /\ boundaries' = boundaries /\ marked' = marked
  <2>1. p \in ListedPaths
    BY <1>4 DEF ListedPaths
  <2> QED BY <1>1, <1>2, <1>3, <1>4, <2>1 DEF IgnoredLeftOut, Steady
<1>5. CASE Walk
  <2>1. /\ boundaries' = boundaries /\ marked' = marked
        /\ entries' = entries \cup {EntryOf(q) : q \in Found}
    BY <1>5, WalkIs
  <2>2. p \notin Found
    BY <1>1, <1>2, <1>3, <1>5, <2>1, IgnoredNotFound
  <2>3. \A q : EntryOf(q).path = q
    BY DEF EntryOf
  <2>4. p \in ListedPaths
    BY <2>1, <2>2, <2>3 DEF ListedPaths
  <2> QED BY <1>1, <1>2, <1>3, <2>1, <2>4 DEF IgnoredLeftOut, Steady
<1>6. CASE Discover
  <2>1. entries' = {}
    BY <1>6 DEF Discover, SInv, Stages
  <2> QED BY <2>1 DEF ListedPaths
<1> QED
  BY <1>4, <1>5, <1>6 DEF Next, vars, Discovered, Classify, Classified, NextBoundary, Fail,
                          User, Edit

\* A file that its repository ignored all the while is in no inventory of
\* that repository, whatever came between the three calls of git
\* (git_probe.go, inventory_walker.go:217-246).
THEOREM IgnoredStaysOut == Spec => []IgnoredLeftOut
<1> DEFINE Inv == SInv /\ WalkInv /\ Asked /\ IgnoredLeftOut
<1>1. Init => Inv
  <2>1. Init => IgnoredLeftOut
    BY DEF Init, IgnoredLeftOut, ListedPaths
  <2> QED BY <2>1, InitSInv, InitWalkInv, InitAsked
<1>2. Inv /\ [Next]_vars => Inv'
  BY NextSInv, NextWalkInv, NextAsked, NextLeftOut
<1>3. Inv => IgnoredLeftOut
  OBVIOUS
<1> QED BY <1>1, <1>2, <1>3, PTL DEF Spec

-----------------------------------------------------------------------------
(***************************************************************************)
(* Nothing is lost.                                                        *)
(***************************************************************************)
Unignored(b, p) == \A r \in RunIn(b) : ~IgnoredBy(r, p)

Wanted(p) ==
  /\ Steady(p) /\ \A d \in world.unread : ~IsStrictPrefix(d, p)
  /\ Unignored(BoundaryFor(boundaries, p), p)

\* The walk has yet to come to the boundary b of p, or is above p.
Ahead(b, p) ==
  \/ b \in pending \ {Here}
  \/ b = Here /\ \E d \in open : IsStrictPrefix(d, p)

Sought ==
  stage \in {"walk", "done"} =>
    \A p : Wanted(p) =>
      p \in ListedPaths \/ (stage = "walk" /\ Ahead(BoundaryFor(boundaries, p), p))

LEMMA Shallowest ==
  ASSUME NEW p \in Paths, NEW ds \in SUBSET Paths, ds # {}, \A x \in ds : Within(p, x)
  PROVE  \E q \in ds : \A x \in ds : Len(q) <= Len(x)
<1> DEFINE S == {Len(x) : x \in ds}
<1>1. S \in SUBSET (0 .. Len(p)) /\ Len(p) \in Nat
  BY WithinMeans, PathLen
<1>2. S # {}
  OBVIOUS
<1>3. \E m \in S : \A i \in S : m <= i
  <2> HIDE DEF S
  <2> QED BY <1>1, <1>2, Least
<1> QED BY <1>3

\* The first place on the way from b to p of which git, run in b, speaks: the
\* outermost repository there, or p.
LEMMA FirstSpoken ==
  ASSUME WorldInv, NEW p \in world.files, NEW b \in Paths, IsStrictPrefix(b, p),
         NEW top, RunIn(b) = {top}
  PROVE  \E q \in Paths :
           /\ Within(p, q) /\ IsStrictPrefix(b, q) /\ (q = p \/ q \in world.real)
           /\ Owner(q) = {top}
<1> DEFINE between == {r \in world.real : IsStrictPrefix(b, r) /\ Within(p, r)}
<1>1. p \in Paths /\ Within(p, p) /\ world.real \subseteq Paths
  BY PlacePaths, WithinItself DEF WorldInv, WorldType, World
<1>2. PICK q \in Paths :
        /\ Within(p, q) /\ IsStrictPrefix(b, q) /\ (q = p \/ q \in world.real)
        /\ \A x \in between : Len(q) <= Len(x)
  <2>1. CASE between = {}
    BY <1>1, <2>1
  <2>2. CASE between # {}
    <3>1. between \in SUBSET Paths /\ \A x \in between : Within(p, x)
      BY <1>1
    <3>2. \A x \in between : x \in world.real /\ IsStrictPrefix(b, x) /\ Within(p, x)
      OBVIOUS
    <3> HIDE DEF between
    <3>3. PICK q \in between : \A x \in between : Len(q) <= Len(x)
      BY <1>1, <2>2, <3>1, Shallowest
    <3> QED BY <1>1, <3>2, <3>3
  <2> QED BY <2>1, <2>2
<1>3. top \in world.real /\ top \in Paths /\ Within(b, top)
      /\ \A x \in world.real : Within(b, x) => Len(x) <= Len(top)
  BY RunInIs
<1>4. Within(q, b) /\ Len(b) < Len(q) /\ Within(p, b)
  BY <1>1, <1>2, StrictlyWithin
<1>5. IsStrictPrefix(top, q)
  <2>1. Len(top) <= Len(b)
    BY <1>3, WithinMeans
  <2>2. Within(q, top) /\ Len(top) < Len(q)
    BY <1>3, <1>4, <2>1, WithinChain, PathLen
  <2> QED BY <1>3, <2>2, StrictlyWithin
<1>6. ASSUME NEW x \in world.real, IsStrictPrefix(x, q) PROVE Len(x) <= Len(top)
  <2>1. x \in Paths /\ Within(q, x) /\ Len(x) < Len(q)
    BY <1>1, <1>6, StrictlyWithin
  <2>2. Within(p, x)
    BY <1>1, <1>2, <2>1, WithinChain
  <2>3. ~IsStrictPrefix(b, x)
    <3>1. ~(Len(q) <= Len(x))
      BY <2>1, PathLen
    <3> QED BY <1>2, <2>2, <3>1
  <2>4. Within(b, x)
    <3>1. CASE Len(x) <= Len(b)
      BY <1>1, <1>4, <2>1, <2>2, <3>1, AroundNest
    <3>2. CASE Len(b) < Len(x)
      <4>1. Within(x, b)
        BY <1>1, <1>4, <2>1, <2>2, <3>2, AroundNest, PathLen
      <4> QED BY <2>1, <2>3, <3>2, <4>1, StrictlyWithin
    <3> QED BY <2>1, <3>1, <3>2, PathLen
  <2> QED BY <1>3, <2>4
<1>7. Owner(q) = {top}
  BY <1>2, <1>3, <1>5, <1>6, OwnerIs
<1> QED BY <1>2, <1>7

\* What is on the way to a wanted file is not taken for ignored.
LEMMA WayOpen ==
  ASSUME SInv, Asked, stage = "walk", NEW p, Steady(p), NEW b \in boundaries,
         IsStrictPrefix(b, p), Unignored(b, p),
         NEW c \in Places, Within(p, c), IsStrictPrefix(b, c)
  PROVE  StateOf(b, c) # "ignored"
<1>1. /\ WorldInv /\ p \in world.files /\ p \in Paths /\ b \in Paths /\ c \in Paths
      /\ p \notin world.dirs /\ world.real \subseteq Paths
      /\ world.real \subseteq world.dirs
  BY PlacePaths DEF SInv, Stages, Steady, WorldInv, WorldType, World
<1>2. DOMAIN cls[b] = AllKinds /\ \A k \in AllKinds : cls[b][k] \subseteq Paths \ {<<>>}
  BY DEF SInv, Answered, Asking
<1>3. ASSUME b \notin marked PROVE StateOf(b, c) # "ignored"
  BY <1>3 DEF StateOf, State, DirectoryIsIgnored
<1> SUFFICES ASSUME b \in marked PROVE StateOf(b, c) # "ignored"
  BY <1>3
<1>4. \A k \in AllKinds : ToldOf(b, p, k, cls[b][k])
  BY <1>2 DEF Asked, Asking
<1>5. \A q \in Paths : \A r \in RunIn(b) : Within(p, q) => ~IgnoredBy(r, q)
  <2>1. ASSUME NEW q \in Paths, NEW r \in RunIn(b), Within(p, q), IgnoredBy(r, q) PROVE FALSE
    <3>1. PICK x \in world.rules : IsStrictPrefix(r, x) /\ Within(q, x)
      BY <2>1 DEF IgnoredBy
    <3>2. x \in Paths
      BY <1>1, PlacePaths DEF WorldInv, WorldType, World
    <3>3. Within(p, x)
      BY <1>1, <2>1, <3>1, <3>2, WithinChain
    <3> QED BY <2>1, <3>1, <3>3 DEF Unignored, IgnoredBy
  <2> QED BY <2>1
<1>6. State(b, c) # "ignored"
  <2> SUFFICES ASSUME c \in cls[b]["ignored"] PROVE FALSE
    BY DEF State
  <2>1. Place(c) = c
    <3>1. c # <<>>
      BY <1>1, AboveParent
    <3> QED BY <3>1, PlacePaths
  <2>2. \E r \in RunIn(b) : IgnoredBy(r, c)
    BY <1>4, <2>1 DEF ToldOf, AllKinds
  <2> QED BY <1>1, <1>5, <2>2
<1>7. ASSUME c \in world.dirs, State(b, c) = "unknown", DirectoryIsIgnored(b, c)
      PROVE  FALSE
  <2>1. /\ ~AnyUnder(b, c, "tracked") /\ ~AnyUnder(b, c, "untracked")
        /\ AnyUnder(b, c, "ignored")
    BY <1>7 DEF DirectoryIsIgnored
  <2>2. PICK e \in cls[b]["ignored"] : IsStrictPrefix(c, e)
    BY <2>1 DEF AnyUnder
  <2>3. PICK top \in world.real : RunIn(b) = {top}
    <3>1. RunIn(b) # {}
      BY <1>4, <2>2 DEF ToldOf, AllKinds
    <3> QED BY <1>1, <3>1, RunInIs
  <2>4. PICK q \in Paths : /\ Within(p, q) /\ IsStrictPrefix(b, q) /\ (q = p \/ q \in world.real)
                           /\ Owner(q) = {top}
    BY <1>1, <2>3, FirstSpoken
  <2>5. PICK k \in {"tracked", "untracked"} : Fits(top, q, k)
    <3>1. ~IgnoredBy(top, q)
      BY <1>5, <2>3, <2>4
    <3> QED BY <3>1 DEF Fits
  <2>6. Line(p, q, k) \in cls[b][k]
    BY <1>1, <1>4, <2>3, <2>4, <2>5 DEF ToldOf, AllKinds
  <2>7. ~IsStrictPrefix(c, Line(p, q, k))
    BY <2>1, <2>5, <2>6 DEF AnyUnder
  <2>8. ~IsStrictPrefix(c, q)
    <3> SUFFICES ASSUME IsStrictPrefix(c, q) PROVE IsStrictPrefix(c, Slash(q))
      BY <2>7 DEF Line
    <3>1. Slash(q) \in Paths /\ Within(Slash(q), q) /\ Len(q) < Len(Slash(q))
      BY SlashPlace, StrictlyWithin
    <3>2. Within(q, c) /\ Len(c) < Len(q)
      BY <1>1, StrictlyWithin
    <3>3. Within(Slash(q), c) /\ Len(c) < Len(Slash(q))
      BY <1>1, <3>1, <3>2, WithinChain, PathLen
    <3> QED BY <1>1, <3>1, <3>3, StrictlyWithin
  <2>9. q # c
    <3> SUFFICES ASSUME q = c PROVE FALSE
      OBVIOUS
    <3>1. q # p /\ q \in world.real
      BY <1>1, <1>7, <2>4
    <3>2. k = "tracked"
      BY <2>5, <2>7, <3>1, SlashPlace DEF Line
    <3>3. c \in cls[b]["tracked"]
      BY <2>6, <3>2 DEF Line
    <3> QED BY <1>7, <3>3 DEF State
  <2>10. IsStrictPrefix(q, c)
    <3>1. ~(Within(q, c))
      BY <1>1, <2>8, <2>9, StrictlyWithin
    <3>2. ~(Len(c) <= Len(q))
      BY <1>1, <2>4, <3>1, AroundNest
    <3>3. Len(q) <= Len(c)
      BY <1>1, <3>2, PathLen
    <3>4. Within(c, q)
      BY <1>1, <2>4, <3>3, AroundNest
    <3> QED BY <1>1, <2>9, <3>4, StrictlyWithin
  <2>11. q \in world.real
    <3>1. q # p
      <4>1. Len(q) < Len(c) /\ Len(c) <= Len(p)
        BY <1>1, <2>10, StrictlyWithin, WithinMeans
      <4> QED BY <1>1, <4>1, PathLen
    <3> QED BY <2>4, <3>1
  <2>12. IsStrictPrefix(q, Place(e))
    <3>1. e \in Paths \ {<<>>}
      BY <1>2, <2>2 DEF AllKinds
    <3>2. Place(e) \in Paths /\ Within(Place(e), c)
      BY <1>1, <2>2, <3>1, PlaceOfPath
    <3>3. Within(c, q) /\ Len(q) < Len(c) /\ Len(c) <= Len(Place(e))
      BY <1>1, <2>10, <3>2, StrictlyWithin, WithinMeans
    <3>4. Within(Place(e), q) /\ Len(q) < Len(Place(e))
      BY <1>1, <3>2, <3>3, WithinChain, PathLen
    <3> QED BY <3>2, <3>4, StrictlyWithin
  <2> QED BY <1>4, <2>2, <2>4, <2>11, <2>12 DEF ToldOf, AllKinds
<1> QED BY <1>6, <1>7 DEF StateOf

LEMMA InitSought == Init => Sought
BY DEF Init, Sought

\* A walk that begins is above every file of its boundary.
LEMMA BeginsAbove ==
  ASSUME SInv, WalkInv, Classified \/ NextBoundary, stage' = "walk",
         NEW p \in Paths, p \notin boundaries, BoundaryFor(boundaries, p) \in pending'
  PROVE  Ahead(BoundaryFor(boundaries, p), p)'
<1> DEFINE b == BoundaryFor(boundaries, p)
<1>1. boundaries' = boundaries /\ boundaries \subseteq Paths /\ <<>> \in boundaries
  BY PlacePaths DEF Classified, NextBoundary, SInv, Stages
<1>2. open' = {Here'} /\ Here' \in Paths
  BY WalkBegins
<1>3. b \in boundaries /\ Within(p, b)
  BY <1>1, BoundaryFound DEF IsDeepest, Around
<1>4. IsStrictPrefix(b, p)
  BY <1>1, <1>3, StrictlyWithin
<1> QED BY <1>1, <1>2, <1>4 DEF Ahead

\* Reading one directory above a wanted file finds the next, or the file.
LEMMA WalkNears ==
  ASSUME SInv, WalkInv, Asked, Walk, NEW p, Wanted(p), Ahead(BoundaryFor(boundaries, p), p)
  PROVE  p \in ListedPaths' \/ Ahead(BoundaryFor(boundaries, p), p)'
<1> DEFINE b == BoundaryFor(boundaries, p)
           d == FirstOf(open)
<1>1. /\ d \in open /\ d \in Paths
      /\ entries' = entries \cup {EntryOf(q) : q \in Found}
      /\ open' = (open \ {d}) \cup (Found \cap world.dirs)
      /\ boundaries' = boundaries /\ pending' = pending /\ stage = "walk"
  BY WalkIs DEF Walk
<1>2. /\ WorldInv /\ p \in world.files /\ p \in Paths /\ p \in Tree /\ Tree \subseteq Places
      /\ boundaries \subseteq Paths /\ <<>> \in boundaries /\ open \subseteq Paths
      /\ Steady(p) /\ p \notin boundaries /\ Unignored(b, p)
  BY PlacePaths DEF SInv, Stages, PlainFiles, Wanted, Steady, Tree, WorldInv, WorldType, World
<1>3. Here' = Here
  BY <1>1 DEF Here
<1>4. b \in boundaries /\ IsDeepest(Around(boundaries, p), b) /\ Within(p, b)
  BY <1>2, BoundaryFound DEF IsDeepest, Around
<1>5. CASE b \in pending \ {Here}
  BY <1>1, <1>3, <1>5 DEF Ahead
<1>6. ASSUME b = Here, NEW x \in open, IsStrictPrefix(x, p), x # d
      PROVE  Ahead(b, p)'
  BY <1>1, <1>3, <1>6 DEF Ahead
<1>7. ASSUME b = Here, IsStrictPrefix(d, p)
      PROVE  p \in ListedPaths' \/ Ahead(b, p)'
  <2>1. PICK c \in Paths : c # <<>> /\ Front(c) = d /\ Within(p, c)
    BY <1>1, <1>2, <1>7, ChildTowards
  <2>2. c = p \/ (IsStrictPrefix(c, p) /\ c \in world.dirs)
    BY <1>2, <2>1, StrictlyWithin, DirsAbove
  <2>3. c \in Tree /\ c \in Places
    BY <1>2, <2>2 DEF Tree
  <2>4. Within(d, b) /\ b \in Paths /\ Len(b) <= Len(d)
    BY <1>1, <1>2, <1>4, <1>7, WithinMeans DEF WalkInv, IsDeepest, Around
  <2>5. Within(c, d) /\ Len(d) < Len(c)
    BY <2>1, FrontPath, <1>1, StrictlyWithin
  <2>6. Within(c, b) /\ Len(b) < Len(c)
    BY <1>1, <2>1, <2>4, <2>5, WithinChain, PathLen
  <2>7. IsStrictPrefix(b, c)
    BY <2>1, <2>4, <2>6, StrictlyWithin
  <2>8. c \notin NestedChildren(Here)
    <3> SUFFICES ASSUME c \in boundaries PROVE FALSE
      BY DEF NestedChildren
    <3>1. Len(c) <= Len(b)
      BY <1>4, <2>1 DEF IsDeepest, Around
    <3> QED BY <2>1, <2>4, <2>6, <3>1, PathLen
  <2>9. IsStrictPrefix(b, p)
    BY <1>2, <1>4, <2>4, StrictlyWithin
  <2>10. StateOf(Here, c) # "ignored"
    BY <1>1, <1>2, <1>4, <1>7, <2>1, <2>3, <2>7, <2>9, WayOpen
  <2>11. d \notin world.unread
    BY <1>7 DEF Wanted
  <2>12. c \in Found
    BY <2>1, <2>3, <2>8, <2>10, <2>11 DEF Found, ChildrenOf
  <2>13. CASE c = p
    <3>1. EntryOf(p).path = p /\ EntryOf(p) \in entries'
      BY <1>1, <2>12, <2>13 DEF EntryOf
    <3> QED BY <3>1 DEF ListedPaths
  <2>14. CASE IsStrictPrefix(c, p) /\ c \in world.dirs
    <3>1. c \in open'
      BY <1>1, <2>12, <2>14
    <3> QED BY <1>1, <1>3, <1>7, <2>14, <3>1 DEF Ahead
  <2> QED BY <2>2, <2>13, <2>14
<1> QED BY <1>5, <1>6, <1>7 DEF Ahead

LEMMA NextSought == ASSUME SInv, WalkInv, Asked, Sought, [Next]_vars PROVE Sought'
<1> SUFFICES ASSUME stage' \in {"walk", "done"}, NEW p, Wanted(p)', p \notin ListedPaths'
             PROVE  stage' = "walk" /\ Ahead(BoundaryFor(boundaries, p), p)'
  BY DEF Sought
<1>1. WorldInv /\ Steady(p) /\ p \in Paths /\ SameAbout(p) /\ SameAnswers(p) /\ p \notin boundaries
  BY StepBack DEF SInv, Wanted, PlainFiles, Steady
<1>2. ASSUME boundaries' = boundaries PROVE Wanted(p)
  <2>1. boundaries \subseteq Paths /\ <<>> \in boundaries
    BY PlacePaths DEF SInv, Stages
  <2>2. BoundaryFor(boundaries, p) \in Paths /\ Within(p, BoundaryFor(boundaries, p))
    BY <1>1, <2>1, BoundaryFound DEF IsDeepest, Around
  <2>3. \A d \in world.unread : ~IsStrictPrefix(d, p)
    <3>1. \A d \in world.unread : d \in Paths
      BY <1>1, PlacePaths DEF WorldInv, WorldType, World
    <3>2. \A d \in world.unread : IsStrictPrefix(d, p) => d \in world'.unread
      BY <1>1, <3>1, StrictlyWithin DEF SameAbout
    <3> QED BY <3>2 DEF Wanted
  <2>4. Unignored(BoundaryFor(boundaries, p), p)
    <3>1. Unignored(BoundaryFor(boundaries, p), p)'
      BY DEF Wanted
    <3>2. RunIn(BoundaryFor(boundaries, p))' = RunIn(BoundaryFor(boundaries, p))
      BY <1>1, <1>2, <2>2 DEF SameAnswers
    <3>3. \A r \in RunIn(BoundaryFor(boundaries, p)) : r \in Paths
      BY <1>1, <2>2, RunInIs
    <3> QED BY <1>1, <1>2, <3>1, <3>2, <3>3, WithinItself DEF SameAnswers, Unignored
  <2> QED BY <1>1, <2>3, <2>4 DEF Wanted
<1>3. ASSUME boundaries' = boundaries, entries' = entries, stage \in {"walk", "done"}
      PROVE  stage = "walk" /\ Ahead(BoundaryFor(boundaries, p), p)
  <2>1. p \notin ListedPaths
    BY <1>3 DEF ListedPaths
  <2> QED BY <1>2, <1>3, <2>1 DEF Sought
<1>4. CASE UNCHANGED <<stage, open, boundaries, pending, entries>>
  BY <1>3, <1>4 DEF Ahead, Here
<1>5. CASE Classified
  <2>1. stage' = "walk" /\ boundaries' = boundaries /\ pending' = boundaries
    BY <1>5 DEF Classified
  <2>2. BoundaryFor(boundaries, p) \in boundaries
    <3>1. boundaries \subseteq Paths /\ <<>> \in boundaries
      BY PlacePaths DEF SInv, Stages
    <3> QED BY <1>1, <3>1, BoundaryFound DEF IsDeepest, Around
  <2> QED BY <1>1, <1>5, <2>1, <2>2, BeginsAbove
<1>6. CASE NextBoundary
  <2>1. /\ stage = "walk" /\ boundaries' = boundaries /\ entries' = entries /\ open = {}
        /\ pending' = pending \ {Here} /\ (pending' = {} \/ stage' = "walk")
    BY <1>6 DEF NextBoundary, Here
  <2>2. BoundaryFor(boundaries, p) \in pending'
    BY <1>3, <2>1 DEF Ahead
  <2> QED BY <1>1, <1>6, <2>1, <2>2, BeginsAbove
<1>7. CASE Walk
  <2>1. boundaries' = boundaries /\ stage = "walk" /\ stage' = "walk" /\ Wanted(p)
    BY <1>2, <1>7 DEF Walk
  <2>2. p \notin ListedPaths
    <3>1. entries \subseteq entries'
      BY <1>7 DEF Walk
    <3> QED BY <3>1 DEF ListedPaths
  <2>3. Ahead(BoundaryFor(boundaries, p), p)
    BY <2>1, <2>2 DEF Sought
  <2> QED BY <1>7, <2>1, <2>3, WalkNears
<1>8. CASE Discover \/ Discovered \/ Classify \/ Fail
  BY <1>8 DEF Discover, Discovered, Classify, Fail
<1>9. ASSUME NEW x \in Places, User(x)
      PROVE  stage' = "walk" /\ Ahead(BoundaryFor(boundaries, p), p)'
  BY <1>4, <1>9 DEF User, Edit
<1>10. CASE UNCHANGED vars
  BY <1>4, <1>10 DEF vars
<1> QED BY <1>5, <1>6, <1>7, <1>8, <1>9, <1>10 DEF Next

\* A file that nobody touched, that git does not ignore for the boundary it
\* belongs to and that can be reached, is in a finished inventory: also in a
\* directory ignored in part, and in a repository within an ignored directory
\* (inventory_walker.go:217-246, 66-69).
THEOREM NoFileLost == Spec => []NothingLost
<1> DEFINE Inv == SInv /\ WalkInv /\ Asked /\ Sought
<1>1. Init => Inv
  BY InitSInv, InitWalkInv, InitAsked, InitSought
<1>2. Inv /\ [Next]_vars => Inv'
  BY NextSInv, NextWalkInv, NextAsked, NextSought
<1>3. Inv => NothingLost
  BY DEF Sought, NothingLost, Wanted, Steady, Unignored
<1> QED BY <1>1, <1>2, <1>3, PTL DEF Spec
=============================================================================
