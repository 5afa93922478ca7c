-------------------------------- MODULE MCScan --------------------------------
(***************************************************************************)
(* Campaigns for TLC: notes that link to each other, artifacts whose names  *)
(* collide, nested repositories, files that cannot be read, and more notes  *)
(* alike than the budgets allow.                                           *)
(***************************************************************************)
EXTENDS Scan

File(bare, ext) == [ext |-> ext, bare |-> bare, stem |-> bare]

MCNameOf ==
  [n \in {"a.md", "b.md", "c.mdx", "d.canvas", "e.canvas", "m.canvas", "i.md", "t.md",
          "gone.md", "x.go", "y.go", "z.ts", "SEQUENCE_GOAL.md"} |->
     CASE n = "a.md" -> File("a", "md")      [] n = "b.md" -> File("b", "md")
       [] n = "c.mdx" -> File("c", "mdx")    [] n = "d.canvas" -> File("d", "canvas")
       [] n = "e.canvas" -> File("e", "canvas") [] n = "m.canvas" -> File("m", "canvas")
       [] n = "i.md" -> File("i", "md")      [] n = "gone.md" -> File("gone", "md")
       [] n = "t.md" -> File("t", "md")      [] n = "x.go" -> File("x", "go")
       [] n = "y.go" -> File("y", "go")      [] n = "z.ts" -> File("z", "ts")
       [] OTHER -> [File("SEQUENCE_GOAL", "md") EXCEPT !.stem = "sequence_goal"]]

MCHidden == {".campaign", ".git", ".old"}
MCPhaseName == {"001_P"}

DirsOver(ps) == {<<>>} \cup UNION {Ancestors(p) : p \in ps}

Nothing == [none \in {} |-> {}]
Quiet(dirs, files) ==
  [dirs |-> dirs \cup DirsOver(dirs \cup files), files |-> files, listed |-> files,
   nested |-> {}, unread |-> {}, text |-> Nothing, canvas |-> Nothing,
   package |-> Nothing, fest |-> Nothing, intent |-> Nothing]

Rel(names) == [abs |-> FALSE, to |-> names]
Abs(names) == [abs |-> TRUE, to |-> names]

\* Two notes of one stem; a note linked by each way; a canvas that links back,
\* one that is malformed, and a picture.
Vault ==
  LET a == <<"a.md">>  sa == <<"s", "a.md">>  b == <<"s", "b.md">>
      d == <<"d.canvas">>  e == <<"s", "e.canvas">>
  IN  [Quiet({}, {a, sa, b, d, e, <<"s", "m.canvas">>, <<"s", "p">>}) EXCEPT
         !.text =
           [p \in {a, sa, b} |->
              CASE p = a -> [Blank EXCEPT
                     !.links = {Rel(<<"s", "b.md">>), Rel(d), Rel(<<"..", "a.md">>)},
                     !.wiki = {<<"b">>}, !.inline = {"x"}, !.type = "t"]
                [] p = sa -> [Blank EXCEPT
                     !.links = {Rel(<<"..", "a.md">>), Abs(<<"s", "p">>), Rel(<<"gone.md">>)},
                     !.wiki = {<<"a">>}, !.aliases = <<"w", "w">>, !.tags = {"x"}]
                [] p = b -> [Blank EXCEPT
                     !.wiki = {<<"q", "a">>}, !.aliases = <<"w">>, !.type = "t"]],
         !.canvas = [p \in {d, e} |->
           IF p = d THEN {e} ELSE {<<"s", "b.md">>, <<"s", "p">>, d, e, <<"..", "a.md">>}]]

\* A festival in two stages, one in the dungeon, one in a stage that is none;
\* an intent in two stages, and one that is listed and gone.
Artifacts ==
  LET f == <<"festivals", "active", "f">>  g == <<"festivals", "dungeon", "archived", "g">>
      later == <<"festivals", "later", "f", "001_P", "s", "t.md">>
      intents == <<".campaign", "intents">>
      kept == intents \o <<"inbox", "i.md">>  done == intents \o <<"dungeon", "archived", "i.md">>
  IN  [Quiet({<<"projects", "m">>, <<"projects", ".old">>, <<"workflow", "design", "w">>,
              <<"workflow", "explore", "w">>, <<"festivals", "ready", "f", "001_P">>,
              f \o <<"001_P", ".old">>},
             {f \o <<"001_P", "s", "t.md">>, f \o <<"001_P", "s", "c.mdx">>,
              f \o <<"001_P", "s", "SEQUENCE_GOAL.md">>, f \o <<"001_P", "a.md">>, f \o <<"b.md">>,
              g \o <<"001_P", "s", "t.md">>, later, kept, done,
              intents \o <<"ready", "a.md">>, intents \o <<"b.md">>}) EXCEPT
         !.listed = @ \cup {intents \o <<"ready", "gone.md">>},
         !.fest = [p \in {f} |-> "m"],
         !.intent = [p \in {done, intents \o <<"ready", "a.md">>} |->
                       [gathered |-> {"m", "gone"}, related |-> {"m"}]]]

\* A repository with Go files in two packages of one name, one with nothing
\* listed, and a note that cannot be read.
Repos ==
  LET m == <<"projects", "m">>
      unlisted == {<<"other", "n", "x.go">>}
      all == {m \o <<"x.go">>, m \o <<"y.go">>, m \o <<"k", "x.go">>, m \o <<"k", "z.ts">>,
              m \o <<"a.md">>, m \o <<"k", "b.md">>, <<"x.go">>} \cup unlisted
  IN  [Quiet({}, all) EXCEPT
         !.listed = all \ unlisted, !.nested = {m, <<"other", "n">>},
         !.unread = {m \o <<"a.md">>},
         !.package = [p \in {q \in all : Ext(q) = "go"} |-> "main"]]

\* A canvas, or a directory of projects, that cannot be read.
BadCanvas == [Quiet({}, {<<"d.canvas">>}) EXCEPT !.unread = {<<"d.canvas">>}]
BadDir == [Quiet({<<"projects", "m">>}, {}) EXCEPT !.unread = {<<"projects">>}]

\* Five notes in a folder.
Crowd ==
  LET ps == {<<"r", "s", n>> : n \in {"a.md", "b.md", "c.mdx", "i.md", "t.md"}}
  IN  [Quiet({}, ps) EXCEPT
         !.text = [p \in ps |-> [Blank EXCEPT !.type = "t", !.tags = {"x"}]]]

MCCampaign ==
  [c \in {"vault", "artifacts", "repos", "bad canvas", "bad dir", "crowd"} |->
     CASE c = "vault" -> Vault [] c = "artifacts" -> Artifacts [] c = "repos" -> Repos
       [] c = "bad canvas" -> BadCanvas [] c = "bad dir" -> BadDir [] c = "crowd" -> Crowd]

MCTokens ==
  [p \in {<<"a.md">>, <<"s", "a.md">>} |-> {"plan", "for", "may"}]

\* The dungeon's stages of intents and the content of the campaigns, in order.
MCOrder ==
  [i \in 1 .. 6 |-> <<".campaign", "intents">> \o
     <<<<"b.md">>, <<"dungeon", "archived">>, <<"dungeon", "archived", "i.md">>,
       <<"inbox", "i.md">>, <<"ready", "a.md">>, <<"ready", "gone.md">>>>[i]]
  \o <<<<"a.md">>, <<"d.canvas">>>>
  \o [i \in 1 .. 5 |-> <<"festivals", "active", "f">> \o
        <<<<"001_P", "a.md">>, <<"001_P", "s", "SEQUENCE_GOAL.md">>, <<"001_P", "s", "c.mdx">>,
          <<"001_P", "s", "t.md">>, <<"b.md">>>>[i]]
  \o <<<<"festivals", "dungeon", "archived", "g", "001_P", "s", "t.md">>,
       <<"festivals", "later", "f", "001_P", "s", "t.md">>,
       <<"projects", "m", "a.md">>, <<"projects", "m", "k", "b.md">>>>
  \o [i \in 1 .. 5 |-> <<"r", "s", <<"a.md", "b.md", "c.mdx", "i.md", "t.md">>[i]>>]
  \o <<<<"s", "a.md">>, <<"s", "b.md">>, <<"s", "e.canvas">>, <<"s", "m.canvas">>, <<"s", "p">>>>
=============================================================================
