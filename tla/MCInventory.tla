------------------------------ MODULE MCInventory ------------------------------
(***************************************************************************)
(* Three worktrees: a git campaign with tracked, untracked and ignored      *)
(* files, directories ignored in whole and in part, a nested repository     *)
(* with another in it and one in an ignored directory; a git campaign where *)
(* the directory around a repository has a .git that git does not accept;   *)
(* and a campaign without git, with a repository, a .git that is none, and  *)
(* an unreadable directory.                                                *)
(***************************************************************************)
EXTENDS Inventory

MCNameOf == [n \in {} |-> Plain(n)]
MCHidden == {}

MCOrder ==
  <<<<>>, <<"d">>, <<"d", "a">>, <<"d", "l">>, <<"i">>, <<"i", "s">>, <<"i", "s", "k">>,
    <<"i", "x">>, <<"n">>, <<"r">>, <<"r", "b">>, <<"r", "b", "q">>, <<"r", "z">>>>

InGit ==
  [dirs |-> {<<>>, <<"d">>, <<"i">>, <<"i", "s">>, <<"r">>, <<"r", "b">>},
   files |-> {<<"d", "a">>, <<"d", "l">>, <<"i", "s", "k">>, <<"i", "x">>, <<"n">>,
              <<"r", "b", "q">>, <<"r", "z">>},
   markers |-> {<<>>, <<"i", "s">>, <<"r">>, <<"r", "b">>},
   real |-> {<<>>, <<"i", "s">>, <<"r">>, <<"r", "b">>},
   index |-> {<<<<>>, <<"n">>>>, <<<<"r">>, <<"r", "z">>>>},
   rules |-> {<<"d", "l">>, <<"i">>},
   unread |-> {}]

BrokenGit ==
  [dirs |-> {<<>>, <<"i">>, <<"i", "s">>},
   files |-> {<<"i", "s", "k">>, <<"i", "x">>, <<"n">>},
   markers |-> {<<>>, <<"i">>, <<"i", "s">>},
   real |-> {<<>>, <<"i", "s">>},
   index |-> {<<<<>>, <<"n">>>>},
   rules |-> {},
   unread |-> {}]

NoGit ==
  [dirs |-> {<<>>, <<"d">>, <<"i">>, <<"i", "s">>, <<"r">>},
   files |-> {<<"d", "a">>, <<"i", "s", "k">>, <<"n">>, <<"r", "z">>},
   markers |-> {<<"i", "s">>, <<"r">>},
   real |-> {<<"r">>},
   index |-> {},
   rules |-> {<<"r", "z">>},
   unread |-> {<<"d">>}]

MCWorlds == {InGit, BrokenGit, NoGit}
=============================================================================
