------------------------------- MODULE MCLedger -------------------------------
(***************************************************************************)
(* An instance of Ledger for TLC: one festival tree, two festivals that    *)
(* end with the same reference, two tasks of one name, and a design and an *)
(* exploration of one name.                                                *)
(***************************************************************************)
EXTENDS Ledger, TLC

Fest(names) == <<"festival", "alpha-F1">> \o names

MCScan ==
  {Root, IntentsFolder, <<"intent", "i">>, <<"festival", "beta-F1">>,
   Fest(<<>>), Fest(<<"p">>), Fest(<<"p", "s">>),
   Fest(<<"p", "s", "t">>), Fest(<<"p", "s2", "t">>),
   <<"design_doc", "w">>, <<"explore_doc", "w">>, <<"project", "r">>,
   <<"folder", ".campaign", "quests", "q">>}

MCEndsWith == {<<"alpha-F1", "F1">>, <<"beta-F1", "F1">>, <<"alpha-F1", "alpha-F1">>}

MCWorkitems ==
  ("w" :> {<<"design_doc", "w">>, <<"explore_doc", "w">>})
  @@ ("WI-1" :> {<<"explore_doc", "w">>})

MCScanEdges ==
  [k \in {<<IntentsFolder, <<"intent", "i">>, "contains">>,
          <<Fest(<<>>), Fest(<<"p">>), "contains">>,
          <<Root, Fest(<<>>), "contains">>}
     |-> [src |-> "structural", conf |-> 10]]
  @@ (<<<<"intent", "i">>, <<"design_doc", "w">>, "relates_to">>
        :> [src |-> "inferred", conf |-> 5])

-----------------------------------------------------------------------------
NoScope == [festival |-> None, phase |-> None, sequence |-> None, task |-> None,
            intent |-> None, workitem |-> None, quest |-> None]

InFest == [NoScope EXCEPT !.festival = "alpha-F1"]
Scopes ==
  {NoScope, InFest,
   [NoScope EXCEPT !.festival = "F1"],                     \* two festivals
   [InFest EXCEPT !.phase = "p"],
   [InFest EXCEPT !.phase = "p", !.sequence = "s", !.task = "t"],
   [InFest EXCEPT !.task = "t"],                           \* two tasks
   [InFest EXCEPT !.phase = "gone", !.intent = "i"],
   [NoScope EXCEPT !.intent = "i"],
   [NoScope EXCEPT !.workitem = "w"],                      \* two documents
   [NoScope EXCEPT !.workitem = "WI-1"],
   [NoScope EXCEPT !.quest = "q"]}

Plain ==
  [kind |-> "created", inner |-> None, source |-> "command", scope |-> NoScope,
   action |-> None, id |-> "e1", ts |-> 1, status |-> None, to |-> None,
   promoted |-> None, priors |-> {}, evidence |-> {}]

Item(type, path, repo) == [type |-> type, path |-> path, repo |-> repo]

Done ==
  [Plain EXCEPT !.kind = "evidence_attached", !.action = "a", !.ts = 3]
Intent == [NoScope EXCEPT !.intent = "i"]

MCEvent ==
  {[Plain EXCEPT !.scope = sc, !.status = "draft"] : sc \in Scopes}
  \cup {[Plain EXCEPT !.kind = "transitioned", !.scope = Intent, !.ts = 2,
                      !.to = "active", !.promoted = fest, !.source = src] :
          fest \in {"alpha-F1", "F1"}, src \in {"command", "backfill"}}
  \cup {[Plain EXCEPT !.kind = "completed", !.scope = sc, !.ts = 4] :
          sc \in {InFest, [InFest EXCEPT !.task = "t"]}}
  \cup {[Plain EXCEPT !.kind = "decided", !.id = id, !.scope = InFest,
                      !.priors = priors, !.source = "explicit"] :
          id \in {"d1", "d2"}, priors \in {{}, {"d1"}}}
  \cup {[Done EXCEPT !.scope = Intent, !.source = src,
                     !.evidence = {Item("path", "f", None), Item("commit", None, <<"r">>)}] :
          src \in {"command", "reconciled"}}
  \cup {[Done EXCEPT !.evidence = {Item("commit", None, None), Item("url", None, None)}],
        [Done EXCEPT !.action = None, !.scope = InFest,
                     !.evidence = {Item("url", None, None), Item("path", None, None)}]}
  \cup {[Plain EXCEPT !.kind = "repaired", !.action = act, !.scope = Intent, !.ts = 5] :
          act \in {"a", None}}
  \cup {[Plain EXCEPT !.kind = "reconciled", !.inner = inner, !.scope = InFest,
                      !.id = "d2", !.priors = {"d1"}] :
          inner \in {None, "reconciled", "created", "decided", "later"}}
  \cup {[Plain EXCEPT !.kind = "later"]}
=============================================================================
