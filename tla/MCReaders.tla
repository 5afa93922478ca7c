------------------------------- MODULE MCReaders -------------------------------
(***************************************************************************)
(* Two notes of one folder and a project, documents of two words, a build   *)
(* of each schema version and one whose edge leads nowhere.                 *)
(***************************************************************************)
EXTENDS Readers

MCNodes == {"a", "b", "p"}

Edge(from, to, src) == [from |-> from, to |-> to, src |-> src]
MCLinks == {Edge("a", "b", "explicit"), Edge("p", "b", "structural")}

MCTexts == {{"alpha"}, {"beta"}}

MCBuilds ==
  {[nodes |-> MCNodes, edges |-> MCLinks, version |-> "current",
    docs |-> [n \in {"a", "p"} |-> {"alpha"}]],
   [nodes |-> {"a", "b"}, edges |-> {Edge("a", "b", "explicit")}, version |-> "old",
    docs |-> [n \in {"b"} |-> {"beta"}]],
   [nodes |-> {"b"}, edges |-> {Edge("p", "b", "structural")}, version |-> "current",
    docs |-> NoDocs]}

MCAbout ==
  [n \in MCNodes |->
     CASE n = "a" -> [rel |-> "d/alpha.md", path |-> "/c/d/alpha.md", scope |-> "d", name |-> "d/alpha.md"]
       [] n = "b" -> [rel |-> "d/b.md", path |-> "/c/d/b.md", scope |-> "d", name |-> "d/b.md"]
       [] n = "p" -> [rel |-> "beta", path |-> "/c/beta", scope |-> ".", name |-> "beta"]]

MCAsked ==
  [q \in {"a", "beta", "d/alpha.md", "/c/d/b.md"} |->
     CASE q = "a" -> [path |-> "a", words |-> {"a"}, scope |-> ".", stem |-> {"a"}]
       [] q = "beta" -> [path |-> "beta", words |-> {"beta"}, scope |-> ".", stem |-> {"beta"}]
       [] q = "d/alpha.md" -> [path |-> q, words |-> {"alpha"}, scope |-> "d", stem |-> {"alpha"}]
       [] OTHER -> [path |-> q, words |-> {"beta"}, scope |-> "/c/d", stem |-> {"beta"}]]

Related(q, mode, limit) == [op |-> "related", query |-> q, mode |-> mode, limit |-> limit]
Context(q, hops) == [op |-> "context", query |-> q, mode |-> "hybrid", limit |-> hops]

MCCalls ==
  {Related("d/alpha.md", "hybrid", 2), Related("d/alpha.md", "structural", 1),
   Related("beta", "semantic", 2), Related("/c/d/b.md", "explicit", 1),
   Context("a", 0), Context("a", 2), Context("beta", 1)}
=============================================================================
