------------------------------ MODULE MCBrowser ------------------------------
(***************************************************************************)
(* Instances of Browser for TLC.                                           *)
(***************************************************************************)
EXTENDS Browser, TLC

CONSTANTS a, b, fresh, t1, onlyB, s1

\* `fresh` came into the database after the graph was loaded.
MCNode == {a, b, fresh}
MCKnown == {a, b}
MCChip == {AllChips, onlyB}
MCTypeOf == (a :> 2) @@ (b :> 1) @@ (fresh :> 2)

\* Filters narrow the result, a scope to nothing under the chip.
MCHits ==
  [q \in {t1} \X MCChip \X {s1, NoScope} |->
     CASE q[2] = AllChips /\ q[3] = NoScope -> <<a, b, fresh>>
       [] q[2] = AllChips /\ q[3] = s1 -> <<a>>
       [] q[2] = onlyB /\ q[3] = NoScope -> <<b>>
       [] OTHER -> <<>>]

MCAnchors ==
  [q \in MCChip \X {s1, NoScope} |->
     IF q[1] = AllChips /\ q[2] = NoScope THEN <<a, b>> ELSE <<a>>]

MCAdjacent == [q \in MCChip \X MCKnown |-> IF q[2] = a THEN {b} ELSE {a}]
=============================================================================
