------------------------------ MODULE MCRefresh ------------------------------
(***************************************************************************)
(* Instances of Refresh for TLC.                                           *)
(***************************************************************************)
EXTENDS Refresh, TLC

\* Processes, notes and contents are interchangeable: no action and no
\* invariant names one of them.
Symmetric == Permutations(Proc) \cup Permutations(Note) \cup Permutations(Content)
=============================================================================
