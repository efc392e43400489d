------------------------------ MODULE MCPaging ------------------------------
(***************************************************************************)
(* Small instances of Paging: two BTSs, the second depending on the first. *)
(***************************************************************************)
EXTENDS Paging

CONSTANTS b1, b2

DependsDef == {<<b2, b1>>}
Symmetry == Permutations(Subscr) \cup Permutations(Msc)
=============================================================================
