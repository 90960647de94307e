--------------------------- MODULE MCBookManager ----------------------------
(***************************************************************************)
(* Instances of BookManager.                                               *)
(***************************************************************************)
EXTENDS BookManager, BookRefinement

Symmetry == Permutations(OrderId)

=============================================================================
