--------------------------- MODULE MCShoppingCart ----------------------------
(***************************************************************************)
(* Values for model checking ShoppingCart.                                 *)
(***************************************************************************)
EXTENDS ShoppingCart, TLC

\* Ids are only ever compared.
IdSymmetry == Permutations(Requests) \cup Permutations(CartIds) \cup Permutations(ItemIds)
==============================================================================
