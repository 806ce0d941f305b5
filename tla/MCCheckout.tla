----------------------------- MODULE MCCheckout ------------------------------
(***************************************************************************)
(* Values for model checking Checkout.                                     *)
(***************************************************************************)
EXTENDS Checkout, TLC

\* Ids are only ever compared.
IdSymmetry ==
    Permutations(Requests) \cup Permutations(Users) \cup Permutations(Keys) \cup
    Permutations(CartIds) \cup Permutations(ItemIds) \cup Permutations(OrderIds)
==============================================================================
