----------------------------- MODULE MCSessions ------------------------------
(***************************************************************************)
(* Values for model checking Sessions.                                     *)
(***************************************************************************)
EXTENDS Sessions, TLC

\* Ids are only ever compared.
IdSymmetry == Permutations(Requests) \cup Permutations(Tokens) \cup Permutations(Users)
==============================================================================
