------------------------------ MODULE Customer -------------------------------
(***************************************************************************)
(* What the parts of the shop that serve one customer have in common.      *)
(***************************************************************************)
EXTENDS Integers, Sequences

CONSTANTS AddressIds, None

ASSUME CustomerAssumption == None \notin AddressIds
==============================================================================
