------------------------------ MODULE Accounts -------------------------------
(***************************************************************************)
(* What the API's sessions and the browser's have in common: users, and    *)
(* the tokens that a login or a refresh draws for them.                    *)
(***************************************************************************)
EXTENDS Integers, FiniteSets

CONSTANTS Users, Tokens, None

ASSUME NoneAssumption == None \notin Tokens
==============================================================================
