----------------------------- MODULE MCWebClient ------------------------------
(***************************************************************************)
(* Values for model checking WebClient.                                    *)
(***************************************************************************)
EXTENDS WebClient, TLC
==============================================================================
