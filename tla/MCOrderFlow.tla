----------------------------- MODULE MCOrderFlow -----------------------------
(***************************************************************************)
(* Values for model checking OrderFlow.                                    *)
(***************************************************************************)
EXTENDS OrderFlow, TLC

\* Ids are only ever compared, so the slots, orders and provider ids of a run
\* without liveness properties are interchangeable.
IdSymmetry == Permutations(Requests) \cup Permutations(Orders) \cup Permutations(Ppids)
==============================================================================
