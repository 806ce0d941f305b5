---------------------------- MODULE MCStockLedger ----------------------------
(***************************************************************************)
(* Values for model checking StockLedger.                                  *)
(***************************************************************************)
EXTENDS StockLedger, TLC

\* Orders and variants are only ever compared.
IdSymmetry == Permutations(Orders) \cup Permutations(Variants)
==============================================================================
