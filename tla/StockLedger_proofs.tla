-------------------------- MODULE StockLedger_proofs --------------------------
(***************************************************************************)
(* Proofs about the stock ledger, for every finite set of orders and every *)
(* set of variants, line quantities and stock levels.                      *)
(***************************************************************************)
EXTENDS StockLedger, UnitCounting

\* There are finitely many held units, before and after a step.
LEMMA HeldUnitsFinite ==
  ASSUME NEW v
  PROVE  IsFiniteSet(HeldUnits(v)) /\ IsFiniteSet(HeldUnits(v)')
<1>1. IsFiniteSet(1..MaxLine)
  BY MaxLineAssumption, FS_Interval
<1>2. IsFiniteSet(Orders \X (1..MaxLine))
  BY <1>1, OrdersAssumption, FS_Product
<1>3. HeldUnits(v) \subseteq Orders \X (1..MaxLine)
  BY DEF HeldUnits
<1>4. HeldUnits(v)' \subseteq Orders \X (1..MaxLine)
  BY DEF HeldUnits
<1> QED
  BY <1>2, <1>3, <1>4, FS_Subset
-----------------------------------------------------------------------------
(***************************************************************************)
(* Types.                                                                  *)
(***************************************************************************)

\* Every ledger step keeps the counters natural numbers.
LEMMA LedgerTypeStep ==
  LedgerTypeOK /\ [Next]_ledgerVars => LedgerTypeOK'
<1> SUFFICES ASSUME LedgerTypeOK, [Next]_ledgerVars
             PROVE  LedgerTypeOK'
  OBVIOUS
<1> USE DEF LedgerTypeOK, InventoryTypeOK
<1>1. ASSUME NEW o \in Orders, NEW ls \in Lines, Place(o, ls)
      PROVE  LedgerTypeOK'
  BY <1>1, MaxLineAssumption DEF Place, ReserveStock, Lines
<1>2. ASSUME NEW o \in Orders, Release(o)
      PROVE  LedgerTypeOK'
  BY <1>2, MaxLineAssumption DEF Release, ReleaseStock, Greatest0, Lines
<1>3. ASSUME NEW o \in Orders, Consume(o)
      PROVE  LedgerTypeOK'
  BY <1>3, MaxLineAssumption DEF Consume, ConfirmDeduction, Greatest0, Lines
<1>4. ASSUME NEW o \in Orders, Reopen(o)
      PROVE  LedgerTypeOK'
  BY <1>4 DEF Reopen
<1>5. ASSUME NEW v \in Variants, NEW q \in StockLevels, Adjust(v, q)
      PROVE  LedgerTypeOK'
  BY <1>5, StockLevelsAssumption DEF Adjust, UpdateInventory
<1>6. CASE UNCHANGED ledgerVars
  BY <1>6 DEF ledgerVars
<1> QED
  BY <1>1, <1>2, <1>3, <1>4, <1>5, <1>6 DEF Next

\* Counters never go negative and never leave the natural numbers, whatever
\* is released or deducted twice.
THEOREM LedgerTypeCorrect == Spec => []LedgerTypeOK
<1>1. Init => LedgerTypeOK
  <2> SUFFICES ASSUME Init PROVE LedgerTypeOK
    OBVIOUS
  <2>1. quantity \in [Variants -> Nat] /\ reserved \in [Variants -> Nat]
    BY StockLevelsAssumption DEF Init
  <2>2. NoLines \in Lines
    BY MaxLineAssumption DEF NoLines, Lines
  <2>3. claim \in [Orders -> {"none", "open", "closed"}] /\ lines \in [Orders -> Lines]
    BY <2>2 DEF Init
  <2> QED
    BY <2>1, <2>3 DEF LedgerTypeOK, InventoryTypeOK
<1> QED
  BY <1>1, LedgerTypeStep, PTL DEF Spec
-----------------------------------------------------------------------------
(***************************************************************************)
(* Reservations are backed by open claims.                                 *)
(***************************************************************************)

\* The bound is inductive together with the types: a step that gives an order
\* back its units takes at least as much from the counter.
LEMMA BackedStep ==
  LedgerTypeOK /\ ReservationsAreBacked /\ [Next]_ledgerVars
    => ReservationsAreBacked'
<1> SUFFICES ASSUME LedgerTypeOK, ReservationsAreBacked, [Next]_ledgerVars,
                    NEW v \in Variants
             PROVE  reserved'[v] <= Cardinality(HeldUnits(v))'
  BY DEF ReservationsAreBacked
<1> DEFINE H == HeldUnits(v)
<1> DEFINE G == HeldUnits(v)'
<1>1. IsFiniteSet(H) /\ IsFiniteSet(G)
  BY HeldUnitsFinite
<1>2. Cardinality(H) \in Nat /\ Cardinality(G) \in Nat
  BY <1>1, FS_CardinalityType
<1>3. reserved[v] \in Nat /\ reserved[v] <= Cardinality(H)
  BY DEF ReservationsAreBacked, LedgerTypeOK, InventoryTypeOK
<1>4. ASSUME NEW o \in Orders, NEW ls \in Lines, Place(o, ls)
      PROVE  reserved'[v] <= Cardinality(G)
  <2>1. ls[v] \in 0..MaxLine /\ ls[v] \in Nat
    BY MaxLineAssumption DEF Lines
  <2>2. H \cup ({o} \X (1..ls[v])) \subseteq G
    BY <1>4, <2>1, MaxLineAssumption DEF Place, HeldUnits, LedgerTypeOK
  <2>3. H \cap ({o} \X (1..ls[v])) = {}
    BY <1>4 DEF Place, HeldUnits
  <2>4. Cardinality(H) + ls[v] <= Cardinality(G)
    BY <1>1, <2>1, <2>2, <2>3, GainOneLine
  <2>5. reserved'[v] = reserved[v] + ls[v]
    BY <1>4 DEF Place, ReserveStock
  <2> QED
    BY <1>2, <1>3, <2>1, <2>4, <2>5
<1>5. ASSUME NEW o \in Orders, claim[o] # "none",
             claim' = [claim EXCEPT ![o] = "closed"], lines' = lines,
             reserved'[v] = Greatest0(reserved[v] - lines[o][v])
      PROVE  reserved'[v] <= Cardinality(G)
  <2>1. lines[o][v] \in Nat
    BY MaxLineAssumption DEF LedgerTypeOK, Lines
  <2>2. H \subseteq G \cup ({o} \X (1..lines[o][v]))
    BY <1>5, <2>1, MaxLineAssumption DEF HeldUnits, LedgerTypeOK
  <2>3. Cardinality(H) <= Cardinality(G) + lines[o][v]
    BY <1>1, <2>1, <2>2, LoseOneLine
  <2> QED
    BY <1>2, <1>3, <1>5, <2>1, <2>3 DEF Greatest0
<1>6. ASSUME NEW o \in Orders, Reopen(o)
      PROVE  reserved'[v] <= Cardinality(G)
  <2>1. H \subseteq G
    BY <1>6 DEF Reopen, HeldUnits, LedgerTypeOK
  <2>2. Cardinality(H) <= Cardinality(G)
    BY <1>1, <2>1, FS_Subset
  <2> QED
    BY <1>2, <1>3, <1>6, <2>2 DEF Reopen
<1>7. ASSUME UNCHANGED <<reserved, claim, lines>>
      PROVE  reserved'[v] <= Cardinality(G)
  <2>1. G = H
    BY <1>7 DEF HeldUnits
  <2> QED
    BY <1>3, <1>7, <2>1
<1>8. ASSUME NEW o \in Orders, Release(o)
      PROVE  reserved'[v] <= Cardinality(G)
  BY <1>5, <1>8 DEF Release, ReleaseStock
<1>9. ASSUME NEW o \in Orders, Consume(o)
      PROVE  reserved'[v] <= Cardinality(G)
  BY <1>5, <1>9 DEF Consume, ConfirmDeduction
<1>10. ASSUME NEW u \in Variants, NEW q \in StockLevels, Adjust(u, q)
       PROVE  reserved'[v] <= Cardinality(G)
  BY <1>7, <1>10 DEF Adjust, UpdateInventory
<1>11. CASE UNCHANGED ledgerVars
  BY <1>7, <1>11 DEF ledgerVars
<1> QED
  BY <1>4, <1>6, <1>8, <1>9, <1>10, <1>11 DEF Next

\* No reservation leaks: the reserved counter never exceeds the units of the
\* orders whose claim is open.
THEOREM LedgerBacked == Spec => []ReservationsAreBacked
<1>1. Init => ReservationsAreBacked
  <2> SUFFICES ASSUME Init, NEW v \in Variants
               PROVE  reserved[v] <= Cardinality(HeldUnits(v))
    BY DEF ReservationsAreBacked
  <2>1. Cardinality(HeldUnits(v)) \in Nat
    BY HeldUnitsFinite, FS_CardinalityType
  <2> QED
    BY <2>1 DEF Init
<1> QED
  BY <1>1, BackedStep, LedgerTypeCorrect, PTL DEF Spec
-----------------------------------------------------------------------------
(***************************************************************************)
(* Overselling.                                                            *)
(***************************************************************************)

\* A ledger step that oversells a variant is an Adjust that lowers it.
LEMMA OversellStep ==
  ASSUME LedgerTypeOK, [Next]_ledgerVars, NEW v \in Variants,
         reserved[v] <= quantity[v], reserved'[v] > quantity'[v]
  PROVE  quantity'[v] < quantity[v] /\ UNCHANGED <<reserved, claim, lines>>
<1>0. reserved[v] \in Nat /\ quantity[v] \in Nat
  BY DEF LedgerTypeOK, InventoryTypeOK
<1>1. ASSUME NEW o \in Orders, NEW ls \in Lines, Place(o, ls)
      PROVE  FALSE
  <2>1. ls[v] \in Nat
    BY MaxLineAssumption DEF Lines
  <2>2. reserved'[v] = reserved[v] + ls[v] /\ quantity'[v] = quantity[v]
    BY <1>1 DEF Place, ReserveStock
  <2>3. ls[v] > 0 => quantity[v] - reserved[v] >= ls[v]
    BY <1>1 DEF Place, ReserveStock, CanReserve, Available
  <2> QED
    BY <1>0, <2>1, <2>2, <2>3
<1>2. ASSUME NEW o \in Orders, Release(o)
      PROVE  FALSE
  <2>1. lines[o][v] \in Nat
    BY MaxLineAssumption DEF LedgerTypeOK, Lines
  <2> QED
    BY <1>0, <1>2, <2>1 DEF Release, ReleaseStock, Greatest0
<1>3. ASSUME NEW o \in Orders, Consume(o)
      PROVE  FALSE
  <2>1. lines[o][v] \in Nat
    BY MaxLineAssumption DEF LedgerTypeOK, Lines
  <2> QED
    BY <1>0, <1>3, <2>1 DEF Consume, ConfirmDeduction, Greatest0
<1>4. ASSUME NEW o \in Orders, Reopen(o)
      PROVE  FALSE
  BY <1>0, <1>4 DEF Reopen
<1>5. ASSUME NEW u \in Variants, NEW q \in StockLevels, Adjust(u, q)
      PROVE  quantity'[v] < quantity[v] /\ UNCHANGED <<reserved, claim, lines>>
  <2>1. quantity'[v] \in Nat
    BY <1>0, <1>5, StockLevelsAssumption
       DEF Adjust, UpdateInventory, LedgerTypeOK, InventoryTypeOK
  <2> QED
    BY <1>0, <1>5, <2>1 DEF Adjust, UpdateInventory
<1>6. CASE UNCHANGED ledgerVars
  BY <1>0, <1>6 DEF ledgerVars
<1> QED
  BY <1>1, <1>2, <1>3, <1>4, <1>5, <1>6 DEF Next

\* Only an admin's stock edit oversells a variant.
THEOREM LedgerOversell == Spec => OnlyAdjustOversells
<1>1. LedgerTypeOK /\ [Next]_ledgerVars
        => [\A v \in Variants :
              reserved[v] <= quantity[v] /\ reserved'[v] > quantity'[v]
                => quantity'[v] < quantity[v] /\ UNCHANGED <<reserved, claim, lines>>]_ledgerVars
  BY OversellStep
<1> QED
  BY <1>1, LedgerTypeCorrect, PTL DEF Spec, OnlyAdjustOversells
==============================================================================
