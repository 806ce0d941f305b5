----------------------------- MODULE StockLedger -----------------------------
(***************************************************************************)
(* What the shop promises about stock, without requests, payments, locks   *)
(* or webhooks: an order claims stock when it is placed, and from then on  *)
(* each step on it gives the claim back, consumes it, or reopens the       *)
(* order's claim without touching stock.  OrderFlow implements this        *)
(* module.                                                                 *)
(*                                                                         *)
(* The ledger allows a claim to be released or consumed more than once:    *)
(* that is what the code does when two handlers race, and GREATEST(0, _)   *)
(* keeps the counters non-negative when it happens.                        *)
(***************************************************************************)
EXTENDS Inventory, FiniteSets

CONSTANT Orders
ASSUME OrdersAssumption == IsFiniteSet(Orders)

VARIABLES
    claim,         \* claim[o]: "none", "open" or "closed"
    lines          \* lines[o]: the order's lines, fixed when it is placed

ledgerVars == <<quantity, reserved, claim, lines>>

NoLines == [v \in Variants |-> 0]

Init ==
    /\ quantity \in [Variants -> StockLevels]
    /\ reserved = [v \in Variants |-> 0]
    /\ claim = [o \in Orders |-> "none"]
    /\ lines = [o \in Orders |-> NoLines]

Place(o, ls) ==
    /\ claim[o] = "none"
    /\ ReserveStock(ls)
    /\ claim' = [claim EXCEPT ![o] = "open"]
    /\ lines' = [lines EXCEPT ![o] = ls]

Release(o) ==
    /\ claim[o] # "none"
    /\ ReleaseStock(lines[o])
    /\ claim' = [claim EXCEPT ![o] = "closed"]
    /\ UNCHANGED lines

Consume(o) ==
    /\ claim[o] # "none"
    /\ ConfirmDeduction(lines[o])
    /\ claim' = [claim EXCEPT ![o] = "closed"]
    /\ UNCHANGED lines

Reopen(o) ==
    /\ claim[o] = "closed"
    /\ claim' = [claim EXCEPT ![o] = "open"]
    /\ UNCHANGED <<quantity, reserved, lines>>

Adjust(v, q) ==
    /\ UpdateInventory(v, q)
    /\ UNCHANGED <<claim, lines>>

Next ==
    \/ \E o \in Orders, ls \in Lines : Place(o, ls)
    \/ \E o \in Orders : Release(o) \/ Consume(o) \/ Reopen(o)
    \/ \E v \in Variants, q \in StockLevels : Adjust(v, q)

Spec == Init /\ [][Next]_ledgerVars
------------------------------------------------------------------------------
\* Every counter is a natural number: GREATEST(0, _) and the WHERE clause of
\* reserveStock keep quantity and reserved from going negative.
LedgerTypeOK ==
    /\ InventoryTypeOK
    /\ claim \in [Orders -> {"none", "open", "closed"}]
    /\ lines \in [Orders -> Lines]

\* The units of variant v that orders with an open claim hold, one element
\* <<order, n>> for the n-th unit of a line.
HeldUnits(v) ==
    {u \in Orders \X (1..MaxLine) :
        claim[u[1]] = "open" /\ u[2] <= lines[u[1]][v]}

\* No reservation leaks: the reserved counter of a variant never exceeds the
\* units of the orders that may still be cancelled or paid, so that closing
\* every open order always brings it back to 0.
ReservationsAreBacked ==
    \A v \in Variants : reserved[v] <= Cardinality(HeldUnits(v))

\* Orders never oversell: only an admin who lowers the physical count takes
\* a variant from reserved <= quantity to reserved > quantity.
OnlyAdjustOversells ==
    [][\A v \in Variants :
          reserved[v] <= quantity[v] /\ reserved'[v] > quantity'[v]
            => quantity'[v] < quantity[v] /\ UNCHANGED <<reserved, claim, lines>>]_ledgerVars
==============================================================================
