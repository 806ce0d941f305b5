------------------------------ MODULE Inventory ------------------------------
(***************************************************************************)
(* The inventory table and the three SQL statements of InventoryService.   *)
(*                                                                         *)
(* A row of the table is the pair quantity[v], reserved[v] of a variant v. *)
(* The statements run once per order line inside one database transaction; *)
(* the operators below are the joint effect on all lines of an order,      *)
(* given as a function from variants to line quantities (0: no line).      *)
(***************************************************************************)
EXTENDS Integers

CONSTANTS
    Variants,      \* product variants that have an inventory row
    MaxLine,       \* bound on the quantity of one order line
    StockLevels    \* the quantities an admin may enter

ASSUME MaxLineAssumption == MaxLine \in Nat
ASSUME StockLevelsAssumption == StockLevels \subseteq Nat

VARIABLES
    quantity,      \* quantity[v]: physical stock count
    reserved       \* reserved[v]: units held for orders

stock == <<quantity, reserved>>

Lines == [Variants -> 0..MaxLine]

\* SQL's GREATEST(0, n).
Greatest0(n) == IF n > 0 THEN n ELSE 0

Available(v) == quantity[v] - reserved[v]

\* WHERE (quantity - reserved) >= qty, for every line.
CanReserve(ls) == \A v \in Variants : ls[v] > 0 => Available(v) >= ls[v]

\* Wrong on purpose (mutation): the WHERE clause is dropped.
ReserveStockUnchecked(ls) ==
    /\ reserved' = [v \in Variants |-> reserved[v] + ls[v]]
    /\ UNCHANGED quantity

\* All lines are reserved or the enclosing transaction is rolled back.
ReserveStock(ls) ==
    /\ CanReserve(ls)
    /\ reserved' = [v \in Variants |-> reserved[v] + ls[v]]
    /\ UNCHANGED quantity

\* Wrong on purpose (mutation): plain subtraction instead of GREATEST.
ReleaseStockUnclamped(ls) ==
    /\ reserved' = [v \in Variants |-> reserved[v] - ls[v]]
    /\ UNCHANGED quantity

ReleaseStock(ls) ==
    /\ reserved' = [v \in Variants |-> Greatest0(reserved[v] - ls[v])]
    /\ UNCHANGED quantity

\* Wrong on purpose (mutation): the deduction leaves the reservation behind.
ConfirmDeductionForgetsReserved(ls) ==
    /\ quantity' = [v \in Variants |-> Greatest0(quantity[v] - ls[v])]
    /\ UNCHANGED reserved

ConfirmDeduction(ls) ==
    /\ reserved' = [v \in Variants |-> Greatest0(reserved[v] - ls[v])]
    /\ quantity' = [v \in Variants |-> Greatest0(quantity[v] - ls[v])]

\* AdminService.updateInventory: only the physical count is editable.
UpdateInventory(v, q) ==
    /\ quantity' = [quantity EXCEPT ![v] = q]
    /\ UNCHANGED reserved

InventoryTypeOK ==
    /\ quantity \in [Variants -> Nat]
    /\ reserved \in [Variants -> Nat]
==============================================================================
