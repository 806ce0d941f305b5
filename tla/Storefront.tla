----------------------------- MODULE Storefront ------------------------------
(***************************************************************************)
(* What a customer does on the shop: one tab among product, cart, checkout *)
(* and account, one among the pages of an order, and programs of the       *)
(* customer that change the addresses. The three share nothing that is     *)
(* stated here of them, so a behaviour is one of the three.                *)
(***************************************************************************)
EXTENDS ShopPages, OrderPages, Addresses

VARIABLE tour

vars == <<tour, shopVars, orderVars, addressVars>>

Init ==
    /\ tour \in {"shopping", "orders", "account"}
    /\ ShopInit /\ OrderPagesInit /\ AddressesInit
    /\ tour # "shopping" => rows = 0 /\ addresses = {}
    /\ tour # "orders" => \A o \in Orders : status[o] = "paid"
    /\ tour # "account" => Listed(address) = {}

Next ==
    /\ UNCHANGED tour
    /\ \/ tour = "shopping" /\ ShopNext /\ UNCHANGED <<orderVars, addressVars>>
       \/ tour = "orders" /\ OrderPagesNext /\ UNCHANGED <<shopVars, addressVars>>
       \/ tour = "account" /\ AddressSteps /\ UNCHANGED <<shopVars, orderVars>>

Spec == Init /\ [][Next]_vars /\ OrderPagesFairness

TypeOK == ShopTypeOK /\ OrderPagesTypeOK /\ AddressesTypeOK
==============================================================================
