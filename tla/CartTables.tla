----------------------------- MODULE CartTables ------------------------------
(***************************************************************************)
(* The carts and cart_items tables, as sets of rows, and the statements    *)
(* the code runs on them.  Each statement is atomic and nothing more is:   *)
(* neither table has a uniqueness constraint besides its id.               *)
(***************************************************************************)
EXTENDS Integers, FiniteSets

CONSTANTS
    Users,
    Variants,      \* product variants
    CartIds,       \* bound on the rows of carts
    ItemIds        \* bound on the rows of cart_items alive or in use

VARIABLES
    carts,         \* rows of carts
    items          \* rows of cart_items

tables == <<carts, items>>

Cart == [id : CartIds, user : Users, status : {"active", "completed"}]
Item == [id : ItemIds, cart : CartIds, variant : Variants, qty : Nat \ {0}]

TablesEmpty == carts = {} /\ items = {}

\* findFirst({userId, status: 'active'}) may return any of these: the query
\* names no order.
ActiveCarts(u) == {c.id : c \in {d \in carts : d.user = u /\ d.status = "active"}}
CartOwner(n) == {c.user : c \in {d \in carts : d.id = n}}
ItemsOf(n) == {i \in items : i.cart = n}

CreateCart(n, u) ==
    /\ n \notin {c.id : c \in carts}
    /\ carts' = carts \cup {[id |-> n, user |-> u, status |-> "active"]}
    /\ UNCHANGED items

CompleteCart(n) ==
    /\ carts' = {IF c.id = n THEN [c EXCEPT !.status = "completed"] ELSE c : c \in carts}
    /\ UNCHANGED items

\* Ids are random UUIDs: a new one is not in the table and nobody holds it.
InsertItem(n, inUse, c, v, q) ==
    /\ n \notin {i.id : i \in items} \cup inUse
    /\ items' = items \cup {[id |-> n, cart |-> c, variant |-> v, qty |-> q]}
    /\ UNCHANGED carts

\* update and delete by id throw when the row is gone.
SetQuantity(n, q) ==
    /\ \E i \in items : i.id = n
    /\ items' = {IF i.id = n THEN [i EXCEPT !.qty = q] ELSE i : i \in items}
    /\ UNCHANGED carts

DeleteItem(n) ==
    /\ \E i \in items : i.id = n
    /\ items' = {i \in items : i.id # n}
    /\ UNCHANGED carts

\* deleteMany removes what is there and never throws.
EmptyCart(n) ==
    /\ items' = items \ ItemsOf(n)
    /\ UNCHANGED carts
==============================================================================
