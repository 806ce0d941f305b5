------------------------------ MODULE Purchases ------------------------------
(***************************************************************************)
(* What POST /checkout promises, and what the checkout page takes it for:  *)
(* a request names its customer and a key, a key buys at most once, for    *)
(* one customer, and a request is told only what is so: that it has        *)
(* bought, or that its customer has bought with the key before. It may be  *)
(* refused instead, and may never be answered. Module Checkout implements  *)
(* this with its steps, module ShopPages uses it.                          *)
(***************************************************************************)
CONSTANTS
    Customers, Keys,
    Ids            \* of requests

VARIABLES
    bought,        \* the orders: customer and key
    asked          \* asked[i]: what request i wants, and how far it is

purchaseVars == <<bought, asked>>

Nothing == [at |-> "none"]
Order(u, k) == [customer |-> u, key |-> k]
Wish(u, k, at) == [at |-> at, customer |-> u, key |-> k]

Put(i, q) == asked' = [asked EXCEPT ![i] = q]
Moves(i, from, to) ==
    /\ asked[i].at = from
    /\ Put(i, [asked[i] EXCEPT !.at = to])

Init == bought = {} /\ asked = [i \in Ids |-> Nothing]

Arrive(i, u, k) ==
    /\ asked[i] = Nothing
    /\ \/ Put(i, Wish(u, k, "open"))
       \/ Order(u, k) \in bought /\ Put(i, Wish(u, k, "known"))
    /\ UNCHANGED bought

Buy(i) ==
    /\ Moves(i, "open", "bought")
    /\ \A b \in bought : b.key # asked[i].key
    /\ bought' = bought \cup {Order(asked[i].customer, asked[i].key)}

Answer(i) ==
    /\ Moves(i, "bought", "told") \/ Moves(i, "open", "refused")
    /\ UNCHANGED bought

Leave(i) ==
    /\ Put(i, Nothing)
    /\ UNCHANGED bought

Next ==
    \E i \in Ids :
        \/ \E u \in Customers, k \in Keys : Arrive(i, u, k)
        \/ Buy(i) \/ Answer(i) \/ Leave(i)

Spec == Init /\ [][Next]_purchaseVars
==============================================================================
