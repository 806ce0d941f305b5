------------------------------ MODULE Checkout -------------------------------
(***************************************************************************)
(* CheckoutService.checkout against itself: retries and concurrent         *)
(* requests of the same customer, with the same idempotency key or with    *)
(* others, while the cart is edited.                                       *)
(*                                                                         *)
(* Two things stand between a retry and a second order: the Redis key      *)
(* checkout:{user}:{key}, read first and written after the transaction,    *)
(* and the unique column orders.externalId.  What the transaction does to  *)
(* the stock is OrderFlow; here it succeeds or rolls back.                 *)
(***************************************************************************)
EXTENDS CartTables

CONSTANTS
    Keys,          \* idempotency keys
    OrderIds,      \* bound on the orders placed
    Requests,      \* checkout requests in flight
    RedisFails,    \* whether Redis commands may be lost and keys evicted
    NoRef          \* a field of a request, or a Redis key, that is not set

ASSUME NoRefAssumption == NoRef \notin Users \cup Keys \cup OrderIds \cup CartIds
ASSUME FailsAssumption == RedisFails \in BOOLEAN

VARIABLES
    orders,        \* rows of orders
    payments,      \* the orderId of each row of payments that checkout wrote
    remembered,    \* remembered[<<u, k>>]: the value of checkout:{u}:{k}
    req            \* the requests in flight

vars == <<carts, items, orders, payments, remembered, req>>
------------------------------------------------------------------------------
Order == [id : OrderIds, user : Users, key : Keys]

\* From the commit of the transaction to the answer.
Tail == {"remember", "findCart", "empty", "complete", "pay"}
Steps == Tail \cup {"idle", "cart", "newCart", "order", "answered"}

\* cart is the one the tail has found.
Idle == [step |-> "idle", user |-> NoRef, key |-> NoRef, cart |-> NoRef,
         order |-> NoRef, answer |-> "none"]

Request == [step : Steps, user : Users \cup {NoRef}, key : Keys \cup {NoRef},
            cart : CartIds \cup {NoRef}, order : OrderIds \cup {NoRef},
            answer : {"none", "created", "conflict", "empty", "taken"}]

Goto(r, rec) == req' = [req EXCEPT ![r] = rec]
Reply(r, a) == Goto(r, [req[r] EXCEPT !.step = "answered", !.answer = a])

OrdersWithKey(k) == {o \in orders : o.key = k}
OrdersOf(u) == {o \in orders : o.user = u}
Completed(u) == {c \in carts : c.user = u /\ c.status = "completed"}

Init ==
    /\ TablesEmpty
    /\ orders = {}
    /\ payments = {}
    /\ remembered = [p \in Users \X Keys |-> NoRef]
    /\ req = [r \in Requests |-> Idle]

\* A request arrives and reads its Redis key.  Orders are never deleted, so a
\* remembered one is found.  A read that fails answers null.
Arrive(r) ==
    /\ req[r] = Idle
    /\ \E u \in Users, k \in Keys :
          LET q == [Idle EXCEPT !.user = u, !.key = k]
          IN  \/ /\ remembered[<<u, k>>] = NoRef \/ RedisFails
                 /\ Goto(r, [q EXCEPT !.step = "cart"])
              \/ /\ remembered[<<u, k>>] # NoRef
                 /\ Goto(r, [q EXCEPT !.step = "answered", !.answer = "conflict"])
    /\ UNCHANGED <<tables, orders, payments, remembered>>

\* getActiveCart: one query brings the cart and its rows.
ReadCart(r) ==
    LET q == req[r]
    IN  /\ q.step = "cart"
        /\ \/ /\ ActiveCarts(q.user) = {}
              /\ Goto(r, [q EXCEPT !.step = "newCart"])
           \/ \E n \in ActiveCarts(q.user) :
                 IF ItemsOf(n) = {}
                 THEN Reply(r, "empty")
                 ELSE Goto(r, [q EXCEPT !.step = "order"])
        /\ UNCHANGED <<tables, orders, payments, remembered>>

\* ... which creates a cart when there is none, and it is empty.
NewCart(r) ==
    /\ req[r].step = "newCart"
    /\ \E n \in CartIds : CreateCart(n, req[r].user)
    /\ Reply(r, "empty")
    /\ UNCHANGED <<orders, payments, remembered>>

\* Wrong on purpose (mutation): externalId is not unique.
PlaceTwice(r) ==
    LET q == req[r]
    IN  /\ q.step = "order"
        /\ \E n \in OrderIds \ {o.id : o \in orders} :
              /\ orders' = orders \cup {[id |-> n, user |-> q.user, key |-> q.key]}
              /\ Goto(r, [q EXCEPT !.step = "remember", !.order = n])
        /\ UNCHANGED <<tables, payments, remembered>>

\* The transaction commits.
Place(r) ==
    LET q == req[r]
    IN  /\ q.step = "order"
        /\ OrdersWithKey(q.key) = {}
        /\ \E n \in OrderIds \ {o.id : o \in orders} :
              /\ orders' = orders \cup {[id |-> n, user |-> q.user, key |-> q.key]}
              /\ Goto(r, [q EXCEPT !.step = "remember", !.order = n])
        /\ UNCHANGED <<tables, payments, remembered>>

\* Wrong on purpose (mutation): the error is caught, the handler goes on
\* without an order.
TakenGoesOn(r) ==
    /\ req[r].step = "order"
    /\ OrdersWithKey(req[r].key) # {}
    /\ Goto(r, [req[r] EXCEPT !.step = "findCart"])
    /\ UNCHANGED <<tables, orders, payments, remembered>>

\* ... or the unique column refuses it, and the request fails with it.
Taken(r) ==
    /\ req[r].step = "order"
    /\ OrdersWithKey(req[r].key) # {}
    /\ Reply(r, "taken")
    /\ UNCHANGED <<tables, orders, payments, remembered>>

\* Wrong on purpose (mutation): the Redis key does not name the user.
RememberForAll(r) ==
    LET q == req[r]
    IN  /\ q.step = "remember"
        /\ Goto(r, [q EXCEPT !.step = "findCart"])
        /\ remembered' = [p \in Users \X Keys |->
                             IF p[2] = q.key THEN q.order ELSE remembered[p]]
        /\ UNCHANGED <<tables, orders, payments>>

\* redis.set, whose failure is swallowed.
Remember(r) ==
    LET q == req[r]
    IN  /\ q.step = "remember"
        /\ Goto(r, [q EXCEPT !.step = "findCart"])
        /\ \/ remembered' = [remembered EXCEPT ![<<q.user, q.key>>] = q.order]
           \/ RedisFails /\ UNCHANGED remembered
        /\ UNCHANGED <<tables, orders, payments>>

\* The tail looks for an active cart again and does not compare it with the
\* one that was ordered.
FindCart(r) ==
    LET q == req[r]
    IN  /\ q.step = "findCart"
        /\ \/ /\ ActiveCarts(q.user) = {}
              /\ Goto(r, [q EXCEPT !.step = "pay"])
           \/ \E n \in ActiveCarts(q.user) :
                 Goto(r, [q EXCEPT !.step = "empty", !.cart = n])
        /\ UNCHANGED <<tables, orders, payments, remembered>>

Empty(r) ==
    /\ req[r].step = "empty"
    /\ EmptyCart(req[r].cart)
    /\ Goto(r, [req[r] EXCEPT !.step = "complete"])
    /\ UNCHANGED <<orders, payments, remembered>>

Complete(r) ==
    /\ req[r].step = "complete"
    /\ CompleteCart(req[r].cart)
    /\ Goto(r, [req[r] EXCEPT !.step = "pay"])
    /\ UNCHANGED <<orders, payments, remembered>>

Pay(r) ==
    /\ req[r].step = "pay"
    /\ payments' = payments \cup {req[r].order}
    /\ Reply(r, "created")
    /\ UNCHANGED <<tables, orders, remembered>>

\* The request is over: it was answered; or a check on stock or address, the
\* reservation, or the database refused it; or its process died.
Leave(r) ==
    /\ req[r] # Idle
    /\ Goto(r, Idle)
    /\ UNCHANGED <<tables, orders, payments, remembered>>

\* The key's day is over.
Forget(u, k) ==
    /\ RedisFails
    /\ remembered[<<u, k>>] # NoRef
    /\ remembered' = [remembered EXCEPT ![<<u, k>>] = NoRef]
    /\ UNCHANGED <<tables, orders, payments, req>>
------------------------------------------------------------------------------
\* The customer edits the cart meanwhile (ShoppingCart has the steps).
OpenCart(u) ==
    /\ ActiveCarts(u) = {}
    /\ \E n \in CartIds : CreateCart(n, u)
    /\ UNCHANGED <<orders, payments, remembered, req>>

PutItem(u) ==
    /\ \E c \in ActiveCarts(u), n \in ItemIds, v \in Variants :
          /\ \A i \in ItemsOf(c) : i.variant # v
          /\ InsertItem(n, {}, c, v, 1)
    /\ UNCHANGED <<orders, payments, remembered, req>>

TakeItem ==
    /\ \E i \in items : DeleteItem(i.id)
    /\ UNCHANGED <<orders, payments, remembered, req>>

Handler(r) ==
    \/ Arrive(r) \/ ReadCart(r) \/ NewCart(r)
    \/ Place(r) \/ Taken(r) \/ Remember(r)
    \/ FindCart(r) \/ Empty(r) \/ Complete(r) \/ Pay(r)
    \/ Leave(r)

Next ==
    \/ \E r \in Requests : Handler(r)
    \/ \E u \in Users, k \in Keys : Forget(u, k)
    \/ \E u \in Users : OpenCart(u) \/ PutItem(u)
    \/ TakeItem

Spec == Init /\ [][Next]_vars
------------------------------------------------------------------------------
TypeOK ==
    /\ carts \subseteq Cart
    /\ items \subseteq Item
    /\ orders \subseteq Order
    /\ payments \subseteq OrderIds
    /\ remembered \in [Users \X Keys -> OrderIds \cup {NoRef}]
    /\ req \in [Requests -> Request]

\* However often and however concurrently a request is repeated, its key buys
\* once: also when Redis loses, forgets or never learns it.
OneOrderPerKey == \A o, p \in orders : o.key = p.key => o = p

\* The order a customer is told of in a 409 is the customer's own, placed with
\* that key, and it exists.
KeyPointsHome ==
    \A u \in Users, k \in Keys :
        remembered[<<u, k>>] # NoRef =>
            [id |-> remembered[<<u, k>>], user |-> u, key |-> k] \in orders

\* No cart is put away without an order for it: the tails of all requests
\* together complete at most as many carts of a user as the user ordered.
CartsCompletedByOrders ==
    \A u \in Users : Cardinality(Completed(u)) <= Cardinality(OrdersOf(u))
------------------------------------------------------------------------------
\* How far a request is, seen from outside.
Heard == [created |-> "told", conflict |-> "known", empty |-> "refused", taken |-> "refused"]
Stage(q) ==
    CASE q.step \in {"cart", "newCart", "order"} -> "open"
      [] q.step \in Tail                         -> "bought"
      [] q.step = "answered"                     -> Heard[q.answer]

Asked(q) == IF q = Idle THEN [at |-> "none"]
            ELSE [at |-> Stage(q), customer |-> q.user, key |-> q.key]

Promise == INSTANCE Purchases
    WITH Customers <- Users, Ids <- Requests,
         bought <- {[customer |-> o.user, key |-> o.key] : o \in orders},
         asked <- [r \in Requests |-> Asked(req[r])]

\* Whatever is repeated, lost or forgotten, and wherever a handler dies: a key
\* buys once, and no request is told 201 that has not bought, or 409 whose
\* customer has not bought with its key (CheckoutService.checkout).
PromiseSpec == Promise!Spec
==============================================================================
