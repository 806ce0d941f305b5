--------------------------- MODULE Checkout_proofs ---------------------------
(***************************************************************************)
(* A key buys once, and what Redis remembers under it is the order it      *)
(* bought: for every number of users, keys, carts and concurrent requests. *)
(*                                                                         *)
(* The first is the unique column's doing.  The second needs InTail: a     *)
(* handler past its commit holds the order of its own user and key until   *)
(* it has written them to Redis.                                           *)
(*                                                                         *)
(* That no cart is put away without an order is counted: a handler between *)
(* its commit and the completion of a cart owes one, and holds a cart of   *)
(* its own user when it completes it.                                      *)
(*                                                                         *)
(* With the two first, each step is one step of Purchases, or none.        *)
(***************************************************************************)
EXTENDS Checkout, UnitCounting

InTail ==
    \A r \in Requests :
        /\ req[r] # Idle => req[r].user \in Users /\ req[r].key \in Keys
        /\ req[r].step \in Tail =>
              [id |-> req[r].order, user |-> req[r].user, key |-> req[r].key] \in orders

IInv == TypeOK /\ InTail /\ OneOrderPerKey /\ KeyPointsHome

LEMMA CheckoutInit == Init => IInv
BY NoRefAssumption
   DEF Init, IInv, TypeOK, InTail, OneOrderPerKey, KeyPointsHome, TablesEmpty, Idle,
       Request, Steps, Tail

\* A step of slot r that writes neither orders nor Redis.
LEMMA Walks ==
    ASSUME IInv, NEW r \in Requests, NEW x \in Request, req' = [req EXCEPT ![r] = x],
           UNCHANGED <<orders, remembered>>,
           carts' \subseteq Cart, items' \subseteq Item, payments' \subseteq OrderIds,
           x # Idle => x.user \in Users /\ x.key \in Keys,
           x.step \in Tail =>
              /\ req[r].step \in Tail
              /\ x.order = req[r].order /\ x.user = req[r].user /\ x.key = req[r].key
    PROVE  IInv'
<1>1. \A s \in Requests : req'[s] = IF s = r THEN x ELSE req[s]
    BY DEF IInv, TypeOK
<1>2. TypeOK'
    BY DEF IInv, TypeOK
<1>3. InTail'
    BY <1>1 DEF IInv, InTail
<1> QED
    BY <1>2, <1>3 DEF IInv, OneOrderPerKey, KeyPointsHome

\* A step of the customer or of Redis.
LEMMA Around ==
    ASSUME IInv, UNCHANGED <<orders, req, payments>>,
           carts' \subseteq Cart, items' \subseteq Item,
           \/ UNCHANGED remembered
           \/ \E u \in Users, k \in Keys :
                 remembered' = [remembered EXCEPT ![<<u, k>>] = NoRef]
    PROVE  IInv'
BY DEF IInv, TypeOK, InTail, OneOrderPerKey, KeyPointsHome

LEMMA CheckoutStep == IInv /\ [Next]_vars => IInv'
<1> SUFFICES ASSUME IInv, [Next]_vars PROVE IInv'
    OBVIOUS
<1> USE NoRefAssumption DEF Goto, Reply
<1>i. Idle \in Request /\ Idle.step = "idle"
    BY DEF Idle, Request, Steps
<1>t. /\ carts \subseteq Cart /\ items \subseteq Item /\ payments \subseteq OrderIds
      /\ orders \subseteq Order
    BY DEF IInv, TypeOK
<1>a. ASSUME NEW r \in Requests, req[r].step # "idle"
      PROVE  req[r] \in Request /\ req[r].user \in Users /\ req[r].key \in Keys
    BY <1>a, <1>i DEF IInv, TypeOK, InTail
<1>b. ASSUME NEW q \in Request, NEW s \in Steps
      PROVE  /\ [q EXCEPT !.step = s] \in Request
             /\ [q EXCEPT !.step = s].step = s
             /\ [q EXCEPT !.step = s].user = q.user /\ [q EXCEPT !.step = s].key = q.key
             /\ [q EXCEPT !.step = s].order = q.order
    BY DEF Request
<1>c. ASSUME NEW q \in Request, NEW a \in {"created", "conflict", "empty", "taken"}
      PROVE  LET x == [q EXCEPT !.step = "answered", !.answer = a]
             IN  /\ x \in Request /\ x.step = "answered"
                 /\ x.user = q.user /\ x.key = q.key
    BY DEF Request, Steps
<1>d. ASSUME NEW u \in Users PROVE ActiveCarts(u) \subseteq CartIds
    BY <1>t DEF ActiveCarts, Cart
<1>e. {"answered", "cart", "newCart", "order", "idle"} \cap Tail = {} /\ Tail \subseteq Steps
    BY DEF Tail, Steps
<1>1. ASSUME NEW r \in Requests, Arrive(r) PROVE IInv'
    <2>1. PICK u \in Users, k \in Keys :
             \/ Goto(r, [[Idle EXCEPT !.user = u, !.key = k] EXCEPT !.step = "cart"])
             \/ Goto(r, [[Idle EXCEPT !.user = u, !.key = k]
                             EXCEPT !.step = "answered", !.answer = "conflict"])
        BY <1>1 DEF Arrive
    <2> DEFINE q == [Idle EXCEPT !.user = u, !.key = k]
    <2>2. q \in Request /\ q.user = u /\ q.key = k
        BY <1>i DEF Request
    <2>3. UNCHANGED <<tables, orders, payments, remembered>>
        BY <1>1 DEF Arrive
    <2>4. \/ req' = [req EXCEPT ![r] = [q EXCEPT !.step = "cart"]]
          \/ req' = [req EXCEPT ![r] = [q EXCEPT !.step = "answered", !.answer = "conflict"]]
        BY <2>1
    <2> HIDE DEF q
    <2>5. "cart" \in Steps
        BY DEF Steps
    <2> QED
        BY <1>b, <1>c, <1>e, <1>t, <2>2, <2>3, <2>4, <2>5, Walks DEF tables
<1>2. ASSUME NEW r \in Requests, ReadCart(r) PROVE IInv'
    <2>1. /\ req[r].step = "cart" /\ UNCHANGED <<tables, orders, payments, remembered>>
        BY <1>2 DEF ReadCart
    <2>2. /\ req[r] \in Request /\ req[r].user \in Users /\ req[r].key \in Keys
          /\ {"newCart", "order"} \subseteq Steps
        BY <1>a, <2>1 DEF Steps
    <2>4. \/ req' = [req EXCEPT ![r] = [req[r] EXCEPT !.step = "newCart"]]
          \/ req' = [req EXCEPT ![r] = [req[r] EXCEPT !.step = "answered", !.answer = "empty"]]
          \/ req' = [req EXCEPT ![r] = [req[r] EXCEPT !.step = "order"]]
        BY <1>2, <1>d, <2>2 DEF ReadCart
    <2>5. CASE req' = [req EXCEPT ![r] = [req[r] EXCEPT !.step = "newCart"]]
        BY <1>b, <1>e, <1>t, <2>1, <2>2, <2>5, Walks DEF tables
    <2>6. CASE req' = [req EXCEPT ![r] =
                          [req[r] EXCEPT !.step = "answered", !.answer = "empty"]]
        BY <1>c, <1>e, <1>t, <2>1, <2>2, <2>6, Walks DEF tables
    <2>7. CASE req' = [req EXCEPT ![r] = [req[r] EXCEPT !.step = "order"]]
        BY <1>b, <1>e, <1>t, <2>1, <2>2, <2>7, Walks DEF tables
    <2> QED
        BY <2>4, <2>5, <2>6, <2>7
<1>3. ASSUME NEW r \in Requests, NewCart(r) PROVE IInv'
    <2>1. /\ req[r].step = "newCart" /\ UNCHANGED <<items, orders, payments, remembered>>
          /\ req' = [req EXCEPT ![r] = [req[r] EXCEPT !.step = "answered", !.answer = "empty"]]
        BY <1>3 DEF NewCart, CreateCart
    <2>2. carts' \subseteq Cart
        BY <1>3, <1>a, <1>t, <2>1 DEF NewCart, CreateCart, Cart
    <2> QED
        BY <1>a, <1>c, <1>e, <1>t, <2>1, <2>2, Walks
<1>4. ASSUME NEW r \in Requests, Place(r) PROVE IInv'
    <2>1. /\ req[r].step = "order" /\ OrdersWithKey(req[r].key) = {}
          /\ UNCHANGED <<tables, payments, remembered>>
        BY <1>4 DEF Place
    <2>2. PICK n \in OrderIds \ {o.id : o \in orders} :
             /\ orders' = orders \cup {[id |-> n, user |-> req[r].user, key |-> req[r].key]}
             /\ req' = [req EXCEPT ![r] = [req[r] EXCEPT !.step = "remember", !.order = n]]
        BY <1>4 DEF Place
    <2> DEFINE x == [req[r] EXCEPT !.step = "remember", !.order = n]
               o == [id |-> n, user |-> req[r].user, key |-> req[r].key]
    <2>3. /\ x \in Request /\ x.user \in Users /\ x.key \in Keys
          /\ o = [id |-> x.order, user |-> x.user, key |-> x.key]
          /\ o \in Order /\ o.key = req[r].key
        BY <1>a, <2>1 DEF Request, Steps, Tail, Order
    <2>4. orders' = orders \cup {o} /\ req' = [req EXCEPT ![r] = x]
        BY <2>2
    <2> HIDE DEF x, o
    <2>5. \A s \in Requests : req'[s] = IF s = r THEN x ELSE req[s]
        BY <2>4 DEF IInv, TypeOK
    <2>6. TypeOK'
        BY <2>1, <2>3, <2>4 DEF IInv, TypeOK, tables
    <2>7. InTail'
        BY <2>3, <2>4, <2>5 DEF IInv, InTail
    <2>8. OneOrderPerKey'
        BY <2>1, <2>3, <2>4 DEF IInv, OneOrderPerKey, OrdersWithKey
    <2>9. KeyPointsHome'
        BY <2>1, <2>4 DEF IInv, KeyPointsHome
    <2> QED
        BY <2>6, <2>7, <2>8, <2>9 DEF IInv
<1>5. ASSUME NEW r \in Requests, Taken(r) PROVE IInv'
    BY <1>5, <1>a, <1>c, <1>e, <1>t, Walks DEF Taken, tables
<1>6. ASSUME NEW r \in Requests, Remember(r) PROVE IInv'
    <2>1. /\ req[r].step = "remember" /\ UNCHANGED <<tables, orders, payments>>
          /\ req' = [req EXCEPT ![r] = [req[r] EXCEPT !.step = "findCart"]]
        BY <1>6 DEF Remember
    <2>2. /\ req[r] \in Request /\ req[r].user \in Users /\ req[r].key \in Keys
          /\ [id |-> req[r].order, user |-> req[r].user, key |-> req[r].key] \in orders
          /\ req[r].order \in OrderIds
        BY <1>a, <1>t, <2>1 DEF Tail, IInv, InTail, Order
    <2> DEFINE x == [req[r] EXCEPT !.step = "findCart"]
    <2>3. /\ x \in Request /\ x.step = "findCart"
          /\ x.user = req[r].user /\ x.key = req[r].key /\ x.order = req[r].order
        BY <1>b, <2>2 DEF Steps, Tail
    <2>4. \A s \in Requests : req'[s] = IF s = r THEN x ELSE req[s]
        BY <2>1 DEF IInv, TypeOK
    <2>5. \/ remembered' = [remembered EXCEPT ![<<req[r].user, req[r].key>>] = req[r].order]
          \/ UNCHANGED remembered
        BY <1>6 DEF Remember
    <2> HIDE DEF x
    <2>6. TypeOK'
        BY <2>1, <2>2, <2>3, <2>4, <2>5 DEF IInv, TypeOK, tables, x
    <2>7. InTail'
        BY <2>1, <2>2, <2>3, <2>4 DEF IInv, InTail
    <2>8. KeyPointsHome'
        BY <2>1, <2>2, <2>5 DEF IInv, TypeOK, KeyPointsHome
    <2> QED
        BY <2>1, <2>6, <2>7, <2>8 DEF IInv, OneOrderPerKey
<1>7. ASSUME NEW r \in Requests, FindCart(r) PROVE IInv'
    <2>1. /\ req[r].step = "findCart" /\ req[r].step \in Tail
          /\ UNCHANGED <<tables, orders, payments, remembered>>
        BY <1>7 DEF FindCart, Tail
    <2>2. /\ req[r] \in Request /\ req[r].user \in Users /\ req[r].key \in Keys
          /\ {"pay", "empty"} \subseteq Steps
        BY <1>a, <2>1 DEF Steps, Tail
    <2>3. CASE req' = [req EXCEPT ![r] = [req[r] EXCEPT !.step = "pay"]]
        BY <1>b, <1>t, <2>1, <2>2, <2>3, Walks DEF tables
    <2>4. ASSUME NEW n \in CartIds,
                 req' = [req EXCEPT ![r] = [req[r] EXCEPT !.step = "empty", !.cart = n]]
          PROVE  IInv'
        <3> DEFINE x == [req[r] EXCEPT !.step = "empty", !.cart = n]
        <3>1. /\ x \in Request /\ x.order = req[r].order
              /\ x.user = req[r].user /\ x.key = req[r].key
            BY <2>2 DEF Request
        <3> HIDE DEF x
        <3> QED
            BY <1>t, <2>1, <2>2, <2>4, <3>1, Walks DEF tables, x
    <2> QED
        BY <1>7, <1>d, <2>2, <2>3, <2>4 DEF FindCart
<1>8. ASSUME NEW r \in Requests, Empty(r) PROVE IInv'
    <2>1. /\ req[r].step = "empty" /\ req[r].step \in Tail
          /\ UNCHANGED <<carts, orders, payments, remembered>> /\ items' \subseteq items
          /\ req' = [req EXCEPT ![r] = [req[r] EXCEPT !.step = "complete"]]
          /\ "complete" \in Steps
        BY <1>8 DEF Empty, EmptyCart, Tail, Steps
    <2> DEFINE x == [req[r] EXCEPT !.step = "complete"]
    <2>3. /\ x \in Request /\ x.order = req[r].order
          /\ x.user = req[r].user /\ x.key = req[r].key
          /\ req[r].user \in Users /\ req[r].key \in Keys
        BY <1>a, <1>b, <2>1
    <2>4. req' = [req EXCEPT ![r] = x]
        BY <2>1
    <2> HIDE DEF x
    <2> QED
        BY <1>t, <2>1, <2>3, <2>4, Walks
<1>9. ASSUME NEW r \in Requests, Complete(r) PROVE IInv'
    <2>1. /\ req[r].step = "complete" /\ req[r].step \in Tail
          /\ UNCHANGED <<items, orders, payments, remembered>>
          /\ req' = [req EXCEPT ![r] = [req[r] EXCEPT !.step = "pay"]]
          /\ "pay" \in Steps
        BY <1>9 DEF Complete, CompleteCart, Tail, Steps
    <2>2. carts' \subseteq Cart
        BY <1>9, <1>t DEF Complete, CompleteCart, Cart
    <2> DEFINE x == [req[r] EXCEPT !.step = "pay"]
    <2>3. /\ x \in Request /\ x.order = req[r].order
          /\ x.user = req[r].user /\ x.key = req[r].key
          /\ req[r].user \in Users /\ req[r].key \in Keys
        BY <1>a, <1>b, <2>1
    <2>4. req' = [req EXCEPT ![r] = x]
        BY <2>1
    <2> HIDE DEF x
    <2> QED
        BY <1>t, <2>1, <2>3, <2>2, <2>4, Walks
<1>10. ASSUME NEW r \in Requests, Pay(r) PROVE IInv'
    <2>1. /\ req[r].step = "pay" /\ UNCHANGED <<tables, orders, remembered>>
          /\ payments' = payments \cup {req[r].order}
          /\ req' = [req EXCEPT ![r] =
                        [req[r] EXCEPT !.step = "answered", !.answer = "created"]]
        BY <1>10 DEF Pay
    <2>2. payments' \subseteq OrderIds
        BY <1>t, <2>1 DEF Tail, IInv, InTail, Order
    <2> QED
        BY <1>a, <1>c, <1>e, <1>t, <2>1, <2>2, Walks DEF tables
<1>11. ASSUME NEW r \in Requests, Leave(r) PROVE IInv'
    BY <1>11, <1>i, <1>e, <1>t, Walks DEF Leave, tables
<1>12. ASSUME NEW u \in Users, NEW k \in Keys, Forget(u, k) PROVE IInv'
    BY <1>12, <1>t, Around DEF Forget, tables
<1>13. ASSUME NEW u \in Users, OpenCart(u) PROVE IInv'
    BY <1>13, <1>t, Around DEF OpenCart, CreateCart, Cart
<1>14. ASSUME NEW u \in Users, PutItem(u) PROVE IInv'
    BY <1>14, <1>d, <1>t, Around DEF PutItem, InsertItem, Item
<1>15. CASE TakeItem
    BY <1>15, <1>t, Around DEF TakeItem, DeleteItem
<1>16. CASE UNCHANGED vars
    BY <1>16, <1>t, Around DEF vars
<1> QED
    BY <1>1, <1>2, <1>3, <1>4, <1>5, <1>6, <1>7, <1>8, <1>9, <1>10, <1>11, <1>12,
       <1>13, <1>14, <1>15, <1>16 DEF Next, Handler

LEMMA CheckoutInvariant == Spec => []IInv
<1> QED
    BY CheckoutInit, CheckoutStep, PTL DEF Spec

\* Rows, Redis keys and handlers keep their types.
THEOREM CheckoutTypeCorrect == Spec => []TypeOK
<1>1. IInv => TypeOK
    BY DEF IInv
<1> QED
    BY <1>1, CheckoutInvariant, PTL

\* No number of retries, concurrent requests, lost Redis commands or crashes
\* makes one key place two orders (checkout.service.ts, lines 103 to 152).
THEOREM KeyBuysOnce == Spec => []OneOrderPerKey
<1>1. IInv => OneOrderPerKey
    BY DEF IInv
<1> QED
    BY <1>1, CheckoutInvariant, PTL

\* Whatever Redis remembers under checkout:{user}:{key} is the order of that
\* user placed with that key (checkout.service.ts, lines 27 to 43 and 154).
THEOREM KeysPointHome == Spec => []KeyPointsHome
<1>1. IInv => KeyPointsHome
    BY DEF IInv
<1> QED
    BY <1>1, CheckoutInvariant, PTL
------------------------------------------------------------------------------
(***************************************************************************)
(* Counting completed carts against orders.                                *)
(***************************************************************************)

Owes == {"remember", "findCart", "empty", "complete"}
Owing(u) == {r \in Requests : req[r].step \in Owes /\ req[r].user = u}

Counted(u) ==
    /\ IsFiniteSet(Completed(u)) /\ IsFiniteSet(Owing(u)) /\ IsFiniteSet(OrdersOf(u))
    /\ Cardinality(Completed(u)) + Cardinality(Owing(u)) <= Cardinality(OrdersOf(u))

\* An id names one cart, and a handler's cart is its user's.
CartsKept ==
    /\ \A c, d \in carts : c.id = d.id => c = d
    /\ \A r \in Requests : req[r].step \in {"empty", "complete"} =>
          \E c \in carts : c.id = req[r].cart /\ c.user = req[r].user

CInv == CartsKept /\ \A u \in Users : Counted(u)

LEMMA Counts ==
    ASSUME NEW u, Counted(u)
    PROVE  /\ Cardinality(Completed(u)) \in Nat /\ Cardinality(Owing(u)) \in Nat
           /\ Cardinality(OrdersOf(u)) \in Nat
           /\ Cardinality(Completed(u)) + Cardinality(Owing(u)) <= Cardinality(OrdersOf(u))
BY FS_CardinalityType DEF Counted

\* A commit adds an order and a handler that owes a cart.
LEMMA Ordering ==
    ASSUME NEW u, Counted(u), NEW o, o \notin OrdersOf(u), NEW r,
           Completed(u)' = Completed(u), OrdersOf(u)' = OrdersOf(u) \cup {o},
           Owing(u)' \subseteq Owing(u) \cup {r}
    PROVE  Counted(u)'
<1>1. IsFiniteSet(OrdersOf(u)') /\ Cardinality(OrdersOf(u)') = Cardinality(OrdersOf(u)) + 1
    BY FS_AddElement DEF Counted
<1>2. /\ IsFiniteSet(Owing(u) \cup {r})
      /\ Cardinality(Owing(u) \cup {r}) <= Cardinality(Owing(u)) + 1
    BY AddOne DEF Counted
<1>3. /\ IsFiniteSet(Owing(u)') /\ Cardinality(Owing(u)') \in Nat
      /\ Cardinality(Owing(u)') <= Cardinality(Owing(u) \cup {r})
    BY <1>2, FS_Subset, FS_CardinalityType
<1>4. Cardinality(Owing(u) \cup {r}) \in Nat
    BY <1>2, FS_CardinalityType
<1>5. IsFiniteSet(Completed(u)') /\ Cardinality(Completed(u)') = Cardinality(Completed(u))
    BY DEF Counted
<1> QED
    BY <1>1, <1>2, <1>3, <1>4, <1>5, Counts DEF Counted

\* A cart is completed by a handler that owed it.
LEMMA Completing ==
    ASSUME NEW u, Counted(u), NEW c, NEW r \in Owing(u),
           Completed(u)' \subseteq Completed(u) \cup {c}, OrdersOf(u)' = OrdersOf(u),
           Owing(u)' \subseteq Owing(u) \ {r}
    PROVE  Counted(u)'
<1>1. /\ IsFiniteSet(Owing(u) \ {r})
      /\ Cardinality(Owing(u) \ {r}) = Cardinality(Owing(u)) - 1
    BY FS_RemoveElement DEF Counted
<1>2. /\ IsFiniteSet(Owing(u)') /\ Cardinality(Owing(u)') \in Nat
      /\ Cardinality(Owing(u)') <= Cardinality(Owing(u)) - 1
    BY <1>1, FS_Subset, FS_CardinalityType
<1>3. /\ IsFiniteSet(Completed(u) \cup {c})
      /\ Cardinality(Completed(u) \cup {c}) <= Cardinality(Completed(u)) + 1
    BY AddOne DEF Counted
<1>4. /\ IsFiniteSet(Completed(u)') /\ Cardinality(Completed(u)') \in Nat
      /\ Cardinality(Completed(u)') <= Cardinality(Completed(u) \cup {c})
    BY <1>3, FS_Subset, FS_CardinalityType
<1>5. Cardinality(Completed(u) \cup {c}) \in Nat
    BY <1>3, FS_CardinalityType
<1>6. IsFiniteSet(OrdersOf(u)') /\ Cardinality(OrdersOf(u)') = Cardinality(OrdersOf(u))
    BY DEF Counted
<1> QED
    BY <1>2, <1>3, <1>4, <1>5, <1>6, Counts DEF Counted

LEMMA Releasing ==
    ASSUME NEW u, Counted(u), Completed(u)' \subseteq Completed(u), OrdersOf(u)' = OrdersOf(u),
           Owing(u)' \subseteq Owing(u)
    PROVE  Counted(u)'
<1>1. /\ IsFiniteSet(Owing(u)') /\ Cardinality(Owing(u)') \in Nat
      /\ Cardinality(Owing(u)') <= Cardinality(Owing(u))
    BY FS_Subset, FS_CardinalityType DEF Counted
<1>2. /\ IsFiniteSet(Completed(u)') /\ Cardinality(Completed(u)') \in Nat
      /\ Cardinality(Completed(u)') <= Cardinality(Completed(u))
    BY FS_Subset, FS_CardinalityType DEF Counted
<1>3. IsFiniteSet(OrdersOf(u)') /\ Cardinality(OrdersOf(u)') = Cardinality(OrdersOf(u))
    BY DEF Counted
<1> QED
    BY <1>1, <1>2, <1>3, Counts DEF Counted

LEMMA CountedInit == Init => CInv
<1> SUFFICES ASSUME Init PROVE CInv
    OBVIOUS
<1>1. \A u \in Users : Completed(u) = {} /\ Owing(u) = {} /\ OrdersOf(u) = {}
    BY DEF Init, TablesEmpty, Completed, Owing, OrdersOf, Owes, Idle
<1>2. \A u \in Users : Counted(u)
    BY <1>1, FS_EmptySet DEF Counted
<1>3. CartsKept
    BY DEF Init, TablesEmpty, CartsKept, Idle
<1> QED
    BY <1>2, <1>3 DEF CInv

\* A step of slot r that places no order and completes no cart, while carts
\* only gain an active one.
LEMMA Strolls ==
    ASSUME IInv, CInv, NEW r \in Requests, NEW x \in Request, req' = [req EXCEPT ![r] = x],
           UNCHANGED orders,
           \/ UNCHANGED carts
           \/ \E n \in CartIds, u \in Users : CreateCart(n, u),
           x.step \in Owes => req[r].step \in Owes /\ x.user = req[r].user,
           x.step \in {"empty", "complete"} =>
              \E c \in carts : c.id = x.cart /\ c.user = x.user
    PROVE  CInv'
<1>1. \A s \in Requests : req'[s] = IF s = r THEN x ELSE req[s]
    BY DEF IInv, TypeOK
<1>2. carts \subseteq carts' /\ \A c \in carts' \ carts : c.status = "active"
    BY DEF CreateCart
<1>3. \A c, d \in carts' : c.id = d.id => c = d
    BY DEF CInv, CartsKept, CreateCart
<1>4. CartsKept'
    BY <1>1, <1>2, <1>3 DEF CInv, CartsKept
<1>5. ASSUME NEW u \in Users PROVE Counted(u)'
    <2>1. Owing(u)' \subseteq Owing(u)
        BY <1>1 DEF Owing
    <2>2. Completed(u)' \subseteq Completed(u)
        BY <1>2 DEF Completed
    <2>3. OrdersOf(u)' = OrdersOf(u)
        BY DEF OrdersOf
    <2> QED
        BY <2>1, <2>2, <2>3, Releasing DEF CInv
<1> QED
    BY <1>4, <1>5 DEF CInv

\* A step of the customer or of Redis.
LEMMA Outside ==
    ASSUME CInv, UNCHANGED <<orders, req>>,
           \/ UNCHANGED carts
           \/ \E n \in CartIds, u \in Users : CreateCart(n, u)
    PROVE  CInv'
<1>1. carts \subseteq carts' /\ \A c \in carts' \ carts : c.status = "active"
    BY DEF CreateCart
<1>2. \A c, d \in carts' : c.id = d.id => c = d
    BY DEF CInv, CartsKept, CreateCart
<1>3. CartsKept'
    BY <1>1, <1>2 DEF CInv, CartsKept
<1>4. ASSUME NEW u \in Users PROVE Counted(u)'
    <2>1. Completed(u)' \subseteq Completed(u)
        BY <1>1 DEF Completed
    <2>2. OrdersOf(u)' = OrdersOf(u) /\ Owing(u)' = Owing(u)
        BY DEF OrdersOf, Owing
    <2> QED
        BY <2>1, <2>2, Releasing DEF CInv
<1> QED
    BY <1>3, <1>4 DEF CInv

LEMMA CountedStep == IInv /\ CInv /\ [Next]_vars => CInv'
<1> SUFFICES ASSUME IInv, CInv, [Next]_vars PROVE CInv'
    OBVIOUS
<1> USE NoRefAssumption DEF Goto, Reply
<1>i. Idle \in Request /\ Idle.step = "idle"
    BY DEF Idle, Request, Steps
<1>a. ASSUME NEW r \in Requests, req[r].step # "idle"
      PROVE  req[r] \in Request /\ req[r].user \in Users
    BY <1>a, <1>i DEF IInv, TypeOK, InTail
<1>b. ASSUME NEW q \in Request, NEW s \in Steps
      PROVE  /\ [q EXCEPT !.step = s] \in Request
             /\ [q EXCEPT !.step = s].step = s
             /\ [q EXCEPT !.step = s].user = q.user /\ [q EXCEPT !.step = s].cart = q.cart
    BY DEF Request
<1>c. ASSUME NEW q \in Request, NEW a \in {"created", "conflict", "empty", "taken"}
      PROVE  LET x == [q EXCEPT !.step = "answered", !.answer = a]
             IN  x \in Request /\ x.step = "answered"
    BY DEF Request, Steps
<1>e. /\ {"answered", "cart", "newCart", "order", "idle", "pay"} \cap Owes = {}
      /\ {"empty", "complete"} \subseteq Owes
      /\ Owes \cup {"answered", "cart", "newCart", "order", "pay"} \subseteq Steps
    BY DEF Owes, Steps, Tail
<1>1. ASSUME NEW r \in Requests, Arrive(r) PROVE CInv'
    <2>1. PICK u \in Users, k \in Keys :
             \/ Goto(r, [[Idle EXCEPT !.user = u, !.key = k] EXCEPT !.step = "cart"])
             \/ Goto(r, [[Idle EXCEPT !.user = u, !.key = k]
                             EXCEPT !.step = "answered", !.answer = "conflict"])
        BY <1>1 DEF Arrive
    <2> DEFINE q == [Idle EXCEPT !.user = u, !.key = k]
    <2>2. q \in Request
        BY <1>i DEF Request
    <2>3. UNCHANGED <<carts, orders>>
        BY <1>1 DEF Arrive, tables
    <2>4. \/ req' = [req EXCEPT ![r] = [q EXCEPT !.step = "cart"]]
          \/ req' = [req EXCEPT ![r] = [q EXCEPT !.step = "answered", !.answer = "conflict"]]
        BY <2>1
    <2> HIDE DEF q
    <2>5. CASE req' = [req EXCEPT ![r] = [q EXCEPT !.step = "cart"]]
        BY <1>b, <1>e, <2>2, <2>3, <2>5, Strolls
    <2>6. CASE req' = [req EXCEPT ![r] = [q EXCEPT !.step = "answered", !.answer = "conflict"]]
        BY <1>c, <1>e, <2>2, <2>3, <2>6, Strolls
    <2> QED
        BY <2>4, <2>5, <2>6
<1>2. ASSUME NEW r \in Requests, ReadCart(r) PROVE CInv'
    <2>1. UNCHANGED <<carts, orders>> /\ req[r] \in Request
        BY <1>2, <1>a DEF ReadCart, tables
    <2>2. \/ req' = [req EXCEPT ![r] = [req[r] EXCEPT !.step = "newCart"]]
          \/ req' = [req EXCEPT ![r] = [req[r] EXCEPT !.step = "answered", !.answer = "empty"]]
          \/ req' = [req EXCEPT ![r] = [req[r] EXCEPT !.step = "order"]]
        BY <1>2 DEF ReadCart
    <2>3. CASE req' = [req EXCEPT ![r] = [req[r] EXCEPT !.step = "newCart"]]
        BY <1>b, <1>e, <2>1, <2>3, Strolls
    <2>4. CASE req' = [req EXCEPT ![r] =
                          [req[r] EXCEPT !.step = "answered", !.answer = "empty"]]
        BY <1>c, <1>e, <2>1, <2>4, Strolls
    <2>5. CASE req' = [req EXCEPT ![r] = [req[r] EXCEPT !.step = "order"]]
        BY <1>b, <1>e, <2>1, <2>5, Strolls
    <2> QED
        BY <2>2, <2>3, <2>4, <2>5
<1>3. ASSUME NEW r \in Requests, NewCart(r) PROVE CInv'
    <2>1. req[r] \in Request /\ req[r].user \in Users
        BY <1>3, <1>a DEF NewCart
    <2>2. /\ UNCHANGED orders /\ \E n \in CartIds, u \in Users : CreateCart(n, u)
          /\ req' = [req EXCEPT ![r] = [req[r] EXCEPT !.step = "answered", !.answer = "empty"]]
        BY <1>3, <2>1 DEF NewCart
    <2> QED
        BY <1>c, <1>e, <2>1, <2>2, Strolls
<1>4. ASSUME NEW r \in Requests, Place(r) PROVE CInv'
    <2>1. PICK n \in OrderIds \ {o.id : o \in orders} :
             /\ orders' = orders \cup {[id |-> n, user |-> req[r].user, key |-> req[r].key]}
             /\ req' = [req EXCEPT ![r] = [req[r] EXCEPT !.step = "remember", !.order = n]]
        BY <1>4 DEF Place
    <2>2. req[r].step = "order" /\ UNCHANGED carts /\ req[r] \in Request
        BY <1>4, <1>a DEF Place, tables
    <2> DEFINE x == [req[r] EXCEPT !.step = "remember", !.order = n]
               o == [id |-> n, user |-> req[r].user, key |-> req[r].key]
    <2>3. /\ x.step = "remember" /\ x.user = req[r].user /\ o.user = req[r].user
          /\ o \notin orders
        BY <2>2 DEF Request
    <2>4. orders' = orders \cup {o} /\ \A s \in Requests : req'[s] = IF s = r THEN x ELSE req[s]
        BY <2>1 DEF IInv, TypeOK
    <2> HIDE DEF x, o
    <2>5. CartsKept'
        BY <2>2, <2>3, <2>4 DEF CInv, CartsKept
    <2>6. ASSUME NEW u \in Users PROVE Counted(u)'
        <3>1. Completed(u)' = Completed(u)
            BY <2>2 DEF Completed
        <3>2. CASE u = req[r].user
            <4>1. o \notin OrdersOf(u) /\ OrdersOf(u)' = OrdersOf(u) \cup {o}
                BY <2>3, <2>4, <3>2 DEF OrdersOf
            <4>2. Owing(u)' \subseteq Owing(u) \cup {r}
                BY <2>4 DEF Owing
            <4> QED
                BY <3>1, <4>1, <4>2, Ordering DEF CInv
        <3>3. CASE u # req[r].user
            <4>1. OrdersOf(u)' = OrdersOf(u)
                BY <2>3, <2>4, <3>3 DEF OrdersOf
            <4>2. Owing(u)' \subseteq Owing(u)
                BY <2>3, <2>4, <3>3 DEF Owing
            <4> QED
                BY <3>1, <4>1, <4>2, Releasing DEF CInv
        <3> QED
            BY <3>2, <3>3
    <2> QED
        BY <2>5, <2>6 DEF CInv
<1>5. ASSUME NEW r \in Requests, Taken(r) PROVE CInv'
    <2>1. UNCHANGED <<carts, orders>> /\ req[r] \in Request
        BY <1>5, <1>a DEF Taken, tables
    <2> QED
        BY <1>5, <1>c, <1>e, <2>1, Strolls DEF Taken
<1>6. ASSUME NEW r \in Requests, Remember(r) PROVE CInv'
    <2>1. /\ UNCHANGED <<carts, orders>> /\ req[r] \in Request /\ req[r].step \in Owes
          /\ req' = [req EXCEPT ![r] = [req[r] EXCEPT !.step = "findCart"]]
          /\ "findCart" \in Steps
        BY <1>6, <1>a DEF Remember, tables, Owes, Steps, Tail
    <2> QED
        BY <1>b, <2>1, Strolls
<1>7. ASSUME NEW r \in Requests, FindCart(r) PROVE CInv'
    <2>1. UNCHANGED <<carts, orders>> /\ req[r] \in Request /\ req[r].step \in Owes
        BY <1>7, <1>a DEF FindCart, tables, Owes
    <2>2. CASE req' = [req EXCEPT ![r] = [req[r] EXCEPT !.step = "pay"]]
        BY <1>b, <1>e, <2>1, <2>2, Strolls
    <2>3. ASSUME NEW n \in ActiveCarts(req[r].user),
                 req' = [req EXCEPT ![r] = [req[r] EXCEPT !.step = "empty", !.cart = n]]
          PROVE  CInv'
        <3> DEFINE x == [req[r] EXCEPT !.step = "empty", !.cart = n]
        <3>1. \E c \in carts : c.id = n /\ c.user = req[r].user
            BY DEF ActiveCarts
        <3>2. n \in CartIds
            BY DEF ActiveCarts, IInv, TypeOK, Cart
        <3>3. /\ x \in Request /\ x.step = "empty" /\ x.cart = n /\ x.user = req[r].user
            BY <1>e, <2>1, <3>2 DEF Request
        <3>4. req' = [req EXCEPT ![r] = x]
            BY <2>3
        <3> HIDE DEF x
        <3> QED
            BY <2>1, <3>1, <3>3, <3>4, Strolls
    <2> QED
        BY <1>7, <2>2, <2>3 DEF FindCart
<1>8. ASSUME NEW r \in Requests, Empty(r) PROVE CInv'
    <2>1. /\ UNCHANGED <<carts, orders>> /\ req[r] \in Request /\ req[r].step \in Owes
          /\ req' = [req EXCEPT ![r] = [req[r] EXCEPT !.step = "complete"]]
          /\ "complete" \in Steps
          /\ \E c \in carts : c.id = req[r].cart /\ c.user = req[r].user
        BY <1>8, <1>a, <1>e DEF Empty, EmptyCart, CInv, CartsKept
    <2> QED
        BY <1>b, <2>1, Strolls
<1>9. ASSUME NEW r \in Requests, Complete(r) PROVE CInv'
    <2>1. /\ req[r].step = "complete" /\ UNCHANGED orders /\ req[r] \in Request
          /\ carts' = {IF c.id = req[r].cart THEN [c EXCEPT !.status = "completed"] ELSE c : c \in carts}
          /\ req' = [req EXCEPT ![r] = [req[r] EXCEPT !.step = "pay"]]
        BY <1>9, <1>a DEF Complete, CompleteCart
    <2>2. PICK c \in carts : c.id = req[r].cart /\ c.user = req[r].user
        BY <2>1 DEF CInv, CartsKept
    <2> DEFINE d == [c EXCEPT !.status = "completed"]
    <2>3. d.id = c.id /\ d.user = c.user
        BY DEF IInv, TypeOK, Cart
    <2>4. carts' = (carts \ {c}) \cup {d}
        BY <2>1, <2>2 DEF CInv, CartsKept
    <2> HIDE DEF d
    <2>5. \A s \in Requests : /\ s # r => req'[s] = req[s]
                              /\ s = r => req'[s].step = "pay"
        BY <1>b, <1>e, <2>1 DEF IInv, TypeOK
    <2>6. CartsKept'
        <3>1. \A a, b \in carts' : a.id = b.id => a = b
            BY <2>3, <2>4 DEF CInv, CartsKept
        <3>2. \A a \in carts : \E b \in carts' : b.id = a.id /\ b.user = a.user
            BY <2>3, <2>4
        <3>3. \A s \in Requests : req'[s].step \in {"empty", "complete"} =>
                 \E b \in carts' : b.id = req'[s].cart /\ b.user = req'[s].user
            BY <2>5, <3>2 DEF CInv, CartsKept
        <3> QED
            BY <3>1, <3>3 DEF CartsKept
    <2>7. ASSUME NEW u \in Users PROVE Counted(u)'
        <3>1. OrdersOf(u)' = OrdersOf(u)
            BY <2>1 DEF OrdersOf
        <3>2. CASE u = req[r].user
            <4>1. Completed(u)' \subseteq Completed(u) \cup {d}
                BY <2>4 DEF Completed
            <4>2. r \in Owing(u) /\ Owing(u)' \subseteq Owing(u) \ {r}
                BY <1>e, <2>1, <2>5, <3>2 DEF Owing
            <4> QED
                BY <3>1, <4>1, <4>2, Completing DEF CInv
        <3>3. CASE u # req[r].user
            <4>1. Completed(u)' \subseteq Completed(u)
                BY <2>2, <2>3, <2>4, <3>3 DEF Completed
            <4>2. Owing(u)' \subseteq Owing(u)
                BY <1>e, <2>5 DEF Owing
            <4> QED
                BY <3>1, <4>1, <4>2, Releasing DEF CInv
        <3> QED
            BY <3>2, <3>3
    <2> QED
        BY <2>6, <2>7 DEF CInv
<1>10. ASSUME NEW r \in Requests, Pay(r) PROVE CInv'
    <2>1. UNCHANGED <<carts, orders>> /\ req[r] \in Request
        BY <1>10, <1>a DEF Pay, tables
    <2> QED
        BY <1>10, <1>c, <1>e, <2>1, Strolls DEF Pay
<1>11. ASSUME NEW r \in Requests, Leave(r) PROVE CInv'
    BY <1>11, <1>i, <1>e, Strolls DEF Leave, tables
<1>12. ASSUME NEW u \in Users, NEW k \in Keys, Forget(u, k) PROVE CInv'
    BY <1>12, Outside DEF Forget, tables
<1>13. ASSUME NEW u \in Users, OpenCart(u) PROVE CInv'
    BY <1>13, Outside DEF OpenCart
<1>14. ASSUME NEW u \in Users, PutItem(u) PROVE CInv'
    BY <1>14, Outside DEF PutItem, InsertItem
<1>15. CASE TakeItem
    BY <1>15, Outside DEF TakeItem, DeleteItem
<1>16. CASE UNCHANGED vars
    BY <1>16, Outside DEF vars
<1> QED
    BY <1>1, <1>2, <1>3, <1>4, <1>5, <1>6, <1>7, <1>8, <1>9, <1>10, <1>11, <1>12,
       <1>13, <1>14, <1>15, <1>16 DEF Next, Handler

\* However the tails of concurrent checkouts find the cart again, they put
\* away at most as many carts of a customer as the customer ordered
\* (checkout.service.ts, lines 154 to 165).
THEOREM OrdersBoundCarts == Spec => []CartsCompletedByOrders
<1>1. CInv => CartsCompletedByOrders
    BY Counts DEF CInv, CartsCompletedByOrders
<1> QED
    BY <1>1, CheckoutInit, CheckoutStep, CountedInit, CountedStep, PTL DEF Spec
------------------------------------------------------------------------------
(***************************************************************************)
(* The promise: each step is one of Purchases, or none.                    *)
(***************************************************************************)

Bought == {[customer |-> o.user, key |-> o.key] : o \in orders}
Answers == [r \in Requests |-> Asked(req[r])]

\* Slot r turns to x, and is seen to.
LEMMA Turns ==
    ASSUME IInv, NEW r \in Requests, NEW x, req' = [req EXCEPT ![r] = x]
    PROVE  Answers' = [Answers EXCEPT ![r] = Asked(x)] /\ Answers[r] = Asked(req[r])
<1>1. \A s \in Requests : req'[s] = IF s = r THEN x ELSE req[s]
    BY DEF IInv, TypeOK
<1>2. \A s \in Requests : Asked(req[s])' = Asked(req'[s])
    BY DEF Asked, Stage, Heard, Idle, Tail
<1>3. Answers' = [s \in Requests |-> Asked(req[s])']
    BY DEF Answers
<1>4. Answers' = [s \in Requests |-> IF s = r THEN Asked(x) ELSE Asked(req[s])]
    BY <1>1, <1>2, <1>3
<1> QED
    BY <1>4 DEF Answers

LEMMA Seen ==
    ASSUME NEW q, q.step # "idle"
    PROVE  /\ Asked(q) = [at |-> Stage(q), customer |-> q.user, key |-> q.key]
           /\ q.step \in {"cart", "newCart", "order"} => Stage(q) = "open"
           /\ q.step \in Tail => Stage(q) = "bought"
           /\ q.step = "answered" =>
                 /\ q.answer = "created" => Stage(q) = "told"
                 /\ q.answer = "conflict" => Stage(q) = "known"
                 /\ q.answer \in {"empty", "taken"} => Stage(q) = "refused"
<1>1. q # Idle
    BY DEF Idle
<1>2. q.step = "answered" => q.step \notin {"cart", "newCart", "order"} \cup Tail
    BY DEF Tail
<1>3. q.step \in Tail => q.step \notin {"cart", "newCart", "order", "answered"}
    BY DEF Tail
<1>4. Asked(q) = [at |-> Stage(q), customer |-> q.user, key |-> q.key]
    BY <1>1 DEF Asked
<1>5. q.step \in {"cart", "newCart", "order"} => Stage(q) = "open"
    BY <1>3 DEF Stage
<1>6. q.step \in Tail => Stage(q) = "bought"
    BY <1>3 DEF Stage
<1>7. q.step = "answered" /\ q.answer = "created" => Stage(q) = "told"
    BY <1>2 DEF Stage, Heard
<1>8. q.step = "answered" /\ q.answer = "conflict" => Stage(q) = "known"
    BY <1>2 DEF Stage, Heard
<1>9. q.step = "answered" /\ q.answer \in {"empty", "taken"} => Stage(q) = "refused"
    BY <1>2 DEF Stage, Heard
<1> QED
    BY <1>4, <1>5, <1>6, <1>7, <1>8, <1>9

LEMMA StageStays ==
    ASSUME IInv, NEW r \in Requests, NEW x, req' = [req EXCEPT ![r] = x], UNCHANGED orders,
           req[r].step # "idle", x.step # "idle", x.user = req[r].user, x.key = req[r].key,
           Stage(x) = Stage(req[r])
    PROVE  UNCHANGED Promise!purchaseVars
<1>1. Asked(x) = Asked(req[r])
    BY Seen
<1>2. Answers' = Answers
    BY <1>1, Turns DEF Answers
<1> QED
    BY <1>2 DEF Promise!purchaseVars, Answers

LEMMA StageAnswers ==
    ASSUME IInv, NEW r \in Requests, NEW x, req' = [req EXCEPT ![r] = x], UNCHANGED orders,
           req[r].step # "idle", x.step # "idle", x.user = req[r].user, x.key = req[r].key,
           \/ Stage(req[r]) = "bought" /\ Stage(x) = "told"
           \/ Stage(req[r]) = "open" /\ Stage(x) = "refused"
    PROVE  Promise!Next
<1>1. Asked(x) = [Asked(req[r]) EXCEPT !.at = Stage(x)] /\ Asked(req[r]).at = Stage(req[r])
    BY Seen
<1>2. Answers' = [Answers EXCEPT ![r] = [Answers[r] EXCEPT !.at = Stage(x)]]
    <2>1. Answers' = [Answers EXCEPT ![r] = Asked(x)] /\ Answers[r] = Asked(req[r])
        BY Turns
    <2> QED
        BY ONLY <1>1, <2>1
<1>3. Bought' = Bought
    BY DEF Bought
<1>4. Promise!Answer(r)
    BY <1>1, <1>2, <1>3, Turns DEF Promise!Answer, Promise!Moves, Promise!Put, Answers, Bought
<1> QED
    BY <1>4 DEF Promise!Next

LEMMA CheckoutKeepsPromise == IInv /\ [Next]_vars => [Promise!Next]_(Promise!purchaseVars)
<1> SUFFICES ASSUME IInv, [Next]_vars
             PROVE  Promise!Next \/ UNCHANGED Promise!purchaseVars
    OBVIOUS
<1> USE DEF Goto, Reply
<1>a. ASSUME NEW r \in Requests, req[r].step # "idle"
      PROVE  req[r] \in Request /\ req[r].user \in Users /\ req[r].key \in Keys
    <2>1. req[r] # Idle
        BY <1>a DEF Idle
    <2> QED
        BY <2>1 DEF IInv, TypeOK, InTail
<1>b. ASSUME NEW q \in Request, NEW s
      PROVE  LET x == [q EXCEPT !.step = s]
             IN  x.step = s /\ x.user = q.user /\ x.key = q.key
    BY DEF Request
<1>c. ASSUME NEW q \in Request, NEW a
      PROVE  LET x == [q EXCEPT !.step = "answered", !.answer = a]
             IN  x.step = "answered" /\ x.answer = a /\ x.user = q.user /\ x.key = q.key
    BY DEF Request
<1>d. {"remember", "findCart", "empty", "complete", "pay"} = Tail
    BY DEF Tail
<1>1. ASSUME NEW r \in Requests, Arrive(r) PROVE Promise!Next
    <2>1. PICK u \in Users, k \in Keys :
             LET q == [Idle EXCEPT !.user = u, !.key = k]
             IN  \/ Goto(r, [q EXCEPT !.step = "cart"])
                 \/ /\ remembered[<<u, k>>] # NoRef
                    /\ Goto(r, [q EXCEPT !.step = "answered", !.answer = "conflict"])
        BY <1>1 DEF Arrive
    <2> DEFINE q == [Idle EXCEPT !.user = u, !.key = k]
               x == [q EXCEPT !.step = "cart"]
               y == [q EXCEPT !.step = "answered", !.answer = "conflict"]
    <2>2. /\ Asked(x) = [at |-> "open", customer |-> u, key |-> k]
          /\ Asked(y) = [at |-> "known", customer |-> u, key |-> k]
        BY DEF Asked, Stage, Heard, Idle, Tail
    <2>3. req[r] = Idle /\ Bought' = Bought
        BY <1>1 DEF Arrive, Bought
    <2>4. Answers[r] = [at |-> "none"]
        BY <2>3 DEF Answers, Asked
    <2>5. \/ req' = [req EXCEPT ![r] = x]
          \/ remembered[<<u, k>>] # NoRef /\ req' = [req EXCEPT ![r] = y]
        BY <2>1
    <2> HIDE DEF q, x, y
    <2>6. \/ Answers' = [Answers EXCEPT ![r] = Asked(x)]
          \/ /\ remembered[<<u, k>>] # NoRef
             /\ Answers' = [Answers EXCEPT ![r] = Asked(y)]
        BY <2>5, Turns
    <2>7. remembered[<<u, k>>] # NoRef => [customer |-> u, key |-> k] \in Bought
        <3> SUFFICES ASSUME remembered[<<u, k>>] # NoRef
                     PROVE  [customer |-> u, key |-> k] \in Bought
            OBVIOUS
        <3>1. [id |-> remembered[<<u, k>>], user |-> u, key |-> k] \in orders
            BY DEF IInv, KeyPointsHome
        <3> QED
            BY <3>1 DEF Bought
    <2>8. Promise!Arrive(r, u, k)
        BY <2>2, <2>3, <2>4, <2>6, <2>7
           DEF Promise!Arrive, Promise!Put, Promise!Wish, Promise!Order, Promise!Nothing,
               Answers, Bought
    <2> QED
        BY <2>8 DEF Promise!Next
<1>2. ASSUME NEW r \in Requests, ReadCart(r)
      PROVE  Promise!Next \/ UNCHANGED Promise!purchaseVars
    <2>1. req[r].step = "cart" /\ UNCHANGED orders
        BY <1>2 DEF ReadCart
    <2>2. Stage(req[r]) = "open" /\ req[r] \in Request
        BY <1>a, <2>1, Seen
    <2>3. ASSUME NEW s \in {"newCart", "order"}, req' = [req EXCEPT ![r] = [req[r] EXCEPT !.step = s]]
          PROVE  UNCHANGED Promise!purchaseVars
        <3> DEFINE x == [req[r] EXCEPT !.step = s]
        <3>1. x.step = s /\ x.user = req[r].user /\ x.key = req[r].key
            BY <1>b, <2>2
        <3>2. req' = [req EXCEPT ![r] = x]
            BY <2>3
        <3> HIDE DEF x
        <3>3. x.step # "idle" /\ Stage(x) = "open"
            BY <3>1, Seen
        <3> QED
            BY <2>1, <2>2, <3>1, <3>2, <3>3, StageStays
    <2>4. ASSUME Reply(r, "empty") PROVE Promise!Next
        <3> DEFINE x == [req[r] EXCEPT !.step = "answered", !.answer = "empty"]
        <3>1. /\ x.step = "answered" /\ x.answer = "empty"
              /\ x.user = req[r].user /\ x.key = req[r].key
            BY <1>c, <2>2
        <3>2. req' = [req EXCEPT ![r] = x]
            BY <2>4
        <3> HIDE DEF x
        <3>3. x.step # "idle" /\ Stage(x) = "refused"
            BY <3>1, Seen
        <3> QED
            BY <2>1, <2>2, <3>1, <3>2, <3>3, StageAnswers
    <2> QED
        BY <1>2, <2>3, <2>4 DEF ReadCart
<1>3. ASSUME NEW r \in Requests, NEW a, Reply(r, a), UNCHANGED orders,
             \/ req[r].step \in {"newCart", "order"} /\ a \in {"empty", "taken"}
             \/ req[r].step = "pay" /\ a = "created"
      PROVE  Promise!Next
    <2> DEFINE x == [req[r] EXCEPT !.step = "answered", !.answer = a]
    <2>1. req[r].step # "idle" /\ req[r] \in Request
        BY <1>3, <1>a
    <2>2. /\ x.step = "answered" /\ x.answer = a
          /\ x.user = req[r].user /\ x.key = req[r].key
        BY <1>c, <2>1
    <2>3. req' = [req EXCEPT ![r] = x]
        BY <1>3
    <2> HIDE DEF x
    <2>4. \/ Stage(req[r]) = "bought" /\ Stage(x) = "told"
          \/ Stage(req[r]) = "open" /\ Stage(x) = "refused"
        BY <1>3, <1>d, <2>1, <2>2, Seen
    <2> QED
        BY <1>3, <2>1, <2>2, <2>3, <2>4, StageAnswers
<1>4. ASSUME NEW r \in Requests, Place(r) PROVE Promise!Next
    <2>1. req[r].step = "order" /\ OrdersWithKey(req[r].key) = {}
        BY <1>4 DEF Place
    <2>2. PICK n : /\ orders' = orders \cup {[id |-> n, user |-> req[r].user, key |-> req[r].key]}
                   /\ Goto(r, [req[r] EXCEPT !.step = "remember", !.order = n])
        BY <1>4 DEF Place
    <2> DEFINE x == [req[r] EXCEPT !.step = "remember", !.order = n]
    <2>3. x.step = "remember" /\ x.user = req[r].user /\ x.key = req[r].key
        BY <1>a, <2>1 DEF Request
    <2>4. req' = [req EXCEPT ![r] = x]
        BY <2>2
    <2> HIDE DEF x
    <2>5. /\ Asked(req[r]) = [at |-> "open", customer |-> req[r].user, key |-> req[r].key]
          /\ Asked(x) = [at |-> "bought", customer |-> req[r].user, key |-> req[r].key]
        BY <1>d, <2>1, <2>3, Seen
    <2>6. /\ Answers[r].at = "open" /\ Answers[r].customer = req[r].user /\ Answers[r].key = req[r].key
          /\ Answers' = [Answers EXCEPT ![r] = [Answers[r] EXCEPT !.at = "bought"]]
        <3>1. Answers' = [Answers EXCEPT ![r] = Asked(x)] /\ Answers[r] = Asked(req[r])
            BY <2>4, Turns
        <3> QED
            <4>1. /\ [Asked(req[r]) EXCEPT !.at = "bought"] = Asked(x)
                  /\ Asked(req[r]).at = "open" /\ Asked(req[r]).customer = req[r].user
                  /\ Asked(req[r]).key = req[r].key
                BY ONLY <2>5
            <4> QED
                BY ONLY <3>1, <4>1
    <2>7. /\ Bought' = Bought \cup {[customer |-> Answers[r].customer, key |-> Answers[r].key]}
          /\ \A b \in Bought : b.key # Answers[r].key
        <3> DEFINE o == [id |-> n, user |-> req[r].user, key |-> req[r].key]
        <3>1. orders' = orders \cup {o} /\ o.user = req[r].user /\ o.key = req[r].key
            BY <2>2
        <3> HIDE DEF o
        <3>2. Bought' = Bought \cup {[customer |-> o.user, key |-> o.key]}
            BY <3>1 DEF Bought
        <3>3. \A b \in Bought : b.key # req[r].key
            BY <2>1 DEF Bought, OrdersWithKey
        <3> QED
            BY <2>6, <3>1, <3>2, <3>3
    <2>8. Promise!Buy(r)
        BY <2>6, <2>7 DEF Promise!Buy, Promise!Moves, Promise!Put, Promise!Order, Answers, Bought
    <2> QED
        BY <2>8 DEF Promise!Next
<1>5. ASSUME NEW r \in Requests, req[r].step \in Tail, NEW s \in Tail, UNCHANGED orders,
             \/ Goto(r, [req[r] EXCEPT !.step = s])
             \/ \E n : Goto(r, [req[r] EXCEPT !.step = s, !.cart = n])
      PROVE  UNCHANGED Promise!purchaseVars
    <2>1. req[r].step # "idle" /\ req[r] \in Request /\ s # "idle"
        BY <1>5, <1>a DEF Tail
    <2>2. PICK x : req' = [req EXCEPT ![r] = x] /\ x.step = s /\ x.user = req[r].user /\ x.key = req[r].key
        <3>1. CASE Goto(r, [req[r] EXCEPT !.step = s])
            <4> DEFINE x == [req[r] EXCEPT !.step = s]
            <4>1. x.step = s /\ x.user = req[r].user /\ x.key = req[r].key
                BY <1>b, <2>1
            <4>2. req' = [req EXCEPT ![r] = x]
                BY <3>1
            <4> QED
                BY <4>1, <4>2
        <3>2. CASE \E n : Goto(r, [req[r] EXCEPT !.step = s, !.cart = n])
            <4>1. PICK n : Goto(r, [req[r] EXCEPT !.step = s, !.cart = n])
                BY <3>2
            <4> DEFINE x == [req[r] EXCEPT !.step = s, !.cart = n]
            <4>2. x.step = s /\ x.user = req[r].user /\ x.key = req[r].key
                BY <2>1 DEF Request
            <4>3. req' = [req EXCEPT ![r] = x]
                BY <4>1
            <4> QED
                BY <4>2, <4>3
        <3> QED
            BY <1>5, <3>1, <3>2
    <2>3. Stage(req[r]) = "bought" /\ Stage(x) = "bought"
        BY <1>5, <2>1, <2>2, Seen
    <2> QED
        BY <1>5, <2>1, <2>2, <2>3, StageStays
<1>6. ASSUME NEW r \in Requests, Leave(r) PROVE Promise!Next
    <2>1. Answers' = [Answers EXCEPT ![r] = [at |-> "none"]]
        BY <1>6, Turns DEF Leave, Asked
    <2>2. Promise!Leave(r)
        BY <1>6, <2>1 DEF Leave, Promise!Leave, Promise!Put, Promise!Nothing, Answers
    <2> QED
        BY <2>2 DEF Promise!Next
<1>7. ASSUME NEW r \in Requests, Handler(r)
      PROVE  Promise!Next \/ UNCHANGED Promise!purchaseVars
    <2>1. CASE NewCart(r) \/ Taken(r) \/ Pay(r)
        BY <1>3, <2>1 DEF NewCart, Taken, Pay
    <2>2. CASE Remember(r) \/ FindCart(r)
        BY <1>5, <1>d, <2>2 DEF Remember, FindCart
    <2>3. CASE Empty(r) \/ Complete(r)
        BY <1>5, <1>d, <2>3 DEF Empty, Complete
    <2> QED
        BY <1>1, <1>2, <1>4, <1>6, <1>7, <2>1, <2>2, <2>3 DEF Handler
<1>8. ASSUME UNCHANGED <<orders, req>> PROVE UNCHANGED Promise!purchaseVars
    BY <1>8 DEF Promise!purchaseVars
<1>9. ASSUME NEW u \in Users, NEW k \in Keys, Forget(u, k) PROVE UNCHANGED Promise!purchaseVars
    BY <1>8, <1>9 DEF Forget
<1>10. ASSUME NEW u \in Users, OpenCart(u) \/ PutItem(u) PROVE UNCHANGED Promise!purchaseVars
    BY <1>8, <1>10 DEF OpenCart, PutItem
<1>11. CASE TakeItem \/ UNCHANGED vars
    BY <1>8, <1>11 DEF TakeItem, vars
<1> QED
    BY <1>7, <1>9, <1>10, <1>11 DEF Next

\* The handlers of CheckoutService with Redis and the unique column, for any
\* number of them, keep the promise of POST /checkout: a key buys once, and
\* nobody is told of an order that there is not.
THEOREM ImplementsPurchases == Spec => PromiseSpec
<1>1. Init => Promise!Init
    BY DEF Init, Promise!Init, Promise!Nothing, Asked
<1> QED
    BY <1>1, CheckoutInvariant, CheckoutKeepsPromise, PTL DEF Spec, PromiseSpec, Promise!Spec
==============================================================================
