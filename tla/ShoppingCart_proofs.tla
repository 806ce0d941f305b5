------------------------- MODULE ShoppingCart_proofs -------------------------
(***************************************************************************)
(* ShoppingCart for every number of users, variants, carts and requests:   *)
(* types, one row per variant and cart, and the use of the lock.           *)
(*                                                                         *)
(* OneRowPerVariant is not inductive.  Holders adds that who is between    *)
(* acquire and release has its name under the key, and Absent that the row *)
(* an adder is about to insert is still missing; both need the lease to    *)
(* outlive the handler.                                                    *)
(***************************************************************************)
EXTENDS ShoppingCart, TLAPS

\* The fields a handler's step relies on are set.
FieldsSet(q) ==
    /\ q.step \in Holding \cup {"lock"} => q.variant \in Variants
    /\ q.step \in Holding \cup {"lock", "update", "remove"} \/ q.view # "none"
          => q.user \in Users
    /\ q.step \in {"findItem", "merge", "insert", "clear", "empty", "complete"}
          => q.cart \in CartIds
    /\ q.step \in Critical \cup {"lock", "update"} => q.qty \in 1..MaxAvail

Fields == \A r \in Requests : FieldsSet(req[r])

Holders ==
    ~LeaseExpires =>
        \A r \in Requests : req[r].step \in Holding => lock[req[r].variant] = r

Absent ==
    ~LeaseExpires =>
        \A r \in Requests : req[r].step = "insert" =>
            \A i \in items : ~(i.cart = req[r].cart /\ i.variant = req[r].variant)

IInv == TypeOK /\ Fields /\ Holders /\ Absent /\ OneRowPerVariant /\ RowsWithinStock

LEMMA CartInit == Init => IInv
BY RefAssumption, LockAssumption, MaxAvailAssumption
   DEF Init, IInv, TypeOK, Fields, FieldsSet, Holders, Absent, OneRowPerVariant,
       RowsWithinStock, TablesEmpty, Idle, Request, Steps, Holding, Critical

(***************************************************************************)
(* A step of slot r that leaves it at rec, or idle, and the lock alone.    *)
(***************************************************************************)
LEMMA SlotMoves ==
    ASSUME IInv, NEW r \in Requests, NEW rec \in Request, FieldsSet(rec),
           NEW x \in {rec, Idle}, req' = [req EXCEPT ![r] = x], lock' = lock,
           rec.step \in Holding =>
               req[r].step \in Holding /\ rec.variant = req[r].variant
    PROVE  req' \in [Requests -> Request] /\ Fields' /\ Holders'
<1> DEFINE quiet == Idle.step = "idle" /\ Idle.view = "none"
<1>1. Idle \in Request /\ quiet
    BY MaxAvailAssumption DEF Idle, Request, Steps, Holding, Critical
<1>2. FieldsSet(Idle) /\ Idle.step \notin Holding
    BY <1>1 DEF FieldsSet, Holding, Critical
<1>3. x \in Request /\ FieldsSet(x)
    BY <1>1, <1>2
<1>4. req' \in [Requests -> Request]
    BY <1>3 DEF IInv, TypeOK
<1>5. \A s \in Requests : req'[s] = IF s = r THEN x ELSE req[s]
    BY DEF IInv, TypeOK
<1>6. Fields'
    <2> SUFFICES ASSUME NEW s \in Requests PROVE FieldsSet(req'[s])
        BY DEF Fields, FieldsSet
    <2> QED
        BY <1>3, <1>5 DEF IInv, Fields
<1>7. Holders'
    BY <1>2, <1>5 DEF IInv, Holders
<1> QED
    BY <1>4, <1>6, <1>7

\* ... and writes no cart item.
LEMMA SlotCreates ==
    ASSUME IInv, NEW r \in Requests, NEW rec \in Request, FieldsSet(rec),
           NEW x \in {rec, Idle}, req' = [req EXCEPT ![r] = x],
           UNCHANGED <<items, avail, lock>>, carts' \subseteq Cart,
           rec.step \in Holding =>
               req[r].step \in Holding /\ rec.variant = req[r].variant,
           ~LeaseExpires /\ rec.step = "insert" =>
               \A i \in items : ~(i.cart = rec.cart /\ i.variant = rec.variant)
    PROVE  IInv'
<1>1. req' \in [Requests -> Request] /\ Fields' /\ Holders'
    BY SlotMoves
<1>2. \A s \in Requests : req'[s] = IF s = r THEN x ELSE req[s]
    BY DEF IInv, TypeOK
<1>3. Idle.step # "insert"
    BY DEF Idle
<1>4. Absent'
    BY <1>2, <1>3 DEF IInv, Absent
<1> QED
    BY <1>1, <1>4 DEF IInv, TypeOK, OneRowPerVariant, RowsWithinStock

\* ... and writes nothing.
LEMMA SlotReads ==
    ASSUME IInv, NEW r \in Requests, NEW rec \in Request, FieldsSet(rec),
           NEW x \in {rec, Idle}, req' = [req EXCEPT ![r] = x],
           UNCHANGED <<tables, avail, lock>>,
           rec.step \in Holding =>
               req[r].step \in Holding /\ rec.variant = req[r].variant,
           ~LeaseExpires /\ rec.step = "insert" =>
               \A i \in items : ~(i.cart = rec.cart /\ i.variant = rec.variant)
    PROVE  IInv'
<1>1. carts' \subseteq Cart /\ UNCHANGED items
    BY DEF tables, IInv, TypeOK
<1> QED
    BY <1>1, SlotCreates

\* ... and writes the tables so that no row appears that another adder is
\* about to insert.
LEMMA SlotWrites ==
    ASSUME IInv, NEW r \in Requests, NEW rec \in Request, FieldsSet(rec),
           NEW x \in {rec, Idle}, req' = [req EXCEPT ![r] = x],
           UNCHANGED <<avail, lock>>,
           rec.step \in Holding =>
               req[r].step \in Holding /\ rec.variant = req[r].variant,
           rec.step # "insert",
           carts' \subseteq Cart, items' \subseteq Item,
           OneRowPerVariant', RowsWithinStock',
           ~LeaseExpires =>
               \A s \in Requests \ {r} : req[s].step = "insert" =>
                   \A i \in items' : ~(i.cart = req[s].cart /\ i.variant = req[s].variant)
    PROVE  IInv'
<1>1. req' \in [Requests -> Request] /\ Fields' /\ Holders'
    BY SlotMoves
<1>2. \A s \in Requests : req'[s] = IF s = r THEN x ELSE req[s]
    BY DEF IInv, TypeOK
<1>3. Idle.step # "insert"
    BY DEF Idle
<1>4. Absent'
    BY <1>2, <1>3 DEF Absent
<1> QED
    BY <1>1, <1>4 DEF IInv, TypeOK

\* Changing quantities and deleting rows moves no row to another cart or
\* variant.
LEMMA RowsStay ==
    ASSUME IInv,
           \/ items' \subseteq items
           \/ \E n \in ItemIds, q \in 1..MaxAvail : SetQuantity(n, q)
    PROVE  /\ items' \subseteq Item
           /\ OneRowPerVariant'
           /\ RowsWithinStock'
           /\ \A j \in items' : \E i \in items : i.cart = j.cart /\ i.variant = j.variant
<1>1. CASE items' \subseteq items
    BY <1>1 DEF IInv, TypeOK, OneRowPerVariant, RowsWithinStock
<1>2. ASSUME NEW n \in ItemIds, NEW q \in 1..MaxAvail, SetQuantity(n, q)
      PROVE  /\ items' \subseteq Item
             /\ OneRowPerVariant'
             /\ RowsWithinStock'
             /\ \A j \in items' : \E i \in items : i.cart = j.cart /\ i.variant = j.variant
    <2> DEFINE new(i) == IF i.id = n THEN [i EXCEPT !.qty = q] ELSE i
    <2>1. items' = {new(i) : i \in items}
        BY <1>2 DEF SetQuantity
    <2>2. \A i \in items : /\ new(i) \in Item
                           /\ new(i).cart = i.cart /\ new(i).variant = i.variant
                           /\ new(i).qty <= MaxAvail
        <3> SUFFICES ASSUME NEW i \in items
                     PROVE  /\ new(i) \in Item
                            /\ new(i).cart = i.cart /\ new(i).variant = i.variant
                            /\ new(i).qty <= MaxAvail
            OBVIOUS
        <3>1. i \in Item /\ i.qty <= MaxAvail
            BY DEF IInv, TypeOK, RowsWithinStock
        <3>2. q \in Nat \ {0} /\ q <= MaxAvail
            BY MaxAvailAssumption
        <3>3. CASE i.id # n
            BY <3>1, <3>3
        <3>4. CASE i.id = n
            <4>1. new(i) = [i EXCEPT !.qty = q]
                BY <3>4
            <4> QED
                BY <3>1, <3>2, <4>1 DEF Item
        <3> QED
            BY <3>3, <3>4
    <2> HIDE DEF new
    <2>3. OneRowPerVariant'
        <3> SUFFICES ASSUME ~LeaseExpires, NEW i \in items', NEW j \in items',
                            i.cart = j.cart, i.variant = j.variant
                     PROVE  i = j
            BY DEF OneRowPerVariant
        <3>1. PICK a \in items, b \in items : i = new(a) /\ j = new(b)
            BY <2>1
        <3>2. a.cart = b.cart /\ a.variant = b.variant
            BY <2>2, <3>1
        <3>3. a = b
            BY <3>2 DEF IInv, OneRowPerVariant
        <3> QED
            BY <3>1, <3>3
    <2> QED
        BY <2>1, <2>2, <2>3 DEF RowsWithinStock
<1> QED
    BY <1>1, <1>2

LEMMA CartStep == IInv /\ [Next]_vars => IInv'
<1> SUFFICES ASSUME IInv, [Next]_vars PROVE IInv'
    OBVIOUS
<1> USE RefAssumption, LockAssumption, MaxAvailAssumption
    DEF Start, Goto, Finish
<1>i. Idle \in Request /\ FieldsSet(Idle) /\ Idle.step = "idle" /\ Idle.view = "none"
    BY DEF FieldsSet, Idle, Request, Steps, Holding, Critical
<1>a. ASSUME NEW r \in Requests PROVE req[r] \in Request /\ FieldsSet(req[r])
    BY DEF IInv, TypeOK, Fields
<1>b. ASSUME NEW u \in Users
      PROVE  /\ Answer(u) \in Request /\ FieldsSet(Answer(u))
             /\ Answer(u).step \notin Holding \cup {"insert"}
    <2>1. Answer(u) \in Request
        BY <1>i DEF Answer, Request, Steps
    <2>2. Answer(u).step = "done" /\ Answer(u).user = u
        BY <1>i DEF Answer, Request
    <2> QED
        BY <2>1, <2>2 DEF FieldsSet, Holding, Critical
<1>c. ASSUME NEW r \in Requests, req[r].step \in Critical, NEW w \in {"none", "find"}
      PROVE  /\ Releasing(req[r], w) \in Request /\ FieldsSet(Releasing(req[r], w))
             /\ Releasing(req[r], w).variant = req[r].variant
             /\ Releasing(req[r], w).step # "insert" /\ req[r].step \in Holding
    <2>1. req[r].step \in Holding /\ req[r].user \in Users /\ req[r].variant \in Variants
        BY <1>a, <1>c DEF FieldsSet, Holding
    <2>2. Releasing(req[r], w) \in Request
        BY <1>i, <2>1 DEF Releasing, Request, Steps, Holding
    <2>3. /\ Releasing(req[r], w).step = "release"
          /\ Releasing(req[r], w).user = req[r].user
          /\ Releasing(req[r], w).variant = req[r].variant
        BY <1>i DEF Releasing, Request
    <2> QED
        BY <2>1, <2>2, <2>3 DEF FieldsSet, Holding, Critical
<1>d. ASSUME NEW u \in Users PROVE ActiveCarts(u) \subseteq CartIds
    BY DEF IInv, TypeOK, ActiveCarts, Cart
<1>e. ASSUME NEW i \in items
      PROVE  /\ i.id \in ItemIds /\ i.variant \in Variants /\ i.cart \in CartIds
             /\ i.qty \in Nat \ {0}
             /\ CartOwner(i.cart) \subseteq Users
    BY DEF IInv, TypeOK, Item, CartOwner, Cart
<1>f. ASSUME NEW r \in Requests, ~LeaseExpires, req[r].step = "insert"
      PROVE  \A i \in items : ~(i.cart = req[r].cart /\ i.variant = req[r].variant)
    BY <1>f DEF IInv, Absent
<1>1. ASSUME NEW r \in Requests, GetCart(r) PROVE IInv'
    <2>1. PICK u \in Users : req' = [req EXCEPT ![r] = Answer(u)]
        BY <1>1 DEF GetCart
    <2> QED
        BY <1>1, <1>b, <2>1, SlotReads DEF GetCart
<1>2. ASSUME NEW r \in Requests, ViewFind(r) PROVE IInv'
    <2> DEFINE w == IF ActiveCarts(req[r].user) = {} THEN "create" ELSE "none"
               rec == [req[r] EXCEPT !.view = w]
    <2>1. rec \in Request /\ rec.step = req[r].step /\ rec.user = req[r].user
            /\ rec.variant = req[r].variant /\ rec.cart = req[r].cart
            /\ rec.qty = req[r].qty
        BY <1>a DEF Request
    <2>2. FieldsSet(rec)
        BY <1>a, <1>2, <2>1 DEF ViewFind, FieldsSet
    <2>3. PICK x \in {rec, Idle} : req' = [req EXCEPT ![r] = x]
        BY <1>2 DEF ViewFind
    <2>4. ~LeaseExpires /\ rec.step = "insert" =>
            \A i \in items : ~(i.cart = rec.cart /\ i.variant = rec.variant)
        BY <1>f, <2>1
    <2>5. UNCHANGED <<tables, avail, lock>>
        BY <1>2 DEF ViewFind
    <2> HIDE DEF rec
    <2> QED
        BY <2>1, <2>2, <2>3, <2>4, <2>5, SlotReads
<1>3. ASSUME NEW r \in Requests, ViewCreate(r) PROVE IInv'
    <2> DEFINE rec == [req[r] EXCEPT !.view = "none"]
    <2>1. rec \in Request /\ rec.step = req[r].step /\ rec.user = req[r].user
            /\ rec.variant = req[r].variant /\ rec.cart = req[r].cart
            /\ rec.qty = req[r].qty /\ rec.view = "none"
        BY <1>a DEF Request
    <2>2. FieldsSet(rec) /\ req[r].user \in Users
        BY <1>a, <1>3, <2>1 DEF ViewCreate, FieldsSet
    <2>3. PICK x \in {rec, Idle} : req' = [req EXCEPT ![r] = x]
        BY <1>3 DEF ViewCreate
    <2>4. carts' \subseteq Cart /\ UNCHANGED <<items, avail, lock>>
        BY <1>3, <2>2 DEF ViewCreate, CreateCart, IInv, TypeOK, Cart
    <2>5. ~LeaseExpires /\ rec.step = "insert" =>
            \A i \in items : ~(i.cart = rec.cart /\ i.variant = rec.variant)
        BY <1>f, <2>1
    <2> HIDE DEF rec
    <2> QED
        BY <2>1, <2>2, <2>3, <2>4, <2>5, SlotCreates
<1>4. ASSUME NEW r \in Requests, AddRead(r) PROVE IInv'
    <2>1. PICK u \in Users, v \in Variants, n \in 1..MaxAvail :
             req' = [req EXCEPT ![r] =
                  [Idle EXCEPT !.step = "lock", !.user = u, !.variant = v,
                               !.qty = n, !.seen = avail[v]]]
        BY <1>4 DEF AddRead
    <2> DEFINE rec == [Idle EXCEPT !.step = "lock", !.user = u, !.variant = v,
                                   !.qty = n, !.seen = avail[v]]
    <2>2. rec \in Request
        <3>1. n \in 0..MaxAvail /\ avail[v] \in 0..MaxAvail
            BY DEF IInv, TypeOK
        <3> DEFINE half == [Idle EXCEPT !.step = "lock", !.user = u, !.variant = v]
        <3>2. half \in Request
            BY <1>i DEF Request, Steps
        <3>3. [half EXCEPT !.qty = n, !.seen = avail[v]] \in Request
            <4> HIDE DEF half
            <4> QED
                BY <3>1, <3>2 DEF Request
        <3>4. rec = [half EXCEPT !.qty = n, !.seen = avail[v]]
            OBVIOUS
        <3> QED
            BY <3>3, <3>4
    <2>3. rec.step = "lock" /\ rec.user = u /\ rec.variant = v /\ rec.qty = n
        BY <1>i DEF Request
    <2>4. FieldsSet(rec) /\ rec.step \notin Holding \cup {"insert"}
        BY <2>3 DEF FieldsSet, Holding, Critical
    <2>5. req' = [req EXCEPT ![r] = rec] /\ UNCHANGED <<tables, avail, lock>>
        BY <1>4, <2>1 DEF AddRead
    <2> HIDE DEF rec
    <2> QED
        BY <2>2, <2>4, <2>5, SlotReads
<1>5. ASSUME NEW r \in Requests, AddLock(r) PROVE IInv'
    BY <1>5 DEF AddLock, IInv, TypeOK, Fields, FieldsSet, Holders, Absent, tables,
       OneRowPerVariant, RowsWithinStock, Request, Steps, Holding, Critical, Idle
<1>6. ASSUME NEW r \in Requests, AddLockUnseen(r) PROVE IInv'
    BY <1>6 DEF AddLockUnseen, IInv, TypeOK, Fields, FieldsSet, Holders, Absent, tables,
       OneRowPerVariant, RowsWithinStock, Request, Steps, Holding, Critical, Idle
<1>7. ASSUME NEW r \in Requests, AddFindCart(r) PROVE IInv'
    <2>1. /\ req[r].step \in Holding /\ UNCHANGED <<tables, avail, lock>>
          /\ req[r].user \in Users /\ req[r].qty \in 1..MaxAvail
          /\ req[r].variant \in Variants /\ req[r].step \in Critical
        BY <1>7, <1>a DEF AddFindCart, FieldsSet, Holding, Critical
    <2>2. CASE req' = [req EXCEPT ![r] = [req[r] EXCEPT !.step = "newCart"]]
        <3> DEFINE rec == [req[r] EXCEPT !.step = "newCart"]
        <3>1. rec \in Request /\ FieldsSet(rec) /\ rec.step = "newCart"
                /\ rec.variant = req[r].variant
            BY <1>a, <2>1 DEF Request, FieldsSet, Steps, Holding, Critical
        <3> QED
            BY <2>1, <2>2, <3>1, SlotReads
    <2>3. ASSUME NEW n \in ActiveCarts(req[r].user),
                 req' = [req EXCEPT ![r] = [req[r] EXCEPT !.step = "findItem", !.cart = n]]
          PROVE  IInv'
        <3> DEFINE rec == [req[r] EXCEPT !.step = "findItem", !.cart = n]
        <3>1. n \in CartIds
            BY <1>d, <2>1
        <3>2. rec \in Request /\ FieldsSet(rec) /\ rec.step = "findItem"
                /\ rec.variant = req[r].variant
            BY <1>a, <2>1, <3>1 DEF Request, FieldsSet, Steps, Holding, Critical
        <3> QED
            BY <2>1, <2>3, <3>2, SlotReads
    <2>4. [req[r] EXCEPT !.step = "newCart"].step = "newCart"
            /\ \A n : [req[r] EXCEPT !.step = "findItem", !.cart = n].step = "findItem"
        BY <1>a DEF Request
    <2> QED
        BY <1>7, <2>2, <2>3, <2>4 DEF AddFindCart
<1>8. ASSUME NEW r \in Requests, AddNewCart(r) PROVE IInv'
    <2>1. PICK n \in CartIds :
             /\ CreateCart(n, req[r].user)
             /\ Goto(r, [req[r] EXCEPT !.step = "findItem", !.cart = n])
        BY <1>8 DEF AddNewCart
    <2>2. /\ req[r].step \in Holding /\ UNCHANGED <<avail, lock>>
          /\ req[r].user \in Users /\ req[r].qty \in 1..MaxAvail
          /\ req[r].variant \in Variants
        BY <1>8, <1>a DEF AddNewCart, FieldsSet, Holding, Critical
    <2> DEFINE rec == [req[r] EXCEPT !.step = "findItem", !.cart = n]
    <2>3. rec \in Request /\ FieldsSet(rec) /\ rec.step = "findItem"
            /\ rec.variant = req[r].variant
        BY <1>a, <2>2 DEF Request, FieldsSet, Steps, Holding, Critical
    <2>4. carts' \subseteq Cart /\ UNCHANGED items
        BY <2>1, <2>2 DEF CreateCart, IInv, TypeOK, Cart
    <2>5. req' = [req EXCEPT ![r] = rec]
        BY <2>1, <2>3
    <2> HIDE DEF rec
    <2> QED
        BY <2>2, <2>3, <2>4, <2>5, SlotCreates
<1>9. ASSUME NEW r \in Requests, AddFindItem(r) PROVE IInv'
    <2>1. /\ req[r].step \in Critical /\ UNCHANGED <<tables, avail, lock>>
          /\ req[r].step \in Holding /\ req[r].qty \in 1..MaxAvail
          /\ req[r].user \in Users /\ req[r].variant \in Variants /\ req[r].cart \in CartIds
          /\ req[r].seen \in 0..MaxAvail
        BY <1>9, <1>a DEF AddFindItem, FieldsSet, Holding, Critical, Request
    <2>2. ASSUME RowsFor(req[r]) = {}, Goto(r, [req[r] EXCEPT !.step = "insert"])
          PROVE  IInv'
        <3> DEFINE rec == [req[r] EXCEPT !.step = "insert"]
        <3>1. rec \in Request /\ FieldsSet(rec) /\ rec.step = "insert"
                /\ rec.variant = req[r].variant /\ rec.cart = req[r].cart
            BY <1>a, <2>1 DEF Request, FieldsSet, Steps, Holding, Critical
        <3>2. \A i \in items : ~(i.cart = rec.cart /\ i.variant = rec.variant)
            BY <2>2, <3>1 DEF RowsFor, ItemsOf
        <3>3. req' = [req EXCEPT ![r] = rec]
            BY <2>2, <3>1
        <3> HIDE DEF rec
        <3> QED
            BY <2>1, <3>1, <3>2, <3>3, SlotReads
    <2>3. ASSUME NEW i \in RowsFor(req[r]), i.qty + req[r].qty <= req[r].seen,
                 Goto(r, [req[r] EXCEPT !.step = "merge", !.item = i.id,
                                        !.qty = i.qty + req[r].qty])
          PROVE  IInv'
        <3> DEFINE rec == [req[r] EXCEPT !.step = "merge", !.item = i.id,
                                         !.qty = i.qty + req[r].qty]
        <3>1. i.id \in ItemIds /\ i.qty + req[r].qty \in 1..MaxAvail
                /\ i.qty + req[r].qty \in 0..MaxAvail
            BY <1>e, <2>1, <2>3 DEF RowsFor, ItemsOf
        <3>2. rec \in Request
            BY <1>a, <3>1 DEF Request, Steps, Holding, Critical
        <3>3. rec.step = "merge" /\ rec.variant = req[r].variant /\ rec.cart = req[r].cart
                /\ rec.user = req[r].user /\ rec.qty = i.qty + req[r].qty
            BY <1>a DEF Request
        <3>4. req' = [req EXCEPT ![r] = rec]
            BY <2>3, <3>3
        <3> HIDE DEF rec
        <3>5. FieldsSet(rec)
            BY <2>1, <3>1, <3>3 DEF FieldsSet, Holding, Critical
        <3> QED
            BY <2>1, <3>2, <3>3, <3>4, <3>5, SlotReads
    <2>4. CASE Goto(r, Releasing(req[r], "none"))
        BY <1>c, <2>1, <2>4, SlotReads
    <2> HIDE DEF Goto
    <2> QED
        BY <1>9, <2>2, <2>3, <2>4 DEF AddFindItem
<1>10. ASSUME NEW r \in Requests, AddWrite(r) PROVE IInv'
    <2>1. /\ req[r].step \in Critical /\ req[r].step \in Holding
          /\ req[r].step \in {"merge", "insert"} /\ UNCHANGED <<avail, lock>>
          /\ req[r].user \in Users /\ req[r].variant \in Variants /\ req[r].cart \in CartIds
          /\ req[r].qty \in 1..MaxAvail
        BY <1>10, <1>a DEF AddWrite, FieldsSet, Holding, Critical
    <2> DEFINE rec == Releasing(req[r], "find")
    <2>2. /\ rec \in Request /\ FieldsSet(rec) /\ rec.step # "insert"
          /\ rec.variant = req[r].variant
        BY <1>c, <2>1
    <2>3. PICK x \in {rec, Idle} : req' = [req EXCEPT ![r] = x]
        BY <1>10 DEF AddWrite
    <2>4. carts' \subseteq Cart
        BY <1>10 DEF AddWrite, SetQuantity, InsertItem, IInv, TypeOK
    <2> HIDE DEF rec
    <2>5. CASE SetQuantity(req[r].item, req[r].qty)
        <3>1. req[r].item \in ItemIds
            BY <2>5, <1>e DEF SetQuantity
        <3>2. /\ items' \subseteq Item /\ OneRowPerVariant' /\ RowsWithinStock'
              /\ \A j \in items' : \E i \in items :
                    i.cart = j.cart /\ i.variant = j.variant
            BY <2>1, <2>5, <3>1, RowsStay
        <3>3. ~LeaseExpires =>
               \A s \in Requests \ {r} : req[s].step = "insert" =>
                   \A i \in items' : ~(i.cart = req[s].cart /\ i.variant = req[s].variant)
            BY <3>2, <1>f
        <3> QED
            BY <2>1, <2>2, <2>3, <2>4, <3>2, <3>3, SlotWrites
    <2>6. ASSUME NEW n \in ItemIds, req[r].step = "insert",
                 InsertItem(n, HeldItems, req[r].cart, req[r].variant, req[r].qty)
          PROVE  IInv'
        <3> DEFINE row == [id |-> n, cart |-> req[r].cart,
                           variant |-> req[r].variant, qty |-> req[r].qty]
        <3>1. items' = items \cup {row}
            BY <2>6 DEF InsertItem
        <3>2. /\ row \in Item /\ row.cart = req[r].cart
              /\ row.variant = req[r].variant /\ row.qty <= MaxAvail
            BY <2>1 DEF Item
        <3> HIDE DEF row
        <3>3. items' \subseteq Item /\ RowsWithinStock'
            BY <3>1, <3>2 DEF IInv, TypeOK, RowsWithinStock
        <3>4. OneRowPerVariant'
            BY <3>1, <3>2, <2>6, <1>f DEF IInv, OneRowPerVariant
        <3>5. ASSUME ~LeaseExpires, NEW s \in Requests \ {r}, req[s].step = "insert"
              PROVE  req[s].variant # req[r].variant
            BY <3>5, <2>1 DEF IInv, Holders, Holding, Critical
        <3>6. ~LeaseExpires =>
               \A s \in Requests \ {r} : req[s].step = "insert" =>
                   \A i \in items' : ~(i.cart = req[s].cart /\ i.variant = req[s].variant)
            BY <3>1, <3>2, <3>5, <1>f
        <3> QED
            BY <2>1, <2>2, <2>3, <2>4, <3>3, <3>4, <3>6, SlotWrites
    <2> HIDE DEF Goto
    <2> QED
        BY <1>10, <2>5, <2>6 DEF AddWrite
<1>11. ASSUME NEW r \in Requests, AddThrows(r) PROVE IInv'
    <2>1. /\ req[r].step \in Critical /\ UNCHANGED <<tables, avail, lock>>
        BY <1>11 DEF AddThrows
    <2> DEFINE rec == Releasing(req[r], "none")
    <2>2. PICK x \in {rec, Idle} : req' = [req EXCEPT ![r] = x]
        BY <1>11 DEF AddThrows
    <2>3. /\ rec \in Request /\ FieldsSet(rec) /\ rec.step # "insert"
          /\ rec.variant = req[r].variant /\ req[r].step \in Holding
        BY <1>c, <2>1
    <2> HIDE DEF rec
    <2> QED
        BY <2>1, <2>2, <2>3, SlotReads
<1>12. ASSUME NEW r \in Requests, ReleaseGet(r) PROVE IInv'
    BY <1>12 DEF ReleaseGet, IInv, TypeOK, Fields, FieldsSet, Holders, Absent, tables,
       OneRowPerVariant, RowsWithinStock, Request, Steps, Holding, Critical, Idle
<1>13. ASSUME NEW r \in Requests, ReleaseDel(r) PROVE IInv'
    BY <1>13 DEF ReleaseDel, IInv, TypeOK, Fields, FieldsSet, Holders, Absent, tables,
       OneRowPerVariant, RowsWithinStock, Request, Steps, Holding, Critical, Idle
<1>14. ASSUME NEW r \in Requests, ReleaseFails(r) PROVE IInv'
    BY <1>14 DEF ReleaseFails, IInv, TypeOK, Fields, FieldsSet, Holders, Absent, tables,
       OneRowPerVariant, RowsWithinStock, Request, Steps, Holding, Critical, Idle
<1>15. ASSUME NEW r \in Requests, UpdateRead(r) PROVE IInv'
    <2>1. PICK i \in items, u \in Users, n \in 1..MaxAvail :
             req' = [req EXCEPT ![r] = [Idle EXCEPT !.step = "update", !.user = u,
                                                    !.item = i.id, !.qty = n]]
        BY <1>15 DEF UpdateRead
    <2> DEFINE rec == [Idle EXCEPT !.step = "update", !.user = u, !.item = i.id, !.qty = n]
    <2>2. n \in 0..MaxAvail /\ i.id \in ItemIds
        BY <1>e
    <2>3. rec \in Request
        BY <1>i, <2>2 DEF Request, Steps
    <2>4. rec.step = "update" /\ rec.user = u /\ rec.qty = n
        BY <1>i DEF Request
    <2>5. req' = [req EXCEPT ![r] = rec] /\ UNCHANGED <<tables, avail, lock>>
        BY <1>15, <2>1 DEF UpdateRead
    <2> HIDE DEF rec
    <2>6. FieldsSet(rec) /\ rec.step \notin Holding \cup {"insert"}
        BY <2>4, <1>i DEF FieldsSet, Holding, Critical
    <2> QED
        BY <2>3, <2>5, <2>6, SlotReads
<1>16. ASSUME NEW r \in Requests, RemoveRead(r) PROVE IInv'
    <2>1. PICK i \in items, u \in Users :
             req' = [req EXCEPT ![r] = [Idle EXCEPT !.step = "remove", !.user = u,
                                                    !.item = i.id]]
        BY <1>16 DEF RemoveRead
    <2> DEFINE rec == [Idle EXCEPT !.step = "remove", !.user = u, !.item = i.id]
    <2>2. rec \in Request
        BY <1>i, <1>e DEF Request, Steps
    <2>3. rec.step = "remove" /\ rec.user = u
        BY <1>i DEF Request
    <2>4. req' = [req EXCEPT ![r] = rec] /\ UNCHANGED <<tables, avail, lock>>
        BY <1>16, <2>1 DEF RemoveRead
    <2> HIDE DEF rec
    <2>5. FieldsSet(rec) /\ rec.step \notin Holding \cup {"insert"}
        BY <2>3, <1>i DEF FieldsSet, Holding, Critical
    <2> QED
        BY <2>2, <2>4, <2>5, SlotReads
<1>17. ASSUME NEW r \in Requests, UpdateWrite(r) PROVE IInv'
    <2>1. req[r].user \in Users /\ req[r].qty \in 1..MaxAvail /\ UNCHANGED <<avail, lock>>
        BY <1>17, <1>a DEF UpdateWrite, FieldsSet
    <2> DEFINE rec == Answer(req[r].user)
    <2>2. rec \in Request /\ FieldsSet(rec) /\ rec.step \notin Holding \cup {"insert"}
        BY <1>b, <2>1
    <2>3. PICK x \in {rec, Idle} : req' = [req EXCEPT ![r] = x]
        BY <1>17 DEF UpdateWrite
    <2>4. SetQuantity(req[r].item, req[r].qty) /\ req[r].item \in ItemIds
        BY <1>17, <1>e DEF UpdateWrite, SetQuantity
    <2>5. carts' \subseteq Cart
        BY <2>4 DEF SetQuantity, IInv, TypeOK
    <2>6. /\ items' \subseteq Item /\ OneRowPerVariant' /\ RowsWithinStock'
          /\ \A j \in items' : \E i \in items : i.cart = j.cart /\ i.variant = j.variant
        BY <2>1, <2>4, RowsStay
    <2>7. ~LeaseExpires =>
            \A s \in Requests \ {r} : req[s].step = "insert" =>
                \A i \in items' : ~(i.cart = req[s].cart /\ i.variant = req[s].variant)
        BY <2>6, <1>f
    <2> HIDE DEF rec
    <2> QED
        BY <2>1, <2>2, <2>3, <2>5, <2>6, <2>7, SlotWrites
<1>18. ASSUME NEW r \in Requests, RemoveWrite(r) PROVE IInv'
    <2>1. req[r].user \in Users /\ UNCHANGED <<avail, lock>>
        BY <1>18, <1>a DEF RemoveWrite, FieldsSet
    <2> DEFINE rec == Answer(req[r].user)
    <2>2. rec \in Request /\ FieldsSet(rec) /\ rec.step \notin Holding \cup {"insert"}
        BY <1>b, <2>1
    <2>3. PICK x \in {rec, Idle} : req' = [req EXCEPT ![r] = x]
        BY <1>18 DEF RemoveWrite
    <2>4. items' \subseteq items /\ carts' \subseteq Cart
        BY <1>18 DEF RemoveWrite, DeleteItem, IInv, TypeOK
    <2>5. items' \subseteq Item /\ OneRowPerVariant' /\ RowsWithinStock'
        BY <2>4, RowsStay
    <2>6. ~LeaseExpires =>
            \A s \in Requests \ {r} : req[s].step = "insert" =>
                \A i \in items' : ~(i.cart = req[s].cart /\ i.variant = req[s].variant)
        BY <2>4, <1>f
    <2> HIDE DEF rec
    <2> QED
        BY <2>1, <2>2, <2>3, <2>4, <2>5, <2>6, SlotWrites
<1>19. ASSUME NEW r \in Requests, ClearRead(r) \/ TailRead(r) PROVE IInv'
    <2>1. PICK u \in Users, n \in CartIds, t \in {"clear", "empty"} :
             req' = [req EXCEPT ![r] = [Idle EXCEPT !.step = t, !.cart = n]]
        BY <1>19, <1>d DEF ClearRead, TailRead
    <2> DEFINE rec == [Idle EXCEPT !.step = t, !.cart = n]
    <2>2. rec \in Request
        BY <1>i DEF Request, Steps
    <2>3. rec.step = t /\ rec.cart = n /\ rec.view = "none"
        BY <1>i DEF Request
    <2>4. req' = [req EXCEPT ![r] = rec] /\ UNCHANGED <<tables, avail, lock>>
        BY <1>19, <2>1 DEF ClearRead, TailRead
    <2> HIDE DEF rec
    <2>5. FieldsSet(rec) /\ rec.step \notin Holding \cup {"insert"}
        BY <2>3, <1>i DEF FieldsSet, Holding, Critical
    <2> QED
        BY <2>2, <2>4, <2>5, SlotReads
<1>20. ASSUME NEW r \in Requests, ClearWrite(r) PROVE IInv'
    BY <1>20 DEF ClearWrite, IInv, TypeOK, Fields, FieldsSet, Holders, Absent, tables,
       OneRowPerVariant, RowsWithinStock, Request, Steps, Holding, Critical, Idle,
       ItemsOf, EmptyCart
<1>21. ASSUME NEW r \in Requests, TailEmpty(r) PROVE IInv'
    BY <1>21 DEF TailEmpty, IInv, TypeOK, Fields, FieldsSet, Holders, Absent, tables,
       OneRowPerVariant, RowsWithinStock, Request, Steps, Holding, Critical, Idle,
       ItemsOf, EmptyCart
<1>22. ASSUME NEW r \in Requests, TailComplete(r) PROVE IInv'
    BY <1>22 DEF TailComplete, IInv, TypeOK, Fields, FieldsSet, Holders, Absent, tables,
       OneRowPerVariant, RowsWithinStock, Request, Steps, Holding, Critical, Idle,
       CompleteCart, Cart
<1>23. ASSUME NEW r \in Requests, Abandon(r) PROVE IInv'
    BY <1>23 DEF Abandon, IInv, TypeOK, Fields, FieldsSet, Holders, Absent, tables,
       OneRowPerVariant, RowsWithinStock, Request, Steps, Holding, Critical, Idle
<1>24. ASSUME NEW v \in Variants, LeaseEnds(v) PROVE IInv'
    BY <1>24 DEF LeaseEnds, IInv, TypeOK, Fields, FieldsSet, Holders, Absent, tables,
       OneRowPerVariant, RowsWithinStock, Request, Steps, Holding, Critical, Idle
<1>25. ASSUME NEW v \in Variants, StockMoves(v) PROVE IInv'
    BY <1>25 DEF StockMoves, IInv, TypeOK, Fields, FieldsSet, Holders, Absent, tables,
       OneRowPerVariant, RowsWithinStock, Request, Steps, Holding, Critical, Idle
<1>26. CASE UNCHANGED vars
    BY <1>26 DEF vars, IInv, TypeOK, Fields, FieldsSet, Holders, Absent, tables,
       OneRowPerVariant, RowsWithinStock, Request, Steps, Holding, Critical, Idle
<1> QED
    BY <1>1, <1>2, <1>3, <1>4, <1>5, <1>6, <1>7, <1>8, <1>9, <1>10, <1>11, <1>12,
       <1>13, <1>14, <1>15, <1>16, <1>17, <1>18, <1>19, <1>20, <1>21, <1>22, <1>23,
       <1>24, <1>25, <1>26 DEF Next, Handler

LEMMA CartInvariant == Spec => []IInv
<1> QED
    BY CartInit, CartStep, PTL DEF Spec

\* Every row of the tables, every lock key and every request in flight has
\* its type, for any number of users, variants and concurrent handlers.
THEOREM CartTypeCorrect == Spec => []TypeOK
<1>1. IInv => TypeOK
    BY DEF IInv
<1> QED
    BY <1>1, CartInvariant, PTL

\* addItem inserts no second row of a variant into a cart while the lease of
\* its lock outlives it (cart.service.ts, lines 69 to 121).
THEOREM OneRow == Spec => []OneRowPerVariant
<1>1. IInv => OneRowPerVariant
    BY DEF IInv
<1> QED
    BY <1>1, CartInvariant, PTL

\* No sequence of merges, updates and stale reads makes a row ask for more
\* units than the variant ever had available, lease or no lease.
THEOREM RowsBounded == Spec => []RowsWithinStock
<1>1. IInv => RowsWithinStock
    BY DEF IInv
<1> QED
    BY <1>1, CartInvariant, PTL

(***************************************************************************)
(* The requests as clients of RedisLock                                    *)
(***************************************************************************)
Stages == [r \in Requests |-> LockStage(req[r])]

LEMMA StageMoves ==
    ASSUME IInv, NEW r \in Requests, NEW x, req' = [req EXCEPT ![r] = x]
    PROVE  Stages' = [Stages EXCEPT ![r] = LockStage(x)]
BY DEF IInv, TypeOK, Stages

\* Steps on which the lock does not look: the slot stays outside, or stays
\* between acquire and the read of release with its variant.
LEMMA StageStays ==
    ASSUME IInv, NEW r \in Requests, NEW x, req' = [req EXCEPT ![r] = x], lock' = lock,
           \/ req[r].step \notin Holding /\ x.step \notin Holding
           \/ x.step = req[r].step /\ x.variant = req[r].variant
           \/ /\ {req[r].step, x.step} \subseteq Critical \cup {"release"}
              /\ x.variant = req[r].variant
    PROVE  UNCHANGED <<lock, Stages>>
<1>1. LockStage(x) = LockStage(req[r])
    BY DEF LockStage, Holding, Critical
<1> QED
    BY <1>1, StageMoves DEF Stages

LEMMA LockInitially == Init => Lock!Init
BY DEF Init, Lock!Init, LockStage, Lock!Outside, Idle, Critical

LEMMA LockStep == IInv /\ [Next]_vars => [Lock!Next]_(Lock!lockVars)
<1> SUFFICES ASSUME IInv, [Next]_vars
             PROVE  Lock!Next \/ UNCHANGED <<lock, Stages>>
    BY DEF Lock!lockVars, Stages
<1> USE DEF Start, Goto, Finish
<1>i. Idle.step = "idle" /\ Idle.view = "none"
    BY DEF Idle
<1>a. ASSUME NEW r \in Requests PROVE req[r] \in Request
    BY DEF IInv, TypeOK
<1>1. ASSUME NEW r \in Requests, GetCart(r) \/ AddRead(r) \/ UpdateRead(r) \/ RemoveRead(r)
                                  \/ ClearRead(r) \/ TailRead(r)
      PROVE  UNCHANGED <<lock, Stages>>
    BY <1>1, <1>i, StageStays
       DEF GetCart, AddRead, UpdateRead, RemoveRead, ClearRead, TailRead, Answer,
           Holding, Critical, Idle
<1>2. ASSUME NEW r \in Requests, ViewFind(r) \/ ViewCreate(r)
      PROVE  UNCHANGED <<lock, Stages>>
    BY <1>2, <1>i, <1>a, StageStays DEF ViewFind, ViewCreate, Holding, Critical, Request
<1>3. ASSUME NEW r \in Requests, AddLock(r) PROVE Lock!Next
    <2> DEFINE k == req[r].variant
    <2>1. /\ k \in Variants /\ Stages[r] = Lock!Outside
          /\ lock[k] = Free /\ lock' = [lock EXCEPT ![k] = r]
        BY <1>3 DEF AddLock, IInv, Fields, FieldsSet, Stages, LockStage, Lock!Outside, Critical
    <2> DEFINE x == [req[r] EXCEPT !.step = "findCart"]
    <2>x. x.step = "findCart" /\ x.variant = k
        BY <1>a DEF Request
    <2>y. req' = [req EXCEPT ![r] = x]
        BY <1>3, <2>x DEF AddLock
    <2> HIDE DEF x
    <2>2. Stages' = [Stages EXCEPT ![r] = [at |-> "in", key |-> k]]
        BY <2>x, <2>y, StageMoves DEF LockStage, Critical
    <2>3. Lock!Acquire(r, k)
        BY <2>1, <2>2 DEF Lock!Acquire, Lock!MoveTo, Stages
    <2> QED
        BY <2>1, <2>3 DEF Lock!Next
<1>4. ASSUME NEW r \in Requests, AddLockUnseen(r) PROVE Lock!Next
    <2> DEFINE k == req[r].variant
    <2>1. /\ k \in Variants /\ Stages[r] = Lock!Outside
          /\ lock[k] = Free /\ lock' = [lock EXCEPT ![k] = r]
        BY <1>4 DEF AddLockUnseen, IInv, Fields, FieldsSet, Stages, LockStage,
                    Lock!Outside, Critical
    <2>2. Stages' = Stages
        BY <1>4, <1>i, <2>1, StageMoves DEF AddLockUnseen, LockStage, Critical,
           Lock!Outside, Stages
    <2>3. Lock!AcquireUnseen(r, k)
        BY <2>1, <2>2 DEF Lock!AcquireUnseen, Stages
    <2> QED
        BY <2>1, <2>3 DEF Lock!Next
<1>c. ASSUME NEW r \in Requests, NEW w
      PROVE  /\ Releasing(req[r], w).step = "release"
             /\ Releasing(req[r], w).variant = req[r].variant
    BY DEF Releasing, Idle
<1>5. ASSUME NEW r \in Requests, NEW x, req[r].step \in Critical, lock' = lock, Goto(r, x),
             x.step \in Critical \cup {"release"}, x.variant = req[r].variant
      PROVE  UNCHANGED <<lock, Stages>>
    BY <1>5, StageStays DEF Critical
<1>5a. ASSUME NEW r \in Requests, AddFindCart(r) PROVE UNCHANGED <<lock, Stages>>
    <2>1. req[r].step \in Critical /\ lock' = lock
        BY <1>5a DEF AddFindCart, Critical
    <2>2. PICK x : Goto(r, x) /\ x.step \in Critical /\ x.variant = req[r].variant
        <3>1. ASSUME NEW n PROVE [req[r] EXCEPT !.step = "findItem", !.cart = n].step = "findItem"
                /\ [req[r] EXCEPT !.step = "findItem", !.cart = n].variant = req[r].variant
            BY <1>a DEF Request
        <3>2. [req[r] EXCEPT !.step = "newCart"].step = "newCart"
                /\ [req[r] EXCEPT !.step = "newCart"].variant = req[r].variant
            BY <1>a DEF Request
        <3> HIDE DEF Goto
        <3> QED
            BY <1>5a, <3>1, <3>2 DEF AddFindCart, Critical
    <2> QED
        BY <1>5, <2>1, <2>2
<1>5b. ASSUME NEW r \in Requests, AddNewCart(r) PROVE UNCHANGED <<lock, Stages>>
    <2>1. req[r].step \in Critical /\ lock' = lock
        BY <1>5b DEF AddNewCart, Critical
    <2>2. PICK n : Goto(r, [req[r] EXCEPT !.step = "findItem", !.cart = n])
        BY <1>5b DEF AddNewCart
    <2> DEFINE x == [req[r] EXCEPT !.step = "findItem", !.cart = n]
    <2>3. x.step = "findItem" /\ x.variant = req[r].variant
        BY <1>a DEF Request
    <2>4. Goto(r, x)
        BY <2>2
    <2> HIDE DEF x, Goto
    <2> QED
        BY <1>5, <2>1, <2>3, <2>4 DEF Critical
<1>5c. ASSUME NEW r \in Requests, AddFindItem(r) PROVE UNCHANGED <<lock, Stages>>
    <2>1. req[r].step \in Critical /\ lock' = lock
        BY <1>5c DEF AddFindItem, Critical
    <2> DEFINE ins == [req[r] EXCEPT !.step = "insert"]
               merge(i) == [req[r] EXCEPT !.step = "merge", !.item = i.id,
                                          !.qty = i.qty + req[r].qty]
               out == Releasing(req[r], "none")
    <2>2. ins.step = "insert" /\ ins.variant = req[r].variant
        BY <1>a DEF Request
    <2>3. \A i : merge(i).step = "merge" /\ merge(i).variant = req[r].variant
        BY <1>a DEF Request
    <2> HIDE DEF Goto
    <2>4. Goto(r, ins) \/ (\E i \in items : Goto(r, merge(i))) \/ Goto(r, out)
        BY <1>5c DEF AddFindItem, RowsFor, ItemsOf
    <2>5. out.step = "release" /\ out.variant = req[r].variant
        BY <1>c
    <2> HIDE DEF ins, merge, out
    <2> QED
        BY <1>5, <2>1, <2>2, <2>3, <2>4, <2>5 DEF Critical
<1>5d. ASSUME NEW r \in Requests, AddWrite(r) \/ AddThrows(r)
       PROVE  UNCHANGED <<lock, Stages>>
    <2>1. req[r].step \in Critical /\ lock' = lock
        BY <1>5d DEF AddWrite, AddThrows, Critical
    <2>2. PICK w : Goto(r, Releasing(req[r], w))
        BY <1>5d DEF AddWrite, AddThrows
    <2> QED
        BY <1>5, <1>c, <2>1, <2>2
<1>6. ASSUME NEW r \in Requests, ReleaseGet(r) PROVE Lock!Next
    <2> DEFINE k == req[r].variant
    <2>1. k \in Variants /\ Stages[r] = [at |-> "in", key |-> k] /\ lock' = lock
        BY <1>6 DEF ReleaseGet, IInv, Fields, FieldsSet, Stages, LockStage, Holding
    <2>2. PICK x : /\ req' = [req EXCEPT ![r] = x]
                   /\ lock[k] = r => x.step = "unlock" /\ x.variant = k
                   /\ lock[k] # r => x.step \in {"done", "idle"}
        <3> DEFINE s == IF lock[k] = r THEN "unlock" ELSE "done"
                   x == [req[r] EXCEPT !.step = s]
        <3>1. x.step = s /\ x.variant = k
            BY <1>a DEF Request
        <3>2. req' = [req EXCEPT ![r] = x] \/ (s = "done" /\ req' = [req EXCEPT ![r] = Idle])
            BY <1>6, <3>1 DEF ReleaseGet
        <3> HIDE DEF x
        <3> QED
            BY <3>1, <3>2, <1>i
    <2>3. Stages' = [Stages EXCEPT ![r] = LockStage(x)]
        BY <2>2, StageMoves
    <2>4. LockStage(x) = IF lock[k] = r THEN [at |-> "leaving", key |-> k] ELSE Lock!Outside
        BY <2>2 DEF LockStage, Critical, Lock!Outside
    <2>5. Lock!ReleaseGet(r, k)
        BY <2>1, <2>3, <2>4 DEF Lock!ReleaseGet, Lock!MoveTo, Stages
    <2> QED
        BY <2>1, <2>5 DEF Lock!Next
<1>7. ASSUME NEW r \in Requests, ReleaseDel(r) PROVE Lock!Next
    <2> DEFINE k == req[r].variant
    <2>1. /\ k \in Variants /\ Stages[r] = [at |-> "leaving", key |-> k]
          /\ lock' = [lock EXCEPT ![k] = Free]
        BY <1>7 DEF ReleaseDel, IInv, Fields, FieldsSet, Stages, LockStage, Holding, Critical
    <2>2. PICK x : req' = [req EXCEPT ![r] = x] /\ x.step \in {"done", "idle"}
        <3> DEFINE x == [req[r] EXCEPT !.step = "done"]
        <3>1. x.step = "done"
            BY <1>a DEF Request
        <3>2. req' = [req EXCEPT ![r] = x] \/ req' = [req EXCEPT ![r] = Idle]
            BY <1>7 DEF ReleaseDel
        <3> HIDE DEF x
        <3> QED
            BY <3>1, <3>2, <1>i
    <2>3. Stages' = [Stages EXCEPT ![r] = Lock!Outside]
        BY <2>2, StageMoves DEF LockStage, Critical, Lock!Outside
    <2>4. Lock!ReleaseDel(r, k)
        BY <2>1, <2>3 DEF Lock!ReleaseDel, Lock!MoveTo, Stages
    <2> QED
        BY <2>1, <2>4 DEF Lock!Next
<1>8. ASSUME NEW r \in Requests, ReleaseFails(r) \/ Abandon(r)
      PROVE  Lock!Next \/ UNCHANGED <<lock, Stages>>
    <2>1. PICK x : /\ req' = [req EXCEPT ![r] = x] /\ x.step \in {"done", "idle"}
                   /\ lock' = lock
        BY <1>8, <1>i, <1>a DEF ReleaseFails, Abandon, Request
    <2>2. Stages' = [Stages EXCEPT ![r] = Lock!Outside]
        BY <2>1, StageMoves DEF LockStage, Critical, Lock!Outside
    <2>3. CASE Stages[r] = Lock!Outside
        BY <2>1, <2>2, <2>3 DEF Stages
    <2>4. CASE Stages[r] # Lock!Outside
        BY <2>1, <2>2, <2>4 DEF Lock!Next, Lock!Leave, Lock!MoveTo, Stages
    <2> QED
        BY <2>3, <2>4
<1>9. ASSUME NEW r \in Requests, UpdateWrite(r) \/ RemoveWrite(r) \/ ClearWrite(r)
                                  \/ TailEmpty(r) \/ TailComplete(r)
      PROVE  UNCHANGED <<lock, Stages>>
    <2>1. PICK x : /\ req' = [req EXCEPT ![r] = x] /\ lock' = lock
                   /\ x.step \in {"done", "idle", "complete"}
        <3>1. [req[r] EXCEPT !.step = "complete"].step = "complete"
            BY <1>a DEF Request
        <3>2. Answer(req[r].user).step = "done"
            BY DEF Answer, Idle
        <3>3. CASE TailEmpty(r)
            BY <3>1, <3>3 DEF TailEmpty
        <3>4. CASE UpdateWrite(r) \/ RemoveWrite(r)
            BY <3>2, <3>4, <1>i DEF UpdateWrite, RemoveWrite
        <3>5. CASE ClearWrite(r) \/ TailComplete(r)
            BY <3>5, <1>i DEF ClearWrite, TailComplete
        <3> QED
            BY <1>9, <3>3, <3>4, <3>5
    <2>2. req[r].step \notin Holding
        BY <1>9 DEF UpdateWrite, RemoveWrite, ClearWrite, TailEmpty, TailComplete,
                    Holding, Critical
    <2> QED
        BY <2>1, <2>2, StageStays DEF Holding, Critical
<1>10. ASSUME NEW v \in Variants, LeaseEnds(v) PROVE Lock!Next
    <2>1. ASSUME NEW r \in Requests, Stages[r] \in {[at |-> "in", key |-> v],
                                                   [at |-> "leaving", key |-> v]}
          PROVE  req[r].step \in Holding /\ req[r].variant = v
        BY <2>1 DEF Stages, LockStage, Holding
    <2>2. Lock!Expire(v)
        BY <1>10, <2>1 DEF LeaseEnds, Lock!Expire, Lock!Inside, Stages
    <2> QED
        BY <2>2 DEF Lock!Next
<1>11. ASSUME NEW v \in Variants, StockMoves(v) PROVE UNCHANGED <<lock, Stages>>
    BY <1>11 DEF StockMoves, Stages
<1>12. CASE UNCHANGED vars
    BY <1>12 DEF vars, Stages
<1> QED
    BY <1>1, <1>2, <1>3, <1>4, <1>5a, <1>5b, <1>5c, <1>5d, <1>6, <1>7, <1>8,
       <1>9, <1>10, <1>11, <1>12 DEF Next, Handler

\* Every execution of the cart is one of RedisLock: addItem, its exceptions,
\* crashes and lost commands included, uses the lock as its client would.
THEOREM CartUsesLock == Spec => LockSpec
<1> QED
    BY LockInitially, LockStep, CartInvariant, PTL DEF Spec, LockSpec, Lock!Spec
==============================================================================
