---------------------------- MODULE ShoppingCart -----------------------------
(***************************************************************************)
(* CartService under concurrent requests, with the lock of RedisLock and   *)
(* the steps of CheckoutService that put an ordered cart away.             *)
(*                                                                         *)
(* A request slot stands for one handler and for the identifier it locks   *)
(* with, user and millisecond: should two handlers share one, SET NX still *)
(* admits the second only after the first has let go.                      *)
(*                                                                         *)
(* A request slot walks the await points of its handler.  addItem takes    *)
(* the lock of the variant, finds or creates the cart, then finds and      *)
(* merges or inserts the row; the availability it compares with was read   *)
(* before the lock.  No other handler takes the lock.                      *)
(*                                                                         *)
(* Every handler but clearCart answers with getActiveCart, which creates a *)
(* cart when there is none.  addItem returns that promise without awaiting *)
(* it, so its finally block releases the lock while getActiveCart runs:    *)
(* the field view is the state of that call, next to the handler's step.   *)
(***************************************************************************)
EXTENDS CartTables

CONSTANTS
    Requests,      \* request slots; a slot is also its lock identifier
    MaxAvail,      \* bound on the available units of a variant
    Free,          \* the lock's key does not exist
    LeaseExpires,  \* whether the 5 s lease may end while its holder works
    NoRef          \* a field of a request that is not set

ASSUME MaxAvailAssumption == MaxAvail \in Nat
ASSUME LockAssumption == Free \notin Requests /\ LeaseExpires \in BOOLEAN
ASSUME RefAssumption == NoRef \notin Users \cup Variants \cup CartIds \cup ItemIds

VARIABLES
    avail,         \* avail[v]: quantity - reserved of the variant
    lock,          \* lock[v]: the identifier under lock:variant:{v}, or Free
    req            \* the requests in flight

vars == <<carts, items, avail, lock, req>>
------------------------------------------------------------------------------
\* Between acquire and release of addItem.
Critical == {"findCart", "newCart", "findItem", "merge", "insert"}
Holding == Critical \cup {"release", "unlock"}
Steps == Holding \cup {"idle", "lock", "update", "remove", "clear",
                       "empty", "complete", "done"}

Idle == [step |-> "idle", user |-> NoRef, variant |-> NoRef, qty |-> 0, seen |-> 0,
         cart |-> NoRef, item |-> NoRef, view |-> "none"]

Request == [step : Steps, user : Users \cup {NoRef}, variant : Variants \cup {NoRef},
            qty : 0..MaxAvail, seen : 0..MaxAvail, cart : CartIds \cup {NoRef},
            item : ItemIds \cup {NoRef}, view : {"none", "find", "create"}]

Start(r, rec) == req[r] = Idle /\ req' = [req EXCEPT ![r] = rec]

\* The slot is free again once the handler is done and its view answered.
Goto(r, rec) ==
    req' = [req EXCEPT ![r] = IF rec.step = "done" /\ rec.view = "none" THEN Idle ELSE rec]

Finish(r) == req' = [req EXCEPT ![r] = Idle]
HeldItems == {req[r].item : r \in Requests}

\* What is left of addItem after its write: release, answer, nothing else.
Releasing(q, view) ==
    [Idle EXCEPT !.step = "release", !.user = q.user, !.variant = q.variant, !.view = view]
Answer(u) == [Idle EXCEPT !.step = "done", !.user = u, !.view = "find"]
------------------------------------------------------------------------------
Init ==
    /\ TablesEmpty
    /\ avail \in [Variants -> 0..MaxAvail]
    /\ lock = [v \in Variants |-> Free]
    /\ req = [r \in Requests |-> Idle]

(***************************************************************************)
(* GET /cart, and the answer of the other handlers                         *)
(***************************************************************************)
GetCart(r) ==
    /\ \E u \in Users : Start(r, Answer(u))
    /\ UNCHANGED <<tables, avail, lock>>

ViewFind(r) ==
    LET q == req[r]
    IN  /\ q.view = "find"
        /\ Goto(r, [q EXCEPT !.view =
                      IF ActiveCarts(q.user) = {} THEN "create" ELSE "none"])
        /\ UNCHANGED <<tables, avail, lock>>

ViewCreate(r) ==
    LET q == req[r]
    IN  /\ q.view = "create"
        /\ \E n \in CartIds : CreateCart(n, q.user)
        /\ Goto(r, [q EXCEPT !.view = "none"])
        /\ UNCHANGED <<avail, lock>>

(***************************************************************************)
(* POST /cart/items                                                        *)
(***************************************************************************)
AddRead(r) ==
    /\ \E u \in Users, v \in Variants, n \in 1..MaxAvail :
          /\ avail[v] >= n
          /\ Start(r, [Idle EXCEPT !.step = "lock", !.user = u, !.variant = v,
                                   !.qty = n, !.seen = avail[v]])
    /\ UNCHANGED <<tables, avail, lock>>

\* Wrong on purpose (mutation): the result of acquire is not looked at.
AddLockIgnored(r) ==
    LET q == req[r]
    IN  /\ q.step = "lock"
        /\ lock' = [lock EXCEPT ![q.variant] = IF @ = Free THEN r ELSE @]
        /\ Goto(r, [q EXCEPT !.step = "findCart"])
        /\ UNCHANGED <<tables, avail>>

AddLock(r) ==
    LET q == req[r]
    IN  /\ q.step = "lock"
        /\ lock[q.variant] = Free
        /\ lock' = [lock EXCEPT ![q.variant] = r]
        /\ Goto(r, [q EXCEPT !.step = "findCart"])
        /\ UNCHANGED <<tables, avail>>

\* The key is set but acquire reports a failure: "Variant is busy".
AddLockUnseen(r) ==
    LET q == req[r]
    IN  /\ q.step = "lock"
        /\ lock[q.variant] = Free
        /\ lock' = [lock EXCEPT ![q.variant] = r]
        /\ Finish(r)
        /\ UNCHANGED <<tables, avail>>

AddFindCart(r) ==
    LET q == req[r]
    IN  /\ q.step = "findCart"
        /\ \/ /\ ActiveCarts(q.user) = {}
              /\ Goto(r, [q EXCEPT !.step = "newCart"])
           \/ \E n \in ActiveCarts(q.user) :
                 Goto(r, [q EXCEPT !.step = "findItem", !.cart = n])
        /\ UNCHANGED <<tables, avail, lock>>

AddNewCart(r) ==
    LET q == req[r]
    IN  /\ q.step = "newCart"
        /\ \E n \in CartIds :
              /\ CreateCart(n, q.user)
              /\ Goto(r, [q EXCEPT !.step = "findItem", !.cart = n])
        /\ UNCHANGED <<avail, lock>>

RowsFor(q) == {i \in ItemsOf(q.cart) : i.variant = q.variant}

\* Wrong on purpose (mutation): the merged quantity is not compared.
AddFindItemUnchecked(r) ==
    LET q == req[r]
    IN  /\ q.step = "findItem"
        /\ \/ /\ RowsFor(q) = {}
              /\ Goto(r, [q EXCEPT !.step = "insert"])
           \/ \E i \in RowsFor(q) :
                 Goto(r, [q EXCEPT !.step = "merge", !.item = i.id, !.qty = i.qty + q.qty])
        /\ UNCHANGED <<tables, avail, lock>>

AddFindItem(r) ==
    LET q == req[r]
    IN  /\ q.step = "findItem"
        /\ \/ /\ RowsFor(q) = {}
              /\ Goto(r, [q EXCEPT !.step = "insert"])
           \/ \E i \in RowsFor(q) :
                 IF i.qty + q.qty <= q.seen
                 THEN Goto(r, [q EXCEPT !.step = "merge", !.item = i.id,
                                        !.qty = i.qty + q.qty])
                 ELSE Goto(r, Releasing(q, "none"))
        /\ UNCHANGED <<tables, avail, lock>>

AddWrite(r) ==
    LET q == req[r]
    IN  /\ \/ q.step = "merge" /\ SetQuantity(q.item, q.qty)
           \/ /\ q.step = "insert"
              /\ \E n \in ItemIds :
                    InsertItem(n, HeldItems, q.cart, q.variant, q.qty)
        /\ Goto(r, Releasing(q, "find"))
        /\ UNCHANGED <<avail, lock>>

\* A query of the critical section throws (the row to merge into is gone, the
\* database is away): the finally block still runs.
AddThrows(r) ==
    /\ req[r].step \in Critical
    /\ Goto(r, Releasing(req[r], "none"))
    /\ UNCHANGED <<tables, avail, lock>>

ReleaseGet(r) ==
    LET q == req[r]
    IN  /\ q.step = "release"
        /\ Goto(r, [q EXCEPT !.step = IF lock[q.variant] = r THEN "unlock" ELSE "done"])
        /\ UNCHANGED <<tables, avail, lock>>

ReleaseDel(r) ==
    LET q == req[r]
    IN  /\ q.step = "unlock"
        /\ lock' = [lock EXCEPT ![q.variant] = Free]
        /\ Goto(r, [q EXCEPT !.step = "done"])
        /\ UNCHANGED <<tables, avail>>

\* The release is lost on the way to Redis; errors are swallowed.
ReleaseFails(r) ==
    /\ req[r].step \in {"release", "unlock"}
    /\ Goto(r, [req[r] EXCEPT !.step = "done"])
    /\ UNCHANGED <<tables, avail, lock>>

\* The lease ends: Redis drops the key.
LeaseEnds(v) ==
    /\ lock[v] # Free
    /\ LeaseExpires \/ \A r \in Requests :
          ~(req[r].step \in Holding /\ req[r].variant = v)
    /\ lock' = [lock EXCEPT ![v] = Free]
    /\ UNCHANGED <<tables, avail, req>>

(***************************************************************************)
(* PATCH and DELETE /cart/items/:id, POST /cart/clear                      *)
(***************************************************************************)
UpdateRead(r) ==
    /\ \E i \in items, u \in Users, n \in 1..MaxAvail :
          /\ u \in CartOwner(i.cart)
          /\ avail[i.variant] >= n
          /\ Start(r, [Idle EXCEPT !.step = "update", !.user = u, !.item = i.id,
                                   !.qty = n])
    /\ UNCHANGED <<tables, avail, lock>>

UpdateWrite(r) ==
    LET q == req[r]
    IN  /\ q.step = "update"
        /\ SetQuantity(q.item, q.qty)
        /\ Goto(r, Answer(q.user))
        /\ UNCHANGED <<avail, lock>>

RemoveRead(r) ==
    /\ \E i \in items, u \in Users :
          /\ u \in CartOwner(i.cart)
          /\ Start(r, [Idle EXCEPT !.step = "remove", !.user = u, !.item = i.id])
    /\ UNCHANGED <<tables, avail, lock>>

RemoveWrite(r) ==
    LET q == req[r]
    IN  /\ q.step = "remove"
        /\ DeleteItem(q.item)
        /\ Goto(r, Answer(q.user))
        /\ UNCHANGED <<avail, lock>>

ClearRead(r) ==
    /\ \E u \in Users : \E n \in ActiveCarts(u) :
          Start(r, [Idle EXCEPT !.step = "clear", !.cart = n])
    /\ UNCHANGED <<tables, avail, lock>>

ClearWrite(r) ==
    /\ req[r].step = "clear"
    /\ EmptyCart(req[r].cart)
    /\ Finish(r)
    /\ UNCHANGED <<avail, lock>>

(***************************************************************************)
(* The tail of POST /checkout: put the cart away.                          *)
(***************************************************************************)
TailRead(r) ==
    /\ \E u \in Users : \E n \in ActiveCarts(u) :
          Start(r, [Idle EXCEPT !.step = "empty", !.cart = n])
    /\ UNCHANGED <<tables, avail, lock>>

TailEmpty(r) ==
    /\ req[r].step = "empty"
    /\ EmptyCart(req[r].cart)
    /\ Goto(r, [req[r] EXCEPT !.step = "complete"])
    /\ UNCHANGED <<avail, lock>>

TailComplete(r) ==
    /\ req[r].step = "complete"
    /\ CompleteCart(req[r].cart)
    /\ Finish(r)
    /\ UNCHANGED <<avail, lock>>
------------------------------------------------------------------------------
\* The handler ends early: it answers with an error outside addItem's try
\* block, or its process dies.  A lock it holds stays until its lease ends.
Abandon(r) ==
    /\ req[r].step # "idle"
    /\ Finish(r)
    /\ UNCHANGED <<tables, avail, lock>>

\* Orders, releases and admins move what is available.
StockMoves(v) ==
    /\ avail' \in {[avail EXCEPT ![v] = n] : n \in (0..MaxAvail) \ {avail[v]}}
    /\ UNCHANGED <<tables, lock, req>>

Handler(r) ==
    \/ GetCart(r) \/ ViewFind(r) \/ ViewCreate(r)
    \/ AddRead(r) \/ AddLock(r) \/ AddLockUnseen(r)
    \/ AddFindCart(r) \/ AddNewCart(r) \/ AddFindItem(r) \/ AddWrite(r) \/ AddThrows(r)
    \/ ReleaseGet(r) \/ ReleaseDel(r) \/ ReleaseFails(r)
    \/ UpdateRead(r) \/ UpdateWrite(r) \/ RemoveRead(r) \/ RemoveWrite(r)
    \/ ClearRead(r) \/ ClearWrite(r)
    \/ TailRead(r) \/ TailEmpty(r) \/ TailComplete(r)
    \/ Abandon(r)

Next ==
    \/ \E r \in Requests : Handler(r)
    \/ \E v \in Variants : LeaseEnds(v) \/ StockMoves(v)

Spec == Init /\ [][Next]_vars
------------------------------------------------------------------------------
TypeOK ==
    /\ carts \subseteq Cart
    /\ items \subseteq Item
    /\ avail \in [Variants -> 0..MaxAvail]
    /\ lock \in [Variants -> Requests \cup {Free}]
    /\ req \in [Requests -> Request]

\* addItem never makes two rows of one variant in a cart, although it looks
\* for the row and inserts it in two steps: the lock serialises the adders of
\* a variant, and the other handlers only change or delete rows.
OneRowPerVariant ==
    ~LeaseExpires =>
        \A i, j \in items : i.cart = j.cart /\ i.variant = j.variant => i = j

\* Merging quantities with a stale availability still never asks for more
\* than the shop ever had: each row stays within MaxAvail, whatever update,
\* removal or checkout runs between the read and the write.
RowsWithinStock == \A i \in items : i.qty <= MaxAvail

\* The stage of a request as a client of the lock.
LockStage(q) ==
    IF q.step \in Critical \cup {"release"} THEN [at |-> "in", key |-> q.variant]
    ELSE IF q.step = "unlock" THEN [at |-> "leaving", key |-> q.variant]
    ELSE [at |-> "out"]

Lock == INSTANCE RedisLock WITH
            Resources <- Variants, Clients <- Requests,
            Overruns <- IF LeaseExpires THEN Variants ELSE {},
            stage <- [r \in Requests |-> LockStage(req[r])]

\* addItem uses the lock by its protocol: no path through the handler, its
\* exceptions included, releases what it did not acquire or acquires twice.
LockSpec == Lock!Spec
==============================================================================
