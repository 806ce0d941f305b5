-------------------------- MODULE Storefront_proofs --------------------------
(***************************************************************************)
(* The customer's pages, for every number of addresses, orders, visits,    *)
(* requests and writes, and the support bot that they open a chat with.    *)
(*                                                                         *)
(* A page makes one order because each of its requests carries its key and *)
(* an order leaves a request with that key behind.  An order has an        *)
(* address because the last steps of the page are only reached with one,   *)
(* and nothing takes it away without closing the form.                     *)
(***************************************************************************)
EXTENDS Storefront, SupportBot, SequenceTheorems, TLAPS

LEMMA Chooses ==
    ASSUME NEW t \in SUBSET AddressIds, selected \in Chosen, NEW x \in Preselected(t)
    PROVE  x \in Chosen /\ (selected # None => x # None)
BY DEF Preselected, Chosen
------------------------------------------------------------------------------
(***************************************************************************)
(* The shop.                                                               *)
(***************************************************************************)

\* The form of the checkout page belongs to a visit and has an address from its
\* third step on.
Formed ==
    /\ page = "checkout" => visit >= 1
    /\ step >= 2 => selected # None

\* Requests carry their visit as the key and an address, and orders come from
\* requests that are done.
Sent ==
    /\ \A c \in DOMAIN checkouts :
          checkouts[c].key = checkouts[c].visit /\ checkouts[c].address # None
    /\ \A o \in DOMAIN orders : \E c \in DOMAIN checkouts :
          checkouts[c].at = "done" /\ checkouts[c].visit = orders[o].visit

SInv == ShopTypeOK /\ Formed /\ Sent /\ OneOrderPerVisit /\ OrdersHaveAddress

\* What leaves requests and orders alone but for the fields at and awaited.
Lasting(cs) ==
    /\ cs \in Seq(Requests) /\ DOMAIN cs = DOMAIN checkouts
    /\ \A c \in DOMAIN cs :
          /\ cs[c].key = checkouts[c].key /\ cs[c].visit = checkouts[c].visit
          /\ cs[c].address = checkouts[c].address
          /\ checkouts[c].at = "done" => cs[c].at = "done"

LEMMA Fields ==
    ASSUME NEW q \in Requests, NEW a \in {"sent", "read", "done", "refused"}
    PROVE  LET r == [q EXCEPT !.at = a]
               s == [q EXCEPT !.awaited = FALSE]
           IN  /\ {r, s} \subseteq Requests /\ r.at = a /\ s.at = q.at
               /\ r.key = q.key /\ r.visit = q.visit /\ r.address = q.address
               /\ s.key = q.key /\ s.visit = q.visit /\ s.address = q.address
BY DEF Requests

LEMMA Marked ==
    ASSUME ShopTypeOK, NEW c \in DOMAIN checkouts, NEW r \in Requests,
           r.key = checkouts[c].key, r.visit = checkouts[c].visit,
           r.address = checkouts[c].address, checkouts[c].at = "done" => r.at = "done",
           NEW cs, cs = [checkouts EXCEPT ![c] = r]
    PROVE  Lasting(cs) /\ cs[c] = r
<1>1. checkouts \in Seq(Requests)
    BY DEF ShopTypeOK, TablesTypeOK
<1>2. cs \in Seq(Requests) /\ DOMAIN cs = DOMAIN checkouts
    BY <1>1
<1>3. cs[c] = r /\ \A d \in DOMAIN checkouts : d # c => cs[d] = checkouts[d]
    BY <1>1
<1> QED
    BY <1>2, <1>3 DEF Lasting

LEMMA Unsent ==
    ASSUME SInv, ShopTypeOK', Formed', UNCHANGED <<orders, checkouts>>
    PROVE  SInv'
BY DEF SInv, Sent, OneOrderPerVisit, OrdersHaveAddress

LEMMA Carried ==
    ASSUME SInv, NEW cs, Lasting(cs), checkouts' = cs, ShopTypeOK', Formed', UNCHANGED orders
    PROVE  SInv'
<1>1. \A c \in DOMAIN checkouts' :
          checkouts'[c].key = checkouts'[c].visit /\ checkouts'[c].address # None
    BY DEF Lasting, SInv, Sent
<1>2. \A o \in DOMAIN orders' : \E c \in DOMAIN checkouts' :
          checkouts'[c].at = "done" /\ checkouts'[c].visit = orders'[o].visit
    BY DEF Lasting, SInv, Sent
<1> QED
    BY <1>1, <1>2 DEF SInv, Sent, OneOrderPerVisit, OrdersHaveAddress

\* A form that was just opened.
LEMMA Opened ==
    ASSUME FormTypeOK, Formed, NEW p \in Pages, NewForm(p), page' \in Pages,
           page' = "checkout" => p = "checkout"
    PROVE  FormTypeOK' /\ Formed'
<1>1. visit' \in 0 .. MaxVisits /\ step' = 0 /\ (p = "checkout" => visit' >= 1)
    BY ShopAssumption DEF NewForm, FormTypeOK
<1>2. selected' \in Chosen /\ pressed' \in BOOLEAN
    BY DEF NewForm, Chosen
<1> QED
    BY <1>1, <1>2 DEF FormTypeOK, Formed

LEMMA ShopStarts == ShopInit => SInv
<1> SUFFICES ASSUME ShopInit PROVE SInv
    OBVIOUS
<1>1. DOMAIN orders = {} /\ DOMAIN checkouts = {}
    BY DEF ShopInit
<1>2. TablesTypeOK
    BY ShopAssumption DEF ShopInit, TablesTypeOK, Loads
<1>3. FormTypeOK
    <2>1. page \in Pages /\ visit \in 0 .. MaxVisits /\ step \in 0 .. 3
        BY ShopAssumption DEF ShopInit, Pages
    <2>2. selected \in Chosen /\ pressed \in BOOLEAN
        BY DEF ShopInit, Chosen
    <2> QED
        BY <2>1, <2>2 DEF FormTypeOK
<1>4. CacheTypeOK
    BY DEF ShopInit, CacheTypeOK
<1> QED
    BY <1>1, <1>2, <1>3, <1>4
       DEF ShopInit, SInv, ShopTypeOK, Formed, Sent, OneOrderPerVisit, OrdersHaveAddress

LEMMA ShopStep == SInv /\ [ShopNext]_shopVars => SInv'
<1> SUFFICES ASSUME SInv, [ShopNext]_shopVars PROVE SInv'
    OBVIOUS
<1> USE ShopAssumption, CustomerAssumption
        DEF tables, form, cache, tab, shopVars, Loads, Pages, Chosen, Keys, ShopTypeOK
<1>i. TablesTypeOK /\ FormTypeOK /\ CacheTypeOK /\ Formed
    BY DEF SInv
<1>1. CASE Reload
    <2> DEFINE cs == Forgotten(checkouts)
    <2>1. /\ DOMAIN cs = DOMAIN checkouts
          /\ \A c \in DOMAIN cs : cs[c] = [checkouts[c] EXCEPT !.awaited = FALSE]
        BY DEF Forgotten
    <2>2. \A r \in Requests : [r EXCEPT !.awaited = FALSE] \in Requests
        BY DEF Requests
    <2>3. \A c \in DOMAIN checkouts : checkouts[c] \in Requests
        BY <1>i DEF TablesTypeOK
    <2>4. cs \in Seq(Requests)
        BY <1>i, <2>1, <2>2, <2>3, Len(checkouts) \in Nat, DOMAIN checkouts = 1..Len(checkouts)
           DEF TablesTypeOK, Forgotten
    <2>5. Lasting(cs)
        BY <2>1, <2>3, <2>4 DEF Lasting, Requests
    <2>6. checkouts' = cs /\ TablesTypeOK' /\ UNCHANGED orders
        BY <1>1, <1>i, <2>4 DEF Reload, TablesTypeOK
    <2>7. FormTypeOK' /\ Formed'
        BY <1>1, <1>i, Opened DEF Reload, FormTypeOK
    <2>8. CacheTypeOK'
        BY <1>1, <1>i DEF Reload, NewForm, CacheTypeOK, Shows
    <2> HIDE DEF cs
    <2> QED
        BY <2>5, <2>6, <2>7, <2>8, Carried
<1>2. ASSUME NEW p \in Pages, Open(p) PROVE SInv'
    <2>1. asking' \subseteq Keys
        BY <1>2, <1>i DEF Open, MayAsk, Shows, CacheTypeOK
    <2>2. FormTypeOK' /\ Formed'
        BY <1>2, <1>i, Opened DEF Open, Landing
    <2>3. CacheTypeOK'
        BY <1>2, <1>i, <2>1 DEF Open, NewForm, CacheTypeOK
    <2> QED
        BY <1>2, <1>i, <2>2, <2>3, Unsent DEF Open, TablesTypeOK
<1>3. CASE CartArrives
    <2>1. page' = page \/ page' = "cart"
        BY <1>3 DEF CartArrives, Landing
    <2>2. FormTypeOK' /\ Formed'
        <3>1. CASE page' = page
            BY <1>3, <1>i, <3>1 DEF CartArrives, FormTypeOK, Formed
        <3>2. CASE page' # page
            <4>1. page' = "cart" /\ NewForm("cart")
                BY <1>3, <2>1, <3>2 DEF CartArrives
            <4> QED
                BY <1>i, <4>1, Opened
        <3> QED
            BY <3>1, <3>2
    <2>3. CacheTypeOK'
        BY <1>3, <1>i DEF CartArrives, NewForm, TablesTypeOK, CacheTypeOK
    <2> QED
        BY <1>3, <1>i, <2>2, <2>3, Unsent DEF CartArrives, TablesTypeOK
<1>4. CASE AddressesArrive
    <2>1. selected' \in Chosen /\ (selected # None => selected' # None)
        BY <1>4, <1>i, Chooses DEF AddressesArrive, TablesTypeOK, FormTypeOK
    <2> QED
        BY <1>4, <1>i, <2>1, Unsent DEF AddressesArrive, TablesTypeOK, FormTypeOK, CacheTypeOK, Formed
<1>5. CASE BookArrives
    BY <1>5, <1>i, Unsent DEF BookArrives, TablesTypeOK, FormTypeOK, CacheTypeOK, Formed
<1>6. ASSUME NEW k \in Keys, AnswerIsLost(k) PROVE SInv'
    BY <1>6, <1>i, Unsent DEF AnswerIsLost, TablesTypeOK, FormTypeOK, CacheTypeOK, Formed
<1>7. CASE Continue
    <2>1. selected' \in Chosen /\ (selected # None => selected' # None)
        BY <1>7, <1>i, Chooses DEF Continue, FormTypeOK, CacheTypeOK
    <2>2. asking' \subseteq Keys
        BY <1>7, <1>i DEF Continue, MayAsk, CacheTypeOK
    <2> QED
        BY <1>7, <1>i, <2>1, <2>2, Unsent DEF Continue, CanGoNext, TablesTypeOK, FormTypeOK, CacheTypeOK, Formed
<1>8. CASE Back
    BY <1>8, <1>i, Unsent DEF Back, TablesTypeOK, FormTypeOK, CacheTypeOK, Formed
<1>9. ASSUME NEW a \in AddressIds, SelectAddress(a) PROVE SInv'
    BY <1>9, <1>i, Unsent DEF SelectAddress, TablesTypeOK, FormTypeOK, CacheTypeOK, Formed
<1>10. CASE HandleSubmit
    <2> DEFINE r == [visit |-> visit, key |-> IdempotencyKey, address |-> selected,
                     at |-> "sent", awaited |-> TRUE]
    <2>1. /\ r \in Requests /\ r.key = r.visit /\ r.address # None
          /\ checkouts' = Append(checkouts, r)
        BY <1>10, <1>i DEF HandleSubmit, InCheckout, IdempotencyKey, Requests, TablesTypeOK, FormTypeOK, CacheTypeOK, Formed
    <2> HIDE DEF r
    <2>2. /\ checkouts' \in Seq(Requests)
          /\ DOMAIN checkouts' = DOMAIN checkouts \cup {Len(checkouts) + 1}
          /\ checkouts'[Len(checkouts) + 1] = r
          /\ \A c \in DOMAIN checkouts : checkouts'[c] = checkouts[c]
        BY <1>i, <2>1 DEF TablesTypeOK
    <2>3. ShopTypeOK' /\ Formed' /\ UNCHANGED orders
        BY <1>10, <1>i, <2>2 DEF HandleSubmit, TablesTypeOK, FormTypeOK, CacheTypeOK, Formed
    <2> QED
        BY <2>1, <2>2, <2>3 DEF SInv, Sent, OneOrderPerVisit, OrdersHaveAddress
<1>11. ASSUME NEW c \in DOMAIN checkouts, CheckoutSucceeds(c) PROVE SInv'
    <2> DEFINE r == [checkouts[c] EXCEPT !.awaited = FALSE]
               cs == [checkouts EXCEPT ![c] = r]
    <2>1. Lasting(cs)
        <3>1. checkouts[c] \in Requests
            BY <1>i DEF TablesTypeOK
        <3>2. /\ r \in Requests /\ r.key = checkouts[c].key
              /\ r.visit = checkouts[c].visit /\ r.address = checkouts[c].address
              /\ checkouts[c].at = "done" => r.at = "done"
            BY <1>11, <3>1, Fields DEF CheckoutSucceeds
        <3> HIDE DEF r
        <3> QED
            BY <1>i, <3>2, Marked
    <2>2. checkouts' = cs /\ TablesTypeOK' /\ UNCHANGED orders
        BY <1>11, <1>i, <2>1 DEF CheckoutSucceeds, TablesTypeOK, Lasting
    <2>3. FormTypeOK' /\ Formed'
        BY <1>11, <1>i, Opened DEF CheckoutSucceeds
    <2>4. CacheTypeOK'
        BY <1>11, <1>i DEF CheckoutSucceeds, NewForm, Shows, CacheTypeOK
    <2> HIDE DEF cs, r
    <2> QED
        BY <2>1, <2>2, <2>3, <2>4, Carried
<1>12. ASSUME NEW c \in DOMAIN checkouts, CheckoutFails(c) PROVE SInv'
    <2> DEFINE r == [checkouts[c] EXCEPT !.awaited = FALSE]
               cs == [checkouts EXCEPT ![c] = r]
    <2>1. Lasting(cs)
        <3>1. checkouts[c] \in Requests
            BY <1>i DEF TablesTypeOK
        <3>2. /\ r \in Requests /\ r.key = checkouts[c].key
              /\ r.visit = checkouts[c].visit /\ r.address = checkouts[c].address
              /\ checkouts[c].at = "done" => r.at = "done"
            BY <1>12, <3>1, Fields DEF CheckoutFails
        <3> HIDE DEF r
        <3> QED
            BY <1>i, <3>2, Marked
    <2>2. checkouts' = cs /\ ShopTypeOK' /\ Formed' /\ UNCHANGED orders
        BY <1>12, <1>i, <2>1 DEF CheckoutFails, TablesTypeOK, FormTypeOK, CacheTypeOK, Formed, Lasting
    <2> HIDE DEF cs, r
    <2> QED
        BY <2>1, <2>2, Carried
<1>13. ASSUME NEW c \in DOMAIN checkouts, CheckoutReads(c) PROVE SInv'
    <2> DEFINE a == IF Acceptable(c) THEN "read" ELSE "refused"
               r == [checkouts[c] EXCEPT !.at = a]
               cs == [checkouts EXCEPT ![c] = r]
    <2>1. Lasting(cs)
        <3>1. checkouts[c] \in Requests
            BY <1>i DEF TablesTypeOK
        <3>2. /\ r \in Requests /\ r.key = checkouts[c].key
              /\ r.visit = checkouts[c].visit /\ r.address = checkouts[c].address
              /\ checkouts[c].at = "done" => r.at = "done"
            <4>1. a \in {"sent", "read", "done", "refused"}
                OBVIOUS
            <4> HIDE DEF a
            <4> QED
                BY <1>13, <3>1, <4>1, Fields DEF CheckoutReads
        <3> HIDE DEF r
        <3> QED
            BY <1>i, <3>2, Marked
    <2>2. checkouts' = cs /\ ShopTypeOK' /\ Formed' /\ UNCHANGED orders
        BY <1>13, <1>i, <2>1 DEF CheckoutReads, TablesTypeOK, FormTypeOK, CacheTypeOK, Formed, Lasting
    <2> HIDE DEF cs, r
    <2> QED
        BY <2>1, <2>2, Carried
<1>14. ASSUME NEW c \in DOMAIN checkouts, CheckoutRollsBack(c) PROVE SInv'
    <2> DEFINE r == [checkouts[c] EXCEPT !.at = "refused"]
               cs == [checkouts EXCEPT ![c] = r]
    <2>1. Lasting(cs)
        <3>1. checkouts[c] \in Requests
            BY <1>i DEF TablesTypeOK
        <3>2. /\ r \in Requests /\ r.key = checkouts[c].key
              /\ r.visit = checkouts[c].visit /\ r.address = checkouts[c].address
              /\ checkouts[c].at = "done" => r.at = "done"
            BY <1>14, <3>1, Fields DEF CheckoutRollsBack
        <3> HIDE DEF r
        <3> QED
            BY <1>i, <3>2, Marked
    <2>2. checkouts' = cs /\ ShopTypeOK' /\ Formed' /\ UNCHANGED orders
        BY <1>14, <1>i, <2>1 DEF CheckoutRollsBack, TablesTypeOK, FormTypeOK, CacheTypeOK, Formed, Lasting
    <2> HIDE DEF cs, r
    <2> QED
        BY <2>1, <2>2, Carried
<1>15. ASSUME NEW c \in DOMAIN checkouts, CheckoutCommits(c) PROVE SInv'
    <2> DEFINE r == [checkouts[c] EXCEPT !.at = "done"]
               cs == [checkouts EXCEPT ![c] = r]
    <2>1. Lasting(cs) /\ cs[c].at = "done"
        <3>1. checkouts[c] \in Requests
            BY <1>i DEF TablesTypeOK
        <3>2. /\ r \in Requests /\ r.key = checkouts[c].key
              /\ r.visit = checkouts[c].visit /\ r.address = checkouts[c].address
              /\ checkouts[c].at = "done" => r.at = "done"
              /\ r.at = "done"
            BY <1>15, <3>1, Fields DEF CheckoutCommits
        <3> HIDE DEF r
        <3> QED
            BY <1>i, <3>2, Marked
    <2> DEFINE o == [visit |-> checkouts[c].visit, address |-> checkouts[c].address]
               n == Len(orders) + 1
    <2>2. /\ checkouts' = cs /\ orders' = Append(orders, o)
          /\ rows' \in {rows, 0} /\ UNCHANGED <<addresses, added, tab>>
        BY <1>15 DEF CheckoutCommits
    <2>3. /\ o \in Made /\ o.visit = checkouts[c].visit /\ o.address # None
        <3>1. checkouts[c] \in Requests /\ checkouts[c].address # None
            BY <1>i DEF TablesTypeOK, SInv, Sent
        <3> QED
            BY <3>1 DEF Requests, Made
    <2>4. \A m \in DOMAIN orders : orders[m].visit # o.visit
        BY <1>15, <2>3 DEF CheckoutCommits, Taken, SInv, Sent
    <2> HIDE DEF cs, r, o
    <2>5. /\ orders' \in Seq(Made) /\ DOMAIN orders' = DOMAIN orders \cup {n} /\ orders'[n] = o
          /\ \A m \in DOMAIN orders : orders'[m] = orders[m]
        BY <1>i, <2>2, <2>3 DEF TablesTypeOK
    <2> HIDE DEF n
    <2>6. ShopTypeOK' /\ Formed'
        <3>1. rows' \in Loads
            BY <1>i, <2>2 DEF TablesTypeOK, Loads
        <3> QED
            BY <1>i, <2>1, <2>2, <2>5, <3>1 DEF TablesTypeOK, FormTypeOK, CacheTypeOK, Formed,
                                             Lasting
    <2>7. OneOrderPerVisit' /\ OrdersHaveAddress'
        BY <2>3, <2>4, <2>5 DEF SInv, OneOrderPerVisit, OrdersHaveAddress
    <2>8. Sent'
        <3>1. \A d \in DOMAIN cs : cs[d].key = cs[d].visit /\ cs[d].address # None
            BY <2>1 DEF SInv, Sent, Lasting
        <3>2. \A m \in DOMAIN orders : \E d \in DOMAIN cs :
                 cs[d].at = "done" /\ cs[d].visit = orders[m].visit
            BY <2>1 DEF SInv, Sent, Lasting
        <3>3. c \in DOMAIN cs /\ cs[c].visit = o.visit
            BY <2>1, <2>3 DEF Lasting
        <3> QED
            BY <2>1, <2>2, <2>5, <3>1, <3>2, <3>3 DEF Sent
    <2> QED
        BY <2>6, <2>7, <2>8 DEF SInv
<1>16. CASE Buttons
    BY <1>16, <1>i, Unsent DEF Buttons, Refused, Shrink, Forget, TablesTypeOK, FormTypeOK, CacheTypeOK, Formed
<1>17. CASE ActSettles
    BY <1>17, <1>i, Unsent DEF ActSettles, Shows, TablesTypeOK, FormTypeOK, CacheTypeOK, Formed
<1>18. CASE AddRow
    BY <1>18, <1>i, Unsent DEF AddRow, TablesTypeOK, FormTypeOK, CacheTypeOK, Formed
<1>19. ASSUME NEW a \in AddressIds, OthersDelete(a) PROVE SInv'
    BY <1>19, <1>i, Unsent DEF OthersDelete, TablesTypeOK, FormTypeOK, CacheTypeOK, Formed
<1>20. CASE UNCHANGED shopVars
    BY <1>20, <1>i, Unsent DEF TablesTypeOK, FormTypeOK, CacheTypeOK, Formed
<1> QED
    BY <1>1, <1>2, <1>3, <1>4, <1>5, <1>6, <1>7, <1>8, <1>9, <1>10, <1>11, <1>12, <1>13,
       <1>14, <1>15, <1>16, <1>17, <1>18, <1>19, <1>20 DEF ShopNext, CheckoutPage
------------------------------------------------------------------------------
(***************************************************************************)
(* The pages of an order.                                                  *)
(***************************************************************************)
OInv ==
    /\ OrderPagesTypeOK
    /\ timer => polls < MaxPolls
    /\ sent # Nothing => sent.o \in Orders

\* What the effects of a page leave behind.
LEMMA Effect ==
    ASSUME NEW v \in Views, NEW o \in Orders \cup {None}, NEW state, Effects(v, o, state),
           o = None <=> v = "orders"
    PROVE  /\ view' \in Views /\ on' \in Orders \cup {None} /\ (on' = None <=> view' = "orders")
           /\ polls' = 0 /\ timer' \in BOOLEAN /\ intent' \in {"none", "sent", "failed"}
<1>1. view' \in Views /\ on' \in Orders \cup {None} /\ (on' = None <=> view' = "orders")
    BY DEF Effects, Views
<1>2. polls' = 0 /\ intent' \in {"none", "sent", "failed"}
    BY DEF Effects
<1>3. timer' \in BOOLEAN
    BY Zenon DEF Effects
<1> QED
    BY <1>1, <1>2, <1>3

LEMMA Affected ==
    ASSUME OInv, NEW v \in Views, NEW o \in Orders \cup {None}, NEW state,
           Effects(v, o, state), o = None <=> v = "orders",
           status' \in [Orders -> Committed], seen' \in [Orders -> Committed \cup {None}],
           reading' \in [Orders -> Committed \cup {None, "sent"}], failed' \subseteq Orders,
           dialog' \in BOOLEAN, sent' = sent \/ sent' = Nothing
    PROVE  OInv'
<1>1. /\ view' \in Views /\ on' \in Orders \cup {None} /\ (on' = None <=> view' = "orders")
      /\ polls' = 0 /\ timer' \in BOOLEAN /\ intent' \in {"none", "sent", "failed"}
    BY Effect
<1>2. sent' \in [o : Orders \cup {None}, at : {"idle", "sent", "checked", "done", "refused"}]
    BY DEF OInv, OrderPagesTypeOK, Nothing
<1>3. 0 \in 0 .. MaxPolls /\ 0 < MaxPolls
    BY OrderPagesAssumption
<1>4. sent' # Nothing => sent'.o \in Orders
    BY DEF OInv
<1> QED
    BY <1>1, <1>2, <1>3, <1>4 DEF OInv, OrderPagesTypeOK

LEMMA OrderPagesStart == OrderPagesInit => OInv
<1> SUFFICES ASSUME OrderPagesInit PROVE OInv
    OBVIOUS
<1>1. timer \in BOOLEAN /\ ~timer /\ dialog \in BOOLEAN
    BY DEF OrderPagesInit
<1>2. polls \in 0 .. MaxPolls
    BY OrderPagesAssumption DEF OrderPagesInit
<1>3. sent = Nothing /\ Nothing \in [o : Orders \cup {None}, at : {"idle", "sent", "checked", "done", "refused"}]
    BY DEF OrderPagesInit, Nothing
<1> QED
    BY <1>1, <1>2, <1>3 DEF OrderPagesInit, OInv, OrderPagesTypeOK, Views

LEMMA OrderPagesStep == OInv /\ [OrderPagesNext]_orderVars => OInv'
<1> SUFFICES ASSUME OInv, [OrderPagesNext]_orderVars PROVE OInv'
    OBVIOUS
<1> USE OrderPagesAssumption DEF orderVars, watchVars
<1>i. OrderPagesTypeOK
    BY DEF OInv
<1>1. ASSUME NEW v \in {"order", "pay"}, NEW o \in Orders, Visit(v, o) PROVE OInv'
    <2>1. reading' \in [Orders -> Committed \cup {None, "sent"}]
        BY <1>1, <1>i DEF Visit, Mount, Load, OrderPagesTypeOK
    <2>2. v \in Views /\ o # None /\ v # "orders" /\ Effects(v, o, seen[o])
        BY <1>1 DEF Visit, Views
    <2>3. UNCHANGED <<status, seen, failed, sent>> /\ dialog' \in BOOLEAN
        BY <1>1 DEF Visit
    <2> QED
        BY <1>i, <2>1, <2>2, <2>3, Affected DEF OrderPagesTypeOK
<1>2. CASE Leave
    <2>1. Effects("orders", None, None) /\ dialog' \in BOOLEAN
          /\ UNCHANGED <<status, seen, reading, failed, sent>>
        BY <1>2 DEF Leave
    <2> QED
        BY <1>i, <2>1, Affected DEF OrderPagesTypeOK, Views
<1>3. CASE ReloadTab
    <2>1. /\ seen' \in [Orders -> Committed \cup {None}] /\ failed' \subseteq Orders
          /\ reading' \in [Orders -> Committed \cup {None, "sent"}]
        BY <1>3 DEF ReloadTab
    <2>2. /\ Effects(view, on, None) /\ dialog' \in BOOLEAN /\ sent' = Nothing
          /\ UNCHANGED status
        BY <1>3 DEF ReloadTab
    <2> QED
        BY <1>i, <2>1, <2>2, Affected DEF OrderPagesTypeOK
<1>4. CASE PollTick
    <2>1. polls' \in 0 .. MaxPolls /\ timer' \in BOOLEAN /\ (timer' => polls' < MaxPolls)
        <3>1. timer' \in BOOLEAN /\ (timer' => polls + 1 < MaxPolls)
            <4>1. timer' = (polls + 1 < MaxPolls)
                BY <1>4 DEF PollTick
            <4>2. CASE polls + 1 < MaxPolls
                BY <4>1, <4>2
            <4>3. CASE ~(polls + 1 < MaxPolls)
                <5>1. (polls + 1 < MaxPolls) = FALSE
                    BY <4>3
                <5>2. timer' = FALSE
                    BY <4>1, <5>1
                <5> QED
                    BY <5>2
            <4> QED
                BY <4>2, <4>3
        <3>2. polls \in 0 .. MaxPolls /\ polls < MaxPolls /\ polls' = polls + 1
            BY <1>4, <1>i DEF PollTick, OInv, OrderPagesTypeOK
        <3> QED
            BY <3>1, <3>2
    <2>2. reading' \in [Orders -> Committed \cup {None, "sent"}]
        BY <1>4, <1>i DEF PollTick, Load, OrderPagesTypeOK
    <2>3. UNCHANGED <<status, view, on, seen, failed, intent, dialog, sent>>
        BY <1>4 DEF PollTick
    <2> QED
        BY <1>i, <2>1, <2>2, <2>3 DEF OInv, OrderPagesTypeOK
<1>5. CASE ToggleDialog
    BY <1>5, <1>i DEF ToggleDialog, OInv, OrderPagesTypeOK
<1>6. CASE HandleCancel
    <2>1. on \in Orders
        BY <1>6, <1>i DEF HandleCancel, Shown, OrderPagesTypeOK
    <2> QED
        BY <1>6, <1>i, <2>1 DEF HandleCancel, OInv, OrderPagesTypeOK
<1>7. CASE CancelRead \/ CancelCommit
    <2>1. PICK a \in {"checked", "done", "refused"} : sent' = [sent EXCEPT !.at = a]
        BY <1>7 DEF CancelRead, CancelCommit
    <2>2. status' \in [Orders -> Committed]
        BY <1>7, <1>i DEF CancelRead, CancelCommit, Committed, OrderStatus, OrderPagesTypeOK
    <2>3. sent.o \in Orders
        BY <1>7 DEF CancelRead, CancelCommit, OInv, Nothing
    <2>4. UNCHANGED <<view, on, seen, reading, failed, polls, timer, intent, dialog>>
        BY <1>7 DEF CancelRead, CancelCommit
    <2> QED
        BY <1>i, <2>1, <2>2, <2>3, <2>4 DEF OInv, OrderPagesTypeOK
<1>8. CASE ActArrives
    <2>1. reading' \in [Orders -> Committed \cup {None, "sent"}]
        BY <1>8, <1>i DEF ActArrives, Load, OrderPagesTypeOK
    <2>2. dialog' \in BOOLEAN
        BY <1>8, Zenon DEF ActArrives
    <2> QED
        BY <1>8, <1>i, <2>1, <2>2 DEF ActArrives, OInv, OrderPagesTypeOK, Nothing
<1>9. CASE ActFails
    BY <1>9, <1>i DEF ActFails, OInv, OrderPagesTypeOK, Nothing
<1>10. CASE CreateIntent
    BY <1>10, <1>i DEF CreateIntent, OInv, OrderPagesTypeOK
<1>11. ASSUME NEW o \in Orders, ApiReads(o) PROVE OInv'
    <2>1. reading' \in [Orders -> Committed \cup {None, "sent"}]
        BY <1>11, <1>i DEF ApiReads, OrderPagesTypeOK
    <2> QED
        BY <1>11, <1>i, <2>1 DEF ApiReads, OInv, OrderPagesTypeOK
<1>12. ASSUME NEW o \in Orders, OrderArrives(o) PROVE OInv'
    <2>1. /\ reading' \in [Orders -> Committed \cup {None, "sent"}]
          /\ seen' \in [Orders -> Committed \cup {None}]
          /\ failed' \subseteq Orders /\ UNCHANGED <<status, dialog, sent>>
        BY <1>12, <1>i DEF OrderArrives, OrderPagesTypeOK
    <2>2. CASE on = o /\ Effects(view, o, reading[o])
        BY <1>i, <2>1, <2>2, Affected DEF OrderPagesTypeOK
    <2>3. CASE UNCHANGED <<view, on, watchVars>>
        BY <1>i, <2>1, <2>3 DEF OInv, OrderPagesTypeOK
    <2> QED
        BY <1>12, <2>2, <2>3 DEF OrderArrives
<1>13. ASSUME NEW o \in Orders, OrderIsLost(o) PROVE OInv'
    <2>1. reading' \in [Orders -> Committed \cup {None, "sent"}]
        BY <1>13, <1>i DEF OrderIsLost, OrderPagesTypeOK
    <2> QED
        BY <1>13, <1>i, <2>1 DEF OrderIsLost, OInv, OrderPagesTypeOK
<1>14. ASSUME NEW o \in Orders, OthersMove(o) PROVE OInv'
    <2>1. status' \in [Orders -> Committed]
        BY <1>14, <1>i DEF OthersMove, OrderPagesTypeOK
    <2> QED
        BY <1>14, <1>i, <2>1 DEF OthersMove, OInv, OrderPagesTypeOK
<1>15. CASE UNCHANGED orderVars
    BY <1>15, <1>i DEF OInv, OrderPagesTypeOK
<1> QED
    BY <1>1, <1>2, <1>3, <1>4, <1>5, <1>6, <1>7, <1>8, <1>9, <1>10, <1>11, <1>12, <1>13, <1>14,
       <1>15 DEF OrderPagesNext
------------------------------------------------------------------------------
(***************************************************************************)
(* The addresses.                                                          *)
(***************************************************************************)

\* As long as no two handlers have overlapped, the one that is between its
\* statements has left no default address but, maybe, its own.
Cleared ==
    ~overlapped =>
        /\ \A v, w \in clearing : v = w
        /\ \A w \in clearing : Defaults(address) \subseteq {w.a}

AInv == AddressesTypeOK /\ Cleared /\ OneDefault

LEMMA AddressesStart == AddressesInit => AInv
<1> SUFFICES ASSUME AddressesInit PROVE AInv
    OBVIOUS
<1>1. /\ address \in [AddressIds -> Rows] /\ \A a, b \in Defaults(address) : a = b
      /\ clearing = {} /\ overlapped \in BOOLEAN
    BY DEF AddressesInit
<1>2. writes \in 0 .. MaxWrites
    BY AddressesAssumption DEF AddressesInit
<1> QED
    BY <1>1, <1>2 DEF AInv, AddressesTypeOK, Cleared, OneDefault

LEMMA AddressesStep == AInv /\ [AddressSteps]_addressVars => AInv'
<1> SUFFICES ASSUME AInv, [AddressSteps]_addressVars PROVE AInv'
    OBVIOUS
<1> USE AddressesAssumption DEF addressVars, Rows
<1>i. AddressesTypeOK
    BY DEF AInv
<1>1. ASSUME NEW w \in Write, ClearDefaults(w) PROVE AInv'
    <2>1. w.a \in AddressIds
        BY DEF Write
    <2>2. \A a \in AddressIds :
             address'[a] = IF address[a] = "default" /\ (w.creates \/ a # w.a)
                           THEN "plain" ELSE address[a]
        BY <1>1 DEF ClearDefaults, Plain
    <2>3. AddressesTypeOK'
        <3>1. address' \in [AddressIds -> Rows]
            BY <1>1, <1>i DEF ClearDefaults, Plain, AddressesTypeOK
        <3>2. overlapped' \in BOOLEAN
            BY <1>1, Zenon DEF ClearDefaults
        <3> QED
            BY <1>1, <1>i, <3>1, <3>2 DEF ClearDefaults, AddressesTypeOK
    <2>4. Defaults(address)' \subseteq {w.a}
        BY <2>1, <2>2 DEF Defaults
    <2>5. ~overlapped' => clearing' = {w}
        BY <1>1 DEF ClearDefaults
    <2> QED
        BY <2>3, <2>4, <2>5 DEF AInv, Cleared, OneDefault
<1>2. ASSUME NEW w \in Write, WriteDefault(w) PROVE AInv'
    <2>1. w.a \in AddressIds
        BY DEF Write
    <2>2. AddressesTypeOK'
        BY <1>2, <1>i, <2>1 DEF WriteDefault, AddressesTypeOK
    <2>3. Defaults(address)' \subseteq Defaults(address) \cup {w.a}
        BY <1>2, <1>i DEF WriteDefault, AddressesTypeOK, Defaults
    <2>4. ~overlapped' => clearing' = {} /\ Defaults(address)' \subseteq {w.a}
        BY <1>2, <2>3 DEF WriteDefault, AInv, Cleared
    <2> QED
        BY <2>2, <2>4 DEF AInv, Cleared, OneDefault
<1>3. ASSUME NEW w \in Write, Stop(w) PROVE AInv'
    BY <1>3, <1>i DEF Stop, AInv, AddressesTypeOK, Cleared, OneDefault
<1>4. ASSUME NEW a \in AddressIds, WritePlain(a) \/ DeleteAddress(a) PROVE AInv'
    <2>1. AddressesTypeOK' /\ UNCHANGED <<clearing, overlapped>>
        BY <1>4, <1>i DEF WritePlain, DeleteAddress, AddressesTypeOK
    <2>2. Defaults(address)' \subseteq Defaults(address)
        BY <1>4, <1>i DEF WritePlain, DeleteAddress, AddressesTypeOK, Defaults
    <2> QED
        BY <2>1, <2>2 DEF AInv, Cleared, OneDefault
<1>5. CASE UNCHANGED addressVars
    BY <1>5, <1>i DEF AInv, AddressesTypeOK, Cleared, OneDefault
<1> QED
    BY <1>1, <1>2, <1>3, <1>4, <1>5 DEF AddressSteps
------------------------------------------------------------------------------
(***************************************************************************)
(* The theorems.                                                           *)
(***************************************************************************)
IInv == SInv /\ OInv /\ AInv

LEMMA StorefrontInvariant == Spec => []IInv
<1>1. Init => IInv
    BY ShopStarts, OrderPagesStart, AddressesStart DEF Init, IInv
<1>2. IInv /\ [Next]_vars => IInv'
    <2> SUFFICES ASSUME IInv, [Next]_vars PROVE IInv'
        OBVIOUS
    <2>1. [ShopNext]_shopVars /\ [OrderPagesNext]_orderVars /\ [AddressSteps]_addressVars
        BY DEF Next, vars
    <2> QED
        BY <2>1, ShopStep, OrderPagesStep, AddressesStep DEF IInv
<1> QED
    BY <1>1, <1>2, PTL DEF Spec

\* No form, cache, query, request or row of any execution leaves its type.
THEOREM StorefrontTypeCorrect == Spec => []TypeOK
<1>1. IInv => TypeOK
    BY DEF IInv, SInv, OInv, AInv, TypeOK
<1> QED
    BY <1>1, StorefrontInvariant, PTL

\* However often the button of one checkout page is pressed, whichever answers
\* are lost and however often the cart is filled again, it makes at most one
\* order (Checkout.tsx).
THEOREM VisitOrdersOnce == Spec => []OneOrderPerVisit
<1>1. IInv => OneOrderPerVisit
    BY DEF IInv, SInv
<1> QED
    BY <1>1, StorefrontInvariant, PTL

\* No order leaves the page without an address (canGoNext of Checkout.tsx).
THEOREM OrdersAreAddressed == Spec => []OrdersHaveAddress
<1>1. IInv => OrdersHaveAddress
    BY DEF IInv, SInv
<1> QED
    BY <1>1, StorefrontInvariant, PTL

\* For any number of addresses and writes, one after the other, a customer has
\* at most one default address (createAddress and updateAddress).
THEOREM DefaultIsOne == Spec => []OneDefault
<1>1. IInv => OneDefault
    BY DEF IInv, AInv
<1> QED
    BY <1>1, StorefrontInvariant, PTL
------------------------------------------------------------------------------
(***************************************************************************)
(* What the checkout page asks of the API is what Purchases promises.      *)
(***************************************************************************)
Bought == {[customer |-> "customer", key |-> orders[o].visit] : o \in DOMAIN orders}
Standing == [c \in 1 .. MaxSubmits |-> Asked(c)]

\* Every request has a place among those of the promise.
Bounded == Len(checkouts) <= MaxSubmits

LEMMA Places ==
    ASSUME SInv, Bounded
    PROVE  /\ checkouts \in Seq(Requests) /\ orders \in Seq(Made)
           /\ DOMAIN checkouts = 1 .. Len(checkouts) /\ Len(checkouts) \in Nat
           /\ DOMAIN checkouts \subseteq 1 .. MaxSubmits
           /\ \A c \in DOMAIN checkouts :
                 /\ checkouts[c] \in Requests /\ checkouts[c].key = checkouts[c].visit
                 /\ checkouts[c].key \in 1 .. MaxVisits
<1>1. checkouts \in Seq(Requests) /\ orders \in Seq(Made)
    BY DEF SInv, ShopTypeOK, TablesTypeOK
<1>2. /\ DOMAIN checkouts = 1 .. Len(checkouts) /\ Len(checkouts) \in Nat
      /\ \A c \in DOMAIN checkouts : checkouts[c] \in Requests
    BY <1>1
<1>3. \A c \in DOMAIN checkouts :
         checkouts[c].key = checkouts[c].visit /\ checkouts[c].visit \in 1 .. MaxVisits
    BY <1>2 DEF SInv, Sent, Requests
<1> QED
    BY <1>1, <1>2, <1>3, ShopAssumption DEF Bounded

\* A request turns to q and is heard of so.
LEMMA Turns ==
    ASSUME SInv, Bounded, NEW c \in DOMAIN checkouts, NEW q, q.key = checkouts[c].key,
           checkouts' = [checkouts EXCEPT ![c] = q]
    PROVE  /\ Standing' = [Standing EXCEPT ![c] =
                 [at |-> Heard[q.at], customer |-> "customer", key |-> q.key]]
           /\ Standing[c] =
                 [at |-> Heard[checkouts[c].at], customer |-> "customer", key |-> q.key]
           /\ c \in 1 .. MaxSubmits
           /\ Bounded'
<1>1. /\ DOMAIN checkouts' = DOMAIN checkouts /\ checkouts'[c] = q /\ c \in 1 .. MaxSubmits
      /\ \A d \in DOMAIN checkouts : d # c => checkouts'[d] = checkouts[d]
    BY Places
<1>2. \A d \in 1 .. MaxSubmits :
         Asked(d)' = IF d = c THEN [at |-> Heard[q.at], customer |-> "customer", key |-> q.key]
                     ELSE Asked(d)
    BY <1>1 DEF Asked, Heard
<1>3. Standing' = [d \in 1 .. MaxSubmits |-> Asked(d)']
    BY DEF Standing
<1>4. Len(checkouts') = Len(checkouts)
    BY <1>1, Places
<1>5. Standing[c] = [at |-> Heard[checkouts[c].at], customer |-> "customer", key |-> q.key]
    BY <1>1 DEF Standing, Asked
<1> QED
    BY <1>1, <1>2, <1>3, <1>4, <1>5 DEF Standing, Bounded

LEMMA Quiet ==
    ASSUME UNCHANGED <<orders, checkouts>>, Bounded
    PROVE  UNCHANGED Api!purchaseVars /\ Bounded'
BY DEF Api!purchaseVars, Asked, Bounded

\* An answer that reaches the page changes nothing at the API.
LEMMA Arrived ==
    ASSUME SInv, Bounded, UNCHANGED orders,
           NEW c \in DOMAIN checkouts, checkouts' = [checkouts EXCEPT ![c].awaited = FALSE]
    PROVE  UNCHANGED Api!purchaseVars /\ Bounded'
<1> DEFINE q == [checkouts[c] EXCEPT !.awaited = FALSE]
<1>1. q.at = checkouts[c].at /\ q.key = checkouts[c].key
    BY Places DEF Requests
<1>2. checkouts' = [checkouts EXCEPT ![c] = q]
    OBVIOUS
<1> HIDE DEF q
<1>3. Standing' = [Standing EXCEPT ![c] = Standing[c]] /\ Bounded'
    <2>1. /\ Standing' = [Standing EXCEPT ![c] =
                [at |-> Heard[q.at], customer |-> "customer", key |-> q.key]]
          /\ Standing[c] =
                [at |-> Heard[checkouts[c].at], customer |-> "customer", key |-> q.key]
          /\ Bounded'
        BY <1>1, <1>2, Turns
    <2> QED
        BY <1>1, <2>1
<1>4. Standing' = Standing
    BY <1>3 DEF Standing
<1> QED
    BY <1>3, <1>4 DEF Api!purchaseVars, Standing

LEMMA PagesUseApi == SInv /\ Bounded /\ [ShopNext]_shopVars =>
                        [Api!Next]_(Api!purchaseVars) /\ Bounded'
<1> SUFFICES ASSUME SInv, Bounded, [ShopNext]_shopVars
             PROVE  (Api!Next \/ UNCHANGED Api!purchaseVars) /\ Bounded'
    OBVIOUS
<1> USE DEF tables, form, cache, tab, shopVars
<1>1. CASE Reload
    <2>1. /\ DOMAIN checkouts' = DOMAIN checkouts /\ UNCHANGED orders
          /\ \A c \in DOMAIN checkouts :
                checkouts'[c].at = checkouts[c].at /\ checkouts'[c].key = checkouts[c].key
        BY <1>1, Places DEF Reload, Forgotten, Requests
    <2>2. \A c : Asked(c)' = Asked(c)
        BY <2>1 DEF Asked, Heard
    <2>3. Standing' = Standing
        BY <2>2 DEF Standing
    <2>4. checkouts' \in Seq(Requests)
        BY <1>1, ShopStep DEF SInv, ShopTypeOK, TablesTypeOK, ShopNext
    <2>5. Len(checkouts') = Len(checkouts)
        BY <2>1, <2>4, Places
    <2> QED
        BY <2>1, <2>3, <2>5 DEF Api!purchaseVars, Standing, Bounded
<1>2. CASE HandleSubmit
    <2> DEFINE n == Len(checkouts) + 1
               q == [visit |-> visit, key |-> IdempotencyKey, address |-> selected,
                     at |-> "sent", awaited |-> TRUE]
    <2>1. checkouts' = Append(checkouts, q) /\ Len(checkouts) < MaxSubmits /\ UNCHANGED orders
        BY <1>2 DEF HandleSubmit
    <2>2. q.at = "sent" /\ q.key = visit
        BY DEF IdempotencyKey
    <2>3. visit \in 1 .. MaxVisits
        BY <1>2, ShopAssumption DEF HandleSubmit, InCheckout, SInv, ShopTypeOK, FormTypeOK, Formed
    <2>12. q \in Requests
        BY <2>3 DEF IdempotencyKey, Requests, SInv, ShopTypeOK, FormTypeOK
    <2> HIDE DEF q
    <2>4. /\ DOMAIN checkouts' = DOMAIN checkouts \cup {n} /\ checkouts'[n] = q
          /\ \A c \in DOMAIN checkouts : checkouts'[c] = checkouts[c]
          /\ n \notin DOMAIN checkouts /\ n \in 1 .. MaxSubmits /\ Len(checkouts') = n
        <3>1. checkouts \in Seq(Requests) /\ Len(checkouts) < MaxSubmits
            BY <2>1, Places
        <3>2. checkouts' = Append(checkouts, q)
            BY <2>1
        <3>3. /\ DOMAIN checkouts' = DOMAIN checkouts \cup {Len(checkouts) + 1}
              /\ checkouts'[Len(checkouts) + 1] = q
              /\ \A c \in DOMAIN checkouts : checkouts'[c] = checkouts[c]
            BY <2>12, <3>1, <3>2
        <3>4. Len(checkouts') = Len(checkouts) + 1 /\ Len(checkouts) + 1 \notin DOMAIN checkouts
            BY <2>12, <3>1, <3>2
        <3>5. Len(checkouts) + 1 \in 1 .. MaxSubmits
            BY <3>1, ShopAssumption
        <3> QED
            BY <3>3, <3>4, <3>5
    <2> HIDE DEF n
    <2>5. \A c \in 1 .. MaxSubmits :
             Asked(c)' = IF c = n THEN [at |-> "open", customer |-> "customer", key |-> visit]
                         ELSE Asked(c)
        BY <2>2, <2>4 DEF Asked, Heard
    <2>6. Asked(n) = [at |-> "none"]
        BY <2>4 DEF Asked
    <2>7. /\ Standing' = [Standing EXCEPT ![n] =
                            [at |-> "open", customer |-> "customer", key |-> visit]]
          /\ Standing[n] = [at |-> "none"]
        BY <2>4, <2>5, <2>6 DEF Standing
    <2>8. Bought' = Bought
        BY <2>1 DEF Bought
    <2>9. Api!Arrive(n, "customer", visit)
        BY <2>7, <2>8 DEF Api!Arrive, Api!Put, Api!Wish, Api!Nothing, Standing, Bought
    <2>10. Api!Next
        BY <2>3, <2>4, <2>9 DEF Api!Next
    <2>11. n <= MaxSubmits
        BY <2>4, ShopAssumption
    <2> QED
        BY <2>4, <2>10, <2>11 DEF Bounded
<1>3. ASSUME NEW c \in DOMAIN checkouts, CheckoutSucceeds(c) \/ CheckoutFails(c)
      PROVE  UNCHANGED Api!purchaseVars /\ Bounded'
    BY <1>3, Arrived DEF CheckoutSucceeds, CheckoutFails
<1>4. ASSUME NEW c \in DOMAIN checkouts, NEW a, checkouts' = [checkouts EXCEPT ![c].at = a],
             a = "refused", checkouts[c].at \in {"sent", "read"}, UNCHANGED orders
      PROVE  Api!Next /\ Bounded'
    <2> DEFINE q == [checkouts[c] EXCEPT !.at = a]
    <2>1. q.at = a /\ q.key = checkouts[c].key
        BY Places DEF Requests
    <2>2. checkouts' = [checkouts EXCEPT ![c] = q]
        BY <1>4
    <2> HIDE DEF q
    <2>3. /\ Standing' = [Standing EXCEPT ![c] =
                            [at |-> "refused", customer |-> "customer", key |-> q.key]]
          /\ Standing[c] = [at |-> "open", customer |-> "customer", key |-> q.key]
          /\ c \in 1 .. MaxSubmits /\ Bounded'
        <3>1. /\ Standing' = [Standing EXCEPT ![c] =
                    [at |-> Heard[q.at], customer |-> "customer", key |-> q.key]]
              /\ Standing[c] =
                    [at |-> Heard[checkouts[c].at], customer |-> "customer", key |-> q.key]
              /\ c \in 1 .. MaxSubmits /\ Bounded'
            BY <2>1, <2>2, Turns
        <3>2. Heard["refused"] = "refused" /\ Heard["sent"] = "open" /\ Heard["read"] = "open"
            BY DEF Heard
        <3> QED
            BY <1>4, <2>1, <3>1, <3>2
    <2>4. [Standing[c] EXCEPT !.at = "refused"] =
             [at |-> "refused", customer |-> "customer", key |-> q.key]
        BY ONLY <2>3
    <2>5. Bought' = Bought
        BY <1>4 DEF Bought
    <2>6. Api!Answer(c)
        <3>1. Standing[c].at = "open"
            BY ONLY <2>3
        <3> QED
            BY <2>3, <2>4, <2>5, <3>1 DEF Api!Answer, Api!Moves, Api!Put, Standing, Bought
    <2> QED
        BY <2>3, <2>6 DEF Api!Next
<1>5. ASSUME NEW c \in DOMAIN checkouts, CheckoutReads(c)
      PROVE  (Api!Next \/ UNCHANGED Api!purchaseVars) /\ Bounded'
    <2>1. CASE Acceptable(c)
        <3> DEFINE q == [checkouts[c] EXCEPT !.at = "read"]
        <3>1. q.at = "read" /\ q.key = checkouts[c].key
            BY Places DEF Requests
        <3>2. checkouts' = [checkouts EXCEPT ![c] = q] /\ checkouts[c].at = "sent" /\ UNCHANGED orders
            BY <1>5, <2>1 DEF CheckoutReads
        <3> HIDE DEF q
        <3>3. Standing' = [Standing EXCEPT ![c] = Standing[c]] /\ Bounded'
            <4>1. /\ Standing' = [Standing EXCEPT ![c] =
                        [at |-> Heard[q.at], customer |-> "customer", key |-> q.key]]
                  /\ Standing[c] =
                        [at |-> Heard[checkouts[c].at], customer |-> "customer", key |-> q.key]
                  /\ c \in 1 .. MaxSubmits /\ Bounded'
                BY <3>1, <3>2, Turns
            <4>2. Heard["read"] = Heard["sent"]
                BY DEF Heard
            <4> QED
                BY <3>1, <3>2, <4>1, <4>2
        <3>4. Standing' = Standing
            BY <3>3 DEF Standing
        <3> QED
            BY <3>2, <3>3, <3>4 DEF Api!purchaseVars, Standing
    <2>2. CASE ~Acceptable(c)
        BY <1>4, <1>5, <2>2 DEF CheckoutReads
    <2> QED
        BY <2>1, <2>2
<1>6. ASSUME NEW c \in DOMAIN checkouts, CheckoutRollsBack(c) PROVE Api!Next /\ Bounded'
    BY <1>4, <1>6 DEF CheckoutRollsBack
<1>7. ASSUME NEW c \in DOMAIN checkouts, CheckoutCommits(c) PROVE Api!Next /\ Bounded'
    <2> DEFINE q == [checkouts[c] EXCEPT !.at = "done"]
               o == [visit |-> checkouts[c].visit, address |-> checkouts[c].address]
               k == checkouts[c].key
    <2>1. q.at = "done" /\ q.key = k
        BY Places DEF Requests
    <2>2. /\ checkouts' = [checkouts EXCEPT ![c] = q] /\ checkouts[c].at = "read"
          /\ orders' = Append(orders, o) /\ ~Taken(k)
        BY <1>7 DEF CheckoutCommits
    <2>3. o.visit = k
        BY Places
    <2> HIDE DEF q, o
    <2>4. /\ Standing' = [Standing EXCEPT ![c] =
                            [at |-> "bought", customer |-> "customer", key |-> k]]
          /\ Standing[c] = [at |-> "open", customer |-> "customer", key |-> k]
          /\ c \in 1 .. MaxSubmits /\ Bounded'
        <3>1. /\ Standing' = [Standing EXCEPT ![c] =
                    [at |-> Heard[q.at], customer |-> "customer", key |-> q.key]]
              /\ Standing[c] =
                    [at |-> Heard[checkouts[c].at], customer |-> "customer", key |-> q.key]
              /\ c \in 1 .. MaxSubmits /\ Bounded'
            BY <2>1, <2>2, Turns
        <3>2. Heard["done"] = "bought" /\ Heard["read"] = "open"
            BY DEF Heard
        <3> QED
            BY <2>1, <2>2, <3>1, <3>2
    <2>5. [Standing[c] EXCEPT !.at = "bought"] =
             [at |-> "bought", customer |-> "customer", key |-> k]
        BY ONLY <2>4
    <2>6. \A b \in Bought : b.key # k
        <3>1. \A m \in DOMAIN orders : orders[m].visit # k
            BY <2>2, Places DEF Taken, SInv, Sent
        <3> QED
            BY <3>1 DEF Bought
    <2> DEFINE n == Len(orders) + 1
    <2>7. /\ DOMAIN orders' = DOMAIN orders \cup {n} /\ orders'[n] = o
          /\ \A m \in DOMAIN orders : orders'[m] = orders[m]
        BY <2>2, Places
    <2> HIDE DEF n, k
    <2>8. Bought' = Bought \cup {[customer |-> "customer", key |-> k]}
        BY <2>3, <2>7 DEF Bought
    <2>9. Api!Buy(c)
        <3>1. Standing[c].at = "open" /\ Standing[c].customer = "customer" /\ Standing[c].key = k
            BY ONLY <2>4
        <3> QED
            BY <2>4, <2>5, <2>6, <2>8, <3>1
               DEF Api!Buy, Api!Moves, Api!Put, Api!Order, Standing, Bought
    <2> QED
        BY <2>4, <2>9 DEF Api!Next
<1>8. CASE \E p \in Pages : Open(p)
    BY <1>8, Quiet DEF Open
<1>9. CASE CartArrives \/ AddressesArrive \/ BookArrives \/ \E k \in Keys : AnswerIsLost(k)
    BY <1>9, Quiet DEF CartArrives, AddressesArrive, BookArrives, AnswerIsLost
<1>10. CASE Continue \/ Back \/ \E a \in AddressIds : SelectAddress(a)
    BY <1>10, Quiet DEF Continue, Back, SelectAddress
<1>11. CASE Buttons \/ ActSettles \/ AddRow \/ \E a \in AddressIds : OthersDelete(a)
    BY <1>11, Quiet DEF Buttons, ActSettles, AddRow, OthersDelete
<1>12. CASE UNCHANGED shopVars
    BY <1>12, Quiet
<1> QED
    BY <1>1, <1>2, <1>3, <1>5, <1>6, <1>7, <1>8, <1>9, <1>10, <1>11, <1>12
       DEF ShopNext, CheckoutPage

\* The API that the checkout page takes for granted is the one that
\* CheckoutService is (ImplementsPurchases): each request of a visit carries the
\* visit's key, is bought at most once and refused otherwise, however often the
\* button is pressed and the page is loaded anew (Checkout.tsx).
THEOREM PagesUsePurchases == Spec => ApiSpec
<1>1. Init => Api!Init /\ Bounded
    <2> SUFFICES ASSUME Init PROVE Api!Init /\ Bounded
        OBVIOUS
    <2>1. orders = << >> /\ checkouts = << >>
        BY DEF Init, ShopInit
    <2>2. DOMAIN orders = {} /\ DOMAIN checkouts = {} /\ Len(checkouts) = 0
        BY <2>1
    <2> QED
        BY <2>2, ShopAssumption DEF Api!Init, Api!Nothing, Asked, Bounded
<1>2. IInv /\ Bounded /\ [Next]_vars => [Api!Next]_(Api!purchaseVars) /\ Bounded'
    <2> SUFFICES ASSUME IInv, Bounded, [Next]_vars
                 PROVE  [Api!Next]_(Api!purchaseVars) /\ Bounded'
        OBVIOUS
    <2>1. SInv /\ [ShopNext]_shopVars
        BY DEF IInv, Next, vars
    <2> QED
        BY <2>1, PagesUseApi
<1> QED
    BY <1>1, <1>2, StorefrontInvariant, PTL DEF Spec, ApiSpec, Api!Spec
------------------------------------------------------------------------------
(***************************************************************************)
(* The support bot.                                                        *)
(*                                                                         *)
(* A draft waits in the state of its session and nowhere else; requests    *)
(* are served in the order in which they came, so the confirmation being   *)
(* served is a later one, and it is an admin's.  The API has carried out   *)
(* once what the log says was called, and nothing else.                    *)
(***************************************************************************)

\* The pending action of a session is a draft of that session, which waits,
\* unless a confirmation of that session is calling it.
PendingIsDraft ==
    \A s \in Sessions : pending[s] # 0 =>
        /\ log[pending[s]].session = s /\ log[pending[s]].ask = Served
        /\ \/ log[pending[s]].fate = "pending"
           \/ /\ serving # 0 /\ log[serving].session = s
              /\ log[pending[s]].fate = "called"

ServesOne ==
    serving # 0 =>
        /\ log[serving].ask.kind = "explicit" /\ log[serving].ask.user \in Admins
        /\ pending[log[serving].session] # 0

UnservedIsNoDraft == \A i \in DOMAIN log : log[i].ask # Served => log[i].fate = "none"

CallsOf(fate) == IF fate = "called" THEN 1 ELSE 0
CallsAreCounted == \A i \in DOMAIN log : log[i].calls = CallsOf(log[i].fate)

\* The next to be served.
Oldest(i) == \A j \in DOMAIN log : log[j].ask # Served => i <= j

InOrder ==
    /\ \A i, j \in DOMAIN log : log[i].ask # Served /\ log[j].ask = Served => j < i
    /\ serving # 0 => Oldest(serving)

BInv ==
    /\ BotTypeOK /\ PendingIsDraft /\ ServesOne /\ UnservedIsNoDraft
    /\ PendingIsLatest /\ CallsAreCounted /\ InOrder

\* The actions of CalledOnce and OnlyAdminsDecide.
Confirmed(i) ==
    \E j \in DOMAIN log :
        /\ i < j /\ serving' = j /\ log[j].session = log[i].session
        /\ log[j].ask.kind = "explicit" /\ log[j].ask.user \in Admins
Final ==
    \A i \in DOMAIN log :
        /\ log[i].fate \in Settled => log'[i].fate = log[i].fate
        /\ log'[i].calls # log[i].calls =>
              /\ log[i].calls = 0 /\ log'[i].calls = 1 /\ log[i].fate = "pending"
              /\ Confirmed(i)
Decided ==
    \A s \in Sessions :
        pending'[s] # pending[s] /\ restarts' = restarts =>
            \E i \in DOMAIN log :
                /\ log[i].session = s /\ log[i].ask.user \in Admins
                /\ log[i].ask # Served /\ log'[i].ask = Served

Asks == [user : Users \cup {Nobody}, kind : Messages \cup Confirmations] \cup {Served}

\* Fields of a request.
LEMMA Record ==
    \A q \in Request :
        /\ q = [session |-> q.session, ask |-> q.ask, answer |-> q.answer, fate |-> q.fate,
                calls |-> q.calls]
        /\ q.session \in Sessions /\ q.ask \in Asks
        /\ q.answer \in Answers \cup {"none", "closed"}
        /\ q.fate \in {"none", "pending"} \cup Settled
        /\ q.calls \in Nat
    BY DEF Request, Asks

\* What the log and the bot's state are.
LEMMA BotFacts ==
    ASSUME BInv
    PROVE  /\ log \in Seq(Request) /\ Len(log) \in Nat /\ DOMAIN log = 1 .. Len(log)
           /\ serving \in 0 .. Len(log) /\ pending \in [Sessions -> 0 .. Len(log)]
           /\ activeIntent \in [Sessions -> {"none", "write", "read", "clarify"}]
           /\ restarts \in 0 .. MaxRestarts
           /\ \A i \in DOMAIN log : log[i] \in Request /\ log[i].session \in Sessions
           /\ \A s \in Sessions : pending[s] # 0 => pending[s] \in DOMAIN log
    BY Record DEF BInv, BotTypeOK

\* One entry of a sequence is replaced.
LEMMA OneReplaced ==
    ASSUME NEW S, NEW s \in Seq(S), NEW i \in DOMAIN s, NEW e \in S, NEW t,
           t = [s EXCEPT ![i] = e]
    PROVE  /\ t \in Seq(S) /\ Len(t) = Len(s) /\ DOMAIN t = DOMAIN s
           /\ \A j \in DOMAIN s : t[j] = IF j = i THEN e ELSE s[j]
    OBVIOUS

\* A request is answered, or its connection closed: it is served.
Answered(i, a) ==
    [log EXCEPT ![i].ask = Served, ![i].answer = IF Waits(i) THEN a ELSE @]

LEMMA AnsweredEffect ==
    ASSUME log \in Seq(Request), NEW i \in DOMAIN log, NEW a \in Answers, NEW l,
           l = Answered(i, a)
    PROVE  /\ l \in Seq(Request) /\ Len(l) = Len(log) /\ DOMAIN l = DOMAIN log
           /\ \A j \in DOMAIN log :
                 /\ l[j].session = log[j].session /\ l[j].fate = log[j].fate
                 /\ l[j].calls = log[j].calls
                 /\ l[j].ask = IF j = i THEN Served ELSE log[j].ask
<1>1. log[i] \in Request
    OBVIOUS
<1> PICK q : q = log[i]
    OBVIOUS
<1> PICK b : b = IF Waits(i) THEN a ELSE q.answer
    OBVIOUS
<1> PICK r : r = [session |-> q.session, ask |-> Served, answer |-> b, fate |-> q.fate,
                  calls |-> q.calls]
    OBVIOUS
<1>2. q = [session |-> q.session, ask |-> q.ask, answer |-> q.answer, fate |-> q.fate,
           calls |-> q.calls]
    BY <1>1, Record
<1>3. b \in Answers \cup {"none", "closed"}
    BY <1>1, Record DEF Waits
<1>4. r \in Request
    BY <1>1, <1>3, Record DEF Request
<1>5. l = [log EXCEPT ![i] = r]
    <2> PICK p : p = [q EXCEPT !.ask = Served]
        OBVIOUS
    <2> PICK k : k = [log EXCEPT ![i] = p]
        OBVIOUS
    <2>1. p = [session |-> q.session, ask |-> Served, answer |-> q.answer, fate |-> q.fate,
               calls |-> q.calls]
        BY <1>2
    <2>2. p.answer = q.answer
        BY <2>1
    <2>3. [p EXCEPT !.answer = b] = r
        BY ONLY <2>1, r = [session |-> q.session, ask |-> Served, answer |-> b, fate |-> q.fate,
                           calls |-> q.calls]
    <2>4. k[i] = p /\ [k EXCEPT ![i] = r] = [log EXCEPT ![i] = r]
        BY <1>1
    <2>5. l = [k EXCEPT ![i] = [p EXCEPT !.answer = b]]
        BY <2>2, <2>4 DEF Answered
    <2> QED
        BY <2>3, <2>4, <2>5
<1>6. /\ l \in Seq(Request) /\ Len(l) = Len(log) /\ DOMAIN l = DOMAIN log
      /\ \A j \in DOMAIN log : l[j] = IF j = i THEN r ELSE log[j]
    BY ONLY log \in Seq(Request), i \in DOMAIN log, <1>4, <1>5, OneReplaced
<1> QED
    BY <1>6

LEMMA ReplyEffect ==
    ASSUME log \in Seq(Request), NEW i \in DOMAIN log, NEW l, l = Reply(log, i)
    PROVE  /\ l \in Seq(Request) /\ Len(l) = Len(log) /\ DOMAIN l = DOMAIN log
           /\ \A j \in DOMAIN log :
                 /\ l[j].session = log[j].session /\ l[j].fate = log[j].fate
                 /\ l[j].calls = log[j].calls
                 /\ l[j].ask = IF j = i THEN Served ELSE log[j].ask
<1>1. l = Answered(i, "plain")
    BY DEF Reply, Answered
<1>2. "plain" \in Answers
    BY DEF Answers
<1> QED
    BY <1>1, <1>2, AnsweredEffect

\* Something becomes of a draft.
LEMMA FateEffect ==
    ASSUME NEW l \in Seq(Request), NEW i \in 0 .. Len(l), NEW fate \in Settled \cup {"pending"},
           NEW m, m = Fate(l, i, fate)
    PROVE  /\ m \in Seq(Request) /\ Len(m) = Len(l) /\ DOMAIN m = DOMAIN l
           /\ \A j \in DOMAIN l :
                 /\ m[j].session = l[j].session /\ m[j].ask = l[j].ask
                 /\ m[j].calls = l[j].calls
                 /\ m[j].fate = IF j = i THEN fate ELSE l[j].fate
<1>1. CASE i = 0
    BY <1>1 DEF Fate
<1>2. CASE i # 0
    <2>1. i \in DOMAIN l /\ l[i] \in Request
        BY <1>2
    <2> PICK q : q = l[i]
        OBVIOUS
    <2> PICK r : r = [session |-> q.session, ask |-> q.ask, answer |-> q.answer, fate |-> fate,
                      calls |-> q.calls]
        OBVIOUS
    <2>2. q = [session |-> q.session, ask |-> q.ask, answer |-> q.answer, fate |-> q.fate,
               calls |-> q.calls]
        BY <2>1, Record
    <2>3. r \in Request
        BY <2>1, Record DEF Request
    <2>4. m = [l EXCEPT ![i] = r]
        <3>1. [q EXCEPT !.fate = fate] = r
            BY <2>2
        <3>2. m = [l EXCEPT ![i] = [q EXCEPT !.fate = fate]]
            BY <1>2 DEF Fate
        <3> QED
            BY <3>1, <3>2
    <2>5. /\ m \in Seq(Request) /\ Len(m) = Len(l) /\ DOMAIN m = DOMAIN l
          /\ \A j \in DOMAIN l : m[j] = IF j = i THEN r ELSE l[j]
        BY <2>1, <2>3, <2>4
    <2> QED
        BY <2>5
<1> QED
    BY <1>1, <1>2

\* The API carries a draft out.
CarriedOut(i) == [log EXCEPT ![i].fate = "called", ![i].calls = @ + 1]

LEMMA CallEffect ==
    ASSUME log \in Seq(Request), NEW i \in DOMAIN log, log' = CarriedOut(i)
    PROVE  /\ log' \in Seq(Request) /\ Len(log') = Len(log) /\ DOMAIN log' = DOMAIN log
           /\ \A j \in DOMAIN log :
                 /\ log'[j].session = log[j].session /\ log'[j].ask = log[j].ask
                 /\ log'[j].calls = IF j = i THEN log[i].calls + 1 ELSE log[j].calls
                 /\ log'[j].fate = IF j = i THEN "called" ELSE log[j].fate
<1>1. log[i] \in Request
    OBVIOUS
<1> PICK q : q = log[i]
    OBVIOUS
<1> PICK n : n = q.calls + 1
    OBVIOUS
<1> PICK r : r = [session |-> q.session, ask |-> q.ask, answer |-> q.answer, fate |-> "called",
                  calls |-> n]
    OBVIOUS
<1>2. q = [session |-> q.session, ask |-> q.ask, answer |-> q.answer, fate |-> q.fate,
           calls |-> q.calls]
    BY <1>1, Record
<1>3. r \in Request
    <2>1. n \in Nat /\ "called" \in {"none", "pending"} \cup Settled
        BY <1>1, Record DEF Settled
    <2> QED
        BY <1>1, <2>1, Record DEF Request
<1>4. log' = [log EXCEPT ![i] = r]
    <2> PICK p : p = [q EXCEPT !.fate = "called"]
        OBVIOUS
    <2> PICK k : k = [log EXCEPT ![i] = p]
        OBVIOUS
    <2>1. p = [session |-> q.session, ask |-> q.ask, answer |-> q.answer, fate |-> "called",
               calls |-> q.calls]
        BY <1>2
    <2>2. p.calls = q.calls
        BY <2>1
    <2>3. [p EXCEPT !.calls = n] = r
        BY ONLY <2>1, r = [session |-> q.session, ask |-> q.ask, answer |-> q.answer,
                           fate |-> "called", calls |-> n]
    <2>4. k[i] = p /\ [k EXCEPT ![i] = r] = [log EXCEPT ![i] = r]
        BY <1>1
    <2>5. log' = [k EXCEPT ![i] = [p EXCEPT !.calls = n]]
        BY <2>2, <2>4 DEF CarriedOut
    <2> QED
        BY <2>3, <2>4, <2>5
<1>5. /\ log' \in Seq(Request) /\ Len(log') = Len(log) /\ DOMAIN log' = DOMAIN log
      /\ \A j \in DOMAIN log : log'[j] = IF j = i THEN r ELSE log[j]
    BY ONLY log \in Seq(Request), i \in DOMAIN log, <1>3, <1>4, OneReplaced
<1> QED
    BY <1>5

\* Steps of the chat and of the proxy: only answers change.
LEMMA ChatStep ==
    ASSUME BInv, log' \in Seq(Request), Len(log') = Len(log),
           \A i \in DOMAIN log :
              /\ log'[i].session = log[i].session /\ log'[i].ask = log[i].ask
              /\ log'[i].fate = log[i].fate /\ log'[i].calls = log[i].calls,
           UNCHANGED <<bot, restarts>>, tabToken' \in BOOLEAN, chat' \in ChatStatuses
    PROVE  BInv' /\ Final /\ Decided
<1>1. DOMAIN log = 1 .. Len(log) /\ DOMAIN log' = DOMAIN log /\ Len(log) \in Nat
    BY DEF BInv, BotTypeOK
<1>2. BotTypeOK'
    BY <1>1 DEF BInv, BotTypeOK, bot
<1>3. /\ serving # 0 => serving \in DOMAIN log
      /\ \A s \in Sessions : pending[s] # 0 => pending[s] \in DOMAIN log
      /\ serving' = serving /\ pending' = pending
    BY <1>1 DEF BInv, BotTypeOK, bot
<1>4. ServesOne'
    BY <1>3 DEF BInv, ServesOne
<1>5. PendingIsDraft'
    BY <1>3 DEF BInv, PendingIsDraft
<1>6. UnservedIsNoDraft' /\ PendingIsLatest'
    BY <1>1 DEF BInv, UnservedIsNoDraft, PendingIsLatest, bot
<1>7. CallsAreCounted'
    BY <1>1 DEF BInv, CallsAreCounted
<1>8. InOrder'
    BY <1>1, <1>3 DEF BInv, InOrder, Oldest
<1> QED
    BY <1>2, <1>3, <1>4, <1>5, <1>6, <1>7, <1>8 DEF BInv, Final, Decided

\* A request is sent.
LEMMA SendStep ==
    ASSUME BInv, NEW s \in Sessions, NEW u \in Users \cup {Nobody},
           NEW kind \in Messages \cup Confirmations, NEW a \in {"none", "closed"},
           Receive(s, u, kind, a), UNCHANGED <<bot, tabToken, restarts>>, chat' \in ChatStatuses
    PROVE  BInv' /\ Final /\ Decided
<1> PICK k : k = [user |-> u, kind |-> kind]
    OBVIOUS
<1> PICK q : q = [session |-> s, ask |-> k, answer |-> a, fate |-> "none", calls |-> 0]
    OBVIOUS
<1>1. /\ log \in Seq(Request) /\ Len(log) < MaxRequests /\ log' = Append(log, q)
      /\ DOMAIN log = 1 .. Len(log) /\ Len(log) \in Nat
    BY DEF BInv, BotTypeOK, Receive
<1>2. q \in Request /\ q.ask # Served
    <2>1. k \in [user : Users \cup {Nobody}, kind : Messages \cup Confirmations]
        OBVIOUS
    <2>2. k # Served
        BY DEF Served, Messages, Confirmations
    <2> QED
        BY <2>1, <2>2 DEF Request
<1>3. /\ log' \in Seq(Request) /\ Len(log') = Len(log) + 1 /\ DOMAIN log' = 1 .. Len(log) + 1
      /\ \A i \in DOMAIN log : log'[i] = log[i]
      /\ \A i \in DOMAIN log' \ DOMAIN log : log'[i] = q
    BY <1>1, <1>2
<1>4. BotTypeOK'
    BY <1>1, <1>3, BotAssumption DEF BInv, BotTypeOK, bot
<1>5. PendingIsDraft' /\ ServesOne'
    BY <1>1, <1>3 DEF BInv, BotTypeOK, PendingIsDraft, ServesOne, bot
<1>6. UnservedIsNoDraft' /\ PendingIsLatest'
    BY <1>1, <1>3 DEF BInv, UnservedIsNoDraft, PendingIsLatest, bot
<1>7. CallsAreCounted'
    BY <1>1, <1>3 DEF BInv, CallsAreCounted, CallsOf
<1>8. InOrder'
    <2>1. serving' = serving /\ serving \in 0 .. Len(log)
        BY DEF BInv, BotTypeOK, bot
    <2>2. InOrder
        BY DEF BInv
    <2> QED
        BY <1>1, <1>2, <1>3, <2>1, <2>2 DEF InOrder, Oldest
<1>9. Final /\ Decided
    BY <1>3 DEF Final, Decided, bot
<1> QED
    BY <1>4, <1>5, <1>6, <1>7, <1>8, <1>9 DEF BInv

\* Steps of the bot: a fate changes only from none or pending, to called only for
\* a confirmation, and a call is counted.
LEMMA ServeStep ==
    ASSUME BInv, log' \in Seq(Request), Len(log') = Len(log),
           \A i \in DOMAIN log :
              /\ log'[i].session = log[i].session /\ log'[i].ask \in {log[i].ask, Served}
              /\ log'[i].calls = CallsOf(log'[i].fate)
              /\ log'[i].fate # log[i].fate =>
                    /\ log[i].fate \in {"none", "pending"} /\ log'[i].ask = Served
                    /\ log'[i].fate = "called" => log[i].fate = "pending" /\ Confirmed(i),
           UNCHANGED <<chat, tabToken>>, restarts' \in 0 .. MaxRestarts,
           serving' \in 0 .. Len(log), pending' \in [Sessions -> 0 .. Len(log)],
           activeIntent' \in [Sessions -> {"none", "write", "read", "clarify"}],
           PendingIsDraft', ServesOne', PendingIsLatest', InOrder', Decided
    PROVE  BInv' /\ Final /\ Decided
<1>1. DOMAIN log = 1 .. Len(log) /\ DOMAIN log' = DOMAIN log /\ Len(log) \in Nat
    BY DEF BInv, BotTypeOK
<1>2. BotTypeOK'
    BY <1>1 DEF BInv, BotTypeOK
<1>3. UnservedIsNoDraft'
    BY <1>1 DEF BInv, UnservedIsNoDraft
<1>4. CallsAreCounted'
    BY <1>1 DEF CallsAreCounted
<1>5. Final
    <2> SUFFICES ASSUME NEW i \in DOMAIN log
                 PROVE  /\ log[i].fate \in Settled => log'[i].fate = log[i].fate
                        /\ log'[i].calls # log[i].calls =>
                              /\ log[i].calls = 0 /\ log'[i].calls = 1 /\ log[i].fate = "pending"
                              /\ Confirmed(i)
        BY DEF Final
    <2>1. log[i].calls = CallsOf(log[i].fate)
        BY DEF BInv, CallsAreCounted
    <2>2. log[i].fate \in Settled => log'[i].fate = log[i].fate
        BY DEF Settled
    <2>3. ASSUME log'[i].calls # log[i].calls
          PROVE  log'[i].fate = "called" /\ log[i].fate = "pending" /\ Confirmed(i)
        BY <2>1, <2>3 DEF CallsOf
    <2> QED
        BY <2>1, <2>2, <2>3 DEF CallsOf
<1> QED
    BY <1>2, <1>3, <1>4, <1>5 DEF BInv

\* Serving the oldest request keeps the order.
LEMMA OrderStays ==
    ASSUME BInv, NEW i \in DOMAIN log, Oldest(i), log[i].ask # Served, DOMAIN log' = DOMAIN log,
           \A j \in DOMAIN log : log'[j].ask = IF j = i THEN Served ELSE log[j].ask,
           serving' = 0
    PROVE  InOrder'
<1>1. InOrder /\ DOMAIN log = 1 .. Len(log) /\ Len(log) \in Nat
    BY DEF BInv, BotTypeOK
<1> QED
    BY <1>1 DEF InOrder, Oldest

\* The bot is free and serves request i.
LEMMA ProcessStep ==
    ASSUME BInv, serving = 0, NEW i \in Backlog, Oldest(i), log[i].ask.kind \in Messages,
           ProcessMessage(i), UNCHANGED <<chat, tabToken, restarts>>
    PROVE  BInv' /\ Final /\ Decided
<1>1. i \in DOMAIN log /\ log[i].ask # Served /\ log[i].fate = "none" /\ serving' = 0
    BY DEF Backlog, ProcessMessage, BInv, UnservedIsNoDraft
<1> PICK s \in Sessions : s = log[i].session
    BY <1>1, BotFacts
<1> PICK name : name = Classify(log[i].ask.kind, activeIntent[s])
    OBVIOUS
<1>2. activeIntent' \in [Sessions -> {"none", "write", "read", "clarify"}]
    <2>1. name \in {"none", "write", "read", "clarify"}
        BY BotFacts DEF Classify, Messages
    <2>2. activeIntent' = [activeIntent EXCEPT ![s] = name]
        BY DEF ProcessMessage
    <2> QED
        BY <2>1, <2>2, BotFacts
<1>3. \A j \in DOMAIN log : log[j].calls = CallsOf(log[j].fate)
    BY DEF BInv, CallsAreCounted
<1> PICK l : l = Reply(log, i)
    OBVIOUS
<1>4. /\ l \in Seq(Request) /\ Len(l) = Len(log) /\ DOMAIN l = DOMAIN log
      /\ \A j \in DOMAIN log :
            /\ l[j].session = log[j].session /\ l[j].fate = log[j].fate
            /\ l[j].calls = log[j].calls
            /\ l[j].ask = IF j = i THEN Served ELSE log[j].ask
    BY <1>1, BotFacts, ReplyEffect
<1>5. CASE log' = Reply(log, i) /\ UNCHANGED pending
    <2>1. log' = l /\ pending' = pending
        BY <1>5
    <2>2. PendingIsDraft' /\ ServesOne'
        BY <1>1, <1>4, <2>1, BotFacts DEF BInv, PendingIsDraft, ServesOne
    <2>3. PendingIsLatest'
        <3>1. PendingIsLatest
            BY DEF BInv
        <3> QED
            BY <1>4, <2>1, <3>1 DEF PendingIsLatest
    <2>4. InOrder' /\ Decided
        BY <1>1, <1>4, <2>1, OrderStays DEF Decided
    <2> QED
        BY <1>1, <1>2, <1>3, <1>4, <2>1, <2>2, <2>3, <2>4, BotFacts, ServeStep
<1>6. CASE log[i].ask.user \in Admins /\ Draft(i, s)
    <2> PICK m : m = Fate(l, pending[s], "replaced")
        OBVIOUS
    <2> PICK n : n = Fate(m, i, "pending")
        OBVIOUS
    <2>1. /\ m \in Seq(Request) /\ Len(m) = Len(l) /\ DOMAIN m = DOMAIN l
          /\ \A j \in DOMAIN l :
                /\ m[j].session = l[j].session /\ m[j].ask = l[j].ask
                /\ m[j].calls = l[j].calls
                /\ m[j].fate = IF j = pending[s] THEN "replaced" ELSE l[j].fate
        BY <1>4, BotFacts, FateEffect DEF Settled
    <2>2. /\ n \in Seq(Request) /\ Len(n) = Len(m) /\ DOMAIN n = DOMAIN m
          /\ \A j \in DOMAIN m :
                /\ n[j].session = m[j].session /\ n[j].ask = m[j].ask
                /\ n[j].calls = m[j].calls
                /\ n[j].fate = IF j = i THEN "pending" ELSE m[j].fate
        BY <1>1, <1>4, <2>1, BotFacts, FateEffect
    <2>3. log' = n /\ pending' = [pending EXCEPT ![s] = i]
        BY <1>6 DEF Draft
    <2>4. /\ Len(log') = Len(log) /\ DOMAIN log' = DOMAIN log /\ log' \in Seq(Request)
          /\ \A j \in DOMAIN log :
                /\ log'[j].session = log[j].session
                /\ log'[j].ask = IF j = i THEN Served ELSE log[j].ask
                /\ log'[j].calls = log[j].calls
                /\ log'[j].fate = IF j = i THEN "pending"
                                  ELSE IF j = pending[s] THEN "replaced" ELSE log[j].fate
        BY <1>4, <2>1, <2>2, <2>3
    <2>5. /\ \A t \in Sessions : pending'[t] = IF t = s THEN i ELSE pending[t]
          /\ pending' \in [Sessions -> 0 .. Len(log)]
        BY <1>1, <2>3, BotFacts
    <2>6. \A t \in Sessions : pending[t] # 0 =>
            /\ log[pending[t]].session = t /\ log[pending[t]].fate = "pending"
            /\ log[pending[t]].ask = Served /\ pending[t] # i
        BY <1>1, BotFacts DEF BInv, PendingIsDraft
    <2>7. PendingIsDraft' /\ ServesOne'
        BY <1>1, <2>4, <2>5, <2>6, BotFacts DEF PendingIsDraft, ServesOne
    <2>8. PendingIsLatest'
        <3>1. PendingIsLatest
            BY DEF BInv
        <3> QED
            BY <1>1, <2>4, <2>5, <2>6, <3>1 DEF PendingIsLatest
    <2>9. \A j \in DOMAIN log :
              /\ log'[j].calls = CallsOf(log'[j].fate)
              /\ log'[j].fate # log[j].fate =>
                    /\ log[j].fate \in {"none", "pending"} /\ log'[j].ask = Served
                    /\ log'[j].fate # "called"
        <3>1. \A j \in DOMAIN log : log'[j].fate # log[j].fate =>
                    /\ log[j].fate \in {"none", "pending"} /\ log'[j].ask = Served
                    /\ log'[j].fate # "called"
            BY <1>1, <2>4, <2>6
        <3> QED
            BY <1>3, <2>4, <3>1 DEF CallsOf
    <2>10. InOrder' /\ Decided
        BY <1>1, <1>6, <2>4, <2>5, OrderStays DEF Decided
    <2> QED
        BY <1>1, <1>2, <2>4, <2>5, <2>7, <2>8, <2>9, <2>10, BotFacts, ServeStep
<1>7. \/ log' = Reply(log, i) /\ UNCHANGED pending
      \/ log[i].ask.user \in Admins /\ Draft(i, s)
    BY DEF ProcessMessage, IsAuthorized
<1> QED
    BY <1>5, <1>6, <1>7

LEMMA ConfirmStep ==
    ASSUME BInv, serving = 0, NEW i \in Backlog, Oldest(i), log[i].ask.kind \notin Messages,
           ConfirmAction(i), UNCHANGED <<chat, tabToken, restarts>>
    PROVE  BInv' /\ Final /\ Decided
<1>1. i \in DOMAIN log /\ log[i].ask # Served /\ log[i].fate = "none"
    BY DEF Backlog, BInv, UnservedIsNoDraft
<1> PICK s \in Sessions : s = log[i].session
    BY <1>1, BotFacts
<1>2. activeIntent' = activeIntent
    BY DEF ConfirmAction
<1>3. \A t \in Sessions : pending[t] # 0 =>
        /\ log[pending[t]].session = t /\ log[pending[t]].fate = "pending"
        /\ log[pending[t]].ask = Served /\ pending[t] # i /\ pending[t] < i
        /\ pending[t] \in DOMAIN log
    BY <1>1, BotFacts DEF BInv, PendingIsDraft, InOrder
<1>4. \A j \in DOMAIN log : log[j].calls = CallsOf(log[j].fate)
    BY DEF BInv, CallsAreCounted
<1> PICK l : l = Reply(log, i)
    OBVIOUS
<1>5. /\ l \in Seq(Request) /\ Len(l) = Len(log) /\ DOMAIN l = DOMAIN log
      /\ \A j \in DOMAIN log :
            /\ l[j].session = log[j].session /\ l[j].fate = log[j].fate
            /\ l[j].calls = log[j].calls
            /\ l[j].ask = IF j = i THEN Served ELSE log[j].ask
    BY <1>1, BotFacts, ReplyEffect
<1>6. CASE log' = Reply(log, i) /\ UNCHANGED <<serving, pending>>
    <2>1. log' = l /\ pending' = pending /\ serving' = 0
        BY <1>6
    <2>2. PendingIsDraft' /\ ServesOne'
        BY <1>1, <1>5, <2>1, BotFacts DEF BInv, PendingIsDraft, ServesOne
    <2>3. PendingIsLatest'
        <3>1. PendingIsLatest
            BY DEF BInv
        <3> QED
            BY <1>5, <2>1, <3>1 DEF PendingIsLatest
    <2>4. InOrder' /\ Decided
        BY <1>1, <1>5, <2>1, OrderStays DEF Decided
    <2> QED
        BY <1>2, <1>4, <1>5, <2>1, <2>2, <2>3, <2>4, BotFacts, ServeStep
<1>7. CASE /\ pending[s] # 0 /\ log[i].ask.user \in Admins
           /\ Cancel(i, s) /\ UNCHANGED serving
    <2> PICK m : m = Fate(l, pending[s], "cancelled")
        OBVIOUS
    <2>1. /\ m \in Seq(Request) /\ Len(m) = Len(l) /\ DOMAIN m = DOMAIN l
          /\ \A j \in DOMAIN l :
                /\ m[j].session = l[j].session /\ m[j].ask = l[j].ask
                /\ m[j].calls = l[j].calls
                /\ m[j].fate = IF j = pending[s] THEN "cancelled" ELSE l[j].fate
        BY <1>5, BotFacts, FateEffect DEF Settled
    <2>2. log' = m /\ pending' = [pending EXCEPT ![s] = 0] /\ serving' = 0
        BY <1>7 DEF Cancel, ClearPending
    <2>3. /\ Len(log') = Len(log) /\ DOMAIN log' = DOMAIN log /\ log' \in Seq(Request)
          /\ \A j \in DOMAIN log :
                /\ log'[j].session = log[j].session
                /\ log'[j].ask = IF j = i THEN Served ELSE log[j].ask
                /\ log'[j].calls = log[j].calls
                /\ log'[j].fate = IF j = pending[s] THEN "cancelled" ELSE log[j].fate
        BY <1>5, <2>1, <2>2
    <2>4. /\ \A t \in Sessions : pending'[t] = IF t = s THEN 0 ELSE pending[t]
          /\ pending' \in [Sessions -> 0 .. Len(log)]
        BY <2>2, BotFacts
    <2>5. PendingIsDraft' /\ ServesOne'
        BY <1>3, <1>7, <2>2, <2>3, <2>4, BotFacts DEF PendingIsDraft, ServesOne
    <2>6. PendingIsLatest'
        BY <1>3, <2>3, <2>4, BotFacts DEF BInv, PendingIsLatest
    <2>7. \A j \in DOMAIN log : log'[j].fate # log[j].fate =>
              /\ log[j].fate \in {"none", "pending"} /\ log'[j].ask = Served
              /\ log'[j].fate # "called"
        BY <1>3, <1>7, <2>3
    <2>8. \A j \in DOMAIN log : log'[j].calls = CallsOf(log'[j].fate)
        BY <1>3, <1>4, <1>7, <2>3 DEF CallsOf
    <2>9. InOrder' /\ Decided
        BY <1>1, <1>7, <2>2, <2>3, <2>4, OrderStays DEF Decided
    <2> QED
        BY <1>2, <2>2, <2>3, <2>4, <2>5, <2>6, <2>7, <2>8, <2>9, BotFacts, ServeStep
<1>8. CASE /\ pending[s] # 0 /\ log[i].ask.kind = "explicit" /\ log[i].ask.user \in Admins
           /\ ExecuteMutation(i, s) /\ UNCHANGED pending
    <2> PICK p \in DOMAIN log : p = pending[s]
        BY <1>3, <1>8
    <2>1. serving' = i /\ pending' = pending
        BY <1>8 DEF ExecuteMutation
    <2>2. log[p].session = s /\ log[p].fate = "pending" /\ log[p].ask = Served /\ p < i
        BY <1>3, <1>8
    <2>3. /\ log' \in Seq(Request) /\ Len(log') = Len(log) /\ DOMAIN log' = DOMAIN log
          /\ \A j \in DOMAIN log :
                /\ log'[j].session = log[j].session /\ log'[j].ask = log[j].ask
                /\ log'[j].calls = CallsOf(log'[j].fate)
                /\ log'[j].fate # log[j].fate => j = p /\ log'[j].fate = "called"
        <3>1. log' = CarriedOut(p) \/ UNCHANGED log
            <4>1. log' = CarriedOut(pending[s]) \/ UNCHANGED log
                BY <1>8, Zenon DEF ExecuteMutation, CarriedOut
            <4> QED
                BY <4>1
        <3>2. CASE log' = CarriedOut(p)
            <4>1. /\ log' \in Seq(Request) /\ Len(log') = Len(log) /\ DOMAIN log' = DOMAIN log
                  /\ \A j \in DOMAIN log :
                        /\ log'[j].session = log[j].session /\ log'[j].ask = log[j].ask
                        /\ log'[j].calls = IF j = p THEN log[p].calls + 1 ELSE log[j].calls
                        /\ log'[j].fate = IF j = p THEN "called" ELSE log[j].fate
                BY <3>2, BotFacts, CallEffect
            <4>2. \A j \in DOMAIN log : log'[j].calls = CallsOf(log'[j].fate)
                BY <1>4, <2>2, <4>1 DEF CallsOf
            <4> QED
                BY <4>1, <4>2
        <3>3. CASE UNCHANGED log
            BY <1>4, <3>3, BotFacts
        <3> QED
            BY <3>1, <3>2, <3>3
    <2>4. Confirmed(p)
        BY <1>1, <1>8, <2>1, <2>2 DEF Confirmed
    <2>5. PendingIsDraft'
        <3>1. \A t \in Sessions : pending[t] # 0 /\ pending[t] = p => t = s
            BY <1>3, <2>2
        <3> QED
            BY <1>1, <1>3, <2>1, <2>3, <3>1, BotFacts DEF PendingIsDraft
    <2>6. ServesOne'
        BY <1>1, <1>8, <2>1, <2>3, BotFacts DEF ServesOne
    <2>7. PendingIsLatest'
        BY <2>1, <2>3, BotFacts DEF BInv, PendingIsLatest
    <2>8. InOrder' /\ Decided
        BY <1>1, <2>1, <2>3 DEF BInv, InOrder, Oldest, Decided
    <2>9. \A j \in DOMAIN log : log'[j].fate # log[j].fate =>
              /\ log[j].fate \in {"none", "pending"} /\ log'[j].ask = Served
              /\ log[j].fate = "pending" /\ Confirmed(j)
        BY <2>2, <2>3, <2>4
    <2>10. serving' \in 0 .. Len(log) /\ pending' \in [Sessions -> 0 .. Len(log)]
        BY <1>1, <2>1, BotFacts
    <2> QED
        BY <1>2, <2>3, <2>5, <2>6, <2>7, <2>8, <2>9, <2>10, BotFacts, ServeStep
<1>9. \/ log' = Reply(log, i) /\ UNCHANGED <<serving, pending>>
      \/ pending[s] # 0 /\ log[i].ask.user \in Admins /\ Cancel(i, s) /\ UNCHANGED serving
      \/ /\ pending[s] # 0 /\ log[i].ask.kind = "explicit" /\ log[i].ask.user \in Admins
         /\ ExecuteMutation(i, s) /\ UNCHANGED pending
    BY DEF ConfirmAction, IsAuthorized
<1> QED
    BY <1>6, <1>7, <1>8, <1>9

\* The confirmation that is being served.
LEMMA Serves ==
    ASSUME BInv, serving # 0
    PROVE  /\ serving \in DOMAIN log /\ Oldest(serving) /\ log[serving].session \in Sessions
           /\ log[serving].ask # Served /\ log[serving].ask.user \in Admins
           /\ pending[log[serving].session] \in DOMAIN log
           /\ pending[log[serving].session] # 0
<1>1. serving \in DOMAIN log /\ log[serving].session \in Sessions
    BY BotFacts
<1>2. log[serving].ask # Served
    BY DEF BInv, ServesOne, Served
<1> QED
    BY <1>1, <1>2, BotFacts DEF BInv, ServesOne, InOrder

LEMMA FinishCall ==
    ASSUME BInv, BotFinishes
    PROVE  BInv' /\ Final /\ Decided
<1>1. serving # 0 /\ serving \in DOMAIN log /\ log[serving].ask # Served
    BY Serves DEF BotFinishes
<1> PICK s \in Sessions : s = log[serving].session
    BY <1>1, Serves
<1> PICK p \in DOMAIN log : p = pending[s] /\ p # 0
    BY <1>1, Serves
<1> PICK l : l = Reply(log, serving)
    OBVIOUS
<1>2. /\ l \in Seq(Request) /\ Len(l) = Len(log) /\ DOMAIN l = DOMAIN log
      /\ \A j \in DOMAIN log :
            /\ l[j].session = log[j].session /\ l[j].fate = log[j].fate
            /\ l[j].calls = log[j].calls
            /\ l[j].ask = IF j = serving THEN Served ELSE log[j].ask
    BY <1>1, BotFacts, ReplyEffect
<1>3. /\ serving' = 0 /\ pending' = [pending EXCEPT ![s] = 0]
      /\ log' = IF log[p].fate = "pending" THEN Fate(l, p, "refused") ELSE l
      /\ UNCHANGED <<activeIntent, chat, tabToken, restarts>>
    BY DEF BotFinishes, ClearPending
<1>4. /\ log' \in Seq(Request) /\ Len(log') = Len(log) /\ DOMAIN log' = DOMAIN log
      /\ \A j \in DOMAIN log :
            /\ log'[j].session = log[j].session /\ log'[j].calls = log[j].calls
            /\ log'[j].ask = IF j = serving THEN Served ELSE log[j].ask
            /\ log'[j].fate = IF j = p /\ log[p].fate = "pending" THEN "refused" ELSE log[j].fate
    <2>1. CASE log[p].fate = "pending"
        <3> PICK m : m = Fate(l, p, "refused")
            OBVIOUS
        <3>1. p \in 0 .. Len(l) /\ "refused" \in Settled \cup {"pending"}
            BY <1>2, BotFacts DEF Settled
        <3>2. /\ m \in Seq(Request) /\ Len(m) = Len(l) /\ DOMAIN m = DOMAIN l
              /\ \A j \in DOMAIN l :
                    /\ m[j].session = l[j].session /\ m[j].ask = l[j].ask
                    /\ m[j].calls = l[j].calls
                    /\ m[j].fate = IF j = p THEN "refused" ELSE l[j].fate
            BY ONLY <1>2, <3>1, m = Fate(l, p, "refused"), FateEffect
        <3> QED
            BY <1>2, <1>3, <2>1, <3>2
    <2>2. CASE log[p].fate # "pending"
        BY <1>2, <1>3, <2>2
    <2> QED
        BY <2>1, <2>2
<1>5. /\ \A t \in Sessions : pending'[t] = IF t = s THEN 0 ELSE pending[t]
      /\ pending' \in [Sessions -> 0 .. Len(log)]
    BY <1>3, BotFacts
<1>6. /\ log[p].session = s /\ log[p].ask = Served
      /\ \A t \in Sessions : t # s /\ pending[t] # 0 =>
            /\ pending[t] \in DOMAIN log /\ pending[t] # p /\ log[pending[t]].session = t
            /\ log[pending[t]].ask = Served /\ log[pending[t]].fate = "pending"
    BY <1>1, BotFacts DEF BInv, PendingIsDraft
<1>7. PendingIsDraft' /\ ServesOne'
    BY <1>3, <1>4, <1>5, <1>6 DEF PendingIsDraft, ServesOne
<1>8. PendingIsLatest'
    <2>1. PendingIsLatest
        BY DEF BInv
    <2> QED
        BY <1>3, <1>4, <1>5, <2>1 DEF PendingIsLatest
<1>9. InOrder' /\ Decided
    <2>1. InOrder'
        BY <1>1, <1>3, <1>4, Serves, OrderStays
    <2> QED
        BY <1>1, <1>4, <1>5, <2>1, Serves DEF Decided
<1>10. \A j \in DOMAIN log :
          /\ log'[j].calls = CallsOf(log'[j].fate)
          /\ log'[j].fate # log[j].fate =>
                /\ log[j].fate \in {"none", "pending"} /\ log'[j].ask = Served
                /\ log'[j].fate # "called"
    BY <1>4, <1>6 DEF BInv, CallsAreCounted, CallsOf
<1> QED
    BY <1>3, <1>4, <1>5, <1>7, <1>8, <1>9, <1>10, BotFacts, ServeStep

LEMMA BreakCall ==
    ASSUME BInv, BotBreaks
    PROVE  BInv' /\ Final /\ Decided
<1>1. serving # 0 /\ serving \in DOMAIN log /\ log[serving].ask # Served /\ Oldest(serving)
    BY Serves DEF BotBreaks
<1> PICK s \in Sessions : s = log[serving].session
    BY <1>1, Serves
<1>2. /\ serving' = 0 /\ log[pending[s]].fate = "pending"
      /\ UNCHANGED <<pending, activeIntent, chat, tabToken, restarts>>
    BY DEF BotBreaks
<1>3. /\ log' \in Seq(Request) /\ Len(log') = Len(log) /\ DOMAIN log' = DOMAIN log
      /\ \A j \in DOMAIN log :
            /\ log'[j].session = log[j].session /\ log'[j].fate = log[j].fate
            /\ log'[j].calls = log[j].calls
            /\ log'[j].ask = IF j = serving THEN Served ELSE log[j].ask
    <2>1. /\ log \in Seq(Request) /\ "unavailable" \in Answers
          /\ log' = Answered(serving, "unavailable")
        BY BotFacts DEF Answers, Answered, BotBreaks
    <2> QED
        BY <1>1, <2>1, AnsweredEffect
<1>4. \A t \in Sessions : pending[t] # 0 =>
        /\ pending[t] \in DOMAIN log /\ log[pending[t]].session = t
        /\ log[pending[t]].ask = Served /\ log[pending[t]].fate = "pending"
    BY <1>1, <1>2, BotFacts DEF BInv, PendingIsDraft
<1>5. PendingIsDraft' /\ ServesOne'
    BY <1>2, <1>3, <1>4 DEF PendingIsDraft, ServesOne
<1>6. PendingIsLatest'
    <2>1. PendingIsLatest
        BY DEF BInv
    <2> QED
        BY <1>2, <1>3, <2>1 DEF PendingIsLatest
<1>7. InOrder' /\ Decided
    <2>1. InOrder'
        BY <1>1, <1>2, <1>3, OrderStays
    <2> QED
        BY <1>2, <2>1 DEF Decided
<1>8. \A j \in DOMAIN log : log'[j].calls = CallsOf(log'[j].fate)
    BY <1>3 DEF BInv, CallsAreCounted
<1> QED
    BY <1>2, <1>3, <1>5, <1>6, <1>7, <1>8, BotFacts, ServeStep

\* Answers may change alone, in one request or in all.
LEMMA AnswerEffect ==
    ASSUME NEW q \in Request, NEW a \in Answers \cup {"closed"}, NEW r, r = [q EXCEPT !.answer = a]
    PROVE  /\ r \in Request /\ r.session = q.session /\ r.ask = q.ask
           /\ r.fate = q.fate /\ r.calls = q.calls
<1>1. q = [session |-> q.session, ask |-> q.ask, answer |-> q.answer, fate |-> q.fate,
           calls |-> q.calls]
    BY Record
<1>2. r = [session |-> q.session, ask |-> q.ask, answer |-> a, fate |-> q.fate,
           calls |-> q.calls]
    BY <1>1
<1>3. r \in Request
    BY <1>2, Record DEF Request
<1> QED
    BY <1>2, <1>3

\* A restart takes what waits.
LEMMA RestartStep ==
    ASSUME BInv, BotRestarts
    PROVE  BInv' /\ Final /\ Decided
<1>1. /\ restarts' \in 0 .. MaxRestarts /\ restarts' # restarts /\ serving' = 0
      /\ pending' = [s \in Sessions |-> 0] /\ activeIntent' = [s \in Sessions |-> "none"]
      /\ UNCHANGED <<chat, tabToken>>
    <2>1. /\ restarts < MaxRestarts /\ restarts' = restarts + 1 /\ serving' = 0
          /\ pending' = [s \in Sessions |-> 0] /\ activeIntent' = [s \in Sessions |-> "none"]
          /\ UNCHANGED <<chat, tabToken>>
        BY Zenon DEF BotRestarts
    <2> QED
        BY <2>1, BotFacts, BotAssumption
<1>2. \A i \in DOMAIN log :
        /\ log'[i] \in Request /\ log'[i].session = log[i].session /\ log'[i].ask = Served
        /\ log'[i].calls = log[i].calls
        /\ log'[i].fate = IF log[i].fate = "pending" THEN "lost" ELSE log[i].fate
    <2> TAKE i \in DOMAIN log
    <2> PICK q \in Request : q = log[i]
        BY BotFacts
    <2> PICK a : a = IF Waits(i) THEN "unavailable" ELSE q.answer
        OBVIOUS
    <2> PICK fate : fate = IF q.fate = "pending" THEN "lost" ELSE q.fate
        OBVIOUS
    <2> PICK r : r = log'[i]
        OBVIOUS
    <2>1. a \in Answers \cup {"none", "closed"} /\ fate \in {"none"} \cup Settled
        BY Record DEF Waits, Answers, Settled
    <2>2. r = [q EXCEPT !.ask = Served, !.answer = a, !.fate = fate]
        BY Zenon DEF BotRestarts
    <2>3. q = [session |-> q.session, ask |-> q.ask, answer |-> q.answer, fate |-> q.fate,
               calls |-> q.calls]
        BY Record
    <2>4. r = [session |-> q.session, ask |-> Served, answer |-> a, fate |-> fate,
               calls |-> q.calls]
        BY ONLY <2>2, <2>3
    <2>5. r \in Request
        BY <2>1, <2>4, Record DEF Request
    <2> QED
        BY <2>4, <2>5
<1>3. log' \in Seq(Request) /\ Len(log') = Len(log) /\ DOMAIN log' = DOMAIN log
    <2>1. log' = [i \in DOMAIN log |-> log'[i]] /\ DOMAIN log = 1 .. Len(log)
          /\ \A i \in DOMAIN log : log'[i] \in Request
        <3>1. DOMAIN log' = DOMAIN log /\ log' = [i \in DOMAIN log' |-> log'[i]]
            BY Zenon DEF BotRestarts
        <3> QED
            BY <1>2, <3>1, BotFacts
    <2>2. log' \in [1 .. Len(log) -> Request]
        BY ONLY <2>1
    <2> QED
        BY <2>2, BotFacts
<1>4. PendingIsDraft' /\ ServesOne' /\ PendingIsLatest' /\ InOrder' /\ Decided
    BY <1>1, <1>2, <1>3 DEF PendingIsDraft, ServesOne, PendingIsLatest, InOrder, Decided
<1>5. \A i \in DOMAIN log :
          /\ log'[i].calls = CallsOf(log'[i].fate)
          /\ log'[i].fate # log[i].fate =>
                /\ log[i].fate \in {"none", "pending"} /\ log'[i].ask = Served
                /\ log'[i].fate # "called"
    BY <1>2 DEF BInv, CallsAreCounted, CallsOf
<1>6. serving' \in 0 .. Len(log) /\ pending' \in [Sessions -> 0 .. Len(log)]
    BY <1>1, BotFacts
<1> QED
    BY <1>1, <1>2, <1>3, <1>4, <1>5, <1>6, ServeStep

LEMMA BotStarts == BotInit => BInv
<1> SUFFICES ASSUME BotInit PROVE BInv
    OBVIOUS
<1>1. /\ log = << >> /\ serving = 0 /\ pending = [s \in Sessions |-> 0]
      /\ activeIntent = [s \in Sessions |-> "none"] /\ chat = "idle"
      /\ tabToken \in BOOLEAN /\ restarts = 0
    BY DEF BotInit
<1>2. Len(log) = 0 /\ DOMAIN log = {} /\ log \in Seq(Request)
    BY <1>1
<1>3. BotTypeOK
    BY <1>1, <1>2, BotAssumption DEF BotTypeOK, ChatStatuses
<1> QED
    BY <1>1, <1>2, <1>3 DEF BInv, PendingIsDraft, ServesOne, UnservedIsNoDraft, PendingIsLatest,
       CallsAreCounted, InOrder

LEMMA BotStep == BInv /\ [BotNext]_botVars => BInv' /\ Final /\ Decided
<1> SUFFICES ASSUME BInv, [BotNext]_botVars PROVE BInv' /\ Final /\ Decided
    OBVIOUS
<1>1. /\ chat \in ChatStatuses /\ tabToken \in BOOLEAN
      /\ {"idle", "loading", "error", "requiresAuth"} \subseteq ChatStatuses
    BY DEF BInv, BotTypeOK, ChatStatuses
<1>2. CASE UNCHANGED <<log, bot, restarts>> /\ tabToken' \in BOOLEAN /\ chat' \in ChatStatuses
    BY <1>2, BotFacts, ChatStep
\* The answer of one request changes.
<1>3. ASSUME NEW i \in DOMAIN log, NEW a \in Answers \cup {"closed"},
             log' = [log EXCEPT ![i].answer = a],
             UNCHANGED <<bot, tabToken, restarts>>, chat' \in ChatStatuses
      PROVE  BInv' /\ Final /\ Decided
    <2> PICK q \in Request : q = log[i]
        BY BotFacts
    <2> PICK r : r = [q EXCEPT !.answer = a]
        OBVIOUS
    <2>1. /\ r \in Request /\ r.session = q.session /\ r.ask = q.ask
          /\ r.fate = q.fate /\ r.calls = q.calls
        BY AnswerEffect
    <2>2. log' = [log EXCEPT ![i] = r]
        BY <1>3
    <2>3. /\ log' \in Seq(Request) /\ Len(log') = Len(log)
          /\ \A j \in DOMAIN log : log'[j] = IF j = i THEN r ELSE log[j]
        BY <2>1, <2>2, BotFacts
    <2> QED
        BY <1>1, <1>3, <2>1, <2>3, ChatStep
<1>4. CASE SendMessage
    <2>1. PICK kind \in Messages : TabSends(kind)
        BY <1>4 DEF SendMessage
    <2>2. CASE tabToken
        BY <1>1, <2>1, <2>2, BotAssumption, SendStep DEF TabSends, Proxied
    <2>3. CASE ~tabToken
        BY <1>1, <1>2, <2>1, <2>3 DEF TabSends
    <2> QED
        BY <2>2, <2>3
<1>5. CASE ResetChat
    BY <1>1, <1>2, <1>5 DEF ResetChat
<1>6. CASE LogInOrOut
    <2>1. tabToken' \in BOOLEAN
        BY <1>6, Zenon DEF LogInOrOut
    <2> QED
        BY <1>1, <1>2, <1>6, <2>1 DEF LogInOrOut
<1>7. CASE PageLoads
    <2>1. \A i \in DOMAIN log :
            /\ log'[i] \in Request /\ log'[i].session = log[i].session
            /\ log'[i].ask = log[i].ask /\ log'[i].fate = log[i].fate
            /\ log'[i].calls = log[i].calls
        <3> TAKE i \in DOMAIN log
        <3> PICK q \in Request : q = log[i]
            BY BotFacts
        <3> PICK r : r = log'[i]
            OBVIOUS
        <3>1. r = [q EXCEPT !.answer = "closed"]
            BY <1>7 DEF PageLoads
        <3> QED
            BY <3>1, AnswerEffect
    <2>2. log' \in Seq(Request) /\ Len(log') = Len(log)
        <3>1. log' \in [1 .. Len(log) -> Request]
            BY <1>7, <2>1, BotFacts DEF PageLoads
        <3> QED
            BY <3>1, BotFacts
    <2>3. chat' = "idle" /\ UNCHANGED <<bot, tabToken, restarts>>
        BY <1>7 DEF PageLoads
    <2> QED
        BY <1>1, <2>1, <2>2, <2>3, ChatStep
<1>8. CASE \E i \in DOMAIN log : HandleBotResponse(i)
    <2> PICK i \in DOMAIN log : HandleBotResponse(i)
        BY <1>8
    <2>1. /\ log' = [log EXCEPT ![i].answer = "closed"] /\ chat' \in {"error", "idle"}
          /\ UNCHANGED <<bot, tabToken, restarts>>
        BY DEF HandleBotResponse, ShownAnswer
    <2> QED
        BY <1>1, <1>3, <2>1
<1>9. CASE Others
    <2> PICK s \in Sessions, kind \in Messages \cup Confirmations : OthersSend(s, kind)
        BY <1>9 DEF Others
    <2>1. /\ \E u \in Users \cup {Nobody} : Receive(s, u, kind, "closed")
          /\ UNCHANGED <<bot, chat, tabToken, restarts>>
        BY DEF OthersSend, Proxied
    <2> QED
        BY <1>1, <2>1, SendStep
<1>10. CASE BotServes
    <2> PICK i \in Backlog :
            /\ \A j \in Backlog : i <= j
            /\ IF log[i].ask.kind \in Messages THEN ProcessMessage(i) ELSE ConfirmAction(i)
        BY <1>10 DEF BotServes
    <2>1. serving = 0 /\ UNCHANGED <<chat, tabToken, restarts>>
        BY <1>10 DEF BotServes
    <2>2. Oldest(i)
        BY <2>1, BotFacts DEF Oldest, Backlog
    <2> QED
        BY <2>1, <2>2, ProcessStep, ConfirmStep
<1>11. CASE BotFinishes
    BY <1>11, FinishCall
<1>12. CASE BotBreaks
    BY <1>12, BreakCall
<1>13. CASE BotRestarts
    BY <1>13, RestartStep
<1>14. CASE \E i \in DOMAIN log : ProxyGivesUp(i)
    <2> PICK i \in DOMAIN log : ProxyGivesUp(i)
        BY <1>14
    <2>1. /\ log' = [log EXCEPT ![i].answer = "unavailable"]
          /\ UNCHANGED <<bot, chat, tabToken, restarts>>
        BY DEF ProxyGivesUp
    <2> QED
        BY <1>1, <1>3, <2>1 DEF Answers
<1>15. CASE UNCHANGED botVars
    BY <1>1, <1>2, <1>15 DEF botVars
<1> QED
    BY <1>4, <1>5, <1>6, <1>7, <1>8, <1>9, <1>10, <1>11, <1>12, <1>13, <1>14, <1>15
       DEF BotNext, Tab

LEMMA BotInvariant == BotSpec => []BInv
BY BotStarts, BotStep, PTL DEF BotSpec

\* The chat, the requests and the bot's sessions keep their types, for any
\* number of sessions, requests and restarts (service.py, useBotChat.ts).
THEOREM BotTypeCorrect == BotSpec => []BotTypeOK
<1>1. BInv => BotTypeOK
    BY DEF BInv
<1> QED
    BY <1>1, BotInvariant, PTL

\* For any number of sessions and requests, the pending action of a session is
\* the one draft of it that still waits (state.pending_action).
THEOREM OneDraftWaits == BotSpec => []PendingIsLatest
<1>1. BInv => PendingIsLatest
    BY DEF BInv
<1> QED
    BY <1>1, BotInvariant, PTL

\* The API carries a draft out at most once, for a later explicit confirmation of
\* an admin in its session, and never after it was replaced, cancelled, refused
\* or lost, however requests, failing calls and restarts follow (confirm_action).
THEOREM DraftIsCalledOnce == BotSpec => CalledOnce
<1>1. BInv /\ [BotNext]_botVars
        => [\A i \in DOMAIN log :
              /\ log[i].fate \in Settled => log'[i].fate = log[i].fate
              /\ log'[i].calls # log[i].calls =>
                    /\ log[i].calls = 0 /\ log'[i].calls = 1 /\ log[i].fate = "pending"
                    /\ \E j \in DOMAIN log :
                          /\ i < j /\ serving' = j /\ log[j].session = log[i].session
                          /\ log[j].ask.kind = "explicit" /\ log[j].ask.user \in Admins]_botVars
    BY BotStep DEF Final, Confirmed
<1> QED
    BY <1>1, BotInvariant, PTL DEF BotSpec, CalledOnce

\* Whoever writes or confirms under the id of a session, only an admin's own
\* request makes, replaces, cancels or executes its pending action (is_authorized
\* before is_explicit_confirmation).
THEOREM AdminsDecide == BotSpec => OnlyAdminsDecide
<1>1. BInv /\ [BotNext]_botVars
        => [\A s \in Sessions :
              pending'[s] # pending[s] /\ restarts' = restarts =>
                  \E i \in DOMAIN log :
                      /\ log[i].session = s /\ log[i].ask.user \in Admins
                      /\ log[i].ask # Served /\ log'[i].ask = Served]_botVars
    BY BotStep DEF Decided
<1> QED
    BY <1>1, BotInvariant, PTL DEF BotSpec, OnlyAdminsDecide
==============================================================================
