--------------------------- MODULE OrderFlow_proofs ---------------------------
(***************************************************************************)
(* Proofs about OrderFlow, for every number of orders, requests, variants, *)
(* provider ids and payment rows.                                          *)
(***************************************************************************)
EXTENDS OrderFlow, SequenceTheorems, UnitCounting

Inv == TypeOK /\ References

(***************************************************************************)
(* The payments table.                                                     *)
(***************************************************************************)

\* Updating a row changes its status and provider id only.
LEMMA SetPaymentRow ==
  ASSUME payments \in Seq(Payment), NEW k \in DOMAIN payments,
         NEW s \in PaymentStatus, NEW p \in Ppids \cup {NoPpid}, SetPayment(k, s, p)
  PROVE  /\ payments' \in Seq(Payment)
         /\ DOMAIN payments' = DOMAIN payments
         /\ \A j \in DOMAIN payments : payments'[j].order = payments[j].order
         /\ \A j \in DOMAIN payments : j # k => payments'[j] = payments[j]
         /\ payments'[k].status = s
<1> DEFINE row == [payments[k] EXCEPT !.status = s, !.ppid = p]
<1>1. DOMAIN payments = 1..Len(payments) /\ payments[k] \in Payment
  BY LenProperties, ElementOfSeq
<1>2. /\ row \in Payment
      /\ row.order = payments[k].order
      /\ row.status = s
  BY <1>1 DEF Payment
<1>3. payments' = [payments EXCEPT ![k] = row]
  BY DEF SetPayment
<1> HIDE DEF row
<1>4. /\ payments' \in Seq(Payment)
      /\ Len(payments') = Len(payments)
      /\ \A j \in 1..Len(payments) : payments'[j] = IF j = k THEN row ELSE payments[j]
  BY <1>1, <1>2, <1>3, ExceptSeq
<1>5. DOMAIN payments' = 1..Len(payments')
  BY <1>4, LenProperties
<1> QED
  BY <1>1, <1>2, <1>4, <1>5

\* Appending a row leaves the other rows alone.
LEMMA AddPaymentRow ==
  ASSUME payments \in Seq(Payment), NEW row \in Payment, AddPayment(row)
  PROVE  /\ payments' \in Seq(Payment)
         /\ DOMAIN payments' = DOMAIN payments \cup {Len(payments) + 1}
         /\ \A j \in DOMAIN payments : payments'[j] = payments[j]
         /\ Len(payments) + 1 \notin DOMAIN payments
         /\ payments'[Len(payments) + 1] = row
  BY DEF AddPayment
-----------------------------------------------------------------------------
(***************************************************************************)
(* Types and references.                                                   *)
(***************************************************************************)

\* The records a request can hold.
LEMMA IdleIsRequest == Idle \in Request /\ NoLines \in Lines
  BY MaxLineAssumption DEF Idle, Request, Steps, NoLines, Lines

LEMMA InitInv == Init => Inv
<1> SUFFICES ASSUME Init PROVE Inv
  OBVIOUS
<1>1. InventoryTypeOK
  BY StockLevelsAssumption DEF Init, InventoryTypeOK
<1>2. NoAudit \in Audit
  BY DEF NoAudit, Audit
<1>3. TypeOK
  BY <1>1, <1>2, IdleIsRequest DEF Init, TypeOK
<1>4. References
  BY DEF Init, References, PaymentsRefer, RequestsRefer, Refers, Asks, Idle, NeedsOrder, NeedsRow, NeedsBoth
<1> QED
  BY <1>3, <1>4 DEF Inv

\* Stock operations keep the counters natural numbers.
LEMMA StockTypes ==
  ASSUME InventoryTypeOK, NEW ls \in Lines,
         ReserveStock(ls) \/ ReleaseStock(ls) \/ ConfirmDeduction(ls)
  PROVE  InventoryTypeOK'
<1>1. \A v \in Variants : ls[v] \in Nat
  BY MaxLineAssumption DEF Lines
<1>2. CASE ReserveStock(ls)
  BY <1>1, <1>2 DEF InventoryTypeOK, ReserveStock
<1>3. CASE ReleaseStock(ls)
  BY <1>1, <1>3 DEF InventoryTypeOK, ReleaseStock, Greatest0
<1>4. CASE ConfirmDeduction(ls)
  BY <1>1, <1>4 DEF InventoryTypeOK, ConfirmDeduction, Greatest0
<1> QED
  BY <1>2, <1>3, <1>4

\* One step of one request, type by type.
LEMMA HandlerType ==
  ASSUME Inv, NEW r \in Requests, Handler(r)
  PROVE  TypeOK'
<1> USE DEF Inv
<1> USE IdleIsRequest
<1>0. /\ req[r] \in Request /\ req \in [Requests -> Request]
      /\ Refers(req[r]) /\ Asks(req[r])
      /\ payments \in Seq(Payment)
      /\ DOMAIN payments \subseteq Nat
      /\ \A k \in DOMAIN payments : payments[k] \in Payment
  BY LenProperties, ElementOfSeq DEF TypeOK, References, RequestsRefer
<1>1. CASE CheckoutRead(r)
  <2>1. PICK ls \in Lines : req' = [req EXCEPT ![r] =
            [Idle EXCEPT !.step = "checkout", !.cart = ls]]
    BY <1>1 DEF CheckoutRead, Start
  <2>2. [Idle EXCEPT !.step = "checkout", !.cart = ls] \in Request
    BY DEF Request, Steps
  <2> QED
    BY <1>0, <1>1, <2>1, <2>2 DEF CheckoutRead, TypeOK, InventoryTypeOK, db
<1>2. CASE CheckoutCommit(r)
  <2>1. PICK o \in Orders :
          /\ ReserveStock(req[r].cart)
          /\ SetStatus(o, "stock_reserved")
          /\ lines' = [lines EXCEPT ![o] = req[r].cart]
          /\ req' = [req EXCEPT ![r] = [Idle EXCEPT !.step = "checkoutTail", !.order = o]]
    BY <1>2 DEF CheckoutCommit
  <2>2. req[r].cart \in Lines
    BY <1>0 DEF Request
  <2>3. InventoryTypeOK'
    BY <2>1, <2>2, StockTypes DEF TypeOK
  <2>4. [Idle EXCEPT !.step = "checkoutTail", !.order = o] \in Request
    BY DEF Request, Steps
  <2> QED
    BY <1>0, <1>2, <2>1, <2>2, <2>3, <2>4
       DEF CheckoutCommit, TypeOK, SetStatus, OrderStatus
<1>3. CASE CheckoutPayment(r)
  <2>1. req[r].order \in Orders
    BY <1>0, <1>3 DEF CheckoutPayment, Refers, NeedsOrder
  <2>2. PICK m \in Providers : AddPayment([order |-> req[r].order, provider |-> m,
                                           ppid |-> NoPpid, status |-> "pending"])
    BY <1>3 DEF CheckoutPayment
  <2>3. [order |-> req[r].order, provider |-> m, ppid |-> NoPpid,
         status |-> "pending"] \in Payment
    BY <2>1 DEF Payment, PaymentStatus
  <2>4. payments' \in Seq(Payment)
    BY <1>0, <2>2, <2>3, AddPaymentRow
  <2> QED
    BY <1>0, <1>3, <2>4 DEF CheckoutPayment, TypeOK, InventoryTypeOK, Finish
<1>4. CASE IntentRead(r)
  <2>1. PICK o \in Orders : req' = [req EXCEPT ![r] =
            [Idle EXCEPT !.step = "intent", !.order = o]]
    BY <1>4 DEF IntentRead, Start
  <2>2. [Idle EXCEPT !.step = "intent", !.order = o] \in Request
    BY DEF Request, Steps
  <2> QED
    BY <1>0, <1>4, <2>1, <2>2 DEF IntentRead, TypeOK, InventoryTypeOK, db
<1>5. CASE IntentCommit(r)
  <2>1. req[r].order \in Orders
    BY <1>0, <1>5 DEF IntentCommit, Refers, NeedsOrder
  <2>2. PICK m \in Providers, p \in Ppids :
          AddPayment([order |-> req[r].order, provider |-> m,
                      ppid |-> p, status |-> "pending"])
    BY <1>5 DEF IntentCommit
  <2>3. [order |-> req[r].order, provider |-> m, ppid |-> p,
         status |-> "pending"] \in Payment
    BY <2>1 DEF Payment, PaymentStatus
  <2>4. payments' \in Seq(Payment)
    BY <1>0, <2>2, <2>3, AddPaymentRow
  <2> QED
    BY <1>0, <1>5, <2>4
       DEF IntentCommit, TypeOK, InventoryTypeOK, Finish, SetStatus, OrderStatus
<1>6. CASE ConfirmRead(r)
  <2>1. PICK o \in Orders, k \in DOMAIN payments, p \in Ppids \cup {NoPpid} :
          req' = [req EXCEPT ![r] =
                    [Idle EXCEPT !.step = "confirm", !.order = o, !.pay = k, !.ppid = p]]
    <3>1. PICK o \in Orders, given \in Ppids \cup {NoPpid}, k \in DOMAIN payments :
            req' = [req EXCEPT ![r] =
                    [Idle EXCEPT !.step = "confirm", !.order = o, !.pay = k,
                     !.ppid = IF given = NoPpid THEN payments[k].ppid ELSE given]]
      BY <1>6 DEF ConfirmRead, Start, RowsOf
    <3>2. payments[k].ppid \in Ppids \cup {NoPpid}
      BY <1>0 DEF Payment
    <3> QED
      BY <3>1, <3>2
  <2>2. [Idle EXCEPT !.step = "confirm", !.order = o, !.pay = k, !.ppid = p] \in Request
    BY <1>0 DEF Request, Steps
  <2> QED
    BY <1>0, <1>6, <2>1, <2>2 DEF ConfirmRead, TypeOK, InventoryTypeOK, db
<1>7. CASE ConfirmCommit(r)
  <2> DEFINE o == req[r].order
             result == IF payments[req[r].pay].provider = "mock" THEN "paid"
                                                                ELSE "cod_pending"
  <2>1. /\ o \in Orders /\ req[r].pay \in DOMAIN payments
        /\ req[r].ppid \in Ppids \cup {NoPpid}
    BY <1>0, <1>7 DEF ConfirmCommit, Refers, NeedsOrder, NeedsRow, Request
  <2>2. /\ SetPayment(req[r].pay, result, req[r].ppid)
        /\ SetStatus(o, result)
        /\ ConfirmDeduction(lines[o]) \/ UNCHANGED stock
        /\ AddAudit(o, "confirm", result)
        /\ Finish(r)
        /\ UNCHANGED <<lines, webhookKeys>>
    BY <1>7 DEF ConfirmCommit
  <2>3. result \in PaymentStatus \cap OrderStatus
    BY DEF PaymentStatus, OrderStatus
  <2> HIDE DEF result
  <2>4. payments' \in Seq(Payment)
    BY <1>0, <2>1, <2>2, <2>3, SetPaymentRow
  <2>5. InventoryTypeOK'
    BY <2>1, <2>2, StockTypes DEF TypeOK, stock, InventoryTypeOK
  <2>6. [action |-> "confirm", newStatus |-> result] \in Audit
    BY <2>3 DEF Audit
  <2> QED
    BY <1>0, <2>1, <2>2, <2>3, <2>4, <2>5, <2>6
       DEF TypeOK, SetStatus, AddAudit, Finish
<1>8. CASE CancelRead(r)
  <2>1. PICK o \in Orders : req' = [req EXCEPT ![r] =
            [Idle EXCEPT !.step = "cancel", !.order = o]]
    BY <1>8 DEF CancelRead, Start
  <2>2. [Idle EXCEPT !.step = "cancel", !.order = o] \in Request
    BY DEF Request, Steps
  <2> QED
    BY <1>0, <1>8, <2>1, <2>2 DEF CancelRead, TypeOK, InventoryTypeOK, db
<1>9. CASE CancelCommit(r)
  <2>1. req[r].order \in Orders
    BY <1>0, <1>9 DEF CancelCommit, Refers, NeedsOrder
  <2>2. InventoryTypeOK'
    BY <1>9, <2>1, StockTypes DEF CancelCommit, TypeOK
  <2>3. [action |-> "cancel", newStatus |-> "cancelled"] \in Audit
    BY DEF Audit, OrderStatus
  <2> QED
    BY <1>0, <1>9, <2>1, <2>2, <2>3
       DEF CancelCommit, TypeOK, SetStatus, AddAudit, Finish, OrderStatus
<1>10. CASE WebhookCheckKey(r)
  <2>1. PICK k \in DOMAIN payments, p \in Ppids, e \in Events :
          req' = [req EXCEPT ![r] =
            [Idle EXCEPT !.step = "webhookSeen", !.pay = k, !.ppid = p, !.arg = e]]
    BY <1>10 DEF WebhookCheckKey, Start
  <2>2. [Idle EXCEPT !.step = "webhookSeen", !.pay = k, !.ppid = p, !.arg = e] \in Request
    BY <1>0 DEF Request, Steps
  <2> QED
    BY <1>0, <1>10, <2>1, <2>2 DEF WebhookCheckKey, TypeOK, InventoryTypeOK, db
<1>11. CASE WebhookRead(r)
  <2>1. payments[req[r].pay].order \in Orders
    BY <1>0, <1>11 DEF WebhookRead, Refers, NeedsRow, Payment
  <2>2. [req[r] EXCEPT !.step = "webhook", !.order = payments[req[r].pay].order] \in Request
    BY <1>0, <2>1 DEF Request, Steps
  <2> QED
    BY <1>0, <1>11, <2>2 DEF WebhookRead, TypeOK, InventoryTypeOK, db
<1>12. CASE WebhookCommit(r)
  <2> DEFINE k == req[r].pay
             o == req[r].order
  <2>1. /\ o \in Orders /\ k \in DOMAIN payments
        /\ payments[k].ppid \in Ppids \cup {NoPpid}
        /\ req[r].ppid \in Ppids \cup {NoPpid}
    BY <1>0, <1>12 DEF WebhookCommit, Refers, NeedsOrder, NeedsRow, Request, Payment
  <2>2. PICK s \in PaymentStatus, t \in OrderStatus :
          /\ SetPayment(k, s, payments[k].ppid)
          /\ SetStatus(o, t)
          /\ ConfirmDeduction(lines[o]) \/ ReleaseStock(lines[o]) \/ UNCHANGED stock
    BY <1>12 DEF WebhookCommit, WebhookEffect, PaymentStatus, OrderStatus
  <2>3. payments' \in Seq(Payment)
    BY <1>0, <2>1, <2>2, SetPaymentRow
  <2>4. InventoryTypeOK'
    BY <2>1, <2>2, StockTypes DEF TypeOK, stock, InventoryTypeOK
  <2>5. [Idle EXCEPT !.step = "webhookMark", !.ppid = req[r].ppid] \in Request
    BY <2>1 DEF Request, Steps
  <2> QED
    BY <1>0, <1>12, <2>1, <2>2, <2>3, <2>4, <2>5 DEF WebhookCommit, TypeOK, SetStatus
<1>13. CASE WebhookMark(r)
  BY <1>0, <1>13 DEF WebhookMark, Finish, TypeOK, InventoryTypeOK, db, Asks
<1>14. CASE AdminRead(r)
  <2>1. PICK o \in Orders, s \in AdminStatus : req' = [req EXCEPT ![r] =
            [Idle EXCEPT !.step = "admin", !.order = o, !.arg = s]]
    BY <1>14 DEF AdminRead, Start
  <2>2. [Idle EXCEPT !.step = "admin", !.order = o, !.arg = s] \in Request
    BY DEF Request, Steps
  <2> QED
    BY <1>0, <1>14, <2>1, <2>2 DEF AdminRead, TypeOK, InventoryTypeOK, db
<1>15. CASE AdminCommit(r)
  <2> DEFINE o == req[r].order
  <2>1. o \in Orders /\ req[r].arg \in AdminStatus
    BY <1>0, <1>15 DEF AdminCommit, Refers, Asks, NeedsOrder
  <2>2. ConfirmDeduction(lines[o]) \/ ReleaseStock(lines[o]) \/ UNCHANGED stock
    BY <1>15, <2>1 DEF AdminCommit, AdminStock, AdminStatus
  <2>3. InventoryTypeOK'
    BY <2>1, <2>2, StockTypes DEF TypeOK, stock, InventoryTypeOK
  <2>4. /\ req[r].arg \in OrderStatus
        /\ [action |-> "admin_status_change", newStatus |-> req[r].arg] \in Audit
    BY <2>1 DEF Audit, AdminStatus, OrderStatus
  <2> QED
    BY <1>0, <1>15, <2>1, <2>3, <2>4
       DEF AdminCommit, TypeOK, SetStatus, AddAudit, Finish
<1>16. CASE Abandon(r)
  BY <1>0, <1>16 DEF Abandon, Finish, TypeOK, InventoryTypeOK, db
<1> QED
  BY <1>1, <1>2, <1>3, <1>4, <1>5, <1>6, <1>7, <1>8, <1>9, <1>10, <1>11,
     <1>12, <1>13, <1>14, <1>15, <1>16 DEF Handler

\* What a handler refers to outlives the steps of the others: an order row
\* does not disappear and a payment row stays the order's.
RowsPersist ==
    /\ \A o \in Orders : status[o] # "none" => status'[o] # "none"
    /\ DOMAIN payments \subseteq DOMAIN payments'
    /\ \A k \in DOMAIN payments : payments'[k].order = payments[k].order
    /\ \A k \in DOMAIN payments' \ DOMAIN payments : status'[payments'[k].order] # "none"

\* Each step moves one request only and keeps the rows.
LEMMA HandlerRows ==
  ASSUME Inv, NEW r \in Requests, Handler(r)
  PROVE  RowsPersist
<1> USE DEF Inv
<1>0. /\ req[r] \in Request /\ Refers(req[r]) /\ Asks(req[r])
      /\ payments \in Seq(Payment)
      /\ \A k \in DOMAIN payments : payments[k] \in Payment
      /\ status \in [Orders -> OrderStatus \cup {"none"}]
  BY LenProperties, ElementOfSeq DEF TypeOK, References, RequestsRefer
<1>1. ASSUME UNCHANGED <<status, payments>>
      PROVE  RowsPersist
  BY <1>1 DEF RowsPersist
<1>2. ASSUME UNCHANGED payments, NEW o \in Orders, NEW s \in OrderStatus, SetStatus(o, s)
      PROVE  RowsPersist
  BY <1>0, <1>2 DEF RowsPersist, SetStatus, OrderStatus
<1>3. ASSUME NEW o \in Orders, NEW m \in Providers, NEW p \in Ppids \cup {NoPpid},
             AddPayment([order |-> o, provider |-> m, ppid |-> p, status |-> "pending"]),
             status[o] # "none", status' = status \/ SetStatus(o, "payment_pending")
      PROVE  RowsPersist
  <2>1. [order |-> o, provider |-> m, ppid |-> p, status |-> "pending"] \in Payment
    BY DEF Payment, PaymentStatus
  <2> QED
    BY <1>0, <1>3, <2>1, AddPaymentRow DEF RowsPersist, SetStatus
<1>4. ASSUME NEW o \in Orders, NEW k \in DOMAIN payments, NEW p \in Ppids \cup {NoPpid},
             NEW s \in PaymentStatus, NEW t \in OrderStatus,
             SetPayment(k, s, p), SetStatus(o, t)
      PROVE  RowsPersist
  BY <1>0, <1>4, SetPaymentRow DEF RowsPersist, SetStatus, OrderStatus
<1>5. CASE CheckoutRead(r) \/ IntentRead(r) \/ ConfirmRead(r) \/ CancelRead(r)
           \/ WebhookCheckKey(r) \/ WebhookRead(r) \/ WebhookMark(r)
           \/ AdminRead(r) \/ Abandon(r)
  BY <1>1, <1>5 DEF CheckoutRead, IntentRead, ConfirmRead, CancelRead,
       WebhookCheckKey, WebhookRead, WebhookMark, AdminRead, Abandon, db
<1>6. CASE CheckoutCommit(r)
  BY <1>2, <1>6 DEF CheckoutCommit, OrderStatus
<1>7. CASE CheckoutPayment(r)
  BY <1>0, <1>3, <1>7 DEF CheckoutPayment, Refers, NeedsOrder
<1>8. CASE IntentCommit(r)
  BY <1>0, <1>3, <1>8 DEF IntentCommit, Refers, NeedsOrder
<1>9. CASE ConfirmCommit(r)
  BY <1>0, <1>4, <1>9 DEF ConfirmCommit, Refers, NeedsOrder, NeedsRow,
       PaymentStatus, OrderStatus, Request
<1>10. CASE CancelCommit(r)
  BY <1>0, <1>2, <1>10 DEF CancelCommit, Refers, NeedsOrder, OrderStatus
<1>11. CASE WebhookCommit(r)
  <2>1. payments[req[r].pay].ppid \in Ppids \cup {NoPpid}
    BY <1>0, <1>11 DEF WebhookCommit, Refers, NeedsRow, Payment
  <2> QED
    BY <1>0, <1>4, <1>11, <2>1 DEF WebhookCommit, WebhookEffect, Refers, NeedsOrder,
       NeedsRow, PaymentStatus, OrderStatus
<1>12. CASE AdminCommit(r)
  BY <1>0, <1>2, <1>12 DEF AdminCommit, Refers, Asks, NeedsOrder, AdminStatus, OrderStatus
<1> QED
  BY <1>5, <1>6, <1>7, <1>8, <1>9, <1>10, <1>11, <1>12 DEF Handler

\* The request that moved refers to what it has just read or written.
LEMMA HandlerRequest ==
  ASSUME Inv, NEW r \in Requests, Handler(r)
  PROVE  /\ req' = [req EXCEPT ![r] = req'[r]]
         /\ Refers(req[r])' /\ Asks(req[r])'
<1> USE DEF Inv, NeedsOrder, NeedsRow, NeedsBoth
<1>0. /\ req[r] \in Request /\ req \in [Requests -> Request]
      /\ Refers(req[r]) /\ Asks(req[r])
      /\ status \in [Orders -> OrderStatus \cup {"none"}]
      /\ \A k \in DOMAIN payments : payments[k] \in Payment
  BY LenProperties, ElementOfSeq DEF TypeOK, References, RequestsRefer
<1>1. ASSUME Finish(r)
      PROVE  /\ req' = [req EXCEPT ![r] = req'[r]]
             /\ Refers(req[r])' /\ Asks(req[r])'
  BY <1>0, <1>1 DEF Finish, Idle, Refers, Asks
<1>2. CASE CheckoutPayment(r) \/ IntentCommit(r) \/ ConfirmCommit(r) \/ CancelCommit(r)
           \/ WebhookMark(r) \/ AdminCommit(r) \/ Abandon(r)
  BY <1>1, <1>2 DEF CheckoutPayment, IntentCommit, ConfirmCommit, CancelCommit,
       WebhookMark, AdminCommit, Abandon
<1>3. CASE CheckoutRead(r)
  BY <1>0, <1>3 DEF CheckoutRead, Start, Idle, Refers, Asks
<1>4. CASE CheckoutCommit(r)
  BY <1>0, <1>4 DEF CheckoutCommit, SetStatus, Idle, Refers, Asks
<1>5. CASE IntentRead(r)
  BY <1>0, <1>5 DEF IntentRead, Start, Idle, Refers, Asks, db
<1>6. CASE ConfirmRead(r)
  BY <1>0, <1>6 DEF ConfirmRead, Start, RowsOf, Idle, Refers, Asks, db
<1>7. CASE CancelRead(r)
  BY <1>0, <1>7 DEF CancelRead, Start, Idle, Refers, Asks, db, Cancellable
<1>8. CASE WebhookCheckKey(r)
  BY <1>0, <1>8 DEF WebhookCheckKey, Start, Idle, Refers, Asks, db
<1>9. CASE WebhookRead(r)
  <2> DEFINE q == [req[r] EXCEPT !.step = "webhook", !.order = payments[req[r].pay].order]
  <2>1. /\ req' = [req EXCEPT ![r] = q] /\ UNCHANGED <<status, payments>>
        /\ req[r].step = "webhookSeen"
    BY <1>9 DEF WebhookRead, db
  <2>2. /\ q.step = "webhook" /\ q.order = payments[req[r].pay].order
        /\ q.pay = req[r].pay /\ q.ppid = req[r].ppid /\ q.arg = req[r].arg
    BY <1>0 DEF Request
  <2>3. req'[r] = q
    BY <1>0, <2>1
  <2>4. q.pay \in DOMAIN payments /\ q.order \in Orders /\ status[q.order] # "none"
    BY <1>0, <2>1, <2>2 DEF Refers, References, PaymentsRefer, Payment
  <2> HIDE DEF q
  <2> QED
    BY <1>0, <2>1, <2>2, <2>3, <2>4 DEF Refers, Asks
<1>10. CASE WebhookCommit(r)
  BY <1>0, <1>10 DEF WebhookCommit, Idle, Refers, Asks
<1>11. CASE AdminRead(r)
  BY <1>0, <1>11 DEF AdminRead, Start, Idle, Refers, Asks, db
<1> QED
  BY <1>2, <1>3, <1>4, <1>5, <1>6, <1>7, <1>8, <1>9, <1>10, <1>11 DEF Handler

\* Types and references are an inductive invariant.
LEMMA InvStep == Inv /\ [Next]_vars => Inv'
<1> SUFFICES ASSUME Inv, [Next]_vars PROVE Inv'
  OBVIOUS
<1>1. ASSUME NEW r \in Requests, Handler(r)
      PROVE  Inv'
  <2>1. TypeOK'
    BY <1>1, HandlerType
  <2>2. RowsPersist
    BY <1>1, HandlerRows
  <2>3. \A q \in Requests \ {r} : req'[q] = req[q]
    BY <1>1, HandlerRequest DEF Inv, TypeOK
  <2>4. \A q \in Requests \ {r} : Refers(req[q])' /\ Asks(req[q])'
    BY <2>2, <2>3 DEF Inv, References, RequestsRefer, Refers, Asks, RowsPersist, NeedsBoth
  <2>5. Refers(req[r])' /\ Asks(req[r])'
    BY <1>1, HandlerRequest
  <2>6. PaymentsRefer'
    <3>1. \A k \in DOMAIN payments : payments[k] \in Payment
      BY LenProperties, ElementOfSeq DEF Inv, TypeOK
    <3>2. \A k \in DOMAIN payments : payments[k].order \in Orders
      BY <3>1 DEF Payment
    <3> QED
      BY <2>2, <3>2 DEF Inv, References, PaymentsRefer, RowsPersist
  <2> QED
    BY <2>1, <2>4, <2>5, <2>6 DEF Inv, References, RequestsRefer
<1>2. ASSUME UNCHANGED <<reserved, status, lines, payments, lastAudit, req>>,
             quantity' \in [Variants -> Nat], webhookKeys' \subseteq Ppids
      PROVE  Inv'
  BY <1>2 DEF Inv, TypeOK, InventoryTypeOK, References, PaymentsRefer, RequestsRefer, Refers, Asks
<1>3. ASSUME NEW v \in Variants, NEW q \in StockLevels, AdminInventory(v, q)
      PROVE  Inv'
  BY <1>2, <1>3, StockLevelsAssumption
     DEF AdminInventory, UpdateInventory, Inv, TypeOK, InventoryTypeOK
<1>4. ASSUME NEW p \in Ppids, WebhookKeyExpires(p)
      PROVE  Inv'
  BY <1>2, <1>4 DEF WebhookKeyExpires, db, Inv, TypeOK, InventoryTypeOK
<1>5. CASE UNCHANGED vars
  BY <1>2, <1>5 DEF vars, Inv, TypeOK, InventoryTypeOK
<1> QED
  BY <1>1, <1>3, <1>4, <1>5 DEF Next

\* Every reachable state is well typed, and every handler in flight refers to
\* an order and a payment row that still exist and belong together.
THEOREM TypeCorrect == Spec => []TypeOK
<1>1. Inv => TypeOK
  BY DEF Inv
<1> QED
  BY <1>1, InitInv, InvStep, PTL DEF Spec

\* No handler in flight ever refers to a vanished or foreign row.
THEOREM ReferencesCorrect == Spec => []References
<1>1. Inv => References
  BY DEF Inv
<1> QED
  BY <1>1, InitInv, InvStep, PTL DEF Spec
-----------------------------------------------------------------------------
(***************************************************************************)
(* Every status has a cause in the database.                               *)
(***************************************************************************)

\* An order whose row, audit entry and payment rows a step leaves alone keeps
\* its justification; new rows do no harm.
LEMMA JustifiedKept ==
  ASSUME NEW o \in Orders, Justified(o),
         status'[o] = status[o], lastAudit'[o] = lastAudit[o],
         \A k \in RowsOf(o) : k \in DOMAIN payments' /\ payments'[k] = payments[k]
  PROVE  Justified(o)'
<1>1. CASE \E k \in RowsOf(o) : <<payments[k].status, status[o]>> \in Explains
  <2>1. PICK k \in RowsOf(o) : <<payments[k].status, status[o]>> \in Explains
    BY <1>1
  <2>2. k \in RowsOf(o)' /\ <<payments'[k].status, status'[o]>> \in Explains
    BY <2>1 DEF RowsOf
  <2> QED
    BY <2>2 DEF Justified, Explains
<1>2. CASE status[o] \in {"none", "stock_reserved"} \/ lastAudit[o].newStatus = status[o]
  BY <1>2 DEF Justified
<1> QED
  BY <1>1, <1>2 DEF Justified

\* An order whose status a step writes is justified by what else it writes.
LEMMA HandlerJustified ==
  ASSUME Inv, StatusIsJustified, NEW r \in Requests, Handler(r), NEW o \in Orders
  PROVE  Justified(o)'
<1> USE DEF Inv, NeedsOrder, NeedsRow, NeedsBoth
<1>0. /\ req[r] \in Request /\ Refers(req[r]) /\ Asks(req[r])
      /\ payments \in Seq(Payment)
      /\ \A k \in DOMAIN payments : payments[k] \in Payment
      /\ status \in [Orders -> OrderStatus \cup {"none"}]
      /\ lastAudit \in [Orders -> Audit]
      /\ Justified(o)
  BY LenProperties, ElementOfSeq DEF TypeOK, References, RequestsRefer, StatusIsJustified
<1>1. ASSUME UNCHANGED <<status, payments, lastAudit>>
      PROVE  Justified(o)'
  BY <1>0, <1>1, JustifiedKept DEF RowsOf
<1>2. ASSUME NEW u \in Orders, NEW a, NEW s \in OrderStatus, UNCHANGED payments,
             SetStatus(u, s), AddAudit(u, a, s)
      PROVE  Justified(o)'
  <2>1. CASE u = o
    BY <1>0, <1>2, <2>1 DEF SetStatus, AddAudit, Justified
  <2>2. CASE u # o
    BY <1>0, <1>2, <2>2, JustifiedKept DEF SetStatus, AddAudit, RowsOf
  <2> QED
    BY <2>1, <2>2
<1>3. ASSUME NEW u \in Orders, NEW m \in Providers, NEW p \in Ppids \cup {NoPpid},
             AddPayment([order |-> u, provider |-> m, ppid |-> p, status |-> "pending"]),
             status' = status \/ SetStatus(u, "payment_pending"), UNCHANGED lastAudit
      PROVE  Justified(o)'
  <2> DEFINE row == [order |-> u, provider |-> m, ppid |-> p, status |-> "pending"]
  <2>1. row \in Payment
    BY DEF Payment, PaymentStatus
  <2>2. /\ Len(payments) + 1 \in DOMAIN payments'
        /\ payments'[Len(payments) + 1] = row
        /\ \A k \in DOMAIN payments : k \in DOMAIN payments' /\ payments'[k] = payments[k]
    BY <1>0, <1>3, <2>1, AddPaymentRow
  <2>3. CASE status'[o] = status[o]
    BY <1>0, <1>3, <2>2, <2>3, JustifiedKept DEF RowsOf
  <2>4. CASE status'[o] # status[o]
    <3>1. u = o /\ status'[o] = "payment_pending"
      BY <1>0, <1>3, <2>4 DEF SetStatus
    <3>2. /\ Len(payments) + 1 \in RowsOf(o)'
          /\ <<payments'[Len(payments) + 1].status, status'[o]>> \in Explains
      BY <2>2, <3>1 DEF RowsOf, Explains
    <3> QED
      BY <3>2 DEF Justified
  <2> QED
    BY <2>3, <2>4
<1>4. ASSUME NEW k \in DOMAIN payments, NEW p \in Ppids \cup {NoPpid},
             NEW s \in PaymentStatus, NEW t \in OrderStatus, <<s, t>> \in Explains,
             SetPayment(k, s, p), SetStatus(payments[k].order, t),
             \A u \in Orders \ {payments[k].order} : lastAudit'[u] = lastAudit[u]
      PROVE  Justified(o)'
  <2>1. /\ DOMAIN payments' = DOMAIN payments
        /\ \A j \in DOMAIN payments : payments'[j].order = payments[j].order
        /\ \A j \in DOMAIN payments : j # k => payments'[j] = payments[j]
        /\ payments'[k].status = s
    BY <1>0, <1>4, SetPaymentRow
  <2>2. CASE payments[k].order = o
    <3>1. status'[o] = t
      BY <1>0, <1>4, <2>2 DEF SetStatus
    <3>2. k \in RowsOf(o)' /\ <<payments'[k].status, status'[o]>> \in Explains
      BY <1>4, <2>1, <2>2, <3>1 DEF RowsOf
    <3> QED
      BY <3>2 DEF Justified
  <2>3. CASE payments[k].order # o
    BY <1>0, <1>4, <2>1, <2>3, JustifiedKept DEF SetStatus, RowsOf
  <2> QED
    BY <2>2, <2>3
<1>5. CASE CheckoutRead(r) \/ IntentRead(r) \/ ConfirmRead(r) \/ CancelRead(r)
           \/ WebhookCheckKey(r) \/ WebhookRead(r) \/ WebhookMark(r)
           \/ AdminRead(r) \/ Abandon(r)
  BY <1>1, <1>5 DEF CheckoutRead, IntentRead, ConfirmRead, CancelRead,
       WebhookCheckKey, WebhookRead, WebhookMark, AdminRead, Abandon, db
<1>6. CASE CheckoutCommit(r)
  <2>1. PICK u \in Orders : SetStatus(u, "stock_reserved")
    BY <1>6 DEF CheckoutCommit
  <2>2. UNCHANGED <<payments, lastAudit>>
    BY <1>6 DEF CheckoutCommit
  <2>3. CASE u = o
    BY <1>0, <2>1, <2>3 DEF SetStatus, Justified
  <2>4. CASE u # o
    BY <1>0, <2>1, <2>2, <2>4, JustifiedKept DEF SetStatus, RowsOf
  <2> QED
    BY <2>3, <2>4
<1>7. CASE CheckoutPayment(r)
  BY <1>0, <1>3, <1>7 DEF CheckoutPayment, Refers
<1>8. CASE IntentCommit(r)
  BY <1>0, <1>3, <1>8 DEF IntentCommit, Refers
<1>9. CASE ConfirmCommit(r)
  <2> DEFINE result == IF payments[req[r].pay].provider = "mock" THEN "paid"
                                                                ELSE "cod_pending"
  <2>1. /\ req[r].pay \in DOMAIN payments
        /\ payments[req[r].pay].order = req[r].order
        /\ req[r].order \in Orders
        /\ req[r].ppid \in Ppids \cup {NoPpid}
    BY <1>0, <1>9 DEF ConfirmCommit, Refers, Request
  <2>2. /\ SetPayment(req[r].pay, result, req[r].ppid)
        /\ SetStatus(req[r].order, result)
        /\ AddAudit(req[r].order, "confirm", result)
    BY <1>9 DEF ConfirmCommit
  <2>3. result \in PaymentStatus /\ result \in OrderStatus /\ <<result, result>> \in Explains
    BY DEF PaymentStatus, OrderStatus, Explains
  <2>4. \A u \in Orders \ {req[r].order} : lastAudit'[u] = lastAudit[u]
    BY <1>0, <2>2 DEF AddAudit
  <2> HIDE DEF result
  <2> QED
    BY <1>4, <2>1, <2>2, <2>3, <2>4
<1>10. CASE CancelCommit(r)
  BY <1>0, <1>2, <1>10 DEF CancelCommit, Refers, OrderStatus
<1>11. CASE WebhookCommit(r)
  <2>1. /\ req[r].pay \in DOMAIN payments
        /\ payments[req[r].pay].order = req[r].order
        /\ payments[req[r].pay].ppid \in Ppids \cup {NoPpid}
    BY <1>0, <1>11 DEF WebhookCommit, Refers, Payment
  <2>2. PICK s \in PaymentStatus, t \in OrderStatus :
          /\ <<s, t>> \in Explains
          /\ SetPayment(req[r].pay, s, payments[req[r].pay].ppid)
          /\ SetStatus(req[r].order, t)
    BY <1>11 DEF WebhookCommit, WebhookEffect, PaymentStatus, OrderStatus, Explains
  <2>3. lastAudit' = lastAudit
    BY <1>11 DEF WebhookCommit
  <2> QED
    BY <1>4, <2>1, <2>2, <2>3
<1>12. CASE AdminCommit(r)
  BY <1>0, <1>2, <1>12 DEF AdminCommit, Refers, Asks, AdminStatus, OrderStatus
<1> QED
  BY <1>5, <1>6, <1>7, <1>8, <1>9, <1>10, <1>11, <1>12 DEF Handler

LEMMA JustifiedStep == Inv /\ StatusIsJustified /\ [Next]_vars => StatusIsJustified'
<1> SUFFICES ASSUME Inv, StatusIsJustified, [Next]_vars, NEW o \in Orders
             PROVE  Justified(o)'
  BY DEF StatusIsJustified
<1>1. ASSUME NEW r \in Requests, Handler(r)
      PROVE  Justified(o)'
  BY <1>1, HandlerJustified
<1>2. ASSUME UNCHANGED <<status, payments, lastAudit>>
      PROVE  Justified(o)'
  BY <1>2, JustifiedKept DEF StatusIsJustified, RowsOf
<1> QED
  BY <1>1, <1>2 DEF Next, AdminInventory, WebhookKeyExpires, db, vars

\* Whoever raced, the status of every order is explained by its newest audit
\* entry or by one of its payment rows.
THEOREM StatusJustified == Spec => []StatusIsJustified
<1>1. Init => StatusIsJustified
  BY DEF Init, StatusIsJustified, Justified
<1> QED
  BY <1>1, InitInv, InvStep, JustifiedStep, PTL DEF Spec
-----------------------------------------------------------------------------
(***************************************************************************)
(* The handlers implement the stock ledger.                                *)
(***************************************************************************)

\* How one status write looks from the ledger.
LEMMA ClaimChange ==
  ASSUME status \in [Orders -> OrderStatus \cup {"none"}],
         NEW o \in Orders, NEW s \in OrderStatus, SetStatus(o, s)
  PROVE  [u \in Orders |-> ClaimOf(status'[u])]
           = [[u \in Orders |-> ClaimOf(status[u])] EXCEPT ![o] = ClaimOf(s)]
  BY DEF SetStatus

\* Each handler step is a ledger step on the order it is about, or leaves the
\* ledger alone.
LEMMA HandlerLedger ==
  ASSUME Inv, NEW r \in Requests, Handler(r)
  PROVE  [Ledger!Next]_(Ledger!ledgerVars)
<1> USE DEF Inv, NeedsOrder, NeedsRow, NeedsBoth
<1> DEFINE claimed == [u \in Orders |-> ClaimOf(status[u])]
<1>0. /\ req[r] \in Request /\ Refers(req[r]) /\ Asks(req[r])
      /\ status \in [Orders -> OrderStatus \cup {"none"}]
      /\ lines \in [Orders -> Lines]
  BY DEF TypeOK, References, RequestsRefer
<1>1. ASSUME UNCHANGED <<quantity, reserved, status, lines>>
      PROVE  UNCHANGED Ledger!ledgerVars
  BY <1>1 DEF Ledger!ledgerVars
<1>2. ASSUME NEW o \in Orders, NEW s \in {"cancelled"}, status[o] # "none",
             SetStatus(o, s), ReleaseStock(lines[o]), UNCHANGED lines
      PROVE  Ledger!Release(o)
  <2>1. claimed[o] # "none" /\ ClaimOf(s) = "closed"
    BY <1>2 DEF ClaimOf, Cancellable
  <2> QED
    BY <1>0, <1>2, <2>1, ClaimChange
       DEF Ledger!Release, Ledger!ReleaseStock, Ledger!Greatest0, ReleaseStock, Greatest0,
           OrderStatus
<1>3. ASSUME NEW o \in Orders, NEW s \in {"paid", "fulfilled"}, status[o] # "none",
             SetStatus(o, s), ConfirmDeduction(lines[o]), UNCHANGED lines
      PROVE  Ledger!Consume(o)
  <2>1. claimed[o] # "none" /\ ClaimOf(s) = "closed"
    BY <1>3 DEF ClaimOf, Cancellable
  <2> QED
    BY <1>0, <1>3, <2>1, ClaimChange
       DEF Ledger!Consume, Ledger!ConfirmDeduction, Ledger!Greatest0, ConfirmDeduction,
           Greatest0, OrderStatus
<1>4. ASSUME NEW o \in Orders, NEW s \in Cancellable, status[o] # "none",
             SetStatus(o, s), UNCHANGED <<quantity, reserved, lines>>
      PROVE  Ledger!Reopen(o) \/ UNCHANGED Ledger!ledgerVars
  <2>1. ClaimOf(s) = "open" /\ s \in OrderStatus
    BY DEF ClaimOf, Cancellable, OrderStatus
  <2>2. claimed' = [claimed EXCEPT ![o] = "open"]
    BY <1>0, <1>4, <2>1, ClaimChange
  <2>3. CASE claimed[o] = "closed"
    BY <1>4, <2>2, <2>3 DEF Ledger!Reopen
  <2>4. CASE claimed[o] = "open"
    BY <1>4, <2>2, <2>4 DEF Ledger!ledgerVars
  <2>5. claimed[o] \in {"open", "closed"}
    BY <1>4 DEF ClaimOf
  <2> QED
    BY <2>3, <2>4, <2>5
<1>5. CASE CheckoutRead(r) \/ IntentRead(r) \/ ConfirmRead(r) \/ CancelRead(r)
           \/ WebhookCheckKey(r) \/ WebhookRead(r) \/ WebhookMark(r)
           \/ AdminRead(r) \/ Abandon(r) \/ CheckoutPayment(r)
  BY <1>1, <1>5 DEF CheckoutRead, IntentRead, ConfirmRead, CancelRead, WebhookCheckKey,
       WebhookRead, WebhookMark, AdminRead, Abandon, CheckoutPayment, db
<1>6. CASE CheckoutCommit(r)
  <2>1. PICK o \in Orders : /\ status[o] = "none"
                            /\ ReserveStock(req[r].cart)
                            /\ SetStatus(o, "stock_reserved")
                            /\ lines' = [lines EXCEPT ![o] = req[r].cart]
    BY <1>6 DEF CheckoutCommit
  <2>2. req[r].cart \in Ledger!Lines
    BY <1>0 DEF Request, Lines, Ledger!Lines
  <2>3. claimed[o] = "none" /\ ClaimOf("stock_reserved") = "open"
    BY <2>1 DEF ClaimOf, Cancellable
  <2>4. claimed' = [claimed EXCEPT ![o] = "open"]
    BY <1>0, <2>1, <2>3, ClaimChange DEF OrderStatus
  <2>5. Ledger!ReserveStock(req[r].cart)
    BY <2>1 DEF ReserveStock, CanReserve, Available,
                Ledger!ReserveStock, Ledger!CanReserve, Ledger!Available
  <2>6. Ledger!Place(o, req[r].cart)
    BY <2>1, <2>3, <2>4, <2>5 DEF Ledger!Place
  <2> QED
    BY <2>2, <2>6 DEF Ledger!Next
<1>7. CASE IntentCommit(r)
  <2>1. Ledger!Reopen(req[r].order) \/ UNCHANGED Ledger!ledgerVars
    BY <1>0, <1>4, <1>7 DEF IntentCommit, Refers, Cancellable
  <2> QED
    BY <1>0, <1>7, <2>1 DEF IntentCommit, Refers, Ledger!Next
<1>8. CASE ConfirmCommit(r)
  <2> DEFINE result == IF payments[req[r].pay].provider = "mock" THEN "paid"
                                                                ELSE "cod_pending"
             o == req[r].order
  <2>1. /\ o \in Orders /\ status[o] # "none"
        /\ SetStatus(o, result) /\ UNCHANGED lines
        /\ IF result = "paid" THEN ConfirmDeduction(lines[o]) ELSE UNCHANGED stock
    BY <1>0, <1>8 DEF ConfirmCommit, Refers
  <2>2. CASE result = "paid"
    BY <1>3, <2>1, <2>2 DEF Ledger!Next
  <2>3. CASE result = "cod_pending"
    <3>1. Ledger!Reopen(o) \/ UNCHANGED Ledger!ledgerVars
      BY <1>4, <2>1, <2>3 DEF Cancellable, stock
    <3> QED
      BY <2>1, <3>1 DEF Ledger!Next
  <2> QED
    BY <2>2, <2>3
<1>9. CASE CancelCommit(r)
  <2>1. Ledger!Release(req[r].order)
    BY <1>0, <1>2, <1>9 DEF CancelCommit, Refers
  <2> QED
    BY <1>0, <1>9, <2>1 DEF CancelCommit, Refers, Ledger!Next
<1>10. CASE WebhookCommit(r)
  <2> DEFINE o == req[r].order
  <2>1. o \in Orders /\ status[o] # "none" /\ UNCHANGED lines
    BY <1>0, <1>10 DEF WebhookCommit, Refers
  <2>2. \/ SetStatus(o, "paid") /\ ConfirmDeduction(lines[o])
        \/ SetStatus(o, "payment_failed") /\ UNCHANGED stock
        \/ SetStatus(o, "cancelled") /\ ReleaseStock(lines[o])
    BY <1>10 DEF WebhookCommit, WebhookEffect
  <2>3. Ledger!Consume(o) \/ Ledger!Release(o) \/ Ledger!Reopen(o)
          \/ UNCHANGED Ledger!ledgerVars
    BY <1>2, <1>3, <1>4, <2>1, <2>2 DEF Cancellable, stock
  <2> QED
    BY <2>1, <2>3 DEF Ledger!Next
<1>11. CASE AdminCommit(r)
  <2> DEFINE o == req[r].order
  <2>1. /\ o \in Orders /\ status[o] # "none" /\ req[r].arg \in AdminStatus
        /\ UNCHANGED lines
    BY <1>0, <1>11 DEF AdminCommit, Refers, Asks
  <2>2. \/ req[r].arg \in {"paid", "fulfilled"} /\ ConfirmDeduction(lines[o])
        \/ req[r].arg = "cancelled" /\ ReleaseStock(lines[o])
        \/ req[r].arg = "payment_failed" /\ UNCHANGED stock
    BY <1>11, <2>1 DEF AdminCommit, AdminStock, AdminStatus
  <2>3. SetStatus(o, req[r].arg)
    BY <1>11 DEF AdminCommit
  <2>4. Ledger!Consume(o) \/ Ledger!Release(o) \/ Ledger!Reopen(o)
          \/ UNCHANGED Ledger!ledgerVars
    BY <1>2, <1>3, <1>4, <2>1, <2>2, <2>3 DEF Cancellable, stock
  <2> QED
    BY <2>1, <2>4 DEF Ledger!Next
<1> QED
  BY <1>5, <1>6, <1>7, <1>8, <1>9, <1>10, <1>11 DEF Handler

LEMMA LedgerStep == Inv /\ [Next]_vars => [Ledger!Next]_(Ledger!ledgerVars)
<1> SUFFICES ASSUME Inv, [Next]_vars PROVE [Ledger!Next]_(Ledger!ledgerVars)
  OBVIOUS
<1>1. ASSUME NEW r \in Requests, Handler(r)
      PROVE  [Ledger!Next]_(Ledger!ledgerVars)
  BY <1>1, HandlerLedger
<1>2. ASSUME NEW v \in Variants, NEW q \in StockLevels, AdminInventory(v, q)
      PROVE  Ledger!Next
  <2>1. Ledger!Adjust(v, q)
    BY <1>2 DEF AdminInventory, UpdateInventory, Ledger!Adjust, Ledger!UpdateInventory
  <2> QED
    BY <2>1 DEF Ledger!Next
<1>3. CASE UNCHANGED <<quantity, reserved, status, lines>>
  BY <1>3 DEF Ledger!ledgerVars
<1> QED
  BY <1>1, <1>2, <1>3 DEF Next, WebhookKeyExpires, db, vars

LEMMA LedgerInit == Init => Ledger!Init
<1> SUFFICES ASSUME Init PROVE Ledger!Init
  OBVIOUS
<1>1. [o \in Orders |-> ClaimOf(status[o])] = [o \in Orders |-> "none"]
  BY DEF Init, ClaimOf
<1> QED
  BY <1>1 DEF Init, NoLines, Ledger!Init, Ledger!NoLines

\* Whatever the interleaving of handlers, the shop moves stock as the ledger
\* does: one operation on one order at a time, together with its status.
THEOREM ImplementsLedger == Spec => LedgerSpec
<1>1. UNCHANGED vars => UNCHANGED Ledger!ledgerVars
  BY DEF vars, Ledger!ledgerVars
<1> QED
  BY <1>1, LedgerInit, InitInv, InvStep, LedgerStep, PTL DEF Spec, LedgerSpec, Ledger!Spec
-----------------------------------------------------------------------------
(***************************************************************************)
(* Stock, by cases on the ledger operation a step implements.              *)
(***************************************************************************)

\* There are finitely many held units, before and after a step.
LEMMA HeldUnitsFinite ==
  ASSUME NEW v
  PROVE  IsFiniteSet(HeldUnits(v)) /\ IsFiniteSet(HeldUnits(v)')
<1>1. IsFiniteSet(1..MaxLine)
  BY MaxLineAssumption, FS_Interval
<1>2. IsFiniteSet(Orders \X (1..MaxLine))
  BY <1>1, OrderAssumption, FS_Product
<1>3. HeldUnits(v) \subseteq Orders \X (1..MaxLine)
  BY DEF HeldUnits
<1>4. HeldUnits(v)' \subseteq Orders \X (1..MaxLine)
  BY DEF HeldUnits
<1> QED
  BY <1>2, <1>3, <1>4, FS_Subset

\* An order is cancellable exactly while its claim is open.
LEMMA OpenIsCancellable ==
  /\ \A s : ClaimOf(s) = "open" <=> s \in Cancellable
  /\ \A s : ClaimOf(s) = "none" <=> s = "none"
  BY DEF ClaimOf, Cancellable

\* The bound on reservations is preserved by every step that is a ledger step.
LEMMA BackedStep == Inv /\ ReservationsAreBacked /\ [Next]_vars => ReservationsAreBacked'
<1> SUFFICES ASSUME Inv, ReservationsAreBacked, [Next]_vars, NEW v \in Variants
             PROVE  reserved'[v] <= Cardinality(HeldUnits(v))'
  BY DEF ReservationsAreBacked
<1> DEFINE H == HeldUnits(v)
           G == HeldUnits(v)'
           claimed == [u \in Orders |-> ClaimOf(status[u])]
<1>0. [Ledger!Next]_(Ledger!ledgerVars)
  BY LedgerStep
<1>1. IsFiniteSet(H) /\ IsFiniteSet(G)
  BY HeldUnitsFinite
<1>2. Cardinality(H) \in Nat /\ Cardinality(G) \in Nat
  BY <1>1, FS_CardinalityType
<1>3. reserved[v] \in Nat /\ reserved[v] <= Cardinality(H) /\ lines \in [Orders -> Lines]
  BY DEF ReservationsAreBacked, Inv, TypeOK, InventoryTypeOK
<1>4. /\ H = {u \in Orders \X (1..MaxLine) : claimed[u[1]] = "open" /\ u[2] <= lines[u[1]][v]}
      /\ G = {u \in Orders \X (1..MaxLine) : claimed'[u[1]] = "open" /\ u[2] <= lines'[u[1]][v]}
  BY OpenIsCancellable DEF HeldUnits
<1> HIDE DEF H, G
<1>5. ASSUME NEW o \in Orders, NEW ls \in Ledger!Lines, Ledger!Place(o, ls)
      PROVE  reserved'[v] <= Cardinality(G)
  <2>1. ls[v] \in 0..MaxLine /\ ls[v] \in Nat
    BY MaxLineAssumption DEF Ledger!Lines
  <2>2. /\ claimed[o] = "none" /\ claimed' = [claimed EXCEPT ![o] = "open"]
        /\ lines' = [lines EXCEPT ![o] = ls]
    BY <1>5 DEF Ledger!Place
  <2>3. H \cup ({o} \X (1..ls[v])) \subseteq G
    BY <1>3, <1>4, <2>1, <2>2, MaxLineAssumption
  <2>4. H \cap ({o} \X (1..ls[v])) = {}
    BY <1>4, <2>2
  <2>5. Cardinality(H) + ls[v] <= Cardinality(G)
    BY <1>1, <2>1, <2>3, <2>4, GainOneLine
  <2>6. reserved'[v] = reserved[v] + ls[v]
    BY <1>5 DEF Ledger!Place, Ledger!ReserveStock
  <2> QED
    BY <1>2, <1>3, <2>1, <2>5, <2>6
<1>6. ASSUME NEW o \in Orders, claimed' = [claimed EXCEPT ![o] = "closed"], lines' = lines,
             reserved'[v] = Ledger!Greatest0(reserved[v] - lines[o][v])
      PROVE  reserved'[v] <= Cardinality(G)
  <2>1. lines[o][v] \in Nat /\ lines[o][v] <= MaxLine
    BY <1>3, MaxLineAssumption DEF Lines
  <2>2. H \subseteq G \cup ({o} \X (1..lines[o][v]))
    BY <1>4, <1>6, <2>1, MaxLineAssumption
  <2>3. Cardinality(H) <= Cardinality(G) + lines[o][v]
    BY <1>1, <2>1, <2>2, LoseOneLine
  <2> QED
    BY <1>2, <1>3, <1>6, <2>1, <2>3 DEF Ledger!Greatest0
<1>7. ASSUME NEW o \in Orders, Ledger!Reopen(o)
      PROVE  reserved'[v] <= Cardinality(G)
  <2>1. H \subseteq G
    BY <1>4, <1>7 DEF Ledger!Reopen
  <2>2. Cardinality(H) <= Cardinality(G)
    BY <1>1, <2>1, FS_Subset
  <2> QED
    BY <1>2, <1>3, <1>7, <2>2 DEF Ledger!Reopen
<1>8. ASSUME reserved' = reserved, lines' = lines, claimed' = claimed
      PROVE  reserved'[v] <= Cardinality(G)
  <2>1. G = H
    BY <1>4, <1>8
  <2> QED
    BY <1>3, <1>8, <2>1
<1>9. ASSUME NEW o \in Orders, Ledger!Release(o) \/ Ledger!Consume(o)
      PROVE  reserved'[v] <= Cardinality(G)
  BY <1>6, <1>9 DEF Ledger!Release, Ledger!ReleaseStock, Ledger!Consume, Ledger!ConfirmDeduction
<1>10. ASSUME NEW u \in Variants, NEW q \in StockLevels, Ledger!Adjust(u, q)
       PROVE  reserved'[v] <= Cardinality(G)
  BY <1>8, <1>10 DEF Ledger!Adjust, Ledger!UpdateInventory
<1>11. ASSUME UNCHANGED Ledger!ledgerVars
       PROVE  reserved'[v] <= Cardinality(G)
  BY <1>8, <1>11 DEF Ledger!ledgerVars
<1>12. reserved'[v] <= Cardinality(G)
  BY <1>0, <1>5, <1>7, <1>9, <1>10, <1>11 DEF Ledger!Next
<1> QED
  BY <1>12 DEF G

\* No reservation leaks: under any interleaving of checkouts, payments, cancels,
\* webhooks and admin changes, the reserved counter of a variant never exceeds
\* what the orders that can still be cancelled hold of it.
THEOREM NoReservationLeaks == Spec => []ReservationsAreBacked
<1>1. Init => ReservationsAreBacked
  <2> SUFFICES ASSUME Init, NEW v \in Variants
               PROVE  reserved[v] <= Cardinality(HeldUnits(v))
    BY DEF ReservationsAreBacked
  <2>1. Cardinality(HeldUnits(v)) \in Nat
    BY HeldUnitsFinite, FS_CardinalityType
  <2> QED
    BY <2>1 DEF Init
<1> QED
  BY <1>1, InitInv, InvStep, BackedStep, PTL DEF Spec

\* A step that oversells a variant is an admin lowering its physical count.
LEMMA OversellStep ==
  ASSUME Inv, [Next]_vars, NEW v \in Variants,
         reserved[v] <= quantity[v], reserved'[v] > quantity'[v]
  PROVE  quantity'[v] < quantity[v] /\ UNCHANGED <<reserved, status, lines>>
<1>0. /\ reserved[v] \in Nat /\ quantity[v] \in Nat
      /\ \A ls \in Lines : ls[v] \in Nat
      /\ lines \in [Orders -> Lines]
  BY MaxLineAssumption DEF Inv, TypeOK, InventoryTypeOK, Lines
<1>1. ASSUME NEW ls \in Lines, ReserveStock(ls)
      PROVE  FALSE
  <2>1. reserved'[v] = reserved[v] + ls[v] /\ quantity'[v] = quantity[v]
    BY <1>1 DEF ReserveStock
  <2>2. ls[v] > 0 => quantity[v] - reserved[v] >= ls[v]
    BY <1>1 DEF ReserveStock, CanReserve, Available
  <2> QED
    BY <1>0, <2>1, <2>2
<1>2. ASSUME NEW ls \in Lines, ReleaseStock(ls) \/ ConfirmDeduction(ls)
      PROVE  FALSE
  BY <1>0, <1>2 DEF ReleaseStock, ConfirmDeduction, Greatest0
<1>3. ASSUME UNCHANGED stock
      PROVE  FALSE
  BY <1>0, <1>3 DEF stock
<1>4. ASSUME NEW r \in Requests, Handler(r)
      PROVE  FALSE
  <2>1. req[r] \in Request /\ Refers(req[r]) /\ Asks(req[r])
    BY DEF Inv, TypeOK, References, RequestsRefer
  <2>2. req[r].cart \in Lines
    BY <2>1 DEF Request
  <2>3. req[r].step \in NeedsOrder => lines[req[r].order] \in Lines
    BY <1>0, <2>1 DEF Refers
  <2>4. CASE CheckoutCommit(r)
    BY <1>1, <2>2, <2>4 DEF CheckoutCommit
  <2>5. CASE ConfirmCommit(r)
    BY <1>2, <1>3, <2>3, <2>5 DEF ConfirmCommit, NeedsOrder
  <2>6. CASE CancelCommit(r)
    BY <1>2, <2>3, <2>6 DEF CancelCommit, NeedsOrder
  <2>7. CASE WebhookCommit(r)
    BY <1>2, <1>3, <2>3, <2>7 DEF WebhookCommit, WebhookEffect, NeedsOrder
  <2>8. CASE AdminCommit(r)
    BY <1>2, <1>3, <2>1, <2>3, <2>8 DEF AdminCommit, AdminStock, AdminStatus, Asks, NeedsOrder
  <2>9. CASE CheckoutRead(r) \/ CheckoutPayment(r) \/ IntentRead(r) \/ IntentCommit(r)
              \/ ConfirmRead(r) \/ CancelRead(r) \/ WebhookCheckKey(r) \/ WebhookRead(r)
              \/ WebhookMark(r) \/ AdminRead(r) \/ Abandon(r)
    BY <1>3, <2>9 DEF CheckoutRead, CheckoutPayment, IntentRead, IntentCommit, ConfirmRead,
         CancelRead, WebhookCheckKey, WebhookRead, WebhookMark, AdminRead, Abandon, db, stock
  <2> QED
    BY <1>4, <2>4, <2>5, <2>6, <2>7, <2>8, <2>9 DEF Handler
<1>5. ASSUME NEW u \in Variants, NEW q \in StockLevels, AdminInventory(u, q)
      PROVE  quantity'[v] < quantity[v] /\ UNCHANGED <<reserved, status, lines>>
  <2>1. quantity'[v] \in Nat /\ UNCHANGED <<reserved, status, lines>>
    BY <1>5, StockLevelsAssumption
       DEF AdminInventory, UpdateInventory, Inv, TypeOK, InventoryTypeOK
  <2> QED
    BY <1>0, <2>1
<1>6. ASSUME NEW p \in Ppids, WebhookKeyExpires(p)
      PROVE  FALSE
  BY <1>3, <1>6 DEF WebhookKeyExpires, db, stock
<1>7. ASSUME UNCHANGED vars
      PROVE  FALSE
  BY <1>3, <1>7 DEF vars, stock
<1> QED
  BY <1>4, <1>5, <1>6, <1>7 DEF Next

\* Orders never oversell: whatever races, only an admin's edit of the physical
\* count takes a variant from reserved <= quantity to reserved > quantity.
THEOREM NoOversellByOrders == Spec => OnlyAdminOversells
<1>1. Inv /\ [Next]_vars
        => [\A v \in Variants :
              reserved[v] <= quantity[v] /\ reserved'[v] > quantity'[v]
                => quantity'[v] < quantity[v] /\ UNCHANGED <<reserved, status, lines>>]_vars
  BY OversellStep
<1> QED
  BY <1>1, InitInv, InvStep, PTL DEF Spec, OnlyAdminOversells
-----------------------------------------------------------------------------
(***************************************************************************)
(* Which status follows which.                                             *)
(***************************************************************************)

Moved(o) == status[o] # "none" /\ status'[o] # status[o] => <<status[o], status'[o]>> \in Moves

\* Nobody sees an order created, and one that a confirmation waits for has been
\* pending since.
Lived(o) == status[o] # "created"
Confirms(q) == q.step = "confirm" => status[q.order] # "stock_reserved"
StatusInv == (\A o \in Orders : Lived(o)) /\ (\A r \in Requests : Confirms(req[r]))

\* What one handler writes.
LEMMA HandlerMoves ==
  ASSUME Inv, StatusInv, NEW r \in Requests, Handler(r), NEW o \in Orders
  PROVE  Moved(o) /\ Lived(o)'
<1>0. /\ req[r] \in Request /\ Refers(req[r]) /\ Asks(req[r]) /\ Confirms(req[r])
      /\ status \in [Orders -> OrderStatus \cup {"none"}]
      /\ \A u \in Orders : Lived(u)
  BY DEF Inv, TypeOK, References, RequestsRefer, StatusInv
<1>1. ASSUME UNCHANGED status
      PROVE  Moved(o) /\ Lived(o)'
  BY <1>0, <1>1 DEF Moved, Lived
<1>2. ASSUME NEW u \in Orders, NEW s \in AdminStatus \cup {"payment_pending"}, SetStatus(u, s)
      PROVE  Moved(o) /\ Lived(o)'
  <2>1. status'[o] = IF o = u THEN s ELSE status[o]
    BY <1>0, <1>2 DEF SetStatus
  <2>2. s # "created" /\ (status[o] # "none" => <<status[o], s>> \in Moves)
    BY <1>0 DEF Moves, Committed, Lived, AdminStatus
  <2> QED
    BY <1>0, <2>1, <2>2 DEF Moved, Lived
<1>3. CASE CheckoutRead(r) \/ CheckoutPayment(r) \/ IntentRead(r) \/ ConfirmRead(r)
           \/ CancelRead(r) \/ WebhookCheckKey(r) \/ WebhookRead(r) \/ WebhookMark(r)
           \/ AdminRead(r) \/ Abandon(r)
  BY <1>1, <1>3 DEF CheckoutRead, CheckoutPayment, IntentRead, ConfirmRead, CancelRead,
       WebhookCheckKey, WebhookRead, WebhookMark, AdminRead, Abandon, db
<1>4. CASE CheckoutCommit(r)
  BY <1>0, <1>4 DEF CheckoutCommit, SetStatus, Moved, Lived
<1>5. CASE IntentCommit(r)
  BY <1>0, <1>2, <1>5 DEF IntentCommit, Refers, NeedsOrder
<1>6. CASE ConfirmCommit(r)
  <2>1. PICK s \in {"paid", "cod_pending"} : SetStatus(req[r].order, s)
    BY <1>6 DEF ConfirmCommit
  <2>2. /\ req[r].order \in Orders /\ status[req[r].order] # "stock_reserved"
        /\ req[r].order = o => status[o] \in Committed \ {"stock_reserved"}
    BY <1>0, <1>6 DEF ConfirmCommit, Refers, NeedsOrder, Confirms, Lived, Committed
  <2>3. status'[o] = IF o = req[r].order THEN s ELSE status[o]
    BY <1>0, <2>1, <2>2 DEF SetStatus
  <2>4. o = req[r].order => <<status[o], s>> \in Moves
    BY <2>2 DEF Moves, Committed, AdminStatus
  <2> QED
    BY <1>0, <2>3, <2>4 DEF Moved, Lived
<1>7. CASE CancelCommit(r)
  BY <1>0, <1>2, <1>7 DEF CancelCommit, Refers, NeedsOrder, AdminStatus
<1>8. CASE WebhookCommit(r)
  <2>1. PICK s \in AdminStatus : SetStatus(req[r].order, s)
    BY <1>8 DEF WebhookCommit, WebhookEffect, AdminStatus
  <2> QED
    BY <1>0, <1>2, <1>8, <2>1 DEF WebhookCommit, Refers, NeedsOrder
<1>9. CASE AdminCommit(r)
  BY <1>0, <1>2, <1>9 DEF AdminCommit, Refers, Asks, NeedsOrder
<1> QED
  BY <1>3, <1>4, <1>5, <1>6, <1>7, <1>8, <1>9 DEF Handler

LEMMA StatusStep ==
  ASSUME Inv, StatusInv, [Next]_vars
  PROVE  StatusInv' /\ \A o \in Orders : Moved(o)
<1>0. /\ \A r \in Requests : req[r] \in Request /\ Refers(req[r]) /\ Confirms(req[r])
      /\ status \in [Orders -> OrderStatus \cup {"none"}]
  BY DEF Inv, TypeOK, References, RequestsRefer, StatusInv
<1>1. ASSUME UNCHANGED <<status, req>>
      PROVE  StatusInv' /\ \A o \in Orders : Moved(o)
  BY <1>1 DEF StatusInv, Lived, Confirms, Moved
<1>2. ASSUME NEW r \in Requests, Handler(r)
      PROVE  StatusInv' /\ \A o \in Orders : Moved(o)
  <2>1. \A o \in Orders : Moved(o) /\ Lived(o)'
    BY <1>2, HandlerMoves
  <2>2. \A o \in Orders : status[o] \notin {"none", "stock_reserved"} => status'[o] # "stock_reserved"
    BY <2>1 DEF Moved, Moves, AdminStatus
  <2>3. req' = [req EXCEPT ![r] = req'[r]]
    BY <1>2, HandlerRequest
  <2>4. \A q \in Requests \ {r} : req'[q] = req[q]
    BY <2>3 DEF Inv, TypeOK
  <2>5. \A q \in Requests \ {r} : Confirms(req[q])'
    BY <1>0, <2>2, <2>4 DEF Confirms, Refers, NeedsOrder
  <2>6. Confirms(req[r])'
    <3>1. req \in [Requests -> Request]
      BY DEF Inv, TypeOK
    <3>2. CASE ConfirmRead(r)
      BY <3>1, <3>2 DEF ConfirmRead, Start, Idle, db, Confirms
    <3>3. CASE WebhookRead(r)
      <4>1. req'[r] = [req[r] EXCEPT !.step = "webhook", !.order = payments[req[r].pay].order]
        BY <3>1, <3>3 DEF WebhookRead
      <4>2. req'[r].step = "webhook"
        BY <1>0, <4>1 DEF Request
      <4> QED
        BY <4>2 DEF Confirms
    <3>4. CASE CheckoutCommit(r) \/ WebhookCommit(r)
      BY <3>1, <3>4 DEF CheckoutCommit, WebhookCommit, Idle, Confirms
    <3>5. CASE CheckoutPayment(r) \/ IntentCommit(r) \/ ConfirmCommit(r) \/ CancelCommit(r)
               \/ WebhookMark(r) \/ AdminCommit(r) \/ Abandon(r)
      <4>1. Finish(r)
        BY <3>5 DEF CheckoutPayment, IntentCommit, ConfirmCommit, CancelCommit, WebhookMark,
             AdminCommit, Abandon
      <4> QED
        BY <3>1, <4>1 DEF Finish, Idle, Confirms
    <3>6. CASE CheckoutRead(r)
      BY <3>1, <3>6 DEF CheckoutRead, Start, Idle, Confirms
    <3>7. CASE IntentRead(r) \/ CancelRead(r) \/ AdminRead(r)
      BY <3>1, <3>7 DEF IntentRead, CancelRead, AdminRead, Start, Idle, Confirms
    <3>8. CASE WebhookCheckKey(r)
      BY <3>1, <3>8 DEF WebhookCheckKey, Start, Idle, Confirms
    <3> QED
      BY <1>2, <3>2, <3>3, <3>4, <3>5, <3>6, <3>7, <3>8 DEF Handler
  <2> QED
    BY <2>1, <2>5, <2>6 DEF StatusInv
<1> QED
  BY <1>1, <1>2 DEF Next, AdminInventory, UpdateInventory, WebhookKeyExpires, db, vars

\* Whoever races, an order moves from status to status as the handlers write
\* them: never back to stock_reserved, and to cod_pending only from where it was
\* pending before.
THEOREM StatusWalks == Spec => StatusMoves
<1>1. Init => StatusInv
  BY DEF Init, StatusInv, Lived, Confirms, Idle
<1>2. Inv /\ StatusInv /\ [Next]_vars => StatusInv'
  BY StatusStep
<1>3. Inv /\ StatusInv /\ [Next]_vars
        => [\A o \in Orders :
              status[o] # "none" /\ status'[o] # status[o]
                => <<status[o], status'[o]>> \in Moves]_vars
  BY StatusStep DEF Moved
<1> QED
  BY <1>1, <1>2, <1>3, InitInv, InvStep, PTL DEF Spec, StatusMoves
==============================================================================
