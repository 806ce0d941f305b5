------------------------------ MODULE OrderFlow ------------------------------
(***************************************************************************)
(* Orders, payments and stock of the API under concurrent requests.        *)
(*                                                                         *)
(* Every handler of CheckoutService, PaymentsService, OrdersService and    *)
(* AdminService that changes an order first reads it and checks its        *)
(* status, and later commits a database transaction that does not look at  *)
(* the status again.  A handler is therefore a request slot r that moves   *)
(* from "idle" through the points where the code awaits something; between *)
(* two of its steps any step of any other request may run.  A transaction  *)
(* only writes and its row locks last until it commits, so it is one step. *)
(*                                                                         *)
(* A handler whose check fails answers with an error and changes nothing,  *)
(* so the refusals are not actions.  A handler that got past its check may *)
(* still fail (Abandon): the transaction is rolled back, a call throws, or *)
(* the process dies.                                                       *)
(***************************************************************************)
EXTENDS Inventory, OrderMoves, Sequences, FiniteSets

CONSTANTS
    Orders,        \* order ids
    Requests,      \* request slots: how many handlers are in flight at once
    Ppids,         \* provider payment ids (payments.provider_payment_id)
    MaxPayments,   \* bound on the rows of the payments table
    NoOrder,       \* the order of a request that has none yet
    NoPpid         \* a NULL provider payment id

ASSUME OrderAssumption == IsFiniteSet(Orders) /\ NoOrder \notin Orders
ASSUME PpidAssumption == NoPpid \notin Ppids
ASSUME MaxPaymentsAssumption == MaxPayments \in Nat

VARIABLES
    status,        \* orders.status, "none" while the row does not exist
    lines,         \* the order_items of the order, written once
    payments,      \* the payments table in order of created_at
    webhookKeys,   \* provider payment ids p with a Redis key webhook:{p}
    lastAudit,     \* newest audit_logs row about the order
    req            \* the requests in flight

vars == <<quantity, reserved, status, lines, payments, webhookKeys, lastAudit, req>>
db == <<quantity, reserved, status, lines, payments, lastAudit>>
------------------------------------------------------------------------------
Providers == {"mock", "cod"}
PaymentStatus == {"pending", "paid", "cod_pending", "failed", "refunded"}
Events == {"payment.completed", "payment.failed", "payment.refunded"}

Payment == [order : Orders, provider : Providers,
            ppid : Ppids \cup {NoPpid}, status : PaymentStatus]

NoAudit == [action |-> "none", newStatus |-> "none"]
Audit == [action : {"none", "cancel", "confirm", "admin_status_change"},
          newStatus : OrderStatus \cup {"none"}]

(* A request records what its handler keeps across awaits: the order it    *)
(* read, the cart it will order, the payment row it read, the provider id  *)
(* it will write or match, and the event or the status it was asked for.   *)
NoLines == [v \in Variants |-> 0]
Idle == [step |-> "idle", order |-> NoOrder, cart |-> NoLines,
         pay |-> 0, ppid |-> NoPpid, arg |-> "none"]

Steps == {"idle", "checkout", "checkoutTail", "intent", "confirm", "cancel",
          "webhookSeen", "webhook", "webhookMark", "admin"}

Request == [step : Steps, order : Orders \cup {NoOrder}, cart : Lines, pay : Nat,
            ppid : Ppids \cup {NoPpid}, arg : Events \cup AdminStatus \cup {"none"}]

Start(r, rec) == req[r] = Idle /\ req' = [req EXCEPT ![r] = rec]
Finish(r) == req' = [req EXCEPT ![r] = Idle]

RowsOf(o) == {k \in DOMAIN payments : payments[k].order = o}
UsedPpids == {payments[k].ppid : k \in DOMAIN payments}
                \cup {req[r].ppid : r \in Requests} \cup webhookKeys

SetStatus(o, s) == status' = [status EXCEPT ![o] = s]
SetPayment(k, s, p) ==
    payments' = [payments EXCEPT ![k] = [@ EXCEPT !.status = s, !.ppid = p]]
AddPayment(row) ==
    /\ Len(payments) < MaxPayments
    /\ payments' = Append(payments, row)
AddAudit(o, a, s) ==
    lastAudit' = [lastAudit EXCEPT ![o] = [action |-> a, newStatus |-> s]]
------------------------------------------------------------------------------
Init ==
    /\ quantity \in [Variants -> StockLevels]
    /\ reserved = [v \in Variants |-> 0]
    /\ status = [o \in Orders |-> "none"]
    /\ lines = [o \in Orders |-> NoLines]
    /\ payments = <<>>
    /\ webhookKeys = {}
    /\ lastAudit = [o \in Orders |-> NoAudit]
    /\ req = [r \in Requests |-> Idle]

(***************************************************************************)
(* POST /checkout.  The cart and the idempotency key are in module         *)
(* Checkout; here the cart is any non-empty choice of lines.               *)
(***************************************************************************)
CheckoutRead(r) ==
    /\ \E ls \in Lines \ {NoLines} :
          /\ CanReserve(ls)
          /\ Start(r, [Idle EXCEPT !.step = "checkout", !.cart = ls])
    /\ UNCHANGED <<db, webhookKeys>>

\* created, then every line reserved, then stock_reserved, in one transaction.
CheckoutCommit(r) ==
    /\ req[r].step = "checkout"
    /\ \E o \in Orders :
          /\ status[o] = "none"
          /\ ReserveStock(req[r].cart)
          /\ SetStatus(o, "stock_reserved")
          /\ lines' = [lines EXCEPT ![o] = req[r].cart]
          /\ req' = [req EXCEPT ![r] =
                       [Idle EXCEPT !.step = "checkoutTail", !.order = o]]
    /\ UNCHANGED <<payments, webhookKeys, lastAudit>>

\* The payment row of the checkout, written after the transaction.
CheckoutPayment(r) ==
    /\ req[r].step = "checkoutTail"
    /\ \E m \in Providers :
          AddPayment([order |-> req[r].order, provider |-> m,
                      ppid |-> NoPpid, status |-> "pending"])
    /\ Finish(r)
    /\ UNCHANGED <<quantity, reserved, status, lines, webhookKeys, lastAudit>>

(***************************************************************************)
(* POST /payments/:orderId/intent                                          *)
(***************************************************************************)
\* Wrong on purpose (mutation): the order is never looked up.
IntentReadUnchecked(r) ==
    /\ \E o \in Orders : Start(r, [Idle EXCEPT !.step = "intent", !.order = o])
    /\ UNCHANGED <<db, webhookKeys>>

IntentRead(r) ==
    /\ \E o \in Orders :
          /\ status[o] = "stock_reserved"
          /\ Start(r, [Idle EXCEPT !.step = "intent", !.order = o])
    /\ UNCHANGED <<db, webhookKeys>>

\* The provider's new id is a random string, so it is one nobody has seen.
IntentCommit(r) ==
    /\ req[r].step = "intent"
    /\ \E m \in Providers, p \in Ppids \ UsedPpids :
          AddPayment([order |-> req[r].order, provider |-> m,
                      ppid |-> p, status |-> "pending"])
    /\ SetStatus(req[r].order, "payment_pending")
    /\ Finish(r)
    /\ UNCHANGED <<quantity, reserved, lines, webhookKeys, lastAudit>>

(***************************************************************************)
(* POST /payments/:orderId/confirm.  The newest payment row of the order   *)
(* is confirmed; the client may send a provider payment id, which replaces *)
(* the one on the row.                                                     *)
(***************************************************************************)
\* Wrong on purpose (mutation): any order can be confirmed.
ConfirmReadUnchecked(r) ==
    /\ \E o \in Orders, given \in Ppids \cup {NoPpid}, k \in DOMAIN payments :
          /\ payments[k].order = o
          /\ Start(r, [Idle EXCEPT !.step = "confirm", !.order = o, !.pay = k,
                     !.ppid = IF given = NoPpid THEN payments[k].ppid ELSE given])
    /\ UNCHANGED <<db, webhookKeys>>

ConfirmRead(r) ==
    /\ \E o \in Orders, given \in Ppids \cup {NoPpid} :
          /\ status[o] = "payment_pending"
          /\ \E k \in RowsOf(o) :
                /\ \A j \in RowsOf(o) : j <= k
                /\ Start(r, [Idle EXCEPT !.step = "confirm", !.order = o, !.pay = k,
                     !.ppid = IF given = NoPpid THEN payments[k].ppid ELSE given])
    /\ UNCHANGED <<db, webhookKeys>>

\* MockPaymentProvider approves, CodPaymentProvider leaves the money pending.
ConfirmCommit(r) ==
    LET q == req[r]
        result == IF payments[q.pay].provider = "mock" THEN "paid" ELSE "cod_pending"
    IN  /\ q.step = "confirm"
        /\ SetPayment(q.pay, result, q.ppid)
        /\ SetStatus(q.order, result)
        /\ IF result = "paid" THEN ConfirmDeduction(lines[q.order])
                              ELSE UNCHANGED stock
        /\ AddAudit(q.order, "confirm", result)
        /\ Finish(r)
        /\ UNCHANGED <<lines, webhookKeys>>

(***************************************************************************)
(* POST /orders/:id/cancel                                                 *)
(***************************************************************************)
CancelRead(r) ==
    /\ \E o \in Orders :
          /\ status[o] \in Cancellable
          /\ Start(r, [Idle EXCEPT !.step = "cancel", !.order = o])
    /\ UNCHANGED <<db, webhookKeys>>

CancelCommit(r) ==
    LET o == req[r].order
    IN  /\ req[r].step = "cancel"
        /\ SetStatus(o, "cancelled")
        /\ ReleaseStock(lines[o])
        /\ AddAudit(o, "cancel", "cancelled")
        /\ Finish(r)
        /\ UNCHANGED <<lines, payments, webhookKeys>>

(***************************************************************************)
(* POST /payments/webhooks/mock.  The Redis key says that some event of    *)
(* the provider payment id was processed; it is written last.              *)
(***************************************************************************)
WebhookCheckKey(r) ==
    /\ \E k \in DOMAIN payments, p \in Ppids, e \in Events :
          /\ p \notin webhookKeys
          /\ Start(r, [Idle EXCEPT !.step = "webhookSeen", !.pay = k,
                                   !.ppid = p, !.arg = e])
    /\ UNCHANGED <<db, webhookKeys>>

WebhookRead(r) ==
    LET q == req[r]
    IN  /\ q.step = "webhookSeen"
        /\ payments[q.pay].ppid = q.ppid
        /\ req' = [req EXCEPT ![r] =
                     [q EXCEPT !.step = "webhook", !.order = payments[q.pay].order]]
        /\ UNCHANGED <<db, webhookKeys>>

\* Wrong on purpose (mutation): the order moves, its payment row does not.
WebhookEffectOrderOnly(k, o, e) ==
    \/ /\ e = "payment.completed"
       /\ SetStatus(o, "paid")
       /\ ConfirmDeduction(lines[o])
       /\ UNCHANGED payments
    \/ /\ e = "payment.refunded"
       /\ SetStatus(o, "cancelled")
       /\ ReleaseStock(lines[o])
       /\ UNCHANGED payments

\* What each event does to the payment row, the order and its stock.
WebhookEffect(k, o, e) ==
    \/ /\ e = "payment.completed"
       /\ SetPayment(k, "paid", payments[k].ppid)
       /\ SetStatus(o, "paid")
       /\ ConfirmDeduction(lines[o])
    \/ /\ e = "payment.failed"
       /\ SetPayment(k, "failed", payments[k].ppid)
       /\ SetStatus(o, "payment_failed")
       /\ UNCHANGED stock
    \/ /\ e = "payment.refunded"
       /\ SetPayment(k, "refunded", payments[k].ppid)
       /\ SetStatus(o, "cancelled")
       /\ ReleaseStock(lines[o])

WebhookCommit(r) ==
    LET q == req[r]
    IN  /\ q.step = "webhook"
        /\ WebhookEffect(q.pay, q.order, q.arg)
        /\ req' = [req EXCEPT ![r] =
                     [Idle EXCEPT !.step = "webhookMark", !.ppid = q.ppid]]
        /\ UNCHANGED <<lines, webhookKeys, lastAudit>>

WebhookMark(r) ==
    /\ req[r].step = "webhookMark"
    /\ webhookKeys' = webhookKeys \cup {req[r].ppid}
    /\ Finish(r)
    /\ UNCHANGED db

\* The key lives for 86400 s; an eviction looks the same.
WebhookKeyExpires(p) ==
    /\ p \in webhookKeys
    /\ webhookKeys' = webhookKeys \ {p}
    /\ UNCHANGED <<db, req>>

(***************************************************************************)
(* PATCH /admin/orders/:id/status and PATCH /admin/inventory/:variantId    *)
(***************************************************************************)
AdminRead(r) ==
    /\ \E o \in Orders, s \in AdminStatus :
          /\ status[o] \notin Terminal \cup {"none"}
          /\ Start(r, [Idle EXCEPT !.step = "admin", !.order = o, !.arg = s])
    /\ UNCHANGED <<db, webhookKeys>>

\* Wrong on purpose (mutation): an admin cancellation keeps the reservation.
AdminStockKeepsReserved(o, s) ==
    IF s \in {"paid", "fulfilled"} THEN ConfirmDeduction(lines[o]) ELSE UNCHANGED stock

AdminStock(o, s) ==
    CASE s \in {"paid", "fulfilled"} -> ConfirmDeduction(lines[o])
      [] s = "cancelled"             -> ReleaseStock(lines[o])
      [] OTHER                       -> UNCHANGED stock

AdminCommit(r) ==
    LET q == req[r]
    IN  /\ q.step = "admin"
        /\ SetStatus(q.order, q.arg)
        /\ AdminStock(q.order, q.arg)
        /\ AddAudit(q.order, "admin_status_change", q.arg)
        /\ Finish(r)
        /\ UNCHANGED <<lines, payments, webhookKeys>>

AdminInventory(v, q) ==
    /\ UpdateInventory(v, q)
    /\ UNCHANGED <<status, lines, payments, webhookKeys, lastAudit, req>>
------------------------------------------------------------------------------
\* The rest of the handler does not happen.
Abandon(r) ==
    /\ req[r].step # "idle"
    /\ Finish(r)
    /\ UNCHANGED <<db, webhookKeys>>

Handler(r) ==
    \/ CheckoutRead(r) \/ CheckoutCommit(r) \/ CheckoutPayment(r)
    \/ IntentRead(r) \/ IntentCommit(r)
    \/ ConfirmRead(r) \/ ConfirmCommit(r)
    \/ CancelRead(r) \/ CancelCommit(r)
    \/ WebhookCheckKey(r) \/ WebhookRead(r) \/ WebhookCommit(r) \/ WebhookMark(r)
    \/ AdminRead(r) \/ AdminCommit(r)
    \/ Abandon(r)

Next ==
    \/ \E r \in Requests : Handler(r)
    \/ \E v \in Variants, q \in StockLevels : AdminInventory(v, q)
    \/ \E p \in Ppids : WebhookKeyExpires(p)

Spec == Init /\ [][Next]_vars
------------------------------------------------------------------------------
TypeOK ==
    /\ InventoryTypeOK
    /\ status \in [Orders -> OrderStatus \cup {"none"}]
    /\ lines \in [Orders -> Lines]
    /\ payments \in Seq(Payment)
    /\ webhookKeys \subseteq Ppids
    /\ lastAudit \in [Orders -> Audit]
    /\ req \in [Requests -> Request]

NeedsOrder == {"checkoutTail", "intent", "confirm", "cancel", "webhook", "admin"}
NeedsRow == {"confirm", "webhookSeen", "webhook"}
NeedsBoth == NeedsOrder \cap NeedsRow

Refers(q) ==
    /\ q.step \in NeedsOrder => q.order \in Orders /\ status[q.order] # "none"
    /\ q.step \in NeedsRow => q.pay \in DOMAIN payments
    /\ q.step \in NeedsBoth => payments[q.pay].order = q.order

\* What a handler is asked for fits the step it is in.
Asks(q) ==
    /\ q.step \in {"webhookSeen", "webhook"} => q.arg \in Events
    /\ q.step \in {"webhookSeen", "webhook", "webhookMark"} => q.ppid \in Ppids
    /\ q.step = "admin" => q.arg \in AdminStatus

RequestsRefer == \A r \in Requests : Refers(req[r]) /\ Asks(req[r])

PaymentsRefer == \A k \in DOMAIN payments : status[payments[k].order] # "none"

\* A payment row belongs to an order that exists, and a handler that waits to
\* commit refers to an order and to a payment row that exist, the row being the
\* order's: rows are never deleted and never change hands, so what a handler
\* read stays addressable whatever the others commit meanwhile.
References == PaymentsRefer /\ RequestsRefer
------------------------------------------------------------------------------
(***************************************************************************)
(* Refinement: seen from the stock, an order is a claim that is open while *)
(* the order can still be cancelled.                                       *)
(***************************************************************************)
ClaimOf(s) == IF s = "none" THEN "none"
              ELSE IF s \in Cancellable THEN "open" ELSE "closed"

Ledger == INSTANCE StockLedger WITH claim <- [o \in Orders |-> ClaimOf(status[o])]

\* The handlers implement the stock ledger: whatever the interleaving, each
\* step moves stock exactly as one ledger operation on one order does, so
\* status and stock never part company (checkout, confirm, cancel, webhook
\* and admin transactions).
LedgerSpec == Ledger!Spec

\* The units of variant v that cancellable orders hold, <<order, n>> being the
\* n-th unit of the order's line.
HeldUnits(v) ==
    {u \in Orders \X (1..MaxLine) :
        status[u[1]] \in Cancellable /\ u[2] <= lines[u[1]][v]}

\* No reservation leaks under any interleaving of handlers: what is reserved
\* of a variant is covered by the orders that can still be cancelled, so
\* cancelling them all always frees it.
ReservationsAreBacked ==
    \A v \in Variants : reserved[v] <= Cardinality(HeldUnits(v))

\* Orders never oversell: only PATCH /admin/inventory, which changes nothing but
\* the physical count, can take a variant from reserved <= quantity to
\* reserved > quantity.
OnlyAdminOversells ==
    [][\A v \in Variants :
          reserved[v] <= quantity[v] /\ reserved'[v] > quantity'[v]
            => quantity'[v] < quantity[v] /\ UNCHANGED <<reserved, status, lines>>]_vars

\* The order status that goes with a payment row, as the transactions pair them.
Explains == {<<"pending", "payment_pending">>, <<"paid", "paid">>,
             <<"cod_pending", "cod_pending">>, <<"failed", "payment_failed">>,
             <<"refunded", "cancelled">>}

Justified(o) ==
    \/ status[o] \in {"none", "stock_reserved"}
    \/ lastAudit[o].newStatus = status[o]
    \/ \E k \in RowsOf(o) : <<payments[k].status, status[o]>> \in Explains

\* The status of an order can always be explained from the database: its
\* newest audit entry says it, or a payment row of the order is in the
\* corresponding state.  Each transaction writes the two together, so no race
\* between confirm, cancel, webhook and admin leaves a status without a cause.
StatusIsJustified == \A o \in Orders : Justified(o)

\* The status of an order only moves as some handler writes it after its own
\* check, whatever the others commit between the two: no order is stock_reserved
\* a second time, and none is cod_pending that was not pending before.  Out of
\* every other status, cancelled, paid and fulfilled ones too, all of the others
\* can be reached (what the pages of an order have to expect, OrderPages).
StatusMoves ==
    [][\A o \in Orders :
          status[o] # "none" /\ status'[o] # status[o]
            => <<status[o], status'[o]>> \in Moves]_vars
==============================================================================
