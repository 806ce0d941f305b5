----------------------------- MODULE OrderPages ------------------------------
(***************************************************************************)
(* A customer's browser tab on the pages of an order: its status, which is *)
(* polled while a payment is pending, its cancellation, and its payment.   *)
(* Providers, admins and other programs of the customer move the orders    *)
(* beside it, as module OrderFlow shows that the API lets them: out of     *)
(* every status, also out of paid and cancelled.                           *)
(***************************************************************************)
EXTENDS Customer, OrderMoves

CONSTANTS
    Orders,
    MaxPolls           \* MAX_POLLING_ATTEMPTS

ASSUME OrderPagesAssumption == MaxPolls \in Nat \ {0} /\ None \notin Orders \cup OrderStatus

VARIABLES
    status,            \* of the orders, as the API has it
    view, on,          \* the page, and the order in its address
    seen, reading,      \* query cache: the answers, the running queries
    failed,            \* orders whose last query failed
    polls, timer,      \* the order page's attempts and its interval
    intent,            \* the payment page's intent
    dialog,            \* is the order page's cancellation dialog open?
    sent               \* the running cancellation

watchVars == <<polls, timer, intent>>
orderVars == <<status, view, on, seen, reading, failed, watchVars, dialog, sent>>
------------------------------------------------------------------------------
\* The page's, which lack two of the API's.
CancellableStatuses == {"created", "stock_reserved", "payment_pending"}

Views == {"orders", "order", "pay"}
Nothing == [o |-> None, at |-> "idle"]

OrderPagesInit ==
    /\ status \in [Orders -> Committed]
    /\ view = "orders" /\ on = None
    /\ seen = [o \in Orders |-> None] /\ reading = [o \in Orders |-> None] /\ failed = {}
    /\ polls = 0 /\ timer = FALSE /\ intent = "none"
    /\ dialog = FALSE /\ sent = Nothing

\* Effects that run when the page or the state it shows changes: the payment page
\* leaves an order that is not pending and asks for an intent of one that is, the
\* order page starts its interval.  What was running of the old page is ended.
Effects(v, o, state) ==
    /\ view' = IF v = "pay" /\ state \notin {None, "payment_pending"} THEN "order" ELSE v
    /\ on' = o
    /\ timer' = (view' = "order" /\ state = "payment_pending")
    /\ polls' = 0
    /\ intent' = IF view' = "pay" /\ state = "payment_pending" THEN "sent" ELSE "none"

Load(o) == reading' = [reading EXCEPT ![o] = "sent"]

\* useQuery: what is not cached is asked for, what is cached may be fresh.
Mount(o) ==
    \/ reading[o] = None /\ Load(o)
    \/ (reading[o] # None \/ seen[o] # None) /\ UNCHANGED reading

\* The pages of an order link to one another, and the list of orders to all.
Visit(v, o) ==
    /\ <<v, o>> # <<view, on>> /\ on \in {None, o}
    /\ Effects(v, o, seen[o])
    /\ Mount(o)
    /\ dialog' = FALSE
    /\ UNCHANGED <<status, seen, failed, sent>>

Leave ==
    /\ view # "orders" /\ Effects("orders", None, None)
    /\ dialog' = FALSE
    /\ UNCHANGED <<status, seen, reading, failed, sent>>

\* The tab is loaded anew: its cache and what it waits for are gone.
ReloadTab ==
    /\ on # None
    /\ seen' = [o \in Orders |-> None] /\ failed' = {}
    /\ reading' = [o \in Orders |-> IF o = on THEN "sent" ELSE None]
    /\ Effects(view, on, None)
    /\ dialog' = FALSE /\ sent' = Nothing
    /\ UNCHANGED status
------------------------------------------------------------------------------
(* Queries. *)
ApiReads(o) ==
    /\ reading[o] = "sent"
    /\ reading' = [reading EXCEPT ![o] = status[o]]
    /\ UNCHANGED <<status, view, on, seen, failed, watchVars, dialog, sent>>

\* An answer with the status that the page has may still bring another payment
\* row; one that changes nothing leaves the page's effects alone.
OrderArrives(o) ==
    /\ reading[o] \in Committed
    /\ reading' = [reading EXCEPT ![o] = None]
    /\ seen' = [seen EXCEPT ![o] = reading[o]]
    /\ failed' = failed \ {o}
    /\ \/ on = o /\ Effects(view, o, reading[o])
       \/ (on # o \/ seen' = seen) /\ UNCHANGED <<view, on, watchVars>>
    /\ UNCHANGED <<status, dialog, sent>>

\* The query and its retries failed.
OrderIsLost(o) ==
    /\ reading[o] # None
    /\ reading' = [reading EXCEPT ![o] = None]
    /\ failed' = failed \cup {o}
    /\ UNCHANGED <<status, view, on, seen, watchVars, dialog, sent>>

\* Wrong on purpose (mutation): the last attempt only stops the interval.
StopAtLast ==
    /\ timer
    /\ polls' = polls + 1 /\ timer' = (polls + 1 < MaxPolls)
    /\ IF polls + 1 < MaxPolls THEN Load(on) ELSE UNCHANGED reading
    /\ UNCHANGED <<status, view, on, seen, failed, intent, dialog, sent>>

\* The interval: refetch starts a query of the order anew, a running one too.
PollTick ==
    /\ timer
    /\ polls' = polls + 1 /\ timer' = (polls + 1 < MaxPolls)
    /\ Load(on)
    /\ UNCHANGED <<status, view, on, seen, failed, intent, dialog, sent>>
------------------------------------------------------------------------------
(* The cancellation, one at a time, and the intent. *)
Shown == IF on = None \/ on \in failed THEN None ELSE seen[on]

\* The dialog of an order that can be cancelled stays open when it no longer can.
ToggleDialog ==
    /\ view = "order" /\ Shown # None
    /\ dialog \/ Shown \in CancellableStatuses
    /\ dialog' = ~dialog
    /\ UNCHANGED <<status, view, on, seen, reading, failed, watchVars, sent>>

HandleCancel ==
    /\ view = "order" /\ Shown # None /\ dialog
    /\ sent = Nothing /\ sent' = [o |-> on, at |-> "sent"]
    /\ UNCHANGED <<status, view, on, seen, reading, failed, watchVars, dialog>>

\* The API looks at the status, and writes over whatever it is by then.
CancelRead ==
    /\ sent.at = "sent"
    /\ sent' = [sent EXCEPT !.at = IF status[sent.o] \in Cancellable THEN "checked" ELSE "refused"]
    /\ UNCHANGED <<status, view, on, seen, reading, failed, watchVars, dialog>>

CancelCommit ==
    /\ sent.at = "checked" /\ sent' = [sent EXCEPT !.at = "done"]
    /\ status' = [status EXCEPT ![sent.o] = "cancelled"]
    /\ UNCHANGED <<view, on, seen, reading, failed, watchVars, dialog>>

\* onSuccess: the order is asked for anew and the dialog closed, if the page is
\* still on the screen.
ActArrives ==
    /\ sent.at = "done" /\ sent' = Nothing
    /\ IF on = sent.o THEN Load(on) ELSE UNCHANGED reading
    /\ dialog' = (dialog /\ on # sent.o)
    /\ UNCHANGED <<status, view, on, seen, failed, watchVars>>

\* The API refused, or no answer comes: a message.
ActFails ==
    /\ sent # Nothing /\ sent' = Nothing
    /\ UNCHANGED <<status, view, on, seen, reading, failed, watchVars, dialog>>

\* The page asks for an intent of an order that it shows pending, and the API
\* makes one of an order in stock_reserved, which no such order is again
\* (StatusMoves): refused, or no answer comes.  The button waits for an intent.
CreateIntent ==
    /\ intent = "sent" /\ intent' = "failed"
    /\ UNCHANGED <<status, view, on, seen, reading, failed, polls, timer, dialog, sent>>
------------------------------------------------------------------------------
(* Others: programs of the customer, the payment provider, admins. *)
OthersMove(o) ==
    /\ \E s \in Committed : <<status[o], s>> \in Moves /\ status' = [status EXCEPT ![o] = s]
    /\ UNCHANGED <<view, on, seen, reading, failed, watchVars, dialog, sent>>

OrderPagesNext ==
    \/ \E v \in {"order", "pay"}, o \in Orders : Visit(v, o)
    \/ Leave \/ ReloadTab \/ PollTick
    \/ ToggleDialog \/ HandleCancel \/ CancelRead \/ CancelCommit \/ ActArrives \/ ActFails
    \/ CreateIntent
    \/ \E o \in Orders : ApiReads(o) \/ OrderArrives(o) \/ OrderIsLost(o) \/ OthersMove(o)

\* The browser's interval fires, the API answers, and a query that is asked anew
\* again and again is not overtaken every time before its answer is handed on.
OrderPagesFairness ==
    /\ WF_orderVars(PollTick)
    /\ \A o \in Orders : WF_orderVars(ApiReads(o)) /\ SF_orderVars(OrderArrives(o))

OrderPagesSpec == OrderPagesInit /\ [][OrderPagesNext]_orderVars /\ OrderPagesFairness
------------------------------------------------------------------------------
OrderPagesTypeOK ==
    /\ status \in [Orders -> Committed]
    /\ view \in Views /\ on \in Orders \cup {None} /\ (on = None <=> view = "orders")
    /\ seen \in [Orders -> Committed \cup {None}]
    /\ reading \in [Orders -> Committed \cup {None, "sent"}] /\ failed \subseteq Orders
    /\ polls \in 0 .. MaxPolls /\ timer \in BOOLEAN
    /\ intent \in {"none", "sent", "failed"} /\ dialog \in BOOLEAN
    /\ sent \in [o : Orders \cup {None}, at : {"idle", "sent", "checked", "done", "refused"}]

\* An order that leaves payment_pending while its page polls is shown as no
\* longer pending, unless its query fails, the page is left or a late intent
\* makes it pending again, although a poll starts a running query anew and the
\* polls come to an end.
PollingNotices ==
    (timer /\ status[on] # "payment_pending")
        ~> (\/ view # "order" \/ seen[on] # "payment_pending" \/ on \in failed
            \/ status[on] = "payment_pending")
==============================================================================
