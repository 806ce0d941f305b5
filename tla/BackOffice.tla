----------------------------- MODULE BackOffice ------------------------------
(***************************************************************************)
(* An admin's browser tab on the back office, over the tables of Catalog:  *)
(* the product list, the product form with its variant manager, the        *)
(* inventory and the orders. Other admins use the API beside it.           *)
(*                                                                         *)
(* A page shows the last answer the query cache has for its key. A save    *)
(* that succeeds marks keys as stale; the one on the screen is asked for   *)
(* again, and a request for it that is already running is dropped.         *)
(***************************************************************************)
EXTENDS Catalog

CONSTANTS
    HasOrders,     \* is there an order in the table?
    MaxRunning     \* requests of the tab running at a time (bound)

ASSUME BackOfficeAssumption == HasOrders \in BOOLEAN /\ MaxRunning \in Nat

VARIABLES
    tab,           \* the page at the tab's address
    broken,        \* the error page is shown instead
    shown,         \* shown[k]: the answer in the query cache
    stale,         \* keys marked as stale
    asking,        \* asking[k]: the running request
    dialog,        \* the open dialog: "variant", "stock" or None
    save,          \* the running save (bound: one at a time)
    acked          \* the last acknowledged save of what the tab shows: product, edits

pageVars == <<tab, broken, shown, stale, asking, dialog, save, acked>>
boVars == <<tableVars, pageVars>>
------------------------------------------------------------------------------
Page(at) == [at |-> at, p |-> None]
Form(p) == [at |-> "edit", p |-> p]
Nothing == [step |-> "idle"]
Views == {Page("products"), Page("inventory")} \cup {Form(p) : p \in Products}
Tabs == Views \cup {Page("new"), Page("orders"), Page("order")}

Data == UNION {[S -> Answers] : S \in SUBSET Products}
Asked == {Nothing, [step |-> "sent"]} \cup [step : {"answered"}, data : Data]
Saves == [step : {"sent", "done"}, here : BOOLEAN, after : 0..MaxEdits, p : Products,
          op : {"create", "update", "delete", "variant", "stock"}]

\* No answer is null, what the query cache has before the first.
ASSUME DataAssumption == None \notin Data

ListProducts == [p \in {q \in Products : Exists(q)} |-> Answer(p)]
GetProduct(p) == [q \in {p} |-> Answer(q)]
AnswerTo(k) == IF k.at = "edit" THEN GetProduct(k.p) ELSE ListProducts

\* The admin API sends the rows as they are, with prices and totals as strings,
\* and the pages call toFixed on them: no page with one of them is rendered.
Throws(t, views) ==
    t.at = "edit" /\ views[t] # None /\ views[t][t.p].variants # {}

Ask(k, a) == [a EXCEPT ![k] = [step |-> "sent"]]

BackOfficeInit ==
    /\ CatalogInit
    /\ tab = Page("new")
    /\ broken = FALSE
    /\ shown = [k \in Views |-> None]
    /\ stale = {}
    /\ asking = [k \in Views |-> Nothing]
    /\ dialog = None
    /\ save = Nothing
    /\ acked = [view |-> None, p |-> None, edits |-> 0]
------------------------------------------------------------------------------
(* The query cache                                                         *)

\* A page that is mounted asks for its key unless a fresh answer is there (an
\* answer is fresh for 30 seconds); one request at a time.
Mount(t) ==
    IF t \in Views /\ asking[t] = Nothing
    THEN \/ asking' = Ask(t, asking)
         \/ shown[t] # None /\ t \notin stale /\ UNCHANGED asking
    ELSE UNCHANGED asking

Visit(t) ==
    /\ ~broken
    /\ Cardinality({k \in Views : asking[k] # Nothing}) < MaxRunning
    /\ t.at = "edit" => Exists(t.p)
    /\ tab' = t
    /\ dialog' = None
    /\ save' = IF save = Nothing THEN Nothing ELSE [save EXCEPT !.here = FALSE]
    /\ broken' = Throws(t, shown)
    /\ Mount(t)
    /\ UNCHANGED <<shown, stale, acked>>

\* Reintentar: the same page again, with what the cache holds.
Retry ==
    /\ broken
    /\ broken' = Throws(tab, shown)
    /\ Mount(tab)
    /\ UNCHANGED <<tab, dialog, save, shown, stale, acked>>

\* The address is entered anew: nothing of the tab stays.
Reload(t) ==
    /\ tab' = t
    /\ broken' = FALSE
    /\ shown' = [k \in Views |-> None]
    /\ stale' = {}
    /\ asking' = [k \in Views |-> IF k = t THEN [step |-> "sent"] ELSE Nothing]
    /\ dialog' = None
    /\ save' = Nothing
    /\ acked' = [view |-> None, p |-> None, edits |-> 0]

ApiAnswers(k) ==
    /\ asking[k] = [step |-> "sent"]
    /\ asking' = [asking EXCEPT ![k] = [step |-> "answered", data |-> AnswerTo(k)]]
    /\ UNCHANGED <<tab, broken, shown, stale, dialog, save, acked>>

\* The form is filled, and the variant manager rendered, from what arrives.
AnswerArrives(k) ==
    /\ asking[k].step = "answered"
    /\ shown' = [shown EXCEPT ![k] = asking[k].data]
    /\ stale' = stale \ {k}
    /\ asking' = [asking EXCEPT ![k] = Nothing]
    /\ broken' = (broken \/ Throws(tab, shown'))
    /\ dialog' = IF broken' THEN None ELSE dialog
    /\ UNCHANGED <<tab, save, acked>>

\* The list of orders arrives, or the order at the address.
OrdersThrow == tab.at = "orders" /\ HasOrders
OrderThrows == tab.at = "order" /\ HasOrders

OrdersArrive ==
    /\ OrdersThrow \/ OrderThrows
    /\ broken' = TRUE
    /\ UNCHANGED <<tab, shown, stale, asking, dialog, save, acked>>

AnswerIsLost(k) ==
    /\ asking[k] # Nothing
    /\ asking' = [asking EXCEPT ![k] = Nothing]
    /\ UNCHANGED <<tab, broken, shown, stale, dialog, save, acked>>
------------------------------------------------------------------------------
(* Saves                                                                   *)

\* Agregar Variante on the form, Editar in the inventory; closed at any time.
VariantDialog == IF tab.at = "edit" /\ shown[tab] # None THEN {"variant"} ELSE {}
StockDialog == IF tab.at = "inventory" /\ shown[tab] # None THEN {"stock"} ELSE {}

OpenDialog ==
    /\ ~broken
    /\ dialog' \in {None} \cup VariantDialog \cup StockDialog
    /\ UNCHANGED <<tab, broken, shown, stale, asking, save, acked>>

\* The buttons of the pages, and what they save.
Listing(p) == shown[tab] # None /\ p \in DOMAIN shown[tab]
FormOffers(op, p) ==
    \/ op = "create" /\ tab.at = "new" /\ ~Exists(p)
    \/ op = "update" /\ tab = Form(p)
VariantOffers(op, p) == op = "variant" /\ dialog = "variant" /\ tab = Form(p)
ListOffers(op, p) == op = "delete" /\ tab.at = "products" /\ Listing(p)
StockOffers(op, p) ==
    op = "stock" /\ dialog = "stock" /\ Listing(p) /\ shown[tab][p].variants # {}

Offered(op, p) ==
    FormOffers(op, p) \/ VariantOffers(op, p) \/ ListOffers(op, p) \/ StockOffers(op, p)

SendSave(op, p) ==
    /\ ~broken
    /\ save = Nothing
    /\ Offered(op, p)
    /\ save' = [step |-> "sent", here |-> TRUE, after |-> 0, op |-> op, p |-> p]
    /\ UNCHANGED <<tab, broken, shown, stale, asking, dialog, acked>>

Performs(op, p) ==
    \/ op = "create" /\ CreateProduct(p)
    \/ op = "update" /\ UpdateProduct(p)
    \/ op = "delete" /\ DeleteProduct(p)
    \/ op = "variant" /\ \E v \in Variants : CreateVariant(p, v)
    \/ op = "stock" /\ \E v \in VariantsOf(p) : UpdateInventory(v)

\* The handler runs; its answer may be lost.
ApiSaves ==
    /\ save # Nothing
    /\ save.step = "sent"
    /\ Performs(save.op, save.p)
    /\ save' \in {Nothing, [save EXCEPT !.step = "done", !.after = product'[save.p].edits]}
    /\ UNCHANGED <<tab, broken, shown, stale, asking, dialog, acked>>

\* A duplicate, an invalid field, a row that is gone, no answer: the page says
\* so, or does not, and stays as it is.
SaveIsRefused ==
    /\ save # Nothing
    /\ save.step = "sent"
    /\ save' = Nothing
    /\ UNCHANGED <<tab, broken, shown, stale, asking, dialog, acked>>

\* The keys that each page marks as stale when its save has succeeded.
AfterForm(op, p) ==
    IF op \in {"create", "update"}
    THEN {Page("products")} \cup (IF op = "update" THEN {Form(p)} ELSE {}) ELSE {}
AfterVariant(op, p) == IF op = "variant" THEN {Form(p)} ELSE {}
AfterDelete(op) == IF op = "delete" THEN {Page("products")} ELSE {}
AfterStock(op) == IF op = "stock" THEN {Page("inventory")} ELSE {}

Invalidates(op, p) == AfterForm(op, p) \cup AfterVariant(op, p) \cup AfterDelete(op) \cup AfterStock(op)

\* Wrong on purpose (mutation): the dialog outlives its page.
KeepDialog(op) == dialog

\* A new product is opened, wherever the admin is by now; the dialog of the
\* page that saved is closed, whichever row it is open for by now.
Landing(op, p) == IF op = "create" THEN Form(p) ELSE tab
DialogAfter(op) ==
    IF op = "create" \/ (save.here /\ op \in {"variant", "stock"}) THEN None ELSE dialog

\* Wrong on purpose (mutation): a running request is not started anew.
JoinRunning(on) ==
    IF on = None \/ asking[on] # Nothing THEN asking ELSE Ask(on, asking)

\* The key on the screen is asked for again; its running request is dropped. A
\* request of another page goes on, and may show what was there before.
Refetch(on) == IF on = None THEN asking ELSE Ask(on, asking)

SaveArrives ==
    /\ save # Nothing
    /\ save.step = "done"
    /\ LET hit == Invalidates(save.op, save.p)
           on == IF tab \in hit /\ ~broken /\ shown[tab] # None THEN tab ELSE None
           to == Landing(save.op, save.p) IN
       /\ stale' = stale \cup {k \in hit : shown[k] # None}
       /\ tab' = to
       /\ broken' = (broken \/ Throws(to, shown))
       /\ asking' = IF to # tab /\ asking[to] = Nothing THEN Ask(to, Refetch(on)) ELSE Refetch(on)
       /\ acked' = IF on = None THEN acked ELSE [view |-> on, p |-> save.p, edits |-> save.after]
    /\ dialog' = DialogAfter(save.op)
    /\ save' = Nothing
    /\ UNCHANGED shown
------------------------------------------------------------------------------
TabSteps ==
    \/ Retry \/ OrdersArrive \/ OpenDialog \/ SaveIsRefused \/ SaveArrives
    \/ \E t \in Tabs : Visit(t) \/ Reload(t)
    \/ \E k \in Views : ApiAnswers(k) \/ AnswerArrives(k) \/ AnswerIsLost(k)
    \/ \E p \in Products, op \in {"create", "update", "delete", "variant", "stock"} :
          SendSave(op, p)

BackOfficeNext ==
    \/ TabSteps /\ UNCHANGED tableVars
    \/ ApiSaves
    \/ AdminWrites /\ UNCHANGED pageVars

BackOfficeSpec == BackOfficeInit /\ [][BackOfficeNext]_boVars
------------------------------------------------------------------------------
TypeOK ==
    /\ CatalogTypeOK
    /\ tab \in Tabs
    /\ broken \in BOOLEAN
    /\ shown \in [Views -> Data \cup {None}]
    /\ stale \subseteq Views
    /\ asking \in [Views -> Asked]
    /\ dialog \in {None, "variant", "stock"}
    /\ save \in Saves \cup {Nothing}
    /\ acked \in [view : Views \cup {None}, p : Products \cup {None}, edits : 0..MaxEdits]
    /\ dialog # None => ~broken /\ shown[tab] # None

\* When a save is acknowledged on a page that it marks as stale (the product
\* list, the product's form, for a stock change the inventory), that product's
\* row on the page is at least as new as the save as soon as no request for the
\* page is running and its answer counts as fresh: an answer read before the
\* save never covers it up (the onSuccess handlers).
SavesAreShown ==
    LET k == acked.view IN
    k # None /\ asking[k] = Nothing /\ k \notin stale =>
        acked.p \in DOMAIN shown[k] /\ shown[k][acked.p].edits >= acked.edits
==============================================================================
