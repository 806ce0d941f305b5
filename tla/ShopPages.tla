------------------------------ MODULE ShopPages ------------------------------
(***************************************************************************)
(* A customer's browser tab on the product, cart, checkout and account     *)
(* pages, over what the API promises for carts and orders (ShoppingCart    *)
(* and Checkout show how it keeps that). Other programs of the customer    *)
(* change the same rows beside it.                                         *)
(*                                                                         *)
(* The web sends some bodies that the API refuses: qty for quantity,       *)
(* number and zipCode in an address. From this tab a cart only shrinks and *)
(* addresses are only deleted; other programs fill the cart.               *)
(***************************************************************************)
EXTENDS Customer

CONSTANTS
    MaxVisits, MaxSubmits, MaxAdds      \* bounds

ASSUME ShopAssumption == MaxVisits \in Nat /\ MaxSubmits \in Nat /\ MaxAdds \in Nat

VARIABLES
    addresses,         \* those of the customer (module Addresses has the default one)
    rows,              \* of the active cart: none (0) or some (1)
    added,             \* times that others have filled the cart
    orders,            \* orders[o]: the checkout page it came from, and its address
    checkouts,         \* checkout requests, in the order they were sent
    page,
    visit, step, selected, pressed,     \* the checkout page
    book,              \* the addresses on the account page, which it keeps itself
    basket, list,      \* the query cache: rows of the cart, the addresses
    asking,            \* running queries
    act                \* the other buttons: what an unanswered mutation has changed

tables == <<addresses, rows, added, orders>>
form == <<visit, step, selected, pressed, book>>
cache == <<basket, list, asking>>
tab == <<page, form, cache, act>>
shopVars == <<tables, checkouts, tab>>
------------------------------------------------------------------------------
Keys == {"cart", "addresses", "book"}
Loads == 0 .. 1
Chosen == AddressIds \cup {None}
Made == [visit : 1 .. MaxVisits, address : Chosen]
Requests == [visit : 1 .. MaxVisits, key : Nat, address : Chosen,
             at : {"sent", "read", "done", "refused"}, awaited : BOOLEAN]

ShopInit ==
    /\ addresses \in SUBSET AddressIds
    /\ rows \in Loads /\ added = 0
    /\ orders = << >> /\ checkouts = << >>
    /\ page = "product"
    /\ visit = 0 /\ step = 0 /\ selected = None /\ pressed = FALSE
    /\ book = None /\ basket = None /\ list = None /\ asking = {}
    /\ act = "idle"
------------------------------------------------------------------------------
(* Pages. What a page shows is asked for when it is opened, unless a fresh *)
(* answer is in the cache; whether it still counts as fresh is left open.  *)
Shows(p) == CASE p \in {"cart", "checkout"} -> {"cart"}
              [] p = "account" -> {"book"}
              [] OTHER -> {}
Pages == {"product", "cart", "checkout", "account", "order"}

Cached(k) == CASE k = "cart" -> basket # None
               [] k = "addresses" -> list # None
               [] OTHER -> FALSE

\* Opening a page asks for some of what it shows, at least for what is not cached.
MayAsk(ks) ==
    \E new \in SUBSET ks :
        /\ {k \in ks : ~Cached(k)} \subseteq new
        /\ asking' = (asking \ {"book"}) \cup new

\* A checkout page that knows the cart to be empty goes on to the cart.
Landing(p, cart) == IF p = "checkout" /\ cart = 0 THEN "cart" ELSE p
NewForm(p) ==
    /\ IF p = "checkout" THEN visit < MaxVisits /\ visit' = visit + 1 ELSE UNCHANGED visit
    /\ step' = 0 /\ selected' = None /\ pressed' = FALSE /\ book' = None

Open(p) ==
    /\ p # page
    /\ page' = Landing(p, basket)
    /\ NewForm(p)
    /\ MayAsk(Shows(p))
    /\ UNCHANGED <<tables, checkouts, basket, list, act>>

Forgotten(cs) == [c \in DOMAIN cs |-> [cs[c] EXCEPT !.awaited = FALSE]]

\* The tab is loaded anew: its cache and what it waits for are gone.
Reload ==
    /\ basket' = None /\ list' = None
    /\ asking' = Shows(page)
    /\ NewForm(page)
    /\ act' = "idle"
    /\ checkouts' = Forgotten(checkouts)
    /\ UNCHANGED <<tables, page>>
------------------------------------------------------------------------------
(* Queries. The API's step is part of the arrival: what a page shows is as *)
(* old as can be anyway, and a query that is sent again starts anew.       *)

\* The query and its retries failed.  The account page stays in its error.
AnswerIsLost(k) ==
    /\ k \in asking /\ asking' = asking \ {k}
    /\ book' = IF k = "book" THEN None ELSE book
    /\ UNCHANGED <<tables, checkouts, page, visit, step, selected, pressed, basket, list, act>>

CartArrives ==
    /\ "cart" \in asking /\ asking' = asking \ {"cart"}
    /\ basket' = rows
    /\ page' = Landing(page, basket')
    /\ IF page' = page THEN UNCHANGED form ELSE NewForm(page')
    /\ UNCHANGED <<tables, checkouts, list, act>>

\* The preselected address, a default one or the first: some address.
Preselected(t) == IF selected # None \/ t = {} THEN {selected} ELSE t

AddressesArrive ==
    /\ "addresses" \in asking /\ asking' = asking \ {"addresses"}
    /\ list' = addresses
    /\ IF page = "checkout" THEN selected' \in Preselected(list') ELSE UNCHANGED selected
    /\ UNCHANGED <<tables, checkouts, page, visit, step, pressed, book, basket, act>>

BookArrives ==
    /\ "book" \in asking /\ asking' = asking \ {"book"}
    /\ book' = addresses
    /\ UNCHANGED <<tables, checkouts, page, visit, step, selected, pressed, basket, list, act>>
------------------------------------------------------------------------------
(* The checkout page. *)
InCheckout == page = "checkout" /\ basket \notin {None, 0}

CanAlwaysGoNext == TRUE       \* wrong on purpose (mutation)
CanGoNext == step = 1 => selected # None

\* Continuar: the second step asks for the addresses.
Continue ==
    /\ InCheckout /\ step < 3 /\ CanGoNext
    /\ step' = step + 1
    /\ MayAsk(IF step = 0 THEN {"addresses"} ELSE {})
    /\ IF step = 0 /\ list # None THEN selected' \in Preselected(list) ELSE UNCHANGED selected
    /\ UNCHANGED <<tables, checkouts, page, visit, pressed, book, basket, list, act>>

\* Wrong on purpose (mutation): the first step has a way back too.
BackAlways ==
    /\ InCheckout /\ ~pressed
    /\ step' = step - 1
    /\ UNCHANGED <<tables, checkouts, page, visit, selected, pressed, book, cache, act>>

Back ==
    /\ InCheckout /\ step > 0 /\ ~pressed
    /\ step' = step - 1
    /\ UNCHANGED <<tables, checkouts, page, visit, selected, pressed, book, cache, act>>

SelectAddress(a) ==
    /\ InCheckout /\ step = 1 /\ list # None /\ a \in list \ {selected}
    /\ selected' = a
    /\ UNCHANGED <<tables, checkouts, page, visit, step, pressed, book, cache, act>>

FreshKey == Len(checkouts) + 1       \* wrong on purpose (mutation)
\* The key is made when the page is opened and stays the page's.
IdempotencyKey == visit

HandleSubmit ==
    /\ InCheckout /\ step = 3 /\ ~pressed
    /\ Len(checkouts) < MaxSubmits
    /\ pressed' = TRUE
    /\ checkouts' = Append(checkouts,
          [visit |-> visit, key |-> IdempotencyKey, address |-> selected,
           at |-> "sent", awaited |-> TRUE])
    /\ UNCHANGED <<tables, page, visit, step, selected, book, cache, act>>

\* onSuccess: the cart on the screen is asked for anew and the order's page is
\* opened, wherever the customer has gone meanwhile.
CheckoutSucceeds(c) ==
    /\ checkouts[c].awaited /\ checkouts[c].at = "done"
    /\ checkouts' = [checkouts EXCEPT ![c].awaited = FALSE]
    /\ asking' = (asking \ {"book"}) \cup ({"cart"} \cap Shows(page))
    /\ page' = "order" /\ NewForm("order")
    /\ UNCHANGED <<tables, basket, list, act>>

\* onError: the API refused, or the answer was lost, which may be long before
\* the API is done; the button can be pressed again if it is still there.
CheckoutFails(c) ==
    /\ checkouts[c].awaited
    /\ checkouts' = [checkouts EXCEPT ![c].awaited = FALSE]
    /\ pressed' = (pressed /\ checkouts[c].visit # visit)
    /\ UNCHANGED <<tables, page, visit, step, selected, book, cache, act>>

CheckoutPage ==
    \/ Continue \/ Back \/ HandleSubmit
    \/ \E a \in AddressIds : SelectAddress(a)
    \/ \E c \in DOMAIN checkouts : CheckoutSucceeds(c) \/ CheckoutFails(c)
------------------------------------------------------------------------------
(* What the API does with a checkout (module Checkout has every step): it  *)
(* reads the cart and the address, then commits the order, once per key,   *)
(* and puts the cart away.                                                 *)
Taken(key) == \E c \in DOMAIN checkouts : checkouts[c].key = key /\ checkouts[c].at = "done"

Acceptable(c) ==
    /\ rows > 0 /\ ~Taken(checkouts[c].key)
    /\ checkouts[c].address \in addresses \cup {None}

CheckoutReads(c) ==
    /\ checkouts[c].at = "sent"
    /\ checkouts' = [checkouts EXCEPT ![c].at = IF Acceptable(c) THEN "read" ELSE "refused"]
    /\ UNCHANGED <<tables, tab>>

\* The cart is emptied after the commit, unless the handler dies first.
CheckoutCommits(c) ==
    /\ checkouts[c].at = "read"
    /\ ~Taken(checkouts[c].key)
    /\ orders' = Append(orders,
          [visit |-> checkouts[c].visit, address |-> checkouts[c].address])
    /\ rows' \in {rows, 0}
    /\ checkouts' = [checkouts EXCEPT ![c].at = "done"]
    /\ UNCHANGED <<addresses, added, tab>>

\* The key is taken, or a row is out of stock by now.
CheckoutRollsBack(c) ==
    /\ checkouts[c].at = "read"
    /\ checkouts' = [checkouts EXCEPT ![c].at = "refused"]
    /\ UNCHANGED <<tables, tab>>
------------------------------------------------------------------------------
(* The other buttons. One of these mutations runs at a time (bound); what  *)
(* the API does with it is part of the click.                              *)

\* Agregar al carrito, plus and minus (of an item whose qty the API does not
\* send), and the address form send bodies that the API refuses.
AddToCart == page = "product"
UpdateQty == page = "cart" /\ basket \notin {None, 0}
SaveAddress == (page = "account" /\ book # None) \/ (InCheckout /\ step = 1)

Refused ==
    /\ AddToCart \/ UpdateQty \/ SaveAddress
    /\ act' = "refused"
    /\ UNCHANGED <<addresses, rows>>

\* An item's bin, or Vaciar carrito.
Shrink ==
    /\ page = "cart" /\ basket \notin {None, 0}
    /\ act' = IF rows > 0 THEN "cart" ELSE "refused"
    /\ rows' \in {rows, 0}
    /\ UNCHANGED addresses

Forget(a) ==
    /\ page = "account" /\ book # None /\ a \in book
    /\ act' = IF a \in addresses THEN "book" ELSE "refused"
    /\ addresses' = addresses \ {a}
    /\ UNCHANGED rows

Buttons ==
    /\ act = "idle"
    /\ Refused \/ Shrink \/ \E a \in AddressIds : Forget(a)
    /\ UNCHANGED <<added, orders, checkouts, page, form, cache>>

\* onSuccess asks anew for what the page still shows; an answer may be lost.
ActSettles ==
    /\ act # "idle" /\ act' = "idle"
    /\ asking' \in {asking, asking \cup {k \in Shows(page) :
                                    k = act /\ (k = "book" => book # None)}}
    /\ UNCHANGED <<tables, checkouts, page, form, basket, list>>
------------------------------------------------------------------------------
(* The customer's other programs.  Addresses are made before (bound). *)
AddRow ==
    /\ added < MaxAdds /\ added' = added + 1
    /\ rows = 0 /\ rows' = 1
    /\ UNCHANGED <<addresses, orders, checkouts, tab>>

OthersDelete(a) ==
    /\ a \in addresses /\ addresses' = addresses \ {a}
    /\ UNCHANGED <<rows, added, orders, checkouts, tab>>

ShopNext ==
    \/ Reload \/ \E p \in Pages : Open(p)
    \/ CartArrives \/ AddressesArrive \/ BookArrives
    \/ \E k \in Keys : AnswerIsLost(k)
    \/ CheckoutPage \/ Buttons \/ ActSettles
    \/ \E c \in DOMAIN checkouts :
          CheckoutReads(c) \/ CheckoutCommits(c) \/ CheckoutRollsBack(c)
    \/ AddRow \/ \E a \in AddressIds : OthersDelete(a)

ShopSpec == ShopInit /\ [][ShopNext]_shopVars
------------------------------------------------------------------------------
TablesTypeOK ==
    /\ addresses \subseteq AddressIds
    /\ rows \in Loads /\ added \in 0 .. MaxAdds
    /\ orders \in Seq(Made) /\ checkouts \in Seq(Requests)

FormTypeOK ==
    /\ page \in Pages /\ visit \in 0 .. MaxVisits /\ step \in 0 .. 3
    /\ selected \in Chosen /\ pressed \in BOOLEAN

CacheTypeOK ==
    /\ book \in {None} \cup SUBSET AddressIds
    /\ basket \in Loads \cup {None} /\ list \in {None} \cup SUBSET AddressIds
    /\ asking \subseteq Keys
    /\ act \in Keys \cup {"idle", "refused"}

ShopTypeOK == TablesTypeOK /\ FormTypeOK /\ CacheTypeOK

\* A checkout page makes at most one order, though its button can be pressed
\* again after an answer was lost, while the API still works on the first
\* request, and though the cart may have been filled again (Checkout.tsx keeps
\* one key for as long as it is mounted).
OneOrderPerVisit ==
    \A o, p \in DOMAIN orders : orders[o].visit = orders[p].visit => o = p

\* Every order of this tab has an address to be sent to, which the API does not
\* ask for; only the steps of the page do (canGoNext).
OrdersHaveAddress == \A o \in DOMAIN orders : orders[o].address # None
------------------------------------------------------------------------------
Heard == [sent |-> "open", read |-> "open", done |-> "bought", refused |-> "refused"]
Asked(c) ==
    IF c \notin DOMAIN checkouts THEN [at |-> "none"]
    ELSE [at |-> Heard[checkouts[c].at], customer |-> "customer", key |-> checkouts[c].key]

Api == INSTANCE Purchases
    WITH Customers <- {"customer"}, Keys <- 1 .. MaxVisits, Ids <- 1 .. MaxSubmits,
         bought <- {[customer |-> "customer", key |-> orders[o].visit] : o \in DOMAIN orders},
         asked <- [c \in 1 .. MaxSubmits |-> Asked(c)]

\* The page's requests are the API's with one key for each visit: it is never
\* told anything but what CheckoutService promises, and the order of a request
\* is one of the page that made it (Checkout.tsx, checkout.service.ts).
ApiSpec == Api!Spec
==============================================================================
