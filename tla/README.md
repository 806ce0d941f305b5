# Tienda-online: verification project

TLA+ models of the shop in this repository, the TLC runs that check them and the
TLAPS proofs about them. Paths below are relative to the repository; `api/` is
short for `apps/api/src/`.

## 1. The system

An online shop: a NestJS API over PostgreSQL (Prisma) and Redis (Upstash REST), a
React front end, a Python support bot behind the API, a small AI gateway server and
a shell script that drives the team's AI-agent workflow.

| Component | State it keeps | Operations | Talks to |
|---|---|---|---|
| Inventory (`api/inventory`) | `inventory` rows: quantity, reserved | reserve, release, confirm deduction, availability | called inside the transactions of checkout, orders, payments, admin |
| Checkout (`api/checkout`) | Redis key `checkout:{user}:{key}`; writes orders, cart, payments | POST /checkout | cart, inventory, Redis |
| Orders (`api/orders`) | `orders.status`, order items, audit log | cancel, queries | inventory |
| Payments (`api/payments`) | `payments` rows, Redis key `webhook:{ppid}` | intent, confirm, webhook | providers (mock, cod), inventory, Redis |
| Admin (`api/admin`) | products, variants, inventory rows, order status | CRUD, status change, stock change | inventory |
| Cart (`api/cart`) | `carts`, `cart_items` | get, add, update, remove, clear | inventory, lock |
| Redis lock (`api/redis/redis-lock.service.ts`) | one key per lock with a TTL | acquire, release | Redis |
| Auth (`api/auth`) | users, rows of refresh tokens | register, login, refresh, logout | |
| Users (`api/users`) | addresses and which is the default | create, update, delete, list, profile | |
| Catalog (`api/catalog`, `api/common/cache`) | cached query results with TTL | read-through reads | Redis, database |
| Throttler (`api/common/throttler`) | hit counter and block key per client | increment | Redis (Lua) |
| Bot proxy (`api/bot`) | nothing | passes messages and confirmations on, gives up after 10 s | bot, API guards |
| Support bot (`bot/...`) | sessions in memory: last intent, pending action | message, confirm | calls the API |
| Web client (`apps/web/src/api`, `contexts`) | tokens in localStorage, refresh queue, user shown | HTTP calls with a refresh on 401, login, logout | API |
| Shop pages (`apps/web/src/pages`) | query cache, checkout form and its key, poll of an order | cart, checkout, order, payment, account | web client |
| Admin pages (`pages/admin`, `components/admin`) | query cache, dialogs, running save | products, variants, stock, orders | web client |
| Bot chat (`hooks/useBotChat.ts`, `components/bot`) | session id, status, dialog of a draft | send, confirm, cancel, reset | bot proxy |
| AI gateway (`apps/server`) | list of providers | chat with fallback | external AI services |
| Workflow (`workflow.sh`) | state file, lock directory, issue files | propose, plan, execute, verify, listen | agents, git |

### What is hard here

* Every order handler reads a status, awaits, and then runs a transaction that does
  not look at the status again. Handlers of one order interleave freely.
* Only `reserveStock` is conditional. `releaseStock` and `confirmDeduction` clamp
  at 0, so a repeated release silently eats what other orders reserved.
* Redis keys used for idempotency are looked up first and written last, so
  duplicates in flight and crashes in between both get through.
* The checkout has a tail outside its transaction: key, cart, payment row.
* Cart rows have no uniqueness constraint; the lock has a TTL and its release is a
  read followed by a delete.
* Refresh tokens rotate by reading, deleting and creating rows separately.
* A default address is written in two statements without a transaction.
* Catalog answers are cached and no writer clears them.
* The browser shares its tokens among tabs, refreshes them for several requests at
  once, and shows answers that may be older than what it has just saved.
* Answers are lost and come in any order, buttons are pressed again: a checkout may be
  repeated while the first one still runs, a poll restarts the query that was about
  to bring the news.
* The bot calls the API before it forgets the action it was asked to confirm, and its
  only thread may be busy longer than the proxy waits.
* Nothing runs in the background: no reservation and no pending order ever expires,
  so the API has no liveness property of its own to offer.

## 2. Modules

| Module | Models | Correspondence |
|---|---|---|
| `Inventory` | `inventory` table and its SQL | `quantity`, `reserved`; one operator per statement, applied to all lines of an order because every caller runs the loop in one transaction |
| `StockLedger` | abstract promise about stock | `claim[o]` is none, open or closed; Place, Release, Consume, Reopen, Adjust |
| `OrderMoves` | the statuses of an order and which may follow which | `Moves`: pairs of a status that the order can have when a handler commits and the one it writes; `OrderFlow` keeps to it (`StatusMoves`), `OrderPages` moves by it |
| `OrderFlow` | checkout, payments, orders and admin handlers under interleaving; implements `StockLedger` | a request slot `req[r]` walks the await points of its handler: `XRead` is the check, `XCommit` the transaction, `WebhookMark` and `CheckoutPayment` what follows it; `Abandon` is any failure after the check |
| `RedisLock` | `RedisLockService` | `lock[k]` is the value under the key, `stage[c]` where a client stands between acquire and the DEL of release; a SET may take effect and be reported as failed, a release may be lost |
| `CartTables` | `carts` and `cart_items` and the statements on them | sets of rows; `findFirst` without an order is a choice; update and delete by id need the row, deleteMany does not |
| `ShoppingCart` | `CartService` and the tail of checkout on the cart; uses the lock as a client of `RedisLock` | a slot walks the awaits of addItem, updateItem, removeItem, clearCart, getActiveCart; `view` is the getActiveCart that addItem returns without awaiting, which runs beside its `finally` |
| `Purchases` | abstract promise of `POST /checkout` | `bought`: customer and key of the orders; `asked[i]`: how far request i is; Arrive, Buy, Answer, Leave. `Checkout` and `ShopPages` implement it |
| `Checkout` | idempotency key, cart and order of `CheckoutService.checkout` | `Arrive` reads the key, `Place` and `Taken` are the transaction with the unique `externalId`, then key, cart and payment row one step each |
| `Accounts` | users and tokens, as the next modules name them | |
| `TokenExchange` | abstract promise about refresh tokens | `open` sessions, each under one token; Begin, Exchange, End. `Sessions` and `WebClient` implement it |
| `Sessions` | refresh tokens of `AuthService` | rows of `sessions`; find, delete and create of a refresh are three steps; `parent` and `revoked` record history for the properties and guard nothing but the freshness of a token |
| `Catalog` | `products`, `product_variants`, `inventory` rows and the operations of `AdminService` on them | a product is a row with a state and a count of edits, so that an answer says how old it is; `referred` are variants that a cart or order line keeps from being deleted |
| `CatalogCache` | `CatalogService` and `CacheService` | `cache[k]` is the answer under a key; a reader slot walks lookup, query (two for variants) and set |
| `RedisServices` | `RedisLock` and `CatalogCache` in one Redis, with the admins of `Catalog` | |
| `WebClient` | `api/client.ts`, `AuthContext`, login and register pages, route guards; the API as `Sessions` promises it | `call[i]` is a request of the tab: API answer and handler are two steps; the links between the forms let one be submitted while another runs; `refresh` is `isRefreshing`; other tabs are what they write to localStorage |
| `BackOffice` | the admin pages over `Catalog` | `shown` and `stale` are the query cache, `asking` the running queries, `save` the running mutation; an `ErrorBoundary` is `broken` |
| `SupportBot` | chat, proxy and bot | `log[i]` is the i-th request with its answer, the fate of what it drafted and how often the API carried that out; what comes through the proxy is anonymous; `pending` and `activeIntent` are the bot's sessions, `serving` its one thread |
| `Customer` | constants of the three below | |
| `Addresses` | addresses in `UsersService` | `clearing` are the handlers between their two statements |
| `ShopPages` | product, cart, checkout and account pages; API checkouts as `Checkout` promises them | `basket`, `list`, `asking` are the query cache, `checkouts` the requests that were sent, which the API reads, commits or rolls back in its own time |
| `OrderPages` | order and payment pages; orders move as `OrderMoves` lets them | `seen`, `reading`, `failed` are the query cache, `timer` and `polls` the interval, `sent` the running cancellation, which the API checks in one step and commits in another |
| `Storefront` | the three above as the tours of one customer | `tour` |
| `MCStockLedger`, `MCOrderFlow`, `MCShoppingCart`, `MCCheckout`, `MCSessions`, `MCWebClient` | symmetry sets for TLC | |
| `UnitCounting` | lemmas about counting units and rows | |
| `*_proofs` | theorems and proofs | about the module they are named after; `RedisLock_proofs` also about `RedisServices` and `BackOffice`, `Sessions_proofs` about `WebClient`, `Storefront_proofs` about `SupportBot` |

`OrderFlow` and `Checkout` each contain the checkout handler, cut differently: in
`OrderFlow` the cart is any non-empty choice of lines and what counts is the stock
and the order's life afterwards; in `Checkout` the stock check is one of the reasons
for which `Leave` may happen and what counts is how often a key buys. The tail
appears a third time in `ShoppingCart`, because it edits the cart without the lock
while the cart's own handlers run.

In the modules of the browser an answer of the API and the handler that receives it
are different steps, and an answer may be lost. The pages take from the API what the
API modules show of it: a refresh that succeeds at most once per token, a checkout
that reads, commits once per key or rolls back, statuses that move as the order
handlers move them, out of every status, also out of paid and cancelled. `Storefront` explores one tour at a time because the three share
no state about which anything is stated; their product would repeat each of them.

A transaction is one step: it only writes, by primary key or by a conditional UPDATE,
and holds its row locks until it commits, so another transaction sees all of it or
nothing. Reads that a handler makes before its first guard and the guard itself
are one step too, as no other step of the same handler depends on what happens
between two of its reads.

Wrong-on-purpose operators (marked "mutation") stand next to the definitions
they distort. No specification uses them; replacing a definition by its distorted
form makes TLC report the property named in `PROJECT.json`, which shows that the
property depends on that piece of code.

## 3. Properties and runs

### Runs that pass

| Run | Instance | States | Shows |
|---|---|---|---|
| `stock_ledger` | 2 orders, 2 variants, lines of 0-2 units, stock 0, 2 or 3 | 3 thousand | the ledger on its own: leaks, overselling |
| `order_flow_stock` | 2 orders, 1 variant, 2 requests, stock 0 or 2, 1 payment row | 0.94 million | handlers of two orders compete for the stock: each step is a ledger step (`LedgerSpec`), no reservation leaks, only an admin oversells |
| `order_flow_payments` | 1 order, 2 requests, 2 payment rows, 2 provider ids | 6.6 million | confirm, webhooks, intents and the late checkout row: what a handler read stays addressable (`References`), every status has a cause (`StatusIsJustified`) and follows the last as the handlers write them (`StatusMoves`) |
| `redis_lock` | 2 locks (on one of them holders overrun the lease), 2 clients; 1 product, 1 variant, 3 kinds of answers, 1 reader, 1 edit | 0.23 million | `MutualExclusion` on the first lock, though a SET may be reported wrongly and a release is a GET and a DEL; cached answers are late but never invented (`CacheIsPast`), a deleted product leaves (`DeletedLeaves`) |
| `cart` | 1 customer, 1 variant, 3 requests, 2 carts, 2 rows, 0-2 units | 0.51 million | no duplicate row, rows within the stock, the lock protocol |
| `checkout` | 2 customers, 2 keys, 2 requests, 3 carts, 2 rows, 2 orders, Redis that loses and forgets | 0.26 million | a key buys once, a 409 names the customer's own order, no cart is put away for nothing; each step is one of `Purchases` (`PromiseSpec`) |
| `sessions` | 2 users, 4 tokens, 3 requests | 59 thousand | one successor per token, a logout is final, no more sessions than logins; three statements are one exchange (`PromiseSpec`) |
| `web_session` | 2 users, one an admin; 2 pairs of tokens, 2 open calls | 0.68 million | the refresh queue is never left behind (`QueueIsServed`), every call settles (`CallsSettle`), the user shown is the one signed in (`ShownIsStored`), the API does what `TokenExchange` promises (`ApiSpec`) |
| `storefront` | 2 addresses, 1 order, 1 visit of the checkout page with 2 submits, 1 refill of the cart, 3 polls, 2 writes of addresses | 1.5 million | a checkout page orders once (`OneOrderPerVisit`), every order has an address (`OrdersHaveAddress`), polling notices that an order is no longer pending (`PollingNotices`), one default address (`OneDefault`) |
| `back_office` | 1 product, 1 variant, 2 edits, 1 request at a time | 0.75 million | a save is in its product's row of every fresh answer of the page it marks stale (`SavesAreShown`), no dialog outlives its page |
| `support_bot` | 3 requests, 1 restart, an admin and a customer, the tab's session and another | 0.90 million | a draft is called at most once, while it waits and by a later explicit confirmation (`CalledOnce`), the pending action is the latest (`PendingIsLatest`), only admins decide about it (`OnlyAdminsDecide`), the chat does not load for ever (`LoadingEnds`) |

Why these bounds: every race in these handlers is between a check and a commit, so
two slots show it, and a slot can serve any number of handlers one after another.
`cart` has a third slot so that two adders meet while the tail or an update edits
what they read; two orders and one unit are enough for one order's release to
eat the other's reservation; four tokens are two logins and two exchanges, or one login and three. One
variant suffices for races because no statement looks at two variants at once;
`stock_ledger` has two variants for orders with several lines. Each bound appears in
a guard: no free id, row or payment means that the step is not taken. Deadlock is
checked everywhere but in `storefront`, where the tour of the account page ends when
its writes are used up.

In the browser a race is between an answer and one more action of the user: two calls,
two submits of a page, a poll that restarts the query of the one before, and two writes show it. The theorems about
checkout pages and addresses hold for any number of visits, submits and writes.

`cart` keeps the lease longer than the handler. With a lease that may end earlier
`OneRowPerVariant` promises nothing, while `RowsWithinStock` and `LockSpec` still hold: that
case is covered by the theorems, which are for both values of `LeaseExpires`.

### Fairness

The API runs nothing in the background: requests come from outside, may never come
again, and a handler may die at any await. No fairness of a handler is justified
and none is assumed. What happens by itself, and is assumed to go on:

* Redis drops a cached answer whose time is over (`WF(ExpireKey(k))`), and a catalog
  reader that has begun goes on. About the locks nothing is assumed: `MutualExclusion`
  is a safety property, and for a lock outside `Overruns` the key outlives its holder.
* A browser ends each request, with an answer or an error, and runs the handlers that
  wait for it (`WebClient`, `SupportBot`): a call of `WebClient` does not stay where it is
  for ever, `ApiAnswers(i) \/ TabHandles(i)`. Its intervals fire (`PollTick`), the API
  answers a query, and a query that is asked anew again and again is not overtaken each
  time before its answer is handed on (strong fairness of `OrderArrives`; the interval is
  seconds long). The user promises nothing: `CallsSettle` is about tabs whose page is not
  loaded anew for ever.
* The bot's loop goes on to the next request, and its own calls give up after ten
  seconds (`BotServes`, `BotFinishes \/ BotBreaks`). Its restart is not fair.

`LoadingEnds` rests on the bot's loop alone: the proxy's ten seconds may come or not.
`PollingNotices` is a leads-to because polls restart the query they wait for: it says that
at least the last one brings the news, unless the query fails, the page is left, or a late
intent makes the order pending again, which the code allows of a paid one too.

### What the documents say and the code does not do

`doc_refresh` checks one claim and TLC finds a behaviour of the code against it:
`docs/frontend/039_EXEC_FRONTEND_PRODUCCION_1_0_DRAFT.md:714` says "Token expirado se refresca
automaticamente", while the client reads `accessToken` and `refreshToken` from an answer
that nests them under `tokens` (`api/client.ts:112`): after a refresh that the API
has granted, localStorage holds the string `undefined` and the session is lost.

The same models show further disagreements. About orders and carts:

| Claim | What happens |
|---|---|
| `docs/api/007_API_ORDERS_1_0_DRAFT.md:73`, "no further transitions allowed" from cancelled and fulfilled | an intent passes its check, the order is cancelled, the intent commits `payment_pending` (`OrderFlow`: IntentRead, CancelCommit, IntentCommit) |
| `docs/decisions/017_ADR_PAYMENTS_PROVIDER_PATTERN_1_0_DRAFT.md:88`, "Webhook idempotency prevents double-processing" | confirm marks the payment paid and deducts; a completed webhook for it deducts again |
| `docs/api/008_API_PAYMENTS_1_0_DRAFT.md:86`, payment.failed: stock "Released" | payment and order move, the reservation stays |
| `docs/api/010_API_INVENTORY_1_0_DRAFT.md:59`, confirmDeduction "when payment is confirmed" | paid to fulfilled by an admin deducts the lines a second time |
| `docs/api/006_API_CHECKOUT_1_0_DRAFT.md:59`, a duplicate key "returns `409 Conflict` with existing orderId" | a duplicate between commit and key fails on the unique column |
| `docs/api/005_API_CART_1_0_DRAFT.md:64`, `:59`, `:66` | two first requests leave two active carts; clearCart leaves the cart active; with two active carts the tail may complete the one that was not ordered |
| `docs/api/007_API_ORDERS_1_0_DRAFT.md:65` | a customer cancels an order that was paid after the check |
| `docs/api/010_API_INVENTORY_1_0_DRAFT.md:66` | after a late intent, or an admin's cancellation of a paid order, a cancellable order holds less reserved stock than its lines |

About the web application, part of the guards of its modules:

| Claim | What happens |
|---|---|
| `docs/frontend/036_FRONTEND_EXEC_FASE5_1_0_DRAFT.md:57`, `:81`, `:89`, the admin pages work | the admin API sends Decimal columns as strings and the pages call `toFixed` on them: a product with a variant, or the first order, takes the page down |
| `docs/ai/bot/054_EXEC_BOT_WAVE2_1_0_DRAFT.md:78`, the request goes on to Python "con el mismo JWT", which decodes it (`:79`) | the proxy sends the token in the body and no header; `server.py:45` puts the missing header in its place, so whatever comes through the API is anonymous to the bot: no draft is made of it and the dialog never opens |
| `docs/frontend/039_EXEC_FRONTEND_PRODUCCION_1_0_DRAFT.md:413`, logout redirects to the login page | it clears tokens and user and stays on the page |

Found on the way, with no document to compare: the web adds to and updates the cart
with `qty` while the DTOs want `quantity`, so both are refused; `AddressForm` sends
`number` and `zipCode`, which are refused; the payment page asks for an intent of a
pending order while the API makes one of a reserved order only, which no pending order is
again (`StatusMoves`), so its button never works; a refusal whose body cannot be decoded leaves the
bot's action pending; a checkout whose answer was lost is answered 409 or 500 when it is repeated and the
page never opens the order that was made; the cancellation dialog stays open when the order can no longer be
cancelled; a wrong password on the login page is taken for an expired session and
loads the page anew; `ProductForm` reads `items` of an answer that is an array; an admin who
leaves the form while a product is being created is taken to it afterwards; the stock dialog
sends an absolute quantity over sales made meanwhile; the bot's own calls send bodies
the API refuses and it answers that the action was executed.

What holds in spite of these: nothing reserved leaks, no order oversells, a key and
a checkout page buy once, and every step on the stock is one ledger operation. The ledger shows what
this leaves open: it lets a claim be released or consumed more than once because
the code does.

## 4. What is proved

For every value of the constants that satisfies the modules' ASSUMEs:

| Theorem | Property | Argument |
|---|---|---|
| `LedgerTypeCorrect`, `LedgerBacked`, `LedgerOversell` | `LedgerTypeOK`, `ReservationsAreBacked`, `OnlyAdjustOversells` | `LedgerTypeOK` is inductive. Held units are counted as a set of pairs (order, n), so closing a claim removes at most its line (`LoseOneLine`) and opening one adds all of it (`GainOneLine`) |
| `TypeCorrect`, `ReferencesCorrect` | `TypeOK`, `References` | `Inv`, their conjunction, is inductive: a commit writes through what its handler read, so types need the references |
| `ImplementsLedger` | `LedgerSpec` | under `Inv` each action is one ledger action or a stutter |
| `NoReservationLeaks`, `NoOversellByOrders` | `ReservationsAreBacked`, `OnlyAdminOversells` | leaks: a split on the ledger action that each step implements, with the same counting of units as in the ledger. Overselling: a split on the SQL statement a step runs; reserving is conditional, the others lower `reserved`, and deduction lowers `quantity` only together with it |
| `StatusJustified` | `StatusIsJustified` | preserved by each transaction, which writes status and cause together; a payment row found by `RowsOf` keeps its order |
| `StatusWalks` | `StatusMoves` | `Lived`: no order stays `created`, which is of the checkout's transaction alone. `Confirms`: the order of a confirmation past its check is no longer `stock_reserved`, and nothing makes it so again |
| `LockTypeCorrect`, `LockExcludes` | `LockTypeOK`, `MutualExclusion` | `Holders`: outside `Overruns`, who is inside has its name under the key |
| `CartTypeCorrect`, `OneRow`, `RowsBounded` | `TypeOK`, `OneRowPerVariant`, `RowsWithinStock` | one invariant: types, the fields each step relies on, `Holders`, and `Absent`: while a handler waits to insert, no row of its variant is in its cart. Only the holder of the variant's lock can end that |
| `CartUsesLock` | `LockSpec` | `stage` is read off the handler's step; cart steps outside the lock are stutters |
| `CheckoutTypeCorrect`, `KeyBuysOnce`, `KeysPointHome` | `TypeOK`, `OneOrderPerKey`, `KeyPointsHome` | `InTail`: a handler past its commit holds the order of its own user and key |
| `ImplementsPurchases` | `PromiseSpec` of `Checkout` | a handler's step says how far its request is (`Stage`), so the commit is the purchase, the tail a stutter and each answer one step. `KeyPointsHome` says that a 409 is true, the unique column that a key is new |
| `SessionsTypeCorrect`, `TokensBuyOnce`, `LogoutsAreFinal` | `TypeOK`, `TokenBuysOnce`, `LogoutIsFinal` | `OneState`: a drawn token has a row, or is in the hands of one handler, or has one successor, or is gone, and `RevokedIsGone`: a revoked one is gone |
| `LockExcludesBesideCache`, `CacheShowsThePast` | `MutualExclusion`, `CacheIsPast` of `RedisSpec` | cache steps leave the lock alone and lock steps the cache. `ReadsPast`: what a reader is about to set is as old as what is set, and it has found the product of the variants it asks for; tables only age (`EditsAge`), which keeps answers in the past (`Ageing`) |
| `LoginsBoundSessions` | `SessionsPerLogin` | counted: rows and exchanges between delete and create against logins. Each step adds or takes one (`Opening`, `Deleting`, `Creating`, `Losing`), so the sets stay finite whatever the number of tokens |
| `OrdersBoundCarts` | `CartsCompletedByOrders` | counted for each customer: a handler between its commit and the completion of a cart owes one, so completed carts and debts never exceed the orders. `CartsKept`: an id names one cart, and a handler's cart is its user's |
| `StorefrontTypeCorrect`, `VisitOrdersOnce`, `OrdersAreAddressed`, `DefaultIsOne` | `TypeOK`, `OneOrderPerVisit`, `OrdersHaveAddress`, `OneDefault` | `Sent`: a request carries its visit as the key, an address, and an order leaves behind a request that is done. `Formed`: a form past its second step has an address. `Cleared`: as long as no two handlers overlapped, the one between its statements has left no other default |
| `PagesUsePurchases` | `ApiSpec` of `ShopPages` | `Sent`: a request carries its visit as the key, and a key that was bought with has a request that is done, which a commit looks for. `Bounded`: each request has its place among those of the promise |
| `ClientTypeCorrect`, `QueueIsNeverLeft`, `LoginIsShown` | `ClientTypeOK`, `QueueIsServed`, `ShownIsStored` | `RefreshHasCall`: the refresh belongs to one call of the tab, whose end takes the queue with it. `AskedAlone`, `FormsWait`: `isLoading` is up while an `/auth/me` is open and keeps the forms away, so no answer about an earlier user comes after a login; `StoredIsOwned`: a token in storage was issued to somebody |
| `ImplementsExchange` | `PromiseSpec` of `Sessions` | a handler between delete and create holds the session, so that the delete is a stutter and the create the exchange; `HeldOnce`: no row and no other handler holds it too. `OneUser`: a token has one row, whose user is the handler's |
| `BrowserUsesExchange` | `ApiSpec` of `WebClient` | under the invariant of `WebClient` (above) each step of a tab is a stutter, each answer about tokens one step of `TokenExchange` (`ApiBegins`, `ApiExchanges`, `ApiEnds`) |
| `BackOfficeTypeCorrect`, `SavesStayShown` | `TypeOK`, `SavesAreShown` of `BackOffice` | `AckIsKept`: from the acknowledgement on, what the page that the save marks stale may still be answered, the answer on its way and the page once fresh hold the save in the row of its product, because saving starts the query again (`Refetch`) and edits only grow (`EditsAge`). `SaveIsStored` carries a save from the API to its answer; `ThrownIsBroken` and `DialogHasPage` are what the type of a dialog needs |
| `BotTypeCorrect`, `OneDraftWaits` | `BotTypeOK`, `PendingIsLatest` | `PendingIsDraft`, `ServesOne`: the pending action of a session is a draft of that session, called if and only if the thread is at work on an admin's explicit confirmation of that session |
| `DraftIsCalledOnce`, `AdminsDecide` | `CalledOnce`, `OnlyAdminsDecide` | `CallsAreCounted`: a draft has one call or none, as its fate says. `InOrder`: requests are served in the order of the log, so a confirmation comes after what it confirms. A step changes the pending action of no session but that of the request it serves, and calls nothing but a draft that waits |

Assumptions: the orders of the ledger and of `OrderFlow` are finitely many; distinguished values (`NoOrder`, `NoPpid`,
`Free`, `NoRef`, `None`, `Nobody`) are not ids; in `BackOffice` `None` is no answer; bounds and stock levels are natural
numbers. The theorems about `OneRowPerVariant` and `MutualExclusion` carry their condition on the
lease in the statement.

Every invariant and action property that a passing run checks is stated by one of
these theorems, and so is each of the six refinements. Each inductive invariant was first
checked by TLC on the run's instance. `ApiSpec` of `ShopPages` holds on the instance of
`storefront` too, but takes TLC as long as the rest of the run and is left to its theorem.

Model-checked only: the liveness properties `DeletedLeaves`, `CallsSettle`,
`PollingNotices` and `LoadingEnds`, because liveness under fairness is out of the
prover's reach; and the disagreement of `doc_refresh`, for which the counterexample is
the evidence.

The browser's modules take what the API does as steps. For tokens and for
orders that is one promise on both sides, stated once: `Sessions` and `WebClient` implement
`TokenExchange`, `Checkout` and `ShopPages` implement `Purchases`. `BackOffice` extends
`Catalog` with its operations. The statuses that `OrderPages` polls move by
`Moves` of `OrderMoves`, which `StatusWalks` proves that `OrderFlow` keeps to.

## 5. What is not modelled

`PROJECT.json` lists every component with its status. Left out for good: prices,
address snapshots on orders, formatting and validation of requests beyond whether the API takes
them; HTTP guards and filters, which decide on one request and keep nothing; health, logging
and configuration; HTTP calls of payment, AI and delivery providers beyond their answer;
pages that only render (catalog, lists, result pages), search, filters and page
numbers; columns of a user's profile.

The throttler is one Lua script that Redis runs at once, the AI gateway a list that is
tried in order; neither has a state of the shop or an interleaving of its own.
`workflow.sh` drives the developers' agents and is no part of the shop; its lock file
is looked at and written in two steps, so that two scripts may both hold it.

The Redis client without a URL is a no-op that grants every lock and remembers
nothing: then only the unique column stands behind `OneOrderPerKey` (its proof uses
nothing else), and `OneRowPerVariant` does not hold.

The bot's session store in files and its command line are not used by its server.

## 6. Plan

What is worth doing next, in this order:

1. The dialog of a draft in `SupportBot`, once the proxy sends the token as the header that
   the bot reads: what the tab confirms, dismisses and finds pending after a log-in.
2. `RefreshGranted` of `WebClient` once more with the tokens read from where the API puts
   them: which of its properties then depend on the order of logout and refresh.
3. A tour through `ShopPages` and `OrderPages` with one cache, for the order page that a
   checkout opens.
4. The throttler, if its limits are ever spread over several keys.
