# A formal model of epinfresh

This directory holds TLA+ modules for epinfresh, a shop for fresh food: its orders
and payments, the outbox, checkout and stock, the catalogue, fulfilment, accounts and
sessions, addresses, categories, and the pages of the storefront and the console that
act on them. TLC checks each module on small instances. TLAPS proves theorems about all
of them, for every value of their constants.

    tlc -config MCTrade.cfg MCTrade      # any MC*.cfg with its module
    tlapm TradeProofs.tla                # any of the *Proofs modules

## 1. The system

The repository is a pnpm monorepo in TypeScript. `apps/` (storefront-api,
admin-api, worker, and the two web fronts) call `usecases/`, which orchestrate
`domains/`; domains do not call each other. They share Postgres at READ COMMITTED
through drizzle, and Redis with BullMQ. Functions return neverthrow `Result`s;
`withTransaction` (`packages/database/src/transaction.ts`) turns an `err` into a
rollback. Any number of API and worker processes run at once; they meet in the
database, in Redis, in the queue and at the payment channels (wechat, alipay).

| Component | State | Operations | Talks to |
|---|---|---|---|
| Order status machine (`domains/order`) | `orders.status`, tracking number, `shipped_at` | guarded updates, ship, complete, mark refunded, auto-complete | every use case about an order |
| Payments and refunds (`domains/payment`) | `payments`, `refunds` | initiate, confirm, cancel, insert and settle a refund | channel gateways |
| Payment use cases (`usecases/payment-*`, `order-cancel`) | none of their own | start, confirm, reconcile, cancel, refund | order, payment, product, outbox, channel |
| Payment gateways (`domains/payment/src/gateways`) | platform keys of wechat, with a throttle | create, query, refund, verify | channels |
| Payment routes and webhooks (`storefront-api`) | none; OAuth state in a cookie | notifications, redirect, status query, openid | payment use cases |
| Outbox (`domains/outbox`, `worker/outboxWorker`) | `outbox_events` | insert, claim, complete, fail, take back | notifications |
| Notifications and email queue | BullMQ jobs, by job id | queue, send | SMTP |
| Checkout (`usecases/checkout`) | `checkout_idempotency_keys` | check out, replay, prune | stock, order, cart, address |
| Stock (`domains/product`) | `product_skus.stock` | reduce, restore, absolute update | checkout, cancel, admin |
| Products (`domains/product`) | `products.status`, `product_skus` | create, update with its rows, archive, remove | admin, checkout |
| Categories (`domains/product`) | `categories.parent_id` | create, move, remove | admin, menu |
| Cart (`domains/cart`, `usecases/cart-ops`) | `cart_items` | add, change, remove, read with what sold out | pages, checkout |
| Users and password reset (`domains/user`) | `users`, `password_reset_tokens` | register, patch role and activity, issue and use a token | sessions, pages |
| Sessions (`packages/session`) | `session:<id>`, `session:user:<id>` in Redis | create, derive, renew, end, end all of a user | both APIs |
| Logistics (`domains/logistics`, `usecases/logistics-sync`) | `logistics_tracks` | poll, store a snapshot, complete what was delivered | carrier, order |
| Maintenance jobs (`worker/maintenanceWorker`) | none | prune keys at 03:00, auto-complete at 04:00, order timeout every minute | order, logistics, checkout |
| Reconciliation jobs (`worker/reconciliationWorker`) | none | every five minutes: pending payments, processing refunds | channel, payment use cases |
| Addresses (`domains/address`) | `addresses.is_default` | create, update, delete | checkout |
| Storefront pages (`storefront-web`) | loader data, React state | product, cart, checkout, pay, order, WeChat JS-SDK | storefront-api |
| Console pages (`admin-web`) | loader data, React state | order desk with ship dialog, product form, users | admin-api |
| Admin API (`admin-api`) | none | routes over the use cases, guarded by a session's role | all of the above |
| Ticket cache (`packages/wechat`) | jsapi ticket, a shared load | get, refresh | WeChat |
| Payment channel simulator (`pay-mock`) | its trades | pay, close, query, notify | storefront-api |
| Shipping fee and money, infrastructure packages | | pure arithmetic; queue, mail, uploads, set-up | |

Three things are hard here. A use case, or a page, reads, awaits (a channel, another
query, a person) and then writes, and any other handler may run in the gap. A call to
the channel and a local transaction cannot commit together, so there is a crash
between them. And every message, notification, job and HTTP request may come twice,
late or never. What makes each component correct is stated per module below; where
each hazard bites is listed line by line under `hazards` in `PROJECT.json`.

## 2. Modules

| Module | Models | Builds on |
|---|---|---|
| `OrderDomain`, `PaymentDomain` | the statuses and transition tables, the refund numbers, what a channel can answer | |
| `Trade` | the order, its payments and refunds, and all handlers that move them | both |
| `EventDelivery` | abstract: what the outbox promises | |
| `Outbox` | the outbox table, its dispatchers, the email queue | implements `EventDelivery` |
| `Checkout` | checkout, cancel, stock, row locks, idempotency keys | |
| `Accounts` | users, sessions and their index, evictions, reset tokens | |
| `Catalogue` | products and SKUs under the admin's form while customers buy | |
| `Shop` | product, cart and checkout pages, their calls, the cart | |
| `WechatChannel` | OAuth trip, jsapi ticket, SDK loading, platform keys | |
| `Cashier` | the tabs of a customer on one order, from paying to receiving | `WechatChannel`, `OrderDomain` |
| `OrderDesk` | the administrators' order pages beside those tabs | `Cashier` |
| `Fulfilment` | shipping, the carrier poll, the daily job | `OrderDomain` |
| `Addresses` | the default address under a unique index | |
| `CategoryTree` | moving categories while others move them | |
| `...Proofs` | theorems (section 4); those about `CategoryTree` are in `CatalogueProofs`, about `Addresses` in `ShopProofs`, about `Cashier`, `WechatChannel` and `OrderDesk` in `DeskProofs` | their modules, TLAPS |
| `MC...` | the instances for TLC | the module of the name |

`OrderDesk` composes: a step of it is a step of the customer's tabs, the channel and
the storefront-api (`Cashier`), of WeChat (`WechatChannel`), or of a desk and the
admin-api. `Trade` refines what `Cashier` takes in one step: the inside of a handler.

How code becomes actions, in all modules:

* A database statement, or a transaction whose intermediate states nobody can see
  or whose locks nobody else contends for, is one step. A handler that awaits
  something in between is a *call in flight*: a slot (`call[h]`, `poll[w]`, `at[d]`)
  that remembers where it is and what it read. A slot is free to be used again.
* A guard on the status in the WHERE clause of an update (compare-and-set) is a guard
  on the current state; a status that was read earlier is a field of the slot.
* A page shows what its loader read, and its buttons go by that; a request is in the
  state until it is served and answered, given up or lost, in any order.
* A crash, or an exception that escapes, empties the slot and rolls back its open
  transaction; what was committed, or accepted by the channel, stays.
* A notification is a step that may happen whenever the channel's state allows
  it: once, many times, late or never.
* Variables called history are not in the code. No guard reads them; they let a
  property say "unless these two overlapped".
* Definitions marked `Fault:` are not part of a specification. Each is a plausible bug
  in the definition after it, and the property it is paired with in
  `PROJECT.json` (`mutants`) fails when it takes that definition's place.

### Trade

State: `order` is `orders.status`; `pay` and `payload` are the columns of `payments`;
`refund` is the `refunds` row by payment and refund number (the number is
deterministic: `buildRefundNo`); `paidEvents`, `refundEvents` and `shippedEvents` count
rows written to the outbox; `restocked` counts how often the stock of an order was given
back; `chPay` and `chRefund` are the truth at the channel.

| Action | Code |
|---|---|
| `InitiateOrderPayment`, `SelectPending`, `VoidPending`, `InsertPayment`, `CreatePayment`, `BackfillPayload`, `FailPayment` | `initiateOrderPayment`, `initiatePayment`: a step for each awaited statement |
| `PaidNotification`, `ReconcilePaid`, `ReconcileClosed` | `confirmByWebhookEvent`, `reconcilePendingPayments`, both over `confirmOrderPayment` |
| `AutoCancelList`, `CancelUnpaid`, `CancelPaid`, `CancelRefused`, `SubmitRefund`, `CancelUnpaidTx`, `CancelAsyncTx`, `CancelSyncTx` | `cancelOrder` and `autoCancelStaleOrders` |
| `RefundOrder`, `SubmitRefund`, `RefundAsyncInsert`, `RefundSyncTx` | `refundOrderWorkflow` |
| `RefundSettledRead`, `RefundSettledTx`, `RefundFailed` | `confirmRefundByWebhookEvent`, `reconcilePendingRefunds` |
| `ShipOrder`, `CompleteOrder`, `AdminPatch` | `shipOrder`, `completeOrder`, PATCH `/orders/:id/status` |
| `CustomerPays`, `ChannelCloses`, `ChannelSettles`, `Crash` | the environment |

The transaction that settles a refund is two steps because it ignores the result of
`markOrderRefunded`, so it can be seen to lose that compare-and-set. The other
transactions are one step: they lock the row they decide on before they write, or
compare it when they write.

Correct means: at most one payment of an order is booked (`OnePaymentPerOrder`); nothing is
recorded as refunded that the channel does not have (`RefundsBackedByChannel`); the
money of an order is not on its way back twice (`OneLiveRefundPerOrder`); a settled
refund has its payment refunded and its one event written (`SettledRefundIsBooked`; the order may miss it, section 5); stock comes back once
(`StockReturnedOnce`); without the admin's override the order status agrees with the money
(`StatusMatchesMoney`); accepted refunds settle (`ProcessingRefundSettles`) and pending
orders resolve (`PendingOrderResolves`).

### EventDelivery and Outbox

`EventDelivery` says what a use case relies on: an event written with its transaction is
delivered, and only after its email was queued, or it is given up; never both, and
neither is taken back. `Outbox` has the rows (`status`, `attempts`, `due` for
`next_retry_at`, `stale` for an old `updated_at`), the queue (`job`: an id the queue knows,
`jobs`: jobs ever made) and the dispatchers, each with the batch it holds and the attempt
it holds every event under. One dispatch is `ResetStaleOutboxEvents`,
`ClaimOutboxBatch`, then for each event `Handle` followed by `CompleteOutboxEvent` or
`FailOutboxEvent`. A claim may grow stale under a live dispatcher, so two
can work on one event and report in any order. `resets` is history: `OneHolderPerClaim`
bounds the holders of an event by the claims taken back. The refinement
mapping (`Delivery` in `Outbox`) maps pending and processing to accepted; the property is
`DeliversEvents`. While the queue remembers its jobs an email is queued once
(`EmailQueuedOnce`); every event settles (`EventSettles`).

### Checkout

`stock` and `locked` are the SKU rows and the transaction that holds each; a checkout
takes its lines in the order of the request, a cancel in any order. `ReduceProductStock`
waits for a locked row, or fails on a row that is short (`WHERE stock >= quantity` is
evaluated on the committed row first). Transactions can wait in a circle, and
`DeadlockAbort` is the database ending one of them. `Rollback` undoes what the
transaction did to each row it holds. The unique key, its replay and its pruning are
`CommitOrder`, `RereadKey` and `PruneIdempotencyKey`. Correct means: units are neither made nor
lost (`StockConserved`), a key stands for one order made from a body with its hash
(`KeyStandsForOneOrder`), and checkouts wait for each other in a circle only if their bodies name SKUs in
opposite orders (`DeadlockNeedsOppositeOrders`: the rows are taken in the order of the request and no
other, so checkouts whose lines are sorted are safe from each other). A call that is aborted out of a circle is an
error to its client: the catch throws what it does not know.

### Accounts

State: the rows of `users` (`registered`, `role`, `active`); for each session its remaining
life, its owner and the role it was created with (`ttl`, `owner`, `granted`); the per-user index
with a life of its own (`index`, `indexTtl`); reset tokens; the cookie of each browser and
the one request of each tab. Every statement and Redis command is a step.

| Action | Code |
|---|---|
| `Derive`, `Browse` | `sessionPlugin` derive: renew a session past half its life, but not its index |
| `Register`, `StorefrontLogin`, `ConsoleLogin`, `DestroyOld`, `CreateSession`, `IndexSession`, `AnswerLogin`, `Logout` | the login routes over `createSession` |
| `PatchUser`, `UpdateUser`, `ListSessions`, `DeleteSessions`, `DeleteIndex` | PATCH `/admin/users/:id` and `destroyUserSessions` |
| `ForgotPassword`, `ResetPassword`, `SetPassword`, `MarkUsed`, `MarkNothing` | the reset routes: the token is checked, the password hashed and set, the token marked, in separate statements |
| `Tick`, `ExpireToken`, `Die` | time, and a process that dies between two steps |

Correct means: a session outlives the rights of its user only where an eviction and a login
overlapped, it was renewed past the index, the index expired while it was being entered, or an eviction died (`StaleSessionEscaped`); the console has an
active administrator unless stale rights were used (`SomeAdminRemains`); a token sets a
password once unless two uses overlapped or the process died before the mark (`TokenSpentOnce`).

### Catalogue

State: `products.status`; the SKU rows (`productOf`, `stock`, `withdrawn`); the units in standing
orders; what each admin's tab shows, `touched` being the rows that moved while it was
open; and the checked items of each checkout. A form is a snapshot that sends every row back.
`CreateProduct`, `UpdateProduct`, `SetProductStatus` and `RemoveProduct` are the handlers of
`domains/product/src/service.ts`, `CheckItems` and `PlaceOrder` the two reads of a checkout that an edit
can come between, `CancelOrder` the way stock comes back. History (`supplied`, `chosen`, `takenOff`, `lost`)
says what the administrators meant. Correct means: shelf and orders add up to what was supplied
except for a row a stale form overwrote (`StockAccounted`); a SKU is withdrawn only by hand
(`WithdrawnByHand`); a product has the status last chosen (`StatusAsChosen`); a SKU that an order names keeps its
row, and so the order can be cancelled and shown (`OrderedSkusRemain`: `removeProduct` looks at nothing, the
reference from `order_items` keeps the row, also for an order cancelled long ago, and `reduceProductStock` refuses a row that went since the
check). That a product archived since the check is still sold is what the code does, and nothing says otherwise.

### Shop

State: what became of each SKU (`avail`), `cart`, the orders by idempotency key, the session,
the page of each tab (what it loaded, the rows its buttons lock, the key it holds) and the calls
under way. `AddToCart`, `ChangeQuantity`, `Remove`, `OpenCheckout`, `Submit`, `Login` are the pages;
`AddItemToCart`, `ChangeCartItemQuantity`, `RemoveCartItem`, `CheckoutOrder` the routes over `cart-ops` and
`checkout`; `LineAnswered`, `OrderAnswered`, `GiveUp` the answers. Correct means: with no call on a SKU under way, the cart
holds what the customer chose last, unless calls overlapped or failed (`LastChoiceStands`); a key the page gave
up after an answer has no order (`KeyGivenUpHasNoOrder`).

### WechatChannel, Cashier, OrderDesk

`WechatChannel` has the OAuth cookie and each tab's trip (`Authorize`, `SendCallback`, `LoseCallback` for an answer that is lost or not waited for, `AnswerCallback`), the ticket and
its shared load, the SDK of each document (`LoadWechatJssdk`, `ScriptSettles`), and the platform keys with their shared, throttled fetch
(`KeysFetched`, `ThrottleElapses`). `Cashier` has the order, its payments, the trades and notifications of the
simulator, and each tab's page (`shown`, `due`, `stopped`, `reply`, `answers`). `OrderDesk` adds the waybill, the
announcements, and each desk's page, dialog and requests. A *scenario* (`world`) fixes the browser, the pages a tab may
open, the channels on offer, where notifications go and which faults occur.

| Action | Code |
|---|---|
| `OpenPage`, `LeavePage`, `PickChannel`, `PayClick`, `CreatePayment`, `PayAnswer`, `ConfirmMock` | `pay.tsx` and POST `/payments` |
| `PollTick`, `RefreshClick`, `PollTimeout`, `HearStatus`, `StatusLost` | the poll of `pay.tsx`, whose answers may overtake each other |
| `CancelClick`, `ReceiptClick`, `OrderPageAnswer` | the order page |
| `CheckOpenid`, `OauthCallback`, `OauthLost`, `OauthAnswer`, `JsapiStep`, `SheetDone` | the openid, and a payment in WeChat |
| `NotifyArrives`, `NotifyResumes`, `Resend`, `Reconcile` | webhooks, with the key fetch a verification waits for; the reconciliation |
| `OpenDesk`, `OpenDialog`, `ShipClick`, `RunAction`, `PostShip`, `PostRefund`, `PatchCancelled`, `PatchCompleted` | `orders/$id.tsx` of the console and its routes |

Correct means: a page shows only statuses the order had (`ShownWasTrue`); an accepted callback returns a tab to the page it
left (`AuthorisedTabReturns`), and once it was answered its nonce is not accepted again (`SpentNonceIsRefused`; until then it is); a polling page catches up
(`PollingPageCatchesUp`); a resent notification is heard although a key has rotated (`PaidTradeIsHeard`); an order the desks shipped
is announced once (`AnnouncedOnce`), and goes out during a refund only from a page that could not know of it (`ShippedBlindly`).
`DeskTypeOK` is the type invariant of all three.

### Fulfilment

The poll and the daily job read, await and write. The poll lists shipped orders with
their numbers, asks the carrier for the number that was listed, stores the snapshot and
completes the order by compare-and-set. The daily job lists the exceptions, selects
overdue orders and updates those still shipped. The customer, an admin, a cancel, a refund and a
correction of the number run in between. An admin's PATCH can also mark an order shipped
without a number and without `shipped_at` (`PatchShipped`): no job lists it, and only a
person or a later `shipOrder` moves it on. `closedBy` is history: which path completed
the order. The worker runs five jobs at once, so runs of the poll overlap; `shared` is history: the orders that two
runs had on their lists together. Correct means: an order is closed once (`ClosedOnce`); one the poll completed
has a delivered parcel, and its row shows it unless two runs shared it (`DeliveryIsOnRecord`); delivered and
overdue orders complete.

### Addresses and CategoryTree

`Addresses` has the committed rows and, in each call, the writes of its open
transaction; `IndexWaits` and `IndexRefuses` are the partial unique index seen by a
READ COMMITTED transaction. `CategoryTree` has the parent of each category and walks that take
one query per level; `overlap` is history: whether two updates ever ran side by side.

## 3. Runs

| Run | Instance | Checks | Distinct states |
|---|---|---|---|
| `trade` | 1 order, 2 payments, 2 refund numbers, 3 interchangeable slots for all callers, admins patch statuses | `OnePaymentPerOrder`, `RefundsBackedByChannel`, `OneLiveRefundPerOrder`, `SettledRefundIsBooked`, `StockReturnedOnce` | 1,069,161 |
| `trade_jobs` | the same order with a request, the timeout job and the reconciliation job, 1 refund number, no patches | `StatusMatchesMoney`, `ProcessingRefundSettles`, `PendingOrderResolves` | 14,066 |
| `outbox` | 2 events, 2 dispatchers, batches of 2, 2 attempts, the queue remembers | `OneHolderPerClaim`, `EmailQueuedOnce`, `DeliversEvents` | 568,002 |
| `outbox_fair` | 1 event, 2 dispatchers, the queue forgets | `EventSettles` | 7,844 |
| `checkout` | 2 SKUs (2 and 1 in stock), 4 bodies, 1 key, 2 orders, 2 callers | `StockConserved`, `KeyStandsForOneOrder`, `DeadlockNeedsOppositeOrders` | 36,299 |
| `accounts` | an administrator and a user, 2 session ids, 1 token, 2 browsers with a tab each, sessions of 3 ticks | `StaleSessionEscaped`, `SomeAdminRemains`, `TokenSpentOnce` | 4,818,983 |
| `catalogue` | 2 products, 2 SKUs, 2 administrators, 1 buyer, at most 1 in stock, from a product with one SKU | `StockAccounted`, `WithdrawnByHand`, `StatusAsChosen`, `OrderedSkusRemain` | 666,394 |
| `shop` | 2 SKUs, 2 tabs, 2 addresses, 2 calls at a time, quantities to 2, 2 keys | `LastChoiceStands`, `KeyGivenUpHasNoOrder` | 915,718 |
| `cashier` | 10 scenarios: 2 tabs and up to 2 payments in four browsers, or 2 desks with up to 2 requests | `DeskTypeOK`, `ShownWasTrue`, `AuthorisedTabReturns`, `SpentNonceIsRefused`, `AnnouncedOnce`, `ShippedBlindly`, `PollingPageCatchesUp`, `PaidTradeIsHeard` | 219,098 |
| `fulfilment` | 1 order, 2 numbers, 2 overlapping runs of the poll and a daily job | `ClosedOnce`, `DeliveryIsOnRecord`, `DeliveredOrderCompletes`, `OverdueOrderCompletes` | 64,416 |
| `addresses` | 2 addresses, 2 requests | `DefaultIsAsAsked`, `CallsReturn` | 32,301 |
| `category` | 3 categories, 2 admins | `SerialUpdatesKeepTree`, `CallsReturn` | 94,377 |

Why the bounds are enough for what they are meant to show:

* Two payments of one order are what a race between payments needs, and two refund numbers
  are one refund and its retry. Three slots let two handlers be in the middle of
  something while a third one finishes. With `MaxRefunds = 1` the liveness run still has an
  abnormal refund; only its retry is cut off.
* With two events a batch can be left half done by a crash; with two
  dispatchers a claim can be taken back and reported twice; with two attempts there is a
  retry and a dead letter. `CountCap` (3) stops the counters above every number that a
  guard or a property compares them with.
* The bodies `ab` and `ba` hold the same two SKUs in opposite order (they have one hash and they
  deadlock); `aa` takes all of one SKU (a different hash and a short stock); the fourth differs from `ab` in
  the address alone.
* Three ticks of life put the renewal (below half) one tick before the end, and let the index expire while its
  session lives. Two browsers are an actor and the one evicted, or two users of a token. The constraint
  `ResetOrSessions` keeps password resets and evictions, which share no variable but the user, from multiplying.
* Two administrators have two forms open over each other; one buyer is enough for an edit between check and
  sale. `TwoAtATime` lets two of them hold something they read before, one beside a second product.
* Two tabs and two calls are two overlapping changes of one line, from one page or two; two keys are one
  given up and its successor. `Bounded` lets three complications be there at a time (`MaxTrouble`): a SKU off
  sale, a lost session, a call under way or left behind, an order, a tab on a page.
* One nonce per tab overlaps two OAuth trips, and a second comes from a page opened again. The scenarios of
  `MCCashier` are the combinations of browser, channel and page the code treats differently; two payments are a
  dead QR code and its successor; two desks with one request, and one desk with two, are the two ways a stale page acts.
* With two numbers there is a correction, and an overtaken snapshot. The parcel of the second number, a mistyped one, stays on its
  way (`OthersOnTheirWay`), which keeps two runs of the poll with liveness small; `MCFulfilmentRefuted.cfg` lets both move. Two orders with
  full batches are looked at in `MCFulfilmentStarved.cfg`.
* Two addresses and two requests give every conflict of the index; a third
  request meets one conflict more, and `MCAddressesRetry.cfg` shows that case.
* Two categories are enough for a cycle, three for one that a single comparison misses.

Symmetry is used in `trade` (slots that do the same work), `outbox`
(dispatchers), `accounts` (session ids, browsers with their tabs), `catalogue` (administrators) and
`shop` (SKUs, tabs, calls, addresses), never together with liveness. `CHECK_DEADLOCK FALSE` stands where
a bounded instance comes to an end: all payments used, all orders made, all ids handed out, all events settled.

### Fairness

* `Trade!FairSpec`: the reconciliation and timeout jobs are repeatable BullMQ jobs, so their
  steps are fair (`reconciliationWorker.ts:34`, `maintenanceWorker.ts:102`), strongly where another
  handler or a crash can disable a step and it comes back with the next run. The channel settles what it
  accepted. Nobody is bound to notify, pay, retry or cancel.
* `Outbox!FairSpec`: the dispatch is scheduled every few seconds and time passes. Handling is
  fair only while the claim is fresh: a handler takes milliseconds of
  a threshold of five minutes, and a crash may spoil any attempt, not every one.
* `Cashier!FairSpec`: a page's timer fires while the page is open, and not every answer is lost, so the current
  status is heard in the end (strong). A channel that resends does so, some of its notifications arrive, a
  fetch of keys ends and not always badly, the minute of the throttle passes. Nobody is bound to pay, click or load a page again.
* `Fulfilment!FairSpec`: both jobs are scheduled again and again; a crash or a carrier's error may spoil
  any run, not every run at the same statement. Fairness is of each job, in whichever worker runs it: no
  particular run is bound to go on.
* `Addresses`, `CategoryTree`: a server continues the request it accepted.

`Accounts`, `Catalogue`, `Checkout` and `Shop` state safety alone: what must happen there waits for a person, or for the database.

## 4. Theorems

They hold for every value of the constants that the named assumption of the module
(`TradeAssumption`, ...) allows: any number of orders, payments, callers, events, dispatchers, sessions, tabs.
Further hypotheses are in the table.

| Theorem | States | Inductive invariant |
|---|---|---|
| `TradeProofs!TypeCorrect` | `[]TypeOK` | `TypeInv`: `TypeOK` and `RefundNamed` |
| `TradeProofs!StockReturned` | `[]StockReturnedOnce` | with `TypeInv` |
| `TradeProofs!TablesKept` | `MovesFollowTables` | with `TypeInv` |
| `TradeProofs!OnePayment` | `[]OnePaymentPerOrder` | `OnePaymentInv` |
| `TradeProofs!RefundsBacked` | `[]RefundsBackedByChannel` | with `CallsBacked` |
| `TradeProofs!OneLiveRefund` | `[]OneLiveRefundPerOrder` | `RefundInv`, with `NumbersInOrder` |
| `TradeProofs!SettledBooked` | `[]SettledRefundIsBooked` | `BookedInv` |
| `TradeProofs!StatusMatches` | `[]StatusMatchesMoney`, if `AdminOverride = FALSE` | `StatusInv`, with `SawInv` |
| `OutboxProofs!OutboxTyped` | `[]TypeOK` | `TypeOK` with `HoldsWhatItDoes` |
| `OutboxProofs!OneHolder` | `[]OneHolderPerClaim` | itself, with the types |
| `OutboxProofs!QueuedOnce` | `[]EmailQueuedOnce`, if not `Forgetful` | `QueueRemembers` |
| `OutboxProofs!AllAttemptsMade` | `[]DeadLetterHasNoAttemptLeft` | `AttemptsCounted` |
| `OutboxProofs!Delivers` | `Spec => DeliversEvents` | `QueuedInv`, then step by step |
| `AccountsProofs!AccountsTyped` | `[]TypeOK` | with `CallsNamed`, `Owned` |
| `AccountsProofs!ConsoleKeepsAdmin` | `[]SomeAdminRemains` | `ManningInv`, with `ActorsKnown` |
| `AccountsProofs!TokenSpent` | `[]TokenSpentOnce` | `TokenInv` |
| `AccountsProofs!StaleSessionsEscape` | `[]StaleSessionEscaped` | `SessionInv` |
| `CheckoutProofs!CheckoutTyped` | `[]TypeOK` | `TypeInv`: with `TransactionInv` |
| `CheckoutProofs!NoneOversold` | `[]NeverOversold` | `TypeInv`, with `RoomInv` |
| `CheckoutProofs!KeyStands` | `[]KeyStandsForOneOrder` | `KeyInv` |
| `CheckoutProofs!StockIsConserved` | `[]StockConserved` | `LedgerInv` |
| `CheckoutProofs!OneOrderNoDeadlock` | `[]DeadlockNeedsOppositeOrders` | `LinesInv` |
| `CatalogueProofs!CatalogueTyped` | `[]TypeOK` | `TypeInv`: with `IdsKept` |
| `CatalogueProofs!StockIsAccounted`, `!Withdrawn`, `!StatusChosen` | `[]StockAccounted`, `[]WithdrawnByHand`, `[]StatusAsChosen` | `FormInv`: the three, with `FormsAreRecent` |
| `CatalogueProofs!SkusRemain` | `[]OrderedSkusRemain` | itself, with `TypeInv` and `FormInv` |
| `CatalogueProofs!CategoryTyped` | `[]TreeTypeOK` | itself |
| `CatalogueProofs!SerialTree` | `[]SerialUpdatesKeepTree` | `TreeInv`, with `WalksClimb` |
| `ShopProofs!ShopTyped` | `[]TypeOK` | `TypeInv`: with `PageGood`, `CallGood` |
| `ShopProofs!GivenUpKeyIsFree` | `[]KeyGivenUpHasNoOrder` | `KeyInv` |
| `ShopProofs!CartIsAsChosen` | `[]LastChoiceStands` | `ChoiceInv` |
| `ShopProofs!BookTyped` | `[]BookTypeOK` | `BookOK` |
| `ShopProofs!DefaultAsAsked` | `DefaultIsAsAsked` | `DefaultInv` |
| `DeskProofs!DeskIsTyped` | `[]DeskTypeOK` | `AllInv` (below) |
| `DeskProofs!PagesAreTrue` | `[]ShownWasTrue` | `PageInv`, with `Told` |
| `DeskProofs!TabsReturn`, `!NoncesAreSpent` | `[]AuthorisedTabReturns`, `SpentNonceIsRefused` | `OauthInv` |
| `DeskProofs!ShippingAnnouncedOnce`, `!OnlyBlindShipments` | `[]AnnouncedOnce`, `ShippedBlindly` | `DeskInv`, with `OutOfDate` |
| `FulfilmentProofs!FulfilmentTyped` | `[]TypeOK` | `TypeInv`: with `HandIsListed` |
| `FulfilmentProofs!Closes` | `ClosedOnce` | `ClosedInv` |
| `FulfilmentProofs!DeliveryRecorded` | `[]DeliveryIsOnRecord`, for any number of runs | `RecordInv` |

Why the invariants have to be stronger than what they are for:

* `Trade`: a call about to write a refund row must name a real payment and refund number, or the write
  leaves the table (`RefundNamed`). Booking a payment requires a pending order, so a booked payment must mean that the order is
  no longer pending (`BookedNotPending`), and no transition leads back. A call past `gateway.refund`
  is backed by a refund the channel has (`CallsBacked`). A retry takes the next number, and only when the one before it
  was given up, so the refunds of a payment stand in the order of their numbers (`NumbersInOrder`) and
  the last one alone can live. A processing refund has a succeeded payment (`BookedInv`), so settling it moves
  the payment with it. What a call saw of the order still bounds what the order can be (`SawInv`).
* `Outbox`: a dispatcher works on what it holds (`HoldsWhatItDoes`); an event with an email has the job the
  queue remembers (`QueueRemembers`); the attempt a claim runs under is one the row has counted: it never exceeds the attempts counted
  (`AttemptsCounted`). The refinement needs that a delivered event was queued (`QueuedInv`).
* `Accounts`: the actor of a change signed in as an administrator and, unless stale, still is one
  (`ActorsKnown`), and nobody may change their own account: so the actor remains. The seed has an
  administrator (`Admins # {}` in `AccountsAssumption`). For `StaleSessionEscaped`, a session that somebody has, or is about
  to be given, is *tracked* while it has not escaped. A tracked session is in the index of its user or has yet to be entered, does
  not outlive the index unless it was renewed, and has its user's rights or an eviction after it (`TrackedInPlace`); a login that was not
  raced holds the row as it is (`LoginsCurrent`), brings a session nobody else has (`BroughtOnce`), and an eviction has listed whatever
  is tracked (`AllListed`). Every way out of the index then leads through one of the four ways to escape.
* `Checkout`: a call has the body, key and order its place in the code implies, only transactions hold rows, and what a
  row has without the open transaction is never negative (`TransactionInv`); every open checkout finds an unused order id
  (`RoomInv`); an order that is not there has no key (`KeyInv`). Stock and orders make up the first stock because a transaction that
  commits holds every row its body asks for, and a cancel is the only one of its order (`LedgerInv`). The SKUs and quantities of a body and
  the units in orders are folds over sets, so the proofs begin with induction over a finite set: the library's theorem takes an operator,
  which no prover instantiates, so `SmallestSet` states it of the *set* of counterexamples, and the sums follow from there. What a checkout
  has taken it names before what it waits for (`LinesInv`), so a circle leads from each SKU waited for to one named after it, without end.
* `Catalogue`: what a form shows is what is there, unless it was touched since the form was opened or lost before (`FormsAreRecent`);
  an id never goes to a second product (`IdsKept`). An order is placed only on rows that are there, and no
  product with a SKU that an order names is deleted; `OrderedSkusRemain` needs no more than that ids stay with their product.
* `Shop`: a call says what its page could show, so that its key, address and lines are real (`PageGood`, `CallGood`). A key is on
  one page, or given up; until it is sent again one call carries it, and that call made an order only if it says so (`KeyInv`: `PageKeys`,
  `SentKeys`, `OnceSent`). A line that nothing muddled holds the choice, or exactly one call is on its way whose serving makes it so (`ChoiceInv`).
* `Addresses`: what a transaction wrote nobody else writes (`WritesHeld`); the row of a create is known to its call alone (`IdsKnown`). A
  default about to be committed is the only one written, and its transaction wrote every other row that is the default now (`OneDefault`): that is what the
  wait and the refusal of the index give. A call that asked for the default has written it, or its row is deleted (`AskedIsWritten`).
* `OrderDesk` with `Cashier` and `WechatChannel`: one invariant of all parts, `AllInv`. What a page shows, and what any answer under way
  tells it, is a status the order had (`Told`), and a page that calls itself paid has a payment that was (`ServerInv`). The cookie
  and the trips under way agree on who left for where, and the cookie holds no nonce whose callback was answered (`OauthInv`). A request to ship that could not show a refund
  is marked from its dialog on (`DialogsOnPages`, `OutOfDate`). The steps of the customer, the channel and WeChat do to the order only
  what `Moved` and `LeftToDesks` say, so the desks' part never looks inside them. `ScenarioAssumption` and
  `DeskAssumption` say that a scenario names pages, channels and desks there are.
* `Fulfilment`: what a poll has in hand is on its list (`HandIsListed`); a closed order is completed, or was refunded
  since (`ClosedInv`); what a run of the poll is about to complete is on record, or shared; what it completed is on no list any more, or
  shared; and two lists have only shared orders in common (`RecordInv`).
* `CategoryTree`: the categories a walk has passed lead up to where it stands and to nothing else, and the one to be moved is not among them
  (`Climbed`), also after rows were made or removed under the walk; so when it ends at the root, hanging the category there
  closes no cycle. `Acyclic` says that every set of categories has one whose parent is outside the set, which needs no closure.

`CatalogueProofs` extends `Catalogue` and `CategoryTree`, and `ShopProofs` extends `Shop` and `Addresses`: they share neither constants, variables
nor definitions (hence `TreeSpec`, `BookSpec`), and no theorem is about both.

Only model-checked: liveness, and ENABLED in fairness, which are out of the prover's reach: `ProcessingRefundSettles`,
`PendingOrderResolves`, `EventSettles`, `CallsReturn` (two modules), `PollingPageCatchesUp`, `PaidTradeIsHeard`,
`DeliveredOrderCompletes`, `OverdueOrderCompletes`. Every invariant and action property of a run is proved. `DeskTypeOK` is both checked,
in `cashier`, and proved; the other type invariants are proved.

## 5. Known divergences

Each row is a statement that a comment, a test or the interface makes, stated in the module it is about
(last section, marked as refuted), and what TLC shows happening instead. A configuration that lists
several properties is used with one at a time; where the configuration is that of a run, the property takes the place of its properties.

| Configuration | Property | What happens |
|---|---|---|
| `MCTradeRefuted` | `CancelledPaymentHasRefund` | `cancelOrder` reads that the order is unpaid; the payment is confirmed; the transaction cancels a paid order, without a refund |
| | `RefundedPaymentClosesOrder` | an order shipped while its refund settles stays shipped |
| | `AbnormalRefundCanBeRetried` | an order cancelled with an asynchronous refund that fails is refused by `refundOrderWorkflow` |
| | `OnePendingPayment` | two starts of a payment both insert a pending row |
| | `VoidedPaymentHasNoPayload` | a slow start of a payment is voided by a second one |
| `MCTradeJobsRefuted` | `PaidTradeIsBooked` | money paid on a failed or cancelled payment is never booked |
| | `ChannelRefundIsRecorded` | a crash between the channel's acceptance and the insert: no job finds the refund |
| | `AutoCancelSparesPaid` | the timeout job cancels, and refunds, an order paid after it was listed |
| `MCOutboxCrashLoop` | `AttemptsAreLimited` | an event whose handling kills the process is claimed again for ever: only `failOutboxEvent` compares the attempts with the maximum |
| `MCOutboxForget` | `EmailQueuedOnce` | a late second delivery, after the queue dropped the job, queues a second email |
| `MCCheckoutReplay` | `ReplayHasSameBody` | two requests race with one key and different bodies; the loser is answered with the winner's order without a look at the hash |
| `MCAccounts` | `ConsoleIsManned` | two administrators demote each other, one with a session whose rights were just taken away (`admin-api`, `user.ts:53` refuses one's own account to prevent it) |
| | `EvictionIsImmediate` | a login that overlaps the eviction, or a session renewed past its index, keeps its old rights (`user.ts:63`, `users.tsx:62`) |
| | `TokenIsSingleUse` | two uses of one token both pass the check before either marks it (`storefront-api`, `user.ts:154`) |
| `MCCatalogue` | `EditKeepsStock` | a form opened before a sale restores the stock it was loaded with |
| `MCShop` | `RefusalMeansNoOrder` | the answer to a first submission is lost, a second is refused, the page makes a new key: the first order stands (`checkout.tsx:179`) |
| | `OneChangePerSku` | the cart page has one `busy` row: a change of another line unlocks the first (`cart.tsx:39`) |
| `MCCashierShipRefund` | `NoShipmentDuringRefund` | the console says the API has its guard (`orders/$id.tsx:251`); it has not |
| `MCFulfilmentRefuted` | `RejectedIsSpared` | the daily job reads its exclusions, the poll stores a refusal, the job completes the refused order |
| | `DeliveredUnderItsNumber` | the old number's delivery completes an order whose number was corrected |
| `MCFulfilmentOverlap` | `RecordShowsDelivery` | two polls overlap (the worker runs five jobs at once, `packages/queue/src/index.ts:71`) and the older answer is stored last |
| `MCFulfilmentStarved` | `OverdueOrderCompletes` | refused orders fill the batch of the daily job |
| `MCAddressesRetry` | `ConflictIsRetried` | a second conflict during the one retry is an error |
| `MCAddressesLost` | `DefaultIsNotLost` | an update that raced with a delete or another default leaves no default |
| `MCCategoryTreeRace` | `Acyclic` | two updates put two categories under each other |

Seen while reading the code for the models, and not stated as properties:

* Payments: `autoCancelStaleOrders` ends its batch when one order throws. `initiatePayment` reuses a pending payment
  whatever browser or product it was made for (`payment/service.ts:42`). A payment with parameters for WeChat shows no
  pending state and is not polled, though the comment at `pay.tsx:142` says that it is. A dead QR code stays until a reload. A stale answer
  of the poll can turn a paid page back to pending until the next one.
* WeChat: after `script.onerror` `loadWechatJssdk` finds the dead element again and its promise never settles (`wechatSdk.ts:62` says
  that a retry is possible). With OAuth disabled a WeChat browser is sent to a page of JSON. A callback whose answer was lost, or that is loaded again before its answer, is accepted
  again: the comment at `wechat.ts:168` ("void at once") holds from the answer on. The callback of one tab
  removes the cookie another tab's trip needs. A notification signed with a key that came within a minute of the last fetch is refused
  (the channel resends).
* Simulator: its close of a wechat trade closes only paid trades (`pay-mock`, `wechat.ts:303` says the opposite); a closed trade can be
  paid; one address is told of both channels; it answers no refund queries.
* Cart: a direct purchase removes the line of the cart (`checkout.tsx:9` says it does not touch it), and after a 401 it becomes
  a checkout of the cart. A sold-out line asks for quantity 0 and is refused. Comments in `cart-ops` (36, 76) speak of a
  restricting foreign key; the schema cascades (`cart-items.ts:14`). DELETE `/cart` is called by no page.
* Fees: a remote fee replaces the base fee (`fee.ts:44`, and its test expects so), the comments (11, 13) say that it is added.
* Products: when no row with an id is left on a form, the rows taken off it stay on sale (`product/service.ts:310`). The
  categories page cannot move a category to the top: "no parent" is left out of the patch.
* Console: the ship form says that the number can be supplied later, but the page of a shipped order has no such button. `ShipButton` and
  `OrderActions` have separate busy flags. What a form finds incomplete is judged trimmed and sent untrimmed.

## 6. Not modelled

* Signatures, encryption and the status mappings of each channel's refunds: `Trade` has one
  channel that honours refund numbers. The mappings that look wrong are listed as hazards.
* Lock order in `Trade` (confirm locks the payment first, cancel the order first):
  a deadlock there aborts one side, as `Crash` does; only `Checkout` models the waiting.
* Prices, fee arithmetic, snapshots of names, images, uploads, translation, statistics, dashboards, lists and their filters.
* What becomes of an email job once it is queued: its retries are BullMQ's.
* Pages that only show what a loader read (home, product list, order list, console lists), forms without state of
  their own (profile, addresses), the simulator's own pages; styling and wording everywhere.
* Fixtures, migrations, generated route trees, browser tests, set-up of servers, queues and mail.

## 7. Plan

Done, in this order: `Trade` and its first proofs, `Outbox`, `Checkout`, `Fulfilment`, `Addresses`, `CategoryTree`;
then `Accounts`, `Catalogue`, `Shop`, `Cashier` with `WechatChannel`, `OrderDesk`; then the remaining invariants
of `Trade`, the refinement of `EventDelivery`, and the first proofs about `Accounts`, `Checkout` and `Fulfilment`; then
`Catalogue`, the pages (`DeskProofs`), `CategoryTree`, the sums of `Checkout`, the evictions of `Accounts`, `Shop` and `Addresses`.

Next, a proof: that the handlers of `Trade` implement the steps `Cashier` takes of the order, by way of an abstract order
that both refine. Next, models:

1. A composition of `Trade` and `Checkout` over one stock, with the row locks of payments and orders.
2. The fate of an email job, and of an event whose job was kept as failed.
3. `ShippingFee`: fees and free thresholds against a reference definition.
