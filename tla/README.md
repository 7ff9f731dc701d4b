# KazakhExpress: TLA+ models and proofs

KazakhExpress is a marketplace built from Go microservices behind one gateway.
This directory models the parts of it that keep state and can go wrong when
requests overlap, fail half way or are repeated. Paths below are relative to the
repository, here `src/`.

## 1. The system

| Component | State it keeps | Operations that change it | Talks to |
|---|---|---|---|
| payment-service | tables `payments`, `payment_events`, `refunds`; Redis key per idempotency key (24 h) | Create, Refund, Confirm, Cancel, provider webhook | provider (`Charge`), smtp-service, NATS `payment.*` |
| order-service | tables `orders`, `order_items`, `order_status_history`; Redis status cache (24 h, written, never read) | Create, UpdateStatus, Cancel, HandlePaymentSucceeded, HandlePaymentFailed | NATS: publishes `order.*`, subscribes to `payment.succeeded`, `payment.failed`, `product.stock.reserved` |
| product-service | table `products`, `product_images`; MinIO objects | Create, UpdateStock, ReserveStock, ReleaseStock, AddImage | NATS `product.*` |
| review-service | table `reviews`; Redis rating cache (1 h) | Create, Update, Delete; Rating fills the cache | NATS `review.*` |
| user-service | users, refresh tokens, reset tokens; Redis profile cache, blacklist, login limiter | Register, Login, UpdateProfile, RefreshToken, Logout, ForgotPassword, ResetPassword | smtp-service, NATS `user.*` |
| api-gateway | Redis counter per client, method and path | every request counts | all services over gRPC |
| smtp-service | none | sends an email | SMTP or Resend |
| frontend | cart and session in the browser | checkout: order, then payment, then poll the order | api-gateway |

A payment event goes from payment-service to order-service over core NATS: at
most once, unacknowledged, not persisted, in order per subject only. Nothing
subscribes to `payment.refunded` and `payment.cancelled`. Everything else between
services is a gRPC call of the gateway or an email.

What makes it hard:

* **Handlers hold no lock across their calls.** Each request is a goroutine that
  reads a row, decides on the copy, and writes the row back (`Refund`, `Confirm`,
  `Cancel`, `UpdateStatus`, `ReserveStock`). Any other handler may run in between.
* **Partial failure.** A `Create` is up to nine calls to five systems, and any of them
  may fail with or without having taken effect. Nothing is compensated.
* **Repetition.** Clients repeat a checkout. Redis remembers the key for a while,
  the unique column for ever.
* **Lost and late messages.** A payment event may be lost, or arrive after the order
  was cancelled. The two payment subjects are handled concurrently.
* **Goroutines that outlive their handler.** user-service caches, invalidates, publishes
  and blacklists in goroutines: in any order, unacknowledged, gone after a crash.
* **A browser that only sees answers.** It does not know whether a request whose answer
  it lost took effect, and learns that an order is paid by polling.

What makes each component correct:

* payment: a key is charged once; a Redis entry names the right payment; effects
  happen in order (log before event before email); a row always explains its status.
* order: the history and the row agree; an event is applied at most once; only
  committed changes are announced; every way out of a handler frees its row lock.
* product: stock is never made up or negative. review: a cached rating was the product's once,
  and catches up.
  user: a refresh token buys one pair, a password changes by a reset token only, a cached
  profile was the row once. gateway: a window admits at most its limit.
* checkout: an event marks an order paid only for a payment that has succeeded, and every
  checkout ends, whatever fails behind it.

## 2. The modules

| Module | Models |
|---|---|
| `Payment` | payment-service, one action per external call of a handler |
| `IdempotentCharge` | abstract: a key is bound to one payment, charged at most once |
| `PaymentLifecycle` | abstract: the moves of a payment's status and its refunds row |
| `OrderService` | order-service: requests and the two payment subscriptions |
| `ProductStock` | product-service: stock operations and images |
| `ReviewRating` | review-service: reviews and the cache of ratings |
| `UserSession` | user-service: accounts, login limiter, token pairs, blacklist |
| `UserAccount` | user-service: one account's row, its cached profile, password resets |
| `RateLimiter` | the gateway's counter, one Redis key |
| `Checkout` | the browser's checkout, composed of `Payment`, `OrderService` and the events between them |
| `Purchase` | abstract: the stages of a purchase, one after another |
| `PaymentProofs`, `OrderProofs`, `ProductProofs`, `ReviewProofs`, `UserProofs`, `UserAccountProofs`, `RateLimiterProofs`, `CheckoutProofs` | the proofs; where the MC module states properties, they extend it and prove those too |
| `MCPayment`, `MCOrderService`, `MCProductStock`, `MCReviewRating`, `MCUserSession`, `MCUserAccount`, `MCRateLimiter`, `MCCheckout` | TLC instances: they bound the number of requests |

All service modules have one form. A handler `w` is at `pc[w]`, the call it makes
next, with its locals in `job[w]` (in `Payment`: `arg`, `p` and `reply`). Every call
to a store, to NATS or to another service is one action, so other handlers may run
between any two. A property that needs requests to come one after another is stated
in the MC module, of the behaviours that are `alone`.

### Payment

`payments`, `logged`, `refunds` are the three tables, `idempotency` is Redis,
`published`, `emails`, `charges` count what reached NATS, smtp-service and the
provider. A handler `w` is `pc[w]` (the call it makes next), `arg[w]` (the key or id
it works for), `p[w]` (its local `Payment` struct) and `reply[w]`.

| Code (`payment-service/internal`) | Action |
|---|---|
| input checks of every operation | `Call` when they pass, `RejectInput` when not |
| `Create`: `GetPaymentID`, `GetByID` | `LookUpKey`, `FetchExisting` |
| `Create`: build struct, `repo.Create` | `InsertPayment` (a taken key is the unique violation) |
| `SavePaymentID` | `SaveKey` |
| `AppendEvent`: first and second insert | `LogEvent`, `InsertRefund` |
| the five `Publish*` | `Publish` |
| `provider.Charge` | `Charge` |
| `repo.Update` | `UpdateRow` (overwrites the mutable columns, unconditionally) |
| `SendReceipt`, `SendFailure`, `SendRefund` | `SendEmail` |
| `Refund`, `Confirm`, `Cancel`: `GetByID`, checks, change of the copy | `ReadForRefund`, `ReadForConfirm`, `ReadForCancel` |
| `return Payment{}, err` after any call | `StepError` |
| `mockWebhook` | `Webhook` |

A call that fails *after* taking effect (a deadline that expires after the commit, or
`publish` returning the context's error once the message is out) is the call's action
followed by `StepError`. `Crash` ends every handler. `ExpireKey` is the TTL.

Abstracted: amounts, methods, emails, order and customer ids. Reasons and the
transaction id are kept as "present, and from where". What `Charge` decides from
method and amount is a choice between `succeeded` and `failed`. `GetByID`,
`GetByOrderID` and `List` change nothing and are left out. Rows that existed before
the first migration are not modelled: the tables start empty.

### OrderService

`orders` and `history` are the committed tables, `lock` the row lock of an open
transaction. A status change is `Read` (GetByID), `Update` (the statement that takes
the lock), `Commit` (row and history entry together), `ReturnRow` (the items are
read), `CacheStatus`, `Publish`. PostgreSQL errors (`Fail`) end the handler and roll
back; Redis and NATS errors are ignored, as the code does. `Consume` is the callback
of a subscription, which handles its messages one by one; `Lose` and `Crash` lose
them. A `COMMIT` whose answer is lost is `Commit` followed by `Fail`. Two Creates may
take the same nanosecond as an id, so `Create` may pick an id that exists; the insert
then fails.

Abstracted: items, totals, customers. The buffer of a subscription is a count per
order, because messages of one subject differ in nothing but their order.
`HandleStockReserved` only reads and is left out. The status cache is written and never
read, so no property is about it.

### ProductStock

`products` and `images` are the tables, `objects` the bucket, `published` what reached
NATS. `held`, `entered` and `released` are ghosts that only the properties read.

| Code (`product-service/internal`) | Action |
|---|---|
| `Create`: checks; `repo.Create` | `Create`, `Insert` |
| `UpdateStock`, `ReserveStock`, `ReleaseStock`: checks; `GetByID` and the check of the copy; `repo.Update` | the three requests, `Read`, `UpdateRow` |
| `AddImage`: `storage.Save`; the transaction of `repo.AddImage` | `AddImage`, `SaveObject`, `RecordImage` |
| the publishers, whose errors are ignored | `Publish` |
| any other error | `Fail` |

`repo.Update` writes every column, so `NewRow` is the copy with a new stock, its old
`image_url` included. Names, prices and categories are left out. Stock is an integer: the
32 bits of the column make a write fail that exceeds them, which is `Fail`.

### ReviewRating

`reviews` is the table, `cache` Redis, `had` a ghost. `Create`, `Update` and `Delete`
commit (`Insert`, `Write`), then run `ratingChanged` (`Invalidate`, `Requery`,
`Announce`) and `Publish`. `Rating` is `Look`, and after a miss `Query` and `Fill`. A
rating is kept as how many reviews gave each number of stars, from which average and
count follow. `Expire` is the TTL. `Faults` names the systems that may fail.

### UserSession

`users`, `stored` and `expired` are the tables, `tries` and `black` Redis. A pair of
tokens is one of `Pairs`; `left` is how long its access token is still valid, `tasks` the
goroutines that are about to run.

| Code (`user-service/internal`) | Action |
|---|---|
| `Register`: `GetByEmail`, `repo.Create`, `generateTokenPair` and the two `go` | `LookUp`, `InsertUser`, `SavePair` |
| `Login`: `GetByEmail`, `CheckLoginRateLimit`, bcrypt, `ResetLoginRateLimit`, `generateTokenPair` | `Find`, `Limit`, `Compare`, `ResetTries`, `SavePair` |
| `RefreshToken`: `GetRefreshToken`, the delete of an expired or used token, `generateTokenPair` | `ReadRow`, `Drop`, `Consume`, `SavePair` |
| `Logout`: the `go`, `DeleteRefreshToken`, `DeleteUserRefreshTokens` | `Logout`, `Forget`, `ForgetAll` |
| `ValidateToken` | `Accepted` (it changes nothing) |
| the goroutines | `RunTask` |

The gateway may pass a `Logout` without the account's id: then the access token is
blacklisted and no row is deleted. The limiter keeps tries in a sorted set with the
nanosecond as score and member; two tries in the same nanosecond are not modelled. The
log `tries` keeps what became of each (`Verdicts`).
Passwords are left out: `Compare` may go either way.

### UserAccount

One account. `profile`, `password`, `reset` and `sessions` are its rows, `cache` is
`user:<id>` in Redis; `fills`, `drops` and `news` count the goroutines that are about to
fill the cache, clear it, or publish `user.updated`, and `told` is what was published.
A session is the password it began with. `held`, `fate` and `uses` are ghosts: the
profiles the row has held, whether a token was sent and is over, how often it was spent.

| Code (`user-service/internal/user/service.go`) | Action |
|---|---|
| `GetProfile`: the cache, `GetByID` and the `go` | `GetProfile`, `GetCached`, `Load` |
| `UpdateProfile`: `GetByID` and the change of the copy; `repo.Update` and the two `go` | `UpdateProfile`, `Read`, `Write` |
| `ForgotPassword`: `SavePasswordResetToken` | `ForgotPassword`, `SaveToken` |
| `ResetPassword`: `GetUserByResetToken`, `UpdatePassword`, `ClearPasswordResetToken`, `DeleteUserRefreshTokens` and the `go` | `ResetPassword`, `Check`, `SetPassword`, `Clear`, `Forget` |
| `Login` and `Logout`, as far as they meet these | `Login`, `Compare`, `SaveSession`; `Logout`, `Forget` |
| the goroutines | `CacheUser`, `InvalidateUserCache`, `PublishUserUpdated` |
| errors, the process, the TTLs | `Fail`, `Crash`, `ExpireProfile`, `ExpireToken` |

`ForgotPassword` and `ResetPassword` are served by neither HTTP nor gRPC yet; they are
modelled because they are written and the rows they use are shared with what is served.
The repository's `Delete`, `AddToBlacklist` and `IsBlacklisted` are never called.

### RateLimiter

`count` and `hasTTL` are the Redis key. `Incr` is the transaction of `INCR` and `TTL`,
`Expire` the second call, `Decide` the answer. When Redis returns an error the gateway
lets the request pass (`RedisError`); `CutOff` is a context that ends between two calls.
`count` stops at `Limit + 1`, since larger counts decide the same.

### Checkout and Purchase

`Pay` and `Ord` are instances of `Payment` and `OrderService`. They meet in the order id, in
the idempotency key `web-<order id>` (so a key *is* an order id here) and in the subjects
`payment.succeeded` and `payment.failed`. A browser has `screen`, `current` (its order),
`served` (the handler its request runs in), `polls`, `attempts` (the orders placed for the
cart it holds) and `notice`.

| Code | Action |
|---|---|
| `checkout` in `frontend/src/App.tsx`: `POST /orders`, a new order per tap | `Tap`, `OrderStep` (`OrderEnds` is the answer) |
| `POST /payment` with the key `web-<order id>` | `SendPayment`, `PaymentStep` (`PaymentEnds`: the status is not looked at) |
| the `Publish*` of an outcome, and the subscription | `Deliver`, `OrderReacts` |
| `waitForPaidOrder` | `Poll` |
| the `catch` of the checkout | `GiveUp`, reached from `LoseConnection`, `OrderFails`, `PaymentFails` and the crashes |
| the gateway's `PATCH /orders/:id/status` and `POST /orders/:id/cancel`, called by others | `ChangeOrder` |
| its `POST /payment/:id/refund`, `confirm` and `cancel`, called by others; the provider's webhook | `ChangePayment` |
| an event nobody receives; a handler that fails on it | `LoseEvent` |
| either service dies; Redis drops a key | `OrderCrash`, `PaymentCrash`; `ExpireKey` |

When the browser loses an answer, its handler goes on alone. Others may set an order to any
status at any time, `paid` included, as the code lets them. Of what the two services offer
the composition leaves out: payments that no browser asked for, requests that are refused at
once, the expiry of the order's status cache, which nobody reads, and reads.

`Purchase` is what remains when services, browsers and messages are left out: placed, then
paid for, then announced, then settled. `Promise` is the refinement mapping: the orders in
the table; those with a payment whose log has `payment.succeeded`; those with such an event
sent; those whose history has an entry *made by* that event (`EntriesBy`). An order that was
set to `paid` by hand has an entry *to* `paid` and is not settled by it: nothing in the code
ties such a status to a payment. `FollowsPurchase` checks the refinement.

## 3. The runs

| Run | Bounds | Shows |
|---|---|---|
| `payment` | 3 handlers, 2 keys, 2 ids, 3 calls | every safety property of `Payment`, its refinement of `IdempotentCharge`; alone: the steps of `PaymentLifecycle`, one success |
| `payment_refund_race` | 2 handlers, 1 key, 3 calls | **violated**: two concurrent refunds |
| `payment_repeat` | 1 handler, 2 calls | **violated**: a repeat is refused when Redis has lost the key |
| `order` | 2 requests at once, 1 order, 4 requests and events, at most 2 of them events | locks, history and announcements agree with what was committed; an event is applied at most once; alone: `Cancel` leaves closed orders alone |
| `product` | 2 requests at once, 1 product, 2 images, amounts -1 to 2, 4 requests | stock is never made up or negative, events and images are true; alone: stock moves by its quantity |
| `review` | 2 requests at once, 2 reviews, 2 products, 3 requests | ratings were true, deleted reviews stay deleted; calm: an old rating stays only if a `Rating` stored it late; alone: none stays |
| `user` | 2 requests at once, 2 accounts, 1 address, 3 pairs, 3 requests (4 alone) | the bound on tries, revoked tokens stay refused; alone: a refresh token buys one pair, `Logout` ends all sessions |
| `account` | 2 requests at once, 2 columns, 2 values, 2 passwords, 2 reset tokens, 3 requests (5 alone) | copies of a profile were the row, passwords change by tokens; calm: an old profile stays only if a goroutine stored it late; alone: the cache is fresh, a reset is final |
| `limiter` | 3 requests at once, limit 2, fair | a window admits its limit; a client is not locked out |
| `checkout` | 1 browser, 2 handlers of each service, 2 orders, 2 payments, 2 polls; 2 checkouts, or 1 and a call of others or the provider; 2 failures; fair | a purchase goes through its stages in order, nobody is told "accepted" of an unpublished outcome, an order is settled once, every checkout ends; calm: a payment that succeeds makes its order paid |
| `checkout_twice` | 2 checkouts, 1 failure | **violated**: a cart is charged twice |
| `checkout_declined` | 1 checkout, no failure | **violated**: a declined payment is shown as accepted |

**Why the bounds are enough to be interesting.** A race in these services needs two
handlers on one row, and a row to work on, hence three requests: one that creates and
two that race. Two keys, ids, products or accounts let one be confused with
another. In `order` the subscriptions are a third and a fourth writer. In `user`,
`MaxAttempts` is 0, so that two tries meet the limit, and `Week` is two ticks, so
that a token may be revoked at any age. In `account` the row is there at the start, and
five requests alone are two resets with a profile update or a login around them. In
`checkout` two polls stand for the ten of the code: the first may find the order unpaid
and the last gives up. Two failures are enough to lose an answer and then an event.
Elsewhere errors, crashes, expiry and time are not bounded: they cost no request.
The proofs remove the bounds for what they cover.

**What the runs of `Checkout` narrow.** A request takes a free handler, always the same
one (`Free`), since handlers are alike. New ids are alike too, so the next one is always the
same (`NextOrder`, `NextPayment`); an order may also get an id that is in use, which is the
failing insert. `Muted` keeps the order service's status cache and
its own events as they are, which is the branch where Redis and NATS refuse them: nobody
in the composition reads either. A behaviour of `checkout` that is `calm` has no failures and no
calls of others.

**Calm.** In `review` and `account` a behaviour is `calm` when nothing fails in it; its requests
may overlap. `OnlyLateRatingsStay` and `OnlyLateProfilesStay` are about these: the code clears the
cache after every change, so what is old in the cache is about to be cleared, or was stored by
a reader that had read before the change and stored after the clearing. The ghost `late` says
of the last fill that it was such a one. A change that forgot to clear, cleared before it wrote, or
stored a value of its own would leave an old one by another way. `NoIdReturns` excludes that
a new review gets the id of a deleted one, which is the time it was made at, while a request still
works on that one; the run's three requests do not get that far, the theorem needs it.

**Alone.** In the behaviours that are `alone`, a request starts when those before it, and
in `account` their goroutines, have ended. In `review` and `account` these behaviours are calm,
and in `user` nothing fails but the process: an ignored error of the delete would leave the
used token, by design of the code. These properties fail when requests overlap; section 4
says how.

Handlers, keys and ids are symmetric: no action or property tells one from another.
Safety runs use this where it helps; fair runs do not. `Payment` can always take a
rejected request and `RateLimiter` has no bound, so deadlock is checked there; the
others come to rest when their requests are spent, so their runs do not check it.

**Fairness.** Two runs state it. In `limiter`, weak fairness of each handler's own steps: the Go
runtime schedules a runnable goroutine, and every client library call returns; of the
window, since Redis drops a key whose time is over; and of the client, who asks again. In
`checkout` one condition for the whole of `MCSystem` is enough: when a handler, a
subscription or the browser can go on, somebody does, and what they do comes to an end.
Nothing is assumed of errors, crashes or other requests.
`ClientIsServed` supposes that requests are not cut off for ever.

**Mutants.** Each property is paired in `PROJECT.json` with a definition that a
plausible bug would change (`ChargeAgain`, `CommitRow`, `WriteRowWithPassword`, ...); the
mutated form stands just before the definition it replaces.

## 4. What the violated runs found

1. **Two refunds of one payment.** `Refund` checks the copy and updates without a
   condition (`payment/service.go:180-195`).
   `TestRefundPaymentRejectsAlreadyRefundedPayment` expects the second one to be
   refused; it is only when the first has finished its update before the second reads.
   Two Confirms, or one beside `Create`, publish `payment.succeeded` twice for the same
   reason: `AloneSucceedsOnce` is true of handlers one at a time only.
2. **A repeat is refused.** When the key is not in Redis but its payment is stored, a
   repeated `Create` gets the database error (`payment/service.go:60-83`), where the
   README promises the existing payment.
3. **A cart is charged twice.** Every tap places a new order and derives the key from it
   (`frontend/src/App.tsx:253`), and after an error the cart stays. If the answer of a payment
   that succeeded is lost, the next tap charges again under a second key, where the page
   says "repeated taps do not create duplicate charges" (`App.tsx:402`).
4. **A declined payment is shown as accepted.** `checkout` ignores the status of the payment
   (`App.tsx:256`): it polls an order nobody will pay, then says "Payment accepted" and
   "Receipt email sent" (`App.tsx:262-263`) and empties the cart.

What concurrent requests do to the `Alone` properties is known too, and no document says
otherwise:

* a completed order is cancelled by a `Cancel` that read it before
  (`order/service.go:108-116`);
* of two reservations one is lost: `ReserveStock` and `ReleaseStock` write a stock computed
  from an old row (`product/service.go:98-103`), so two of 1 from 2 leave 1;
* a `Rating` or a `GetProfile` that read early fills the cache with an old value after it was
  cleared, where it stays until the TTL; while nothing fails this is the only way one does
  (`OnlyLateRatingsStay`, `OnlyLateProfilesStay`);
* two concurrent `RefreshToken` both get a pair, and one that overlaps `Logout` keeps its
  session;
* two overlapping `ResetPassword` both spend one token, a `ResetPassword` clears a token that
  was sent meanwhile, and a `Login` that compared the old password keeps a session after
  the reset.

## 5. The proofs

For every finite set of handlers and all sets of browsers, keys, ids, products, accounts
and pairs, every limit and every set of faults. The assumptions are named in the modules:
the null value is none of the others (`NoneAssumption`, `NoneIsNothing`), handlers are
finite where they are counted (`FiniteWorkers`), and so are reviews (`FiniteReviews`), a
service has a handler (`SomeWorker`), numbers are numbers. What the MC modules bound
(`MaxCalls`, `MaxInputs`, ...) is not assumed to be anything: the theorems about
`MCSpec` hold for every number of requests.

Every safety property of every passing run is a theorem, and so are the three
refinements. The last three theorems of `CheckoutProofs` go beyond what the runs check.

| Module | Theorem | States |
|---|---|---|
| `PaymentProofs` | `TypeCorrect` | `TypeOK` |
| | `ChargesOncePerKey` | `ChargedOncePerKey` |
| | `EntriesNameOwnPayments` | `EntryNamesOwnPayment` |
| | `RowsExplainStatus` | `RowExplainsStatus` |
| | `PendingOnlyOnce` | `NeverPendingAgain` |
| | `KeepsPromise` | `Payment` implements `IdempotentCharge` |
| | `EffectsStayInOrder` | `EffectsInOrder` |
| | `SucceedsOnlyOnce`, `LifecycleIsFollowed` | `AloneSucceedsOnce`, `AloneFollowsLifecycle` |
| `OrderProofs` | `TypeCorrect`, `LocksAreHeldByTransactions` | `TypeOK`, `LocksAreInUse` |
| | `AuditTrailIsComplete`, `AuditTrailIsConnected` | `HistoryExplainsRow`, `FromWasHeld` |
| | `EventsApplyOnce`, `AnnouncedWereCommitted` | `AppliedAtMostOnce`, `AnnouncedAreCommitted` |
| | `CancelsOnlyOpen` | `AloneCancelsOnlyOpen` |
| `ProductProofs` | `TypeCorrect`, `ChecksSuffice` | `TypeOK`, `ConstraintNeverFires` |
| | `StockIsNotMadeUp`, `EventsAreTrue`, `ImagesAreStored` | `StockHasASource`, `AnnouncedWasHeld`, `ImageIsStored` |
| | `StockMovesByQuantity` | `AloneMovesByQuantity` |
| `ReviewProofs` | `TypeCorrect`, `RatingsStayTrue`, `UpdatesAddNothing` | `TypeOK`, `RatingsWereTrue`, `OnlyCreateAdds` |
| | `OldRatingsAreLate`, `CacheCatchesUp` | `OnlyLateRatingsStay`, `AloneCacheCatchesUp` |
| `UserProofs` | `TypeCorrect`, `AddressesAreUnique`, `RevokedIsFinal` | `TypeOK`, `OneAccountPerEmail`, `RevokedStaysRevoked` |
| | `LimitIsKept` | `TriesBounded` |
| | `TokensBuyOnce`, `LogoutIsFinal` | `AloneRefreshBuysOnce`, `AloneLogoutEndsSessions` |
| `UserAccountProofs` | `TypeCorrect`, `CopiesWereTheRow`, `PasswordsNeedTokens` | `TypeOK`, `CopiesWereHeld`, `PasswordChangesByToken` |
| | `OldProfilesAreLate` | `OnlyLateProfilesStay` |
| | `CacheStaysFresh`, `ResetsAreFinal` | `AloneCacheIsFresh`, `AloneResetIsFinal` |
| `RateLimiterProofs` | `TypeCorrect`, `WindowIsLimited` | `TypeOK`, `AtMostLimit` |
| `CheckoutProofs` | `PurchaseGoesInOrder` | `Checkout` implements `Purchase` (`FollowsPurchase`) |
| | `AcceptedWereAnnounced`, `OrdersSettleOnce` | `AcceptedWasAnnounced`, `OwnSettlesOnce` |
| | `ServicesKeepTheirSpecs` | `Checkout` implements `Payment` and `OrderService` |
| | `OrderIsChargedOnce` | `ChargedOncePerKey`, of the orders of a checkout |
| | `CheckoutsGoForward` | a checkout has at most `Polls + 16` steps, and each leaves it fewer |

Hardly any of these is inductive; each module strengthens them to an `IInv`.

**Payment.** `ChargedOncePerKey` fails as soon as two handlers hold pending structs of
one payment, or a handler in front of `Charge` holds a struct that was charged. So
`IInv` says who may hold what:

* `RowsKnown`: the row of every struct exists, under the struct's id and key, since
  nothing deletes rows or changes keys;
* `Phases`: what a handler's label says about its struct and its argument;
* `UniqueKeys`: at most one row per key, the column's constraint;
* `CreatorsAlone`: at most one handler is creating a given payment, and until it
  charges, nobody has charged it;
* `ChargesExist`: a charge is of a stored payment, at most one each;
* `StructsExplained`: every struct about to be written explains its own status, which
  is why blind overwriting leaves an explained row.

`StepKinds` sorts the actions into a few kinds (quiet, insert, save, charge, copy, update,
continue), and one lemma per kind shows that it keeps `IInv`. The refinement and
`NeverPendingAgain` follow from the same kinds. `EffectsInOrder` needs counts:
`Counted` adds to each effect the number of handlers that are about to perform it
(`published + waiting to publish <= logged`, and so on), and `OneMoves` says how a
step of one handler changes such a number.

**Order.** The lock is the heart. `Fit(h)` says what a handler's label says of its job: what
a change is made *from* is a status its order had, which stays true because histories
only grow; and the `Create` in front of its commit has no row to overwrite, because the lock
it holds (`LocksAreInUse`) keeps everybody else from committing between `Update` and
`Commit`. So every commit appends the entry that explains its row. The two counting
theorems have an invariant of their own: `Deliveries` (entries made for an event, plus the
handler that is about to make one, plus the messages not yet read, never exceed the
events sent) and `Announcements` (announcements plus the handlers between commit and
publish never exceed the entries). Each case of a step is one of
a few kinds (`Moves`, `Calm`), which serve all three.

**Product.** A handler may write a row it read long ago. `Sound(p, row)` says what is true
of the row of `p` and of every copy of it: not negative, covered by what was entered and
released, its image stored. `SoundStays`: stocks that are entered and released only add
up, and images and objects are never removed, so a copy stays sound while others go on.

**Review.** `HadCurrent` (the ghost misses no state of the table) and `HandlerTrue` (a rating
a handler has read is one the product had). What a rating counts is never looked into: those
two hold for any summary of the table. `TypeCorrect` does look: a rating counts reviews, so
there must be finitely many. In a calm behaviour `CaughtUp(p)` says that what is cached of
`p` is its rating, unless a handler that is `Changing` it is in front of its `Invalidate` or
the last fill was late. A commit may make the cached rating of *its* product old and no
other's, which is why a handler in front of its write must know whose product it changes
(`KnowsProduct`); and it takes its place in front of `Invalidate` in the same step.

**User.** `Fits` says what a label says of a job. `Revocable`: only tokens that were
generated are blacklisted, and an entry outlives its token. Both get older by the same
tick, and a `Logout` sets the entry to the longest life a token can have. `TriesBounded`
counts the admitted tries of a log from which others fall out; what is inductive is where
they stand: `AdmittedFirst`, an admitted try is among the first `MaxAttempts + 1` of its
log. A new one stands behind at most `MaxAttempts` others, and when the oldest goes, all
move forward.

**Account.** `Handlers` says what a label says of a job (`Fits`): a handler about to write
holds a whole profile, and one about to set a password holds a token that was sent. `Copies`:
what is cached, published or in a goroutine about to be is a profile the row has held;
goroutines are counted, never identified. `Excused` is inductive in calm behaviours: a cached
profile that is not the row has a goroutine about to delete it, or was stored late.

**Limiter.** `allowed <= count`: each request within the limit has an increment of
its own. Without the count the bound says nothing of the next request.

**Alone.** Most handlers decide on what they have read some calls before they write. What the
`alone` properties have in common is `OneHandler`, and with it that what the handler read is
still so when it writes (`InStep`, `CopyIsCurrent`, `ClosesOnlyOpen`); their theorems say
which of the code's promises rest on nothing else.

| Proof | What is added to `IInv` |
|---|---|
| `PaymentProofs`, `Single` | the row has the status the handler read until it updates, and the one it wrote afterwards; what it has yet to publish or to record was not published or recorded (`Once`) |
| `OrderProofs`, `AloneInv` | the two subscriptions are *not* alone with a `Cancel`: what they write leaves an order open (`EventsLeaveOpen`), so nobody closes it between the read and the commit |
| `ProductProofs`, `AloneInv` | the copy is the row |
| `ReviewProofs`, `AloneInv` | beside `CaughtUp`: a rating a handler is about to store is still so, hence nobody is `late` |
| `UserProofs`, `AloneInv` | pairs are bought for the account of their parent, and a token that is a row has bought nothing (`Lineage`); between the delete and the insert the handler has the token nobody else has |
| `UserAccountProofs`, `AloneInv` | no goroutine runs beside a handler (`Quiet`); what is out of date in Redis is about to be deleted (`Fresh`); the token of the row was used by nobody but the handler about to clear it (`Resets`) |

In `review`, `user` and `account` the steps of `alone` behaviours are those of `Reliable`, an
instance of the module with fewer faults; `ReliableIsNormal` shows that they are steps of the
module, so that `IInv` holds of them.

**Checkout.** A step of `Pay` or `Ord` in a checkout is a step of the service, so the proofs
of both carry over: `PayFacts` and `OrdFacts` are the proof modules with Checkout's variables
for theirs, and `NextOnPayments` and `NextOnOrders` show that a step of a checkout is one of
theirs, or none of it (`ServicesKeepTheirSpecs`). `Inv` adds to the two `IInv` what ties the
services together:

* `OrderInv`: an event in the inbox, in a handler or in an entry of a history was sent, and a
  change of an order that exists has its row;
* `PayInv`: payments are requested and stored for orders that exist; an outcome is
  logged before it is published;
* `Web`: a browser's open request has a handler of its own, which works for the browser's order.

Then every step moves one of the four sets of `Purchase`, by one order of the stage before
(`Advances`), or none. A step of the payment service may do two things at once (log or
publish, and deliver), but what it logs and what it publishes are at different labels.

`AcceptedWasAnnounced` is about a browser that is answered. Its payment could have been
answered by a `fetch` of a payment that nobody announced, so `Inv2` says why it is not: an
order has one claim (`Apart`: one browser that may ask, or one handler that has been asked
and has stored nothing, and then no payment); a browser that waits has a handler that
creates its payment and announces it before the email (`Paying`); so the order of a browser
that was answered is announced (`Told`).

`OwnSettlesOnce` counts. While only browsers call, every struct came from an insert, so no
two handlers hold payments of one order (`OneHolder`); `OneOutcome`: an order has one outcome at
most, none before it has a payment, and none while its handler may still publish it. With
`Deliveries` of the order service, the entries made for either outcome are one at most.

`CheckoutsGoForward` is the part of `CheckoutEnds` that is no liveness: `Left(c)` is how
many steps a checkout has to go, and whatever anybody does, either nothing happens to
the checkout or `Left(c)` gets smaller; it is 0 when the browser shows the cart.

**Only model-checked.** Liveness: `CheckoutEnds`, `CalmSuccessIsPaid`, `ClientIsServed`.
They rest on fairness, and `ENABLED` is beyond the
prover.
`TypeOK` of the modules other than `Payment` is proved and left out of the runs.

## 6. Not modelled, and the plan

Every component that keeps state is modelled, each has its proofs, and every safety
property the runs check is proved. What could follow:

1. Abstract specifications for one handler at a time: an atomic stock counter, which
   `ProductStock` implements, and a set of sessions, which `UserSession` does; `InStep`
   and `CopyIsCurrent` are the invariants such proofs need.
2. The measure of `CheckoutsGoForward` for the handlers of the other services.
3. Properties for the hazards that have none yet: a payment announced twice by concurrent
   Confirms (the second outcome of the missing condition that `payment_refund_race` shows),
   two registrations of one address and one that stops half-way, what is left when the deletion
   of a cached rating fails or a blacklisting goroutine is lost, and a login that overlaps
   a password reset. `hazards` in `PROJECT.json` says of each why no property covers it, and of
   the others which half their properties cover.

Left out for good: smtp-service (stateless; a step that may fail in `Payment`), the
gateway's translation of HTTP to gRPC, the frontend's views, deployment and seed data.
Reads that change nothing (`GetByID`, `List`, `ListByProduct`, `HandleStockReserved`) are
left out of the modules. `components` and `hazards` in `PROJECT.json` give the list with
source lines.
