# LifLow backend: a verification project

LifLow is a NestJS shop backend: Prisma on PostgreSQL (READ COMMITTED), BullMQ
queues on Redis, Toss Payments as the payment gateway, an in-process event
emitter, FCM pushes, SSE streams and a websocket chat. Paths below are relative
to `src/src/modules/` unless they start with `src/`.

## 1. Inventory

| Component | State | Operations | Works with |
|---|---|---|---|
| payment | `Payment` rows (one per `paymentKey`, one per order group) | initiate (cart, direct), confirm, cancel, return, sync, webhook; membership job | Toss, order, carts, point, coupon-history, memberships |
| order | `OrderGroup`, `Order` rows, order numbers | create, edit (ship, deliver, amounts), cancel, remove, numbering | payment, notifications |
| point | `Point` rows, `User.availablePoints`, `totalUsedPoints` | reward after payment, admin CRUD | payment, recipe |
| memberships | `Membership` tiers, `UserMembership`, `User.membershipLevel`, tier cache | recalculation of one customer (payment job) and of everybody (an admin's queue job; in-process after a tier edit), edits of tiers and customers | payment, coupon-history, user |
| coupons, coupon-history | `Coupon`, `CouponHistory` (ISSUED, USED, CANCELLED, EXPIRED) | create, update, remove; issue (admin, job by grades, monthly cron, level), use, cancel, expire, reactivate | payment, memberships |
| carts | `Cart`, `CartItem`, stored total | add, update, remove, bulk, checkout, clear, total | payment, product |
| product, product-discount | `origin`, `stockQuantity`, `salePrice`, discounts, special offers | CRUD; a nightly job activates, expires and reprices | payment, carts |
| chat | rooms, messages, table of sockets (in memory, one process) | connect, join, send, page; job that creates rooms | auth |
| auth | `Session`, used refresh tokens | login, logout, refresh rotation, OAuth | user |
| reviews, recipe, inquiries | rows, like rows and like counters, approval | CRUD, like toggle, approve or reject | point, notifications |
| notifications, SSE, email, event log | tokens, subjects, queues | save token, push, subscribe, log | all |
| roles, permissions, policy, banner, announcements, categories, badges, health | rows | CRUD | |

The components meet in three ways: direct service calls inside a handler (each
`await` lets other handlers in), shared rows in PostgreSQL (a `$transaction` is
atomic, everything outside one is not), and BullMQ jobs or cron jobs that run
later, the cron jobs in every process of the application. What is hard:

* Payment: Toss is called *before* the transaction that records the answer. An
  answer may be lost, the transaction may fail, the process may die, and other
  handlers act on the same order group meanwhile.
* Every check (points, stock, situation of the group, duplicate coupon, status of
  a cart item) is made on rows read earlier and is not repeated where the write
  happens.
* Two confirmations of one order share the failure path, which marks the group
  FAILED and takes the group's only payment slot.
* Jobs run later, are retried as a whole, and race with cancellations and edits.
* The jobs over everybody (membership, discounts) read all rows first and then
  write one after the other; the error of one must not cost the others.
* Several processes run the same cron job: the monthly coupons hold a row lock
  against that, the discounts rely on doing the same twice.
* Derived columns (cart total, sale price, membership level, purchases) are
  written by several handlers, each from what it saw.
* The chat keeps who is online in memory, from connections that come and go
  while they are being authenticated.

What makes a component right, in short: *payment* - no row claims more than the
gateway did, taken money gets recorded, each payment is booked and reversed
once; *order* - final situations stay final; *point* - balance and Point rows
agree; *memberships* - whom a recalculation has passed is in his place, nobody is
left out; *coupons* - nobody gets a coupon twice from one source, a used coupon
stays used; *carts* - the total is that of the ACTIVE items, what is checked out
is not cleared; *discounts* - after the nightly job a product sells at the price
of its dates; *chat* - the online list is the users who have a socket, a room has
two members, a reader misses nothing; *auth* - one live refresh token per session;
*likes* - counter equals like rows.

`PROJECT.json` lists every component with its status and every hazard at its
line.

## 2. What is modelled

| Module | What it is |
|---|---|
| `TossGateway` | one payment at Toss: approve, refund, what counts as taken (external) |
| `MembershipTier` | the tier of an amount of purchases, the reward of a payment (pure) |
| `OrderPayment` | one customer's checkouts, payments, account and membership jobs |
| `PaymentBook` | abstract specification: what a shop's book of payments promises |
| `CouponWallet` | one coupon and what customers hold of it, from all who issue and use it |
| `MembershipRecalc` | the ladder while it is edited and all that puts customers on it |
| `Cart` | one cart under concurrent handlers on READ COMMITTED |
| `SalePrice` | discounts, special offers, the sale price and the nightly job |
| `Chat` | sockets and presence, rooms, messages, pages |
| `MC...` | an instance of each for TLC |
| `OrderPayment_proofs`, `OrderEffects_proofs` | theorems about `OrderPayment` |
| `CouponWallet_proofs`, `MembershipRecalc_proofs`, `Cart_proofs`, `SalePrice_proofs`, `Chat_proofs` | theorems about the module of that name |
| `Sums_proofs` | lemmas on sums over finite sets, for `Cart_proofs` and `OrderEffects_proofs` |

`OrderPayment` composes `TossGateway` and `MembershipTier` with the handlers and
is shown to implement `PaymentBook`. Where two components touch, each module has
the other's part in it as actions: the payment worker's recalculation is in
`OrderPayment` (for one account, with its bonus coupons) and in
`MembershipRecalc` (against the other recalculations); `Cart` has the removal of
items by a payment, `CouponWallet` the coupon read and write of the confirm
transaction and of the level job.

In all modules a handler is a sequence of actions that meet at its `await`s,
`pc` says where it stands and the rest of its record is what it has read. A
`$transaction` is one action where nothing inside it can be seen or disturbed,
and several where READ COMMITTED lets others in (`Cart`, `CouponWallet`, the
message transaction of `Chat`).

### OrderPayment

| Variable | Code |
|---|---|
| `group[g]` | `OrderGroup` row: situation, finalAmount, deliveryFee, pointsUsed; `waybill` is courierCompany and invoiceNumber both set |
| `row[k]` | `Payment` row with that paymentKey: status, balanceAmount; `HasRow` is the unique `orderGroupNumber` |
| `gw[k]` | the payment at Toss |
| `cart`, `stock`, `account` | cart items (by product), `Product.origin` and `stockQuantity`, and the `User` row with `UserMembership` and the ISSUED coupons |
| `ledger[g]` | Point rows (deducted, earned), USED coupons, and level coupons issued under the payment (`bonus`) |
| `job[g]` | the BullMQ membership job of the group's payment |
| `req[r]` | a handler in flight: where it stands and what it read before its last `await` |
| `adm[g]` | an admin edit between its check and its write |

`payment/payment.service.ts`: `Initiate`, `InitiateFails` (initiatePayment and,
with `direct`, initiatePaymentV2); `ConfirmApproved`, `ConfirmRefused`,
`ConfirmLost` (the Toss call of confirmPayment), `ConfirmTx`, `ConfirmTxFails`
(its transaction), `RewardRead`, `RewardRow`, `RewardSet`, `RewardFails`
(issueAfterPayment of `point/point.service.ts`), `Enqueue`, `FailMark`,
`FailRecord` (its catch block); `CancelRead`, `CancelToss`, `CancelTx` and
`ReturnRead`, `ReturnToss`, `ReturnTx` (cancelPayment, returnPayment; the two
transactions differ only in the situation they write and in when they read
finalAmount, so both are `ReverseTx`); `SyncRead`, `SyncWrite` (syncPayment).

`order/order.service.ts`: `AdminRead`, `AdminWrite` (updateOrderGroup),
`CancelOrderGroup`. `payment/queue/payment-queue.processer.ts` with
`memberships/cronjob/membership-cronjob.service.ts`: `JobRead`, `JobUpsert`,
`JobLevel`, `JobCoupons`, `JobDone`, `JobFails`. `VirtualAccount` is the
customer at Toss; `Crash` loses every handler and re-queues a running job.

Abstractions:

* One customer. Requests of other customers touch the same stock only through
  increments and decrements, which commute.
* A `$transaction` is one step. Two confirmations that read the same ISSUED
  coupon inside theirs are modelled in `CouponWallet`.
* Coupons are of one kind and unit quantity; the coupons of a new level are one
  bundle per payment and are not spent on later orders. A product is at most
  once in the cart (the unique key of CartItem), so items are products.
* Prices and discounts are given with `Checkout`. The minimum amount of 200, the
  one-hour payment token, the addresses and the existence of users are checks on
  the input that no step changes.
* `stockQuantity` is taken as not null. `Tracked` are the products whose `origin`
  is not null.
* Toss may approve two attempts of one order, and approves an attempt once. It
  reports the full balance for a payment that is not cancelled.
* The removal of cart items (an item whose removal fails stays) and the FAILED
  mark of the catch block are one step: nothing else reads the cart items of a
  checkout under way.
* `removeOrderGroup` (a hard delete that cascades to the payment) is not modelled.

`PaymentBook` has a `bank` (per attempt: taken, what is left) and a `book` (per
attempt: what the shop wrote). `Take`, `GiveBack` and `Record` may come in any
order; `Record` may replace an entry by an older one. Under the mapping
`KeepsTheBook` (`bank` from `gw`, `book` from `row`, `OrderOf` is `GroupOf`) every
action of `OrderPayment` is one of them or a stutter: one slot per order, no entry
erased, none ahead of the bank.

### CouponWallet

| Variable | Code |
|---|---|
| `coupon` | the `Coupon` row: isAutoIssue, isPermanent, targetGrades (`kind`), isActive, endDate; `gone` after the hard delete |
| `hist[s]` | `CouponHistory` rows, in slots of a customer: status, quantity, dates; `src`, `pay`, `woken` say who issued it, under which payment, and whether an update brought it back |
| `job` | the job issue-coupon-to-users-by-target-grades, with its attempts |
| `req`, `adm`, `level`, `cron` | a request, an update of the coupon, the payment worker, and the monthly job of each process, between read and write |
| `lock` | who holds `SELECT ... FOR UPDATE` on the coupon |
| `lifted`, `month`, `begun` | payments whose coupons the worker has taken on; the clock; a bound |

`coupons/coupons.service.ts`: `Create`, `UpdateRead`, `UpdateGrant`,
`UpdateGrantWrite`, `UpdateRows`, `UpdateSave`, `UpdateFails`, `Remove`.
`coupons/queue`: `JobRead`, `JobWrite`, `JobFails`.
`coupon-history/coupon-history.service.ts`: `IssueRead`/`IssueWrite`,
`UseRead`/`UseWrite`, `CancelRead`/`CancelWrite`, `LevelRead`, `LevelWrite`,
`LevelFails` (issueSpecialBenefit, called by the payment worker). The confirm
transaction: `ConfirmRead`, `ConfirmWrite`; a cancelled payment: `Withdraw`.
`coupon-history/cronjob/coupon-history.cronjob.service.ts`: `CronRead`,
`CronWrite`, `CronFails`. `RequestFails` and `Tick` are the database and the clock.

Abstractions: one coupon; time in months, the length of every period; amounts of
a discount and the choice among several coupons are left out; `createBulk` is one
transaction (it is in the code); customers do not change their grade. The expiry
cron of histories (`CouponHistoryExpireCronjobService`) is not modelled: it is a
provider (`coupon-history/coupon-history.module.ts:30`), but its class lacks
`@Injectable`, so the compiler emits no types for its constructor, Nest injects
nothing, and each run would fail at its first read. Birthday coupons are left out.

### MembershipRecalc

| Variable | Code |
|---|---|
| `tiers`, `cached` | `Membership` rows by minPrice; the tiers cached at start (onModuleInit) |
| `paid`, `spent` | what became of a payment; the sum over the customer's SUCCESS payments in the basePeriod |
| `total`, `row`, `level` | `User.totalPurchaseAmount`, `UserMembership`, `User.membershipLevel` |
| `exec[e]` | a recalculation in flight: of the membership queue's worker, of the payment worker, or one after a tier edit |
| `payjob[p]` | the membership job of a payment, with the attempts it has left: due until the handler enqueues it, queued, running |
| `jobs` | recalculate-all jobs in the queue, by the attempts they have left |
| `adm` | an admin's request between two statements |
| `calm`, `settled` | history: customers a recalculation found with nothing else about to write them and nobody has disturbed since; those it has passed |

`memberships/cronjob/membership-cronjob.service.ts`: `ReadTiers`, `ReadTotals`,
`SyncTotal`, `SyncFails`, `Find`, `Upsert`, `SetLevel`, `UserFails`, `ReadFails`.
The payment worker (`payment/queue/payment-queue.processer.ts`): `PaymentsTakes`,
`ReadTotal`, the recalculation of its customer, `JobDone`, `JobFails`. After the
level is written the job is not over: it reads the level again and issues coupons
(pc "coupons"). An error anywhere up to the end (`JobFails`) puts the whole job back
into the queue while attempts are left, and the rerun reads the total anew and
writes membership and level once more; other jobs may come between. Payments:
`Confirm`, `Enqueue`, `Reverse`, `Age` (a payment leaves the basePeriod).
`memberships/memberships.service.ts` and `user/user.service.ts`: `CreateTier`,
`UpdateTier`, `BulkUpdateTier`, `RemoveTier`, `Assign`, `UpdateUserMembership`
with `WriteRow` and `WriteLevel` (a `Promise.all`, in either order),
`RemoveUserMembership`, `UpdateUser` with `SyncByLevel`, `SyncUpsert`,
`SetStatus`, and `RecalculateAll`. `WorkerTakes` is BullMQ, `Restart` the death of
the process (jobs that ran go back into their queues, a job not yet enqueued is
lost).

A recalculation finds a customer *calm* when it reads the totals while nothing else
is about to write his place (`Busy`): no admin request about him, no other
recalculation that holds him or an older ladder, and no membership job of one of his
payments anywhere between the confirmation and the end of its last attempt.

Abstractions: a payment has one worth and at most one partial refund; the customers
are there before the payments; validation of the prices of tiers is left out.

### Cart

| Variable | Code |
|---|---|
| `cart` | the `Cart` row: totalAmount, checkedOutAt set |
| `item[i]` | `CartItem` rows; an id is used once |
| `pend[r]` | rows an open transaction has written: locked, and seen by nobody else |
| `req[r]` | a handler in flight |
| `drift` | history: may the total be off? |

`carts/services/cart-item.service.ts`: `AddRead`, `AddFind`, `AddWrite`,
`InsertWrite` (addItem), `UpdateItem`, `UpdateItemQuantity`, `BulkUpdateItems`,
`UpdateWrite`, `RemoveItem`, `RemoveWrite`, `Recalculate`, `Commit`, `TxFails`.
`carts/services/cart.service.ts`: `CreateCart`, `ClearCart`, `ClearWrite`,
`AskTotal`, `TotalRead`, `TotalWrite`, `CheckoutRead`, `CheckoutScan`,
`CheckoutWrite`, `CheckoutStamp`, `DeleteCart`. `PaymentTakes` is the part of
confirmPayment that removes items.

READ COMMITTED: a statement sees what is committed and its own transaction's
writes (`View`), a write waits for the transaction that has written the row
(`Locked`) or the unique key (`KeyLocked`), and `updateMany` looks at a row again
after the wait. updateCart only changes the owner; the bulk removal is removal of
several.

`TotalRight` is: the stored total is that of the ACTIVE items unless `drift`.
`drift` names the races the code leaves open, each at its step: a sum made before
another request changed items and written after it, a checkout or a payment that
changes items and leaves the total. Every action that stores a sum nobody
overtook clears it.

### SalePrice

| Variable | Code |
|---|---|
| `price` | `Product.consumerPrice`, `salePrice` |
| `disc`, `offer` | `ProductDiscount`, `ProductSpecialOffer`: isActive, rate or amount and special price (which may be null), dates |
| `night[w]` | the nightly job of process w: phase, what it read, what is left of it |
| `adm` | an admin's request between two statements |
| `clean`, `settled` | history: products nobody disturbed since a run began; those a run has passed, undisturbed since |

`product-discount/cronjob/product-discount.cronjob.service.ts`: `NightBegin`,
`NightDiscount`, `NightOffers`, `NightOffer`, `NightPrices`, `NightPrice`,
`NightEnd`, `NightFails`; a statement of one product that fails is a disjunct of
its step (`Fails`). `product-discount.service.ts`: `CreateRead`, `CreateRecalc`,
`CreateReprice`, `CreateInsert`, `UpdateDiscount`, `RemoveDiscount`.
`product/product.service.ts`: `UpdateProduct`, `OfferRead`, `OfferInsert`,
`OfferUpdate`, `OfferSell`, `OfferDelete`, `OfferRestore`, `OfferDrop`.
`AdminFails`, `Crash`, `Tick` are the environment.

What is null or not given is `Absent`, and `Given(new, old)` is the code's
`new ?? old`: an offer without a special price takes the consumer price (`Priced`), a
new product keeps null (`Fresh`), a new offer has zeros and an update leaves what it
is not given (`Merged`). A product without a consumer price is skipped (`Promoted`).
What a run has read of a product is dropped once it is done with it.

Abstractions: rates of 25, 50, 75 and 100 percent, which a double divides
exactly; an update that gives null is one that does not give the field; a "day" is the instants between which no start or end date passes, so a
run that is overtaken by a date is one that spans two days; one admin request of
several statements at a time (one-statement requests come between at will);
products are not deleted.

### Chat

| Variable | Code |
|---|---|
| `rows`, `last`, `messages` | `Room` (user1Id, user2Id, lastMessageAt), `Message` |
| `conn`, `data`, `userSockets`, `shown`, `joined` | the connection of a socket, `client.data.userId`, the table of the gateway, whom the clients were last told is online, the rooms of socket.io |
| `req[s]`, `page[s]` | the handler that runs for a socket; a client that pages |
| `job[u]` | the job create-chat-rooms of a creator |

`websockets/gateways/chat.gateway.ts`: `HandleConnection`, `Authenticated`,
`Unauthorized`, `HandleDisconnect`, the `Ask...` actions, `SendCheck`,
`QueryCheck`, `EnterRoom`, `Fails`. `websockets/chat/repositories`: `CreateRoom`,
`JoinRead`, `JoinSeat`, `CreateMessage`, `CommitMessage`, `GetRoomMessages`.
`websockets/chat/queue`: `EnqueueRooms`, `JobCreatesRooms`, `JobFails`.

Abstractions: one request per socket at a time; several messages may share a
moment (the cursor is a millisecond and an id); the order of ids is arbitrary with
respect to time, as that of uuids is; users and rooms are not deleted;
`isTyping` changes nothing and is left out. A socket that closes while it is being
authenticated (`gone`) is added to the table afterwards and stays there, as in the
code.

## 3. What is checked

| Run | Instance | Shows |
|---|---|---|
| `money` | 1 order group, 1 attempt, 2 concurrent requests, partial refund of 400 out of 1000, delivery fee 300, sync, lost answers, failing transactions, 1 crash | `TypeOK`; no row claims more than Toss did (`RowsFollowGateway`); a group that reads COMPLETED, CANCELLED or RETURNED was paid (`SettledMeansTaken`) |
| `account` | 2 groups over one product, 3 attempts, 2 concurrent requests, full cancellations, 3 tiers | points, purchases, stock and coupons are those of the payments that stand (`BooksAgree`), settled rows equal Toss (`SettledRowsAgree`), the level is that of the total once the jobs are done (`LevelSettles`), points, coupons and jobs have a payment (`EffectsHavePayment`), refinement of `PaymentBook` (`KeepsTheBook`) |
| `live` | 1 group, 2 attempts (one by virtual account), a payment that reaches the second tier, lost answers, failing jobs and queue | money that was taken is never lost sight of (`TakenIsHeld`) and gets a row (`TakenGetsRow`), jobs end (`JobsEnd`), retries issue no coupons twice (`BonusIssuedOnce`) |
| `coupons` | 1 customer with 2 payments, 2 kinds of coupon, 1 request slot, 2 cron processes, 2 rows, 2 months, 3 requests or updates | `TypeOK`, `GrantedOnce`, `CronNoDuplicates`, `SpecialOnce`, `NeverReissued` |
| `membership` | 2 customers, one of whom makes a payment of 10 with a refund of 4; tiers at 0 and 8, of which the second may be set to 6 and a third created at 6; all three recalculations at once; 1 edit and 1 request to recalculate; 1 error or restart | `TypeOK`, `Settled`, `NobodyLeftOut` |
| `cart` | 3 item ids, 2 products, 2 requests at a time and 5 in all, failing transactions | `TypeOK`, `TotalRight`, `ClearKeepsCheckedOut` |
| `sale_price` | 2 products, 2 processes with the job, 2 days, 1 request of an admin, failing statements, crashes | `TypeOK`, `Settled`, `NobodyLeftOut` |
| `chat` | 3 users, 3 sockets (2 of one user), 2 rooms, pages of 1, 2 moments, 3 requests | `TypeOK`, `PresenceTrue`, `OnlyMembersHear`, `SeatKept`, `PagesComplete` |
| `retry` | 1 group, 2 attempts | `RetryIsRecorded` is violated |
| `cancel_race` | 1 group, 2 requests, edits that ship | `CancelsOnlyAllowed` is violated |
| `edit_race` | the same | `EditsRespectFinal` is violated |
| `stale_delete` | `sale_price` with 1 product, 1 process, no faults | `DeletesOnlyExpired` is violated |

All runs use `CHECK_DEADLOCK FALSE`: when everything asked for is done, customers
and admins may simply stop, and the bounds on requests end a behaviour too.

### Bounds

`OrderPayment`: two requests at a time are enough for each pair of handlers to
interleave at every `await`; the sequence of requests is not bounded, a slot is
reused. Two groups and three attempts let two payments of one account and two
attempts of one group overlap. A partial refund of 400 lets two of them fit into
1000 and the third not, and leaves a balance smaller and larger than the
delivery fee. `MaxCrashes` = 1: what a second crash adds is the loss of handlers
started after the first. `JobAttempts` is the code's own 3. Symmetry is on the
request slots, in runs without liveness properties.

`CouponWallet`: rows of different customers never meet but in `createBulk`, so
one customer is enough for the properties, which speak of one (the proof is for
any number). Two payments, two processes and two months give every duplicate the
properties forbid a chance to arise; a third row of one customer would be the
consequence of a second one. `MaxBegun` = 3 lets a request, an update and a
confirmation overlap.

`MembershipRecalc`: one payment that is confirmed, refunded in part and
cancelled crosses the tier of 8 in both directions, and the tier created or set at
6 lies between what a partial refund leaves and the whole. The second customer
shares the recalculations with the first and nothing else: the error of either one,
in each of the three writes, comes before or after the other's turn. The
recalculations are one of each origin; one edit and one fault can fall between any
two of their steps, a fault being an error of any statement, the payment job's last
ones included, so that the whole job is rerun. With the fault spent the rerun
succeeds; a second and third rerun write from a state of the same kind. Both
properties are proved for any numbers.

`Cart`: with two products an addition may meet its own product, the other, or a
removed row; the third id is the row inserted again after a removal. Five
requests let one cart go through addition, checkout, clear and payment with two
of them at a time.

`SalePrice`: a new product may have a discount, an offer without a special price,
both or none, with the window of day 1; a request of an admin gives a window that
begins on day 2, a special price, or takes the consumer price away. So the job meets dates that
begin, hold and have passed, special prices given and null, and a product it skips.
With two products the error of one, or its row deleted by the other process, comes
before or after the other product's turn in each of the three phases. One request,
in its several statements, falls between any steps of the two runs. An offer update
whose dates have passed already is not among the requests; its price and deletion
are those of `OfferDelete`, which is. `stale_delete` has the same values with one
product, one process and no faults: one extension of a discount is enough.

`Chat`: two sockets of one user show a disconnect
that must not take him offline; three users show two of them running for one
seat; pages of one message with several messages in one moment show the cursor.

### Restrictions in properties

They name what the code does not promise. `RowsFollowGateway` is one-sided: a row may
lag behind Toss, be set back to an older answer by a late sync or cancellation, or
stay SUCCESS when the transaction of a refund fails. `BooksAgree` is checked without
partial refunds and edits, because a partial refund reverses the whole order and
still leaves the payment SUCCESS. `TakenIsHeld` and `TakenGetsRow` are content with
any row, a FAILED one too: after a lost answer that is the row the catch block
writes, so they say that the payment is on record, not that the record is right.
`TakenIsHeld` is checked without failing
transactions and crashes, because the catch block swallows an error of its own
and a handler dies with the process. `LevelSettles` stops at the first cancellation,
because the job may write a level computed before it. `BonusIssuedOnce` is
without crashes, because a job rerun after a crash issues again, and so is
`GrantedOnce`, for the death of the worker between the insertion and the end of
the job. `SettledMeansTaken` leaves virtual accounts out, because an order paid
that way is COMPLETED before the deposit. `CronNoDuplicates` leaves out rows an
update expired and brought back. `TotalRight` holds but for `drift`, and
`Settled` (of both modules) only for whom nothing else was about to write and nobody
has disturbed since: the code has no protection there, and the history variables
say exactly when. In `MembershipRecalc` this leaves out the customer who pays between
the read of everybody's totals and the write of his own, whose payment is lost from
the total, and two writers that have read different totals or ladders; a
recalculation also says nothing of a customer whose membership job was never
enqueued until it reaches him. `NobodyLeftOut` says nothing of a customer or product
that an error has hit. `GrantedOnce` and `SpecialOnce` are about the rows of the
grade job and the payment worker: two admins who issue a coupon by hand at the same
time may both pass the check for duplicates. `JobsEnd` is checked with the jobs of
one order group. A socket that closes while it is being authenticated counts as
online in `PresenceTrue`, as the gateway has it.

### Fairness

`FairSpec` of `OrderPayment`: weak fairness of each handler that has started and
of the worker. Node resumes an `await` once its promise settles, Toss calls time
out after 30 s and transactions after 20 or 30 s; BullMQ's worker takes the next
queued job and counts attempts. Nothing is assumed of the customer, the admin,
new requests, or of how often calls fail.

### What the violations mean

* `RetryIsRecorded`: the FAILED row written "for audit"
  (`payment/payment.service.ts:1225`) holds the unique `orderGroupNumber`. The
  customer is told to try again (`:1250`); the second attempt is approved by
  Toss, its transaction hits the unique key, and the money stays taken with no
  successful payment.
* `CancelsOnlyAllowed`: the situation a cancellation needs (`:1343`, `:1358`) is
  read before Toss is called and not again.
* `EditsRespectFinal`: the check against final situations
  (`order/order.service.ts:1201`) and the update (`:1289`) are not atomic.
* `DeletesOnlyExpired`: "delete expired record(s)"
  (`product-discount/cronjob/product-discount.cronjob.service.ts:427`) goes by rows
  read before the loop over all products; a discount an admin has extended
  meanwhile is deleted (`:468`).

## 4. What is proved

The theorems hold for every value of the constants that the named assumption of
the module allows: any number of customers, orders, requests, processes, sockets
and faults, and no bound on crashes, months, days or requests but the constants
that cap them.

`OrderPayment_proofs`

* `TypeCorrect`: one lemma per kind of step (`StartType`, `GotoType`,
  `FinishType`, `ReverseType`, `RefundType`), put together in `TypeNext`.
* `BooksNeverAhead` (`RowsFollowGateway`). It is not inductive: rows are written
  from answers that handlers still hold, so `MoneyInv` adds that these answers
  are not ahead of Toss (`AnswerFollowsGateway`) and that Toss has cancelled a
  payment exactly when nothing of it is left (`CancelledWhenEmpty`), which is what
  makes "balance 0" mean "cancelled" in `RefundStatus`. The argument: what Toss
  has done only moves *forward* (`GatewayForward`: taken stays taken, cancelled
  stays cancelled, the balance never grows), and what was not ahead of Toss stays
  so when Toss moves forward (`NotAheadStays`). So an answer may be arbitrarily
  late when it is written.
* `BookRefined` (`KeepsTheBook`): initial states map to initial states and each
  step to a step of `PaymentBook` or a stutter, under `MoneyInv`.

`OrderEffects_proofs`, built on the above by what one step may do to a payment at
Toss (`GatewayLater`, `BalanceMoves`), to a row (`RowSteps`), to an order group
(`GroupSteps`), to a request (`RequestMoves`, `BusyMoves`, `OwnSteps`), to the
books of an order (`LedgerMoves`) and to its job (`JobMoves`, `JobSteps`):

* `EffectsHavePaymentHolds`. `EffectsInv` says that points, coupons, rewards and
  jobs of a group are *backed* by a payment that Toss approved and whose row does
  not say otherwise, that a handler about to commit holds an approval that still
  stands (`AnswerHolds`), and that one past its transaction has a standing payment.
  The argument is that a standing payment stays one (`StandingStays`): its row is
  taken, so neither another confirmation nor the catch block can write it, and a
  sync writes FAILED only of a payment that Toss has aborted or let expire.
* `SettledMeansTakenHolds`, if the admin writes none of the three situations by
  hand (`PlainEdits`): a confirmation settles a group of an approved payment, a
  reversal one whose answer of Toss says that money was taken.
* `BonusIssuedOnceHolds`, if the server does not crash. `BonusInv` says that a
  confirmation past its transaction is the only one of its group and that its job
  is not there yet, and that a job that can still be retried has issued nothing.
* `SettledRowsAgreeHolds`, with `FullRefunds` (no cancelAmount, no sync, and either
  no delivery fee or nothing ever SHIPPED, so that whoever gets money back gets all
  of it) and `Uninterrupted` (no lost answer, no failing transaction, no crash).
  `FullInv` says that Toss has a payment whole or not at all (`GatewayFull`), that
  a row and what handlers read from it is the whole amount or nothing (`RowFull`,
  `RequestFull`), and that at most one handler is past Toss with a refund of a
  payment (`ReversesAlone`): a second cancellation that has read the same SUCCESS
  row is refused by Toss, which is all that keeps a payment from being reversed
  twice. `Settling` adds that money given back and not booked has its handler. Each
  interruption leaves a payment cancelled at Toss and SUCCESS in the row.
* `BooksAgreeHolds`, with `PlainBooks`: `FullRefunds`, no virtual accounts (booked
  before the deposit) and edits that leave finalAmount and pointsUsed as they are
  (a reversal takes the edited amount back). Answers may be lost, transactions may
  fail and the server may die. `BooksInv` relates group, row and ledger to what
  was asked for (`AsAsked`, `BookedRow`, `BookingRequest`); a confirmation adds one
  payment to the sums, a reversal takes one out that is in them.
* `LevelSettlesHolds`, with `FullRefunds` and without crashes (a dead handler never
  enqueues its job). `LevelInv`: one worker at a time (`OneWorker`), and while
  nothing has been cancelled the level is the one deserved, or a job is writing
  it, or one is still to come (`Awaited`); a job at work has seen every purchase
  or is followed by another (`JobSees`).
* `TakenIsHeldHolds`, if no transaction fails and the server does not crash: the
  part of `TakenGetsRow` that needs no fairness. `Held` says it of every payment
  that Toss has processed and not refused, virtual accounts included.

The `account` run satisfies the hypotheses of the theorems it has properties of,
and so does `live`: none of them is empty.

`Sums_proofs`: sums over a set are folds, which are defined by recursion over the
subsets of the set. Induction is out of reach, so the equations of a fold are shown
of a minimal subset for which they would fail (`MinimalSubset`, from the
cardinality of finite sets): a function that satisfies them is unique
(`UnfoldUnique`) and there is one (`UnfoldExists`). From these come the sum of one
more, of one less and of the same summands (`SumAdd`, `SumRemove`, `SumSame`).

`CouponWallet_proofs`: `TypeCorrect`, `GrantedOnceHolds`, `CronNoDuplicatesHolds`,
`SpecialOnceHolds`, `NeverReissuedHolds`. `WalletInv` adds to the three
invariants what each issuing handler relies on between its read and its write:
nothing has been granted before the job's write (`GradePending`), the worker
writes for a customer without the benefit (`LevelPending`), only the holder of
the row lock is between the cron's read and write (`LockHeld`), and for whom it
has not seen a row there is none (`CronPending`). The lock is needed in exactly
one place: an insertion needs the coupon's key, so `CronPending` cannot be
disturbed.

`MembershipRecalc_proofs`: `TypeCorrect`, `SettledHolds`, `NobodyLeftOutHolds`.
`RecalcInv` adds that whatever is still about to write a settled or calm customer
holds what is true of him now (`Undisturbed`, `UpToDate`), so late writers write
the same again. The payment worker is the one that would not: a rerun of its job
reads a total that a recalculation may not have synchronised yet. So `Undisturbed`
also says that such a customer has no membership job anywhere, waiting for its
rerun included: a new one begins with a confirmation, which disturbs him.

`Cart_proofs`: `TypeCorrect`, `TotalRightHolds`, `ClearKeeps`. `CartInv` says of
each request that holds a sum and was not overtaken that it is the sum of what it
sees (`SumRight`): of its own transaction's view before the commit, of the rows
after it. Every step that changes an item either is that transaction or marks the
sum as late (`SumMove`), and the writer of a late sum leaves `drift`. `ClearKeeps`
rests on the row locks: a row has one writer at a time (`Exclusive`), so an item
that the clear holds is still ACTIVE when it commits (`ClearHolds`).

`SalePrice_proofs`: `TypeCorrect`, `SettledHolds`, `NobodyLeftOutHolds`.
`SettledInv` says of each run and each product it has not been disturbed on how
far the run has brought it (`InStep`, `Pass`): the snapshot is the row, the
statuses passed are those of the day, and so on through the three phases. A
second run over an undisturbed product then writes what is there already, which
is why two processes do no harm (`StepKept`, `QuietKeeps`), and any step that
changes rows takes the product out (`DisturbKeeps`, `TouchKeeps`).

`Chat_proofs`: `TypeCorrect`, `PresenceTrueHolds`, `OnlyMembersHearHolds`,
`SeatKeptHolds`, `PagesCompleteHolds`. `PresenceInv` ties the table of the gateway
to the flags of the sockets through all connections and disconnections; `RoomInv`
says a handler past its check is that of a member, and rooms only gain members
(`RowsGrow`). For the pages, `MessagesInv` says that ids are unique, those of
messages about to be committed included, which makes time and id a linear order;
then the newest first are a sequence in which each message stands behind those that
are newer (`NewestFirstSorts`). `PageInv` says of a reader that what was there when
it began has been seen or lies behind the cursor, and that nothing it has seen
does. A message sent meanwhile may land behind the cursor, when it shares the
cursor's moment: it is then shown, and in its place.

The proofs take the assumptions of the models with them: amounts are positive, the
ladder has distinct minimum prices, dates are comparable, rates are exact. The
behaviour of Toss, PostgreSQL, BullMQ and socket.io is assumed, not shown.

Only model-checked: liveness (`TakenGetsRow`, `JobsEnd`), which rests on fairness
and ENABLED and is out of the prover's reach. Every other property of a passing run
is a theorem.

## 5. Not modelled

* Most of the code by lines is not state but shape: DTOs, controllers, mappers,
  Swagger decorators, exceptions, seeds, and queries with filters and pages.
  They decide what is shown or accepted and change nothing the properties are
  about.
* auth: handlers take the user they name as given; sessions and token rotation
  have no state that the components above share.
* reviews, recipe, inquiries: like counters and approval. The counters are only
  displayed, and nothing in the repository says they equal the like rows;
  approving a recipe is one admin's sequence of statements.
* admin data entry: orders and groups created by hand, Point rows, profiles, the
  catalogue apart from prices and stock. It overwrites columns without relation
  to others; order and group numbers are guarded by unique keys.
* notifications, SSE, mail, event log: sent after the fact, errors dropped; no
  other component reads them.
* banner, announcements, categories, policy, badges, roles, permissions: CRUD.
* amounts of discounts and the pricing of a checkout: input of `OrderPayment`
  (`Checkout`).

## 6. Plan

Done: the modules above. What would come next, in this order:

1. `PointLedger`: all writers of `availablePoints` (confirm, reward, cancel,
   orders by hand, recipe approval, admin) against the Point rows.
2. `OrderNumber`: numbers of groups and orders, whose order is textual and whose
   retry runs inside a transaction.
3. `Likes`: counters against like rows under concurrent toggles.
4. `Session`: login, refresh rotation, logout, expiry.
5. `Pricing` as a pure module checked over bounded inputs (discount per order
   against discount of the group).
