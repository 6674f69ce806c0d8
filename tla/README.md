# A verification project for the Fooddie backend

The backend is a NestJS server (one Node.js process, PostgreSQL through TypeORM,
pg-boss as job queue) behind a food-delivery application: customers order,
restaurants confirm, shippers are offered the order one after the other and
deliver it. This directory holds TLA+ models of its stateful core, TLC
configurations that check them on small instances, and TLAPS proofs of the
properties that matter most for every size of the system.

Source paths below are relative to `src/src/`.

## 1. The system

### How it executes

* One process, one thread of JavaScript. A handler runs alone up to its next
  `await`; between two awaits every other handler, cron job, timer and queue
  worker may run. An action of a model is the code between two such points.
* `repository.save(entity)` writes the **whole entity as it was read**: columns
  changed by others since are overwritten, a null relation clears the foreign
  key, a loaded relation with `cascade` is saved with it, and a row that was
  deleted in between is inserted again. No handler that changes a status locks
  a row or re-checks what it read. This is the main source of difficulty.
* The database and the pg-boss queue survive a restart. Timers, the tracker of
  notified shippers, the pool of connected shippers and caches do not.
* Some services exist twice. `ChatModule` lists `PendingAssignmentService` and
  `QueueService` among its providers, as `QueueModule` does, and Nest builds an
  instance for each: two workers on the one queue, two 5-second crons, and two
  trackers of notified shippers, neither of which knows what the other offered.

### Components

| component (files) | state | operations | what makes it correct |
|---|---|---|---|
| Orders (`modules/order/order.service.ts`, `order.controller.ts`) | rows `orders`: status, foreign key to the shipping detail, payment flags, prices | create, update status (restaurant), confirm payment, delete, auto-cancel unassigned (cron), auto-cancel stuck payments (cron), calculate prices, list | only allowed transitions; what the tables say of the shipper is true; a confirmed order is assigned or cancelled |
| Shipper actions (`modules/shipper/shipper.service.ts`) | rows `shippingDetails`; the shipper's row with counters, earnings and certificate | accept, reject, pick up, complete, cancel; ban after too many rejections; profile | one shipper per order; only he acts on it; counters follow the calls; no ban without a warning |
| Shipper statistics (same file) | none of its own: computed from the shipper's row and his orders | level, badges, milestones, dashboard, income report | they agree with each other and with the orders; a delivery in time never costs a level |
| Hold protocol (same file) | in-memory map of two-minute holds with timers | request, accept, reject, expire, reassign | never reached: no controller calls it |
| Pending assignments (`pg-boss/pending-assignment.service.ts`) | rows `pending_shipper_assignments`; in-memory tracker and response timers | two instances, each with a worker and a tracker: add, remove, 5-second cron, worker, response timeout, retry, cleanup | no instance offers an order twice to a shipper in a round; every assignment ends |
| Queue (`pg-boss/`) | durable jobs | send, work | jobs survive restarts and may be handled again |
| Active shippers (`modules/order/order.resolver.ts`) | in-memory Map of connected shippers, with a copy of the row of each | subscribe, cleanup (five minutes, or on request), best and nearest shipper | whoever may not deliver leaves in time; an offer goes to the nearest; saved copies lose no count |
| Payment (`payment/`) | rows `checkouts`; `orders.isPaid` | checkout, gateway notifications, cancel; the stuck-payment cron of `order.service.ts` | nothing is marked as paid that was neither charged nor reported as paid; no order waits for its payment for ever |
| Pricing (`order.service.ts`, `services/system-constraints.service.ts`) | row `system_constraints`, five-minute cache of it | two quotations, creation of an order | they agree; lines and fee make up the total, to a cent for each topping; the fee is not older than the cache allows |
| Promotion (`modules/promotion`) | rows `promotions`, `numberOfUsed` | create, update, delete, validate, use, reset, list | a discount applies as its type says (`usePromotion` is never reached) |
| Restaurants, foods, categories (`modules/restaurant`, `food`, `category`) | rows with lists of each other; addresses; image files | request, decide, update with and without files, create, move, delete, list, search | a save of an entity with its list of foods moves no food by itself; decided restaurants stay decided |
| Food reviews (`modules/review`, `food.service.ts`) | rows `reviews`, `toppings`; the rating stored with the food | create, edit, delete a review; edit a food, its status, its toppings | the stored rating is that of the reviews; an edit loses no review |
| Listings (all the services with pages) | none | pages and totals | a client that pages is given every row once, in order |
| Accounts (`auth/`, `modules/users`) | rows `users`, addresses, certificates; one-time codes in memory | register, log in, reset, Google, drivers, profile, administration | the last password works; a registration changes no account that exists |
| Roles (`modules/role`) | rows `roles`, `permissions`, membership | add, assign, remove members and permissions; details; delete | a request moves whom it names; what the guard grants is what was asked |
| Messenger, chat, notifications, dashboard, storage, mail, maps | conversations and messages; else none | send, read, report, call out | mostly pure input and output |

### How they interact

```
 restaurant --PUT /orders/:id/status--> OrderController --add/remove--> pending_shipper_assignments
                                             |                            ^   |  every 5 s
                                             v                            |   v
 shipper --accept/reject/pick up/--> ShipperService --delete/reset rows---+  cron --job--> pg-boss queue
           complete/cancel                   |                                               |
                                             v                                               v
                                     orders, shippingDetails  <---read order---  workers: offer to one shipper,
                                             ^                                   remember him, set a 2-minute timer
                                             |                                               |
                         autoCancelUnassignedOrders (cron) --reads rows older than 30 min    +-- timer: reset row, retry
```

Two links are easy to miss. The order and its shipping detail refer to each
other by **two** foreign keys; accepting an order sets only
`shippingDetails.order_id`, while most checks read `orders.shippingDetail_id`.
And the auto-cancel cron works from assignment rows, not from orders.

Three more sources of difficulty are shared by the other components. The
shipper's row in `users` holds counters that five handlers, the profile and the
tracker of active shippers all read and save whole. An entity read *with a list*
(a role with its members, a restaurant, food or category with its foods,
toppings or reviews) gives the list back when it is saved: rows that were linked
since are cut off. And a page and its total, a quotation and the order it is for,
are separate reads between which anything may be written.

## 2. What is modelled

| module | models | part |
|---|---|---|
| `OrderStatus` | statuses and the tables that say which may be written | pure operators |
| `OrderFlow` | every handler and cron job of the cash-on-delivery flow that writes `orders` and `shippingDetails`, one action per stretch between awaits | concurrent, stale saves, restarts |
| `Delivery` | the contract of the two services: claim once, tell only the claimant, show "received" only when claimed | abstract specification, implemented by `OrderFlow` |
| `Dispatch` | assignment rows, cron, queue, the workers, trackers and response timers of two services, retries, auto-cancel cron | concurrent, time, restarts, liveness |
| `ShipperPool` | the Map of active shippers: subscription, eligibility, cleanup, the query for the best shipper, the choice of the nearest by each dispatch service, and the saves of rows they do | concurrent, time, restarts |
| `Payment` | orders paid online, their checkouts, the gateway, cancellation, stuck-payment cron, and the other handlers that save such an order | concurrent, stale saves, lost, repeated and unproven notifications, restarts, liveness |
| `ShipperReport` | earnings of a delivery, verdict on rejections, level, badges, milestones, dashboard | pure operators |
| `ShipperStats` | the shipper's row under accept, complete, cancel, reject, profile and verdict; the income report | concurrent, lost updates, restarts |
| `Pricing` | quotations, creation of an order, fee table with its cache, promotions | concurrent, stale cache |
| `Listing` | two dozen paged listings and searches, the cutting and ordering of pages, writes between reads | algorithm with concurrent writes |
| `Catalog` | restaurants, addresses, image files, foods, categories | concurrent, whole-list saves, failed steps, restarts |
| `FoodReviews` | a food, its toppings, its reviews and its stored rating | concurrent, whole-list saves, restarts |
| `Accounts` | registration, Google, logins, reset links, one-time codes, drivers, profiles, administration | concurrent, stale saves, time, restarts |
| `Roles` | `Accounts` composed with roles, their members and their permissions | concurrent, whole-list saves |
| `MC...` | values of constants and symmetry for TLC | |
| `OrderFlowProofs`, `DispatchProofs`, `MoneyProofs` (`Payment`, `Pricing`), `ShipperProofs` (`ShipperPool`, `ShipperStats`), `CatalogProofs`, `BrowseProofs` (`FoodReviews`, `Listing`), `RolesProofs` | theorems | TLAPS |
| `SumTheorems` | sums over finite sets, for the proofs that add up earnings and stars | TLAPS |

In all of them `slot` (or `task`, `call`, `sweep`, in `Pricing` `request`) is a handler in progress with
what it read; an action is the code up to the next `await` whose outcome another
handler can change, and awaits that nobody can tell apart are one action.

### OrderFlow

* `status`, `link`: `orders.status` and whether `orders.shippingDetail_id` is set.
  `detail`, `dstat`: the shipper and the status of the `shippingDetails` row with
  this `order_id` (which is unique). `told`: to whom `accept-order` returned a
  detail. `slot[k]`: a handler in progress, with the entity it read.
* An action named `...Load`, `...Read` or `...List` is a read; the one that
  follows, `...Save`, writes what was **read**. `SaveOrder` is `save` of an
  entity with the `shippingDetail` relation loaded (foreign key and cascaded
  detail are written too), `SaveStatus` without.
* `UpdateRequest` to `RemoveRows` are `PUT /orders/:id/status` with its two reads
  and what the controller does afterwards; `AssignRead` to `AssignRemove` are
  `accept-order`; `RejectRead`..., `PickUp`..., `CompleteDetail`..., `CancelRead`...
  the other shipper calls; `AutoCancelList`... the cron. `Crash` forgets all
  handlers.
* The insert of a second shipping detail fails on the unique index: that is the
  only arbitration between two shippers.
* The result of `addPendingAssignment`'s look for an existing row is arbitrary
  here (`AddFind(k, found)`); the rows themselves are `Dispatch`'s state.

### Dispatch

* The order is reduced to what the dispatch can tell apart: `unconfirmed`,
  `open` (confirmed), `linked` (confirmed with the foreign key set), and whether
  a shipping detail exists. The order handlers are one action each, followed by
  what they do to the rows; how they overlap with each other is `OrderFlow`.
* `row[a]` is a row with `attemptCount` (`n`, saturating at the limit above which
  no test differs), `isSentToShipper` (`sent`), "`nextAttemptAt` is past" (`due`)
  and `old[a]` "older than 30 minutes". `jobs[a]` counts queued jobs. `task[t]`
  is what a thread holds across awaits, with the row as it was read.
* `Services` are the instances of the service. Each takes jobs of the one queue
  (`Fetch(w, a)`) and has a tracker of its own: `notified[w]`, and `timer[w][o]`, the
  one timer it remembers per order; setting another (`SetTimeout`) does not stop the
  first, which lives on in `lost`. `ClearOrder(w, o)` clears one tracker only.
* `CronRead`, `CronJob`, `Remove` are the 5-second cron; `Fetch` to `SaveSent` the
  workers; `TimerFires` to `RetrySave` the timeout and retry.
* `offered[w]` is a history variable: whom `w` offered the order since its tracker
  was cleared, whether or not the tracker knows it yet. A shipper may get the order
  from each of the services; that is what the code does, and the property is about
  each of them.
* The process may stop any number of times (`Restarts`); `InProgress` are the jobs
  that go back to the queue then.

### Payment

* `order`, `paid`, `momo`: `orders.status`, `isPaid` and whether MoMo or VNPAY was
  chosen; `checkout[o]`: the row with this `orderId` (an order gets one, from
  `POST /orders`): status, whether `paymentIntentId` is set, whether its method is
  `free`. `charge[o]` is the environment: what the gateway did with the payment.
  `slot[k]` is a handler with the order, the `isPaid` and the `paymentIntentId` it read.
* `CreateOrder` to `IntentFail` are `POST /orders` and `createCheckout`;
  `Notify` to `OrderSave` the two notification handlers; `CancelCheckout`,
  `CancelSave` are `POST /payment/cancel`, which then goes on like a failure;
  `StuckList` to `StuckCheckout` the cron. `Update` and `Reject` stand for all
  handlers outside payment: they save the order with the `isPaid` they read.
* `Arrives` is what reaches the two handlers. The return from MoMo takes `orderId` and
  `resultCode` from the address, for any order, MoMo's or not, at any time and with any result,
  since nothing compares them with the gateway's; the return from VNPAY is
  signed over all its parameters, and MoMo's webhook comes when MoMo has settled a payment,
  with a signature that leaves the result out. The webhook of VNPAY only answers.
* `TakenAsSuccess`: MoMo's webhook has no `type`, and the code takes one without for
  a success whatever its `resultCode`. The returns go by their result.
* `Finds` is the look-up of the checkout. MoMo's return first finds the checkout
  of the order and then searches by *its* `paymentIntentId`; TypeORM drops a
  condition on `null`, so without an id any checkout is found.
* Reports come never, once or often. `unproven` is history: the orders whose
  checkout a MoMo report of success has found. They, and the orders that were charged,
  are `Backed`. That a MoMo report pays an order nobody was charged for is what the code
  does, so `PaidOnlyIfBacked` is about everything else that could.
* `confirmPayment`, called at the end of a success, refuses a completed order and
  so changes nothing.

### ShipperStats and ShipperReport

* `stat` is the shipper's row with its counters and the status of his certificate
  (a row of its own, which a save of the shipper leaves alone: `SaveRow`).
  `order[o]` is what the counters are taken from; the statements on it that
  nothing here tells apart are one step, since `OrderFlow` follows them one by one.
* `AcceptRead` to `AcceptSave` are `assignOrderToShipper`; `CompleteDetail`,
  `CompleteOrder`, `CompleteEarn`, `CompleteSave` are `markOrderCompleted`, whose
  shipper is read only after the order was completed; `CancelRead`, `RejectRead`
  and their saves the other two, `RejectBan` the certificate saved before the
  counters; `ProfileRead`... `updateDriverProfile` and `updateMe`; `Decide` the
  administrator.
* Earnings are counted in hundredths of a dong, because one per cent of an order
  need not be whole: the save of such earnings fails on the integer column after the
  order and the shipping detail were completed, and the counters are never reached.
* `start`, `count`, `warned`, `overlap` are history.
* `Level` and the others of `ShipperReport` compare ratios by cross-multiplication.

### ShipperPool

* `pool[s]` is the entry of `s` in `activeShippers`, with `pos`, its place in the order
  in which a Map is walked, and `user`, the copy of the row it was entered with.
  `row[s]` is what the database has. The counters of the row are one, `active`.
* `Subscribe`, `CheckEligible`, `Enter`, `EnterSave` are the subscription and
  `addShipper`; `Walk` and `RemoveShipper`, `RemoveRead`, `RemoveSave` a cleanup, which
  awaits at each entry it removes; `QueryStart`, `QueryStep` are
  `findBestShipperForOrder`, which awaits at each entry; `Offer` is
  `findNearestAvailableShipper` and the publication, by one of the `Services`, each
  with its own `notified` list (see `Dispatch`).
* `Worth(e, time, extra)` is the score of an entry: `extra` is what the parameters of the query
  add, any integer for the value of the order and its urgency, or `NaN` for an urgency
  the table of bonuses does not have, with which every score is `NaN` and no comparison
  holds; `RushHours` are the moments at which the rush-hour bonus is added, and they may begin
  or end between two entries of a walk.
* `Deliveries` and `Judge` are the handlers of `ShipperStats` and `Accounts`, each as
  the one write the tracker can see. `fitAt`, `load`, `overlapped`, `last` and
  `query.first` are history.

### Pricing

* `fees` is the row of `system_constraints`, `cache` the copy in
  `SystemConstraintsService`, good for `Life` ticks; `Lookup`, `Load`, `InsertDefaults`
  and `LoadFails` are `getConstraints` as each stage of a handler calls it. A failed
  read makes the code fall back on constants of its own (`failed`).
* `StartQuote`, `StartOrder`, `ReadDetails`, `Total`: the three calculations of a
  total (`cart.road` and `cart.air` are the two distances they use). `was` remembers
  the table at each tick.
* `CreatePromotion`, `UpdateRead`, `UpdateSave`, `DeletePromotion`: promotions, with the
  check that exactly one of percentage and amount is set made on what was read.
* No percentage is bounded: the DTOs of foods and promotions have no maximum, and the
  body of an order is `any`. A total is cut off at 0 (`Clamped`). The topping's price in
  the request may differ from the row's by a cent (`Near`); the lines take the row's, the
  total the request's. Rows have prices in cents, requests any number of `Mite`s, and
  amounts are in millionths, so that every product is exact.

### Listing

* A listing is a record: which rows it keeps, its order, and `how` it cuts pages.
  `FindAllFoods` to `FindCategories` are those of the services, one operator each.
* `ReadPage` and `ReadTotal` are the two statements of `getManyAndCount`; `ReadAll` the
  listings cut in memory, which ask the route service for every row; `Turn` is the
  client; `Write` any other request. `Arranged` leaves ties in any order where the
  database does; where TypeORM first selects distinct ids, ties break by id. `size` is
  the number of rows the client asks for. `writes`, `tied` (a page was read while rows
  tied in an order nothing settles) and `lost` are history.

### Catalog and FoodReviews

* `Catalog`: `home[f]` and `cat[f]` are the foreign keys of foods; `Rehomed` is what
  TypeORM does with the list of foods of an entity that is saved. `ApproveRead`,
  `RejectRead`, `DeleteRequestRead` with their saves decide a request;
  `FilesRead` to `FilesClean` are the update with images, whose steps can fail one by
  one and leave files and addresses behind. `slot[k].stale`: something was written
  after the handler read.
* `FoodReviews`: a review is `linked` to the food, `loose` (its foreign key was
  cleared by the save of a list it is not on) or `deleted`. `ReviewInsert`,
  `ReviewAverage`, `ReviewHide`, `ReviewRate` are `createReview`; `FoodRead`, `FoodSave`
  the owner's edit, which reads the food with the best `TopReviews` of its reviews.
* `Stars` are any whole numbers: the DTOs only ask for a number, and the integer column
  refuses a fraction. The food's own column is `decimal(3,2)`: an average that is
  not in `Ratings` makes the statement fail after the review was saved (`Rate`,
  `FoodSave`), and the rating stays as it was. `NaN` is the average of no reviews.

### Accounts and Roles

* `user[id]` is a row of `users` with its addresses, `cert[id]` the certificate that
  refers to it. Passwords, links and addresses are the number of the request that
  makes them. `SaveRow` writes a row as it was read; a row that is gone is inserted
  again; `Fits` are the constraints of the database that can refuse it.
* `slot[k].clean`: nothing the handler read was written since, kept by `Going`.
  `stale`, `set` and `drivers` are history.
* `Login(e, password)` is `loginWithEmailPassword`, which looks for an e-mail
  address that two accounts may share: it is true when every row `findByEmail`
  may return lets the caller in. `LoginDriver` looks for the user name, which is
  unique. Administrators (`Create`, `Update`) give any user name and address, or no
  address; drivers register under any user name.
* `Roles` adds `perms` and `name`, and its requests take steps between those of
  `Accounts`: `MembersSave` gives the role to the accounts on the list it read and
  takes it from the others that have it. `Granted` is the guard: each permission that
  a route requires must be held by name, or `All` of it, the name made of `all_` and the
  last part of the permission (`Allows`). Names are not validated, so roles may hold
  such a name like any other.

## 3. Runs

| run | question | result |
|---|---|---|
| `order_flow` | Three overlapping handlers on one order, two shippers, one restart: `WinnerIsAssigned`, `ActingShipperIsAssigned`, `ReceivedHasShipper`, `DetailConsistent`, and the refinement `ImplementsDelivery` | holds, 1.5 million states |
| `dispatch` | Two services, one more thread, two shippers, any number of restarts: `NoRepeatOffer`, `RowEventuallyRemoved` | holds, 0.5 million states |
| `payment` | One order, two overlapping handlers, two notifications by either return or by webhook, with any result, one restart: `PaidOnlyIfBacked`, `StuckEventuallyResolved` | holds, 0.6 million states |
| `shipper_stats` | Two orders, two overlapping handlers, three calls, one restart: `CountsMatchCalls`, `WarnedBeforeBan`, `EarningsMatchReport`, `PunctualDeliveryKeepsLevel` | holds |
| `shipper_pool` | Two shippers, two subscriptions, both cleanups, a query, two services, three outside events: `NobodyUnfitStays`, `ActiveCounts`, `OffersOutward`, `BestThroughout` | holds, 0.9 million states |
| `pricing` | A quotation and an order of one cart, one change between any of their reads: `TotalMatchesDetails`, `OrderAsQuoted`, `FeeWithinLife` | holds, 7.3 million states |
| `listing` | Every listing, pages of one and of two of up to four rows, one write: `PagesComplete`, `OneWriteOneSlip` | holds |
| `catalog` | Two restaurants, two foods, two categories, three operations of which two overlap, one restart: `FoodsFollowRequests`, `StatusFollowsRequests` | holds |
| `food_reviews` | One food, two toppings, three operations of which two overlap, one restart: `RatingFollowsReviews`, `FewReviewsKept` | holds, 0.8 million states |
| `roles` | Accounts and roles together, two overlapping requests, one restart: `PasswordWorks`, `RegistrationCreates`, `OnlyNamedMove`, `PermissionsAsAsked` | holds, 1.8 million states |
| `auto_cancel_only_unassigned` | Does the cron cancel only orders that are still confirmed and unassigned? | violated |
| `unassigned_eventually_resolved` | Does every confirmed order get a shipper or leave that status? | violated |

Every passing run also checks one type invariant of its module.

What the two violations show:

* **Auto-cancel.** The cron reads its list, a shipper accepts, the cron finds the
  relation still NULL (accepting sets only `shippingDetails.order_id`) and saves the
  stale order as canceled. No restart and no third handler is needed.
* **Forgotten order.** An assignment that has used its retries, was marked as
  sent, or turned 30 minutes old is removed by the retry code or the 5-second
  cron; the auto-cancel cron that should cancel the order only looks at
  assignments, so nothing works on the order any more. With fair crons, timers
  and workers, and no restart from some time on, it stays confirmed for ever.

What the passing runs say, where the wording matters:

* `CountsMatchCalls` holds under any overlap in one direction only: lost updates
  lose whole deliveries, so no counter runs *ahead* and punctual and late deliveries
  always add up to the completed ones; no counter falls *behind* unless two handlers
  overlapped.
* `NobodyUnfitStays`: eligibility is judged only at the subscription, and the entry
  keeps that verdict. What protects the customer is that an entry lives at most one
  window after it was last set and a cleanup comes once a window: two in all.
* `ActiveCounts` is the tracker's side of the same row: its saves of `lastActiveAt`
  carry the counter with them, and lose a delivery only when it was taken or
  finished while a copy was held.
* `OrderAsQuoted` and `TotalMatchesDetails` name what makes them false: a food with a
  discount the customer's request does not repeat has lines at the full price and a
  total at the reduced one, and the quotation for another address uses a different
  distance and does not know the food's own discount.
* `OneWriteOneSlip`: pages are cut anew at every request, so a write may hide or
  repeat a row: one write, one row at most, if the page is read before the rows are
  counted (`getManyAndCount`). A listing that counts first may stop at a total that is
  older than its last page, and then two rows may be missing: the one that slipped
  back over the page boundary and the one the old total does not know. Rows that tie,
  without a tie-break or a join, may be lost even when nothing is written (`Settled`
  excludes them, at every page that was read: a write may untie them later).
* `FoodsFollowRequests`, `FewReviewsKept`, `OnlyNamedMove`: the saved lists. Alone they
  are harmless but for a food with more reviews than the three it is read with, whose
  other reviews an owner's edit cuts off, and for `addUsersToRole`, which replaces the
  members of the role instead of adding to them.
* `PasswordWorks` excludes what the code really does: a stale row saved over a new
  password, a login by an address that two accounts share (`findByEmail` may return
  the other one), and a restart between a driver's account and certificate.
* `RatingFollowsReviews` allows for one thing besides overlaps: an average of 10 or more (or
  -10 or less) that the column refused. The review counts, the rating does not show it,
  and the next change that fits sets it right.
* `TotalMatchesDetails` is as exact as the check it rests on: the price of a topping
  may be a cent off, so lines and total may be a cent apart for each piece.
* `NoRepeatOffer` and `OffersOutward` are about the offers of one service. Together the two
  services may offer an order to one shipper twice, and one nearer after one farther.
* `PermissionsAsAsked` compares what the guard grants with what the request says under the
  guard's own reading of it: a role with `all_food` is granted every permission
  that ends in `_food`.
* Several properties are about handlers nobody overtook (`clean`, `stale`, `overlap`): the
  hazard list in `PROJECT.json` says for each what is exempt. What an overtaken save
  of a whole entity does is visible in the models, and is not claimed to be right.

Disagreements met while modelling, of which no run is kept because a short
behaviour shows them or a longer run contains them: an accepted order has no
foreign key until a later update (`order_flow`); `validTransitions` has no entry for
finished statuses, so a restaurant may reopen them (`order_flow`); the worker may
offer an order that a shipper accepted between its two reads (`dispatch`); the cron for
stuck payments may cancel an order paid since it read its list, and a webhook
without `type`, as MoMo sends it, counts as a success even when it says the payment was
refused (`payment`); a customer's return whose payment id was erased by an overlapping
cancellation completes somebody else's checkout (`Finds`, with a second order); a rating
out of range leaves the review saved and the caller with an error (`food_reviews`);
"today's" earnings are never reset at midnight (`NewDay` of `ShipperStats`).

### Bounds, and why they are enough

* One order in `OrderFlow`, `Dispatch`, `Payment`: no handler reads or writes rows of
  two orders, but for the look-up without a condition in `Payment`, which needs a
  return without an id and a second order: `PaidCorrect` covers any number of orders.
* Three slots in `OrderFlow`, two in the others: each hazard listed needs one handler
  whose entity goes stale and one or two that overtake it. Two shippers: the second
  stands for every other one.
* In `Dispatch` one assignment id, two services, one thread besides them, two of the
  three at work at once (`MaxBusy`), and one waiting job: with one taken by each service, or
  one taken and one waiting, jobs of one row repeat and overlap. `MaxRetries` and
  `MaxAttempts` are 1 for the code's 10 and 15 (both limits are reached and
  passed). When all ids are in use `AddInsert` inserts nothing; the id is free
  again as soon as nothing refers to it.
* In `Payment` two slots and two notifications: a repetition, a failure after
  a success seen by another channel, and every pair of overlapping handlers. An order
  is paid with MoMo or VNPAY.
* In `ShipperStats` three calls (two that overlap and one before or after), and rows
  that start one delivery short of a level and one rejection short of each limit
  (`MCInitCounts`), so that the limits are crossed; two orders, one with earnings
  that are not whole. Hours are one, because the bonus only shifts an amount.
* In `ShipperPool` three windows of time for the two of `NobodyUnfitStays`; three
  places of which one is out of reach; one score, since places already make the
  worth of entries differ; one moment of three in the rush hour, so that a query may
  begin before, in or after it; two values of `extra`, one that takes a score below
  zero, where it is cut off, and `NaN`.
* In `Pricing` one price, discounts of 50 per cent and of 200 in the request (a total
  below zero, cut off), toppings of 0.99 in the row and 1 in the request (a cent apart,
  accepted) and of 1.5 and 1; one change of food, fees or promotion at any
  moment; the cache good for one tick of two.
* In `Listing` pages of one and of two with three rows and one to come: several
  boundaries between pages (two rows can only slip when there is one to slip over and
  a last page the total does not know), a page that is short, and an empty one after a
  deletion. Table and places make every order, filter and tie occur.
* In `Catalog` and `FoodReviews` three operations, two at a time; `TopReviews` and
  `BadReviews` are 1 for the code's 3 and 10; ratings of 1 and of 15, which alone
  does not fit the column, and with another may. In `FoodReviews` customers and toppings are
  interchangeable (`MCFoodReviews` states the symmetry): no action compares them.
* In `Roles` two calls on five starting tables; the tables hold what longer series
  of calls lead to (an account with another address than its key, one linked to
  Google without a role, a driver, an administrator).
* One restart, but for `Dispatch`, which has any number: what is lost is the same each time.
* `CHECK_DEADLOCK FALSE` where the bound on calls ends every behaviour.

### Fairness

Only `Dispatch` and `Payment` state liveness.

In `Dispatch`: from some time on no restart; weak fairness of each worker,
of a thread that has begun, and of the clock: promises settle, pg-boss polls,
time passes. Strong fairness of each cron's treatment of a row and of each timer:
in the program they wait for no thread, but in the model they start one, and the
bound on threads must not starve them. Confirming, accepting and rejecting
are never forced. No property rests on a handler's *caller* coming back.

In `Payment`: weak fairness of a handler that has begun and of the clock, strong
fairness of the stuck-payment cron, for the same reasons. Customers, gateways and
their notifications are never forced.

### Mutants

Each property of a passing run has a mutant: a variant, next to the definition
it replaces, with a defect such as a missing unique index, a swallowed
constraint violation, a look-up by order alone, an untracked offer, a saved copy
that is older than it should be, a limit above another, a rating that is not
refused, a difference looked at in one direction only, a list that holds only the
members a request names. Each is found by the run's own configuration.

## 4. Theorems

All are proved for arbitrary constants under the assumptions of the modules:
`Nil`, `None`, `NotSent`, `NoRating` and `NaN` are none of the ids or numbers, services are
finitely many and none of the threads, the bounds are naturals with `MaxRetries <=
MaxAttempts`, `MaxActive` and `Window` are not zero, initial statuses are in the enum and not
`shipper_received`, fees, distances and totals are naturals, a cart has at least one
piece. Prices, percentages, amounts, toppings and what a query adds to a score are any
integers, and ratings any whole numbers. No id is one of a category and of a
restaurant (they are keys of two tables, which `Rehomed` tells apart by them). E-mail
addresses are no generated values, and the tables of accounts begin with well-formed rows
with different user names, in which a certificate refers to an account. A shipper's orders are
finitely many; a food is hidden after at least as many bad reviews as
`findOne` reads with it. A table that is listed has finitely many rows, numbered as they are
created, and a client asks for at least one row on a page.

| theorem | states |
|---|---|
| `TypeCorrect` | the rows and the entities in handlers keep their types |
| `WinnerCorrect` | nobody but the shipper in the table is told that the order is his |
| `ActingCorrect` | handlers that act for a shipper act for the one in the table |
| `ReceivedCorrect` | "received" is shown only for orders with a shipper |
| `DetailCorrect` | foreign keys refer to existing details, cascades never blank a detail's status |
| `FlowImplementsDelivery` | every behaviour of `OrderFlow` is one of `Delivery` |
| `DispatchTypeCorrect` | rows, queue, trackers, workers and threads keep their types |
| `NoRepeatOfferCorrect` | no service offers an order to a shipper twice while its tracking lasts, whatever the others do |
| `PaymentTypeCorrect` | orders, checkouts and the entities in handlers keep their types |
| `PaidCorrect` | nothing is marked as paid that was neither charged nor reported as paid by MoMo |
| `PoolTypeCorrect` | Map, rows and copies keep their types; no two entries have one place |
| `ActiveCountsCorrect` | the count in the row is that of the deliveries, unless one fell into a held copy |
| `OffersOutwardCorrect` | between two sets of an entry the offers of each service go ever farther |
| `NobodyUnfitStaysCorrect` | nobody is in the pool two windows after he was last fit for it |
| `BestThroughoutCorrect` | nobody who was in the pool throughout a query is worth more than its answer, but for the bonus of a rush hour begun since |
| `StatsTypeCorrect` | row, orders and handlers keep their types, no counter falls below zero |
| `CountsCorrect` | no counter runs ahead; without overlaps none falls behind |
| `WarnedCorrect` | without overlaps nobody is banned for his rejections unwarned |
| `EarningsCorrect` | the total in the shipper's row is what the report adds up from the orders |
| `LevelCorrect` | a delivery in time costs no level, no badge, and sets no milestone back |
| `CatalogTypeCorrect` | restaurants, addresses, foods, categories and handlers keep their types |
| `FoodsFollowCorrect` | no food moves but by a request about it, or by a save that was overtaken |
| `StatusFollowsCorrect` | no restaurant is decided twice, or reopened unasked, but by a save that was overtaken |
| `MenuTypeCorrect` | food, reviews and handlers keep their types for any ratings: what is stored fits its column |
| `RatingCorrect` | the stored rating is the average of the reviews the food has, if nobody overlapped and the average fits |
| `FewReviewsCorrect` | no review is lost by a food with few of them, if nobody overlapped |
| `ListingTypeCorrect` | a page has no more rows than asked for, nobody asks beyond the last row |
| `PagesCompleteCorrect` | who pages to the end while nothing is written is given each row once, in order |
| `OneWriteOneSlipCorrect` | one write makes at most one other row (or two) missing or repeated |
| `PricingTypeCorrect` | rows, cache and bills keep their types, no total is negative |
| `FeeWithinLifeCorrect` | a fee is that of a table of the last five minutes |
| `TotalMatchesDetailsCorrect` | lines and fee make up the total of an order, to a cent for each piece with a topping |
| `OrderAsQuotedCorrect` | an order costs what it was quoted |
| `RolesTypeCorrect` | accounts, roles, permissions and handlers keep their types, roles refer to rows |
| `PasswordWorksCorrect` | unless a stale row was saved, the password last given works, for whoever has an address of his own |
| `RegistrationCreatesCorrect` | a registration that was not overtaken changes no account |
| `OnlyNamedMoveCorrect` | roles change for accounts that are named or read, or by a save that was overtaken |
| `PermissionsAsAskedCorrect` | the guard grants what was asked for, by name or by `all_`, unless the role was written meanwhile |

**OrderFlow.** The invariants are not inductive on their own: what makes a save
safe is what is known of the *stale* entity. `Justified(r)` says it of a handler's
record: at a stage that acts for a shipper he is the one in the table; a shipping
detail it holds exists; a status `shipper_received` it may write back was read
from an order that had a shipper. These facts stay true because of `Grows`: a
shipping detail, once inserted, keeps its shipper. So stale data is out of date
but never about a detail that has gone. `FlowInv` is types, rows and `Justified`
for all handlers; there is one lemma per handler, and lemmas that a step of one
handler leaves the records of the others justified. The refinement maps the
insert of the detail to `Claim`, the reply to `Tell`, a change to or from
`shipper_received` to `Show`, and all else to stuttering.

**Dispatch.** `Tracking` says of every service that each offer it made is in its own tracker or
is the one its worker has just made (`InFlight`). A service has one worker, so no second offer of
its own fits between publishing and tracking; the other service reads and writes the
same rows and jobs, but not this tracker, and timers and retries of old rows make
no offer. `TaskOK` says what a thread or worker has in hand at each stage, which the types need.

**Payment.** `PaidCorrect` has no hypothesis about the reports: any number of returns from MoMo
with any order and result, webhooks, and look-ups by `NULL` that find any checkout. What
they may cause is in `unproven`, and the theorem is that nothing else pays an order: the
returns from VNPAY, and every save of a stale order or checkout. The invariant adds `Charged`
of every handler: whoever will write "paid", because he read it or because he was told, works
for an order that is backed. That stays true while he waits, because neither a charge nor a report is
taken back (`Settled`), and this needs `AskedOnce`: only the request that created an order
opens its payment, and no two requests create the same one.

**ShipperPool.** `FitInv` says that whoever was entered was fit when he was, and that
whatever a subscription is about to enter was fit in the row or in its copy until
now. `SweptInv` bounds the age of entries by two windows, and says that those the cleanup
in progress has dealt with are young enough to wait for the next: the walk awaits at
every entry it removes, but what is set meanwhile is new and what it left behind was
less than a window old. Together they give the two windows of `NobodyUnfitStays`. `CountInv` says that
every copy that will be saved has the count of the row, unless a delivery overlapped
it. `OfferInv` says for each service that nobody it has not notified yet is nearer than the last
it offered the order, so a removal never brings a nearer one back; `QueryInv` that everybody
the walk has passed and whose entry is unchanged is worth no more than the best so far. Worth falls
with time but for the rush hour, which can add its bonus once (`Slack`); if the scores
are `NaN` the sort keeps the order of the walk, and whoever was passed comes later in it.

**ShipperStats.** A lost update restores an old row, so `CountsMatchCalls` must be
known of every row a handler *holds* (`Fits`): it was once the row of the database,
histories only grow, and a completion that is about to save has counted punctuality
but not completion (`Extra`). Without overlaps a handler in progress is alone and its
row `Agrees` with the database, which gives the equalities. For the warnings, `WarnInv`:
the last rejection was judged on as many rejections as the row has now and no more
completions than it has now; `LimitFirst` is the arithmetic: whoever is over a
limit of the bans after one more rejection was over one of the warnings before it,
even if he had completed less then. `WarnedCorrect` assumes that the shipper did not
start over the limit of a ban.

`EarningsCorrect` adds `Books`: the row has the earnings of all orders, but for those of
the completion about to be saved. The code may complete an order twice, or complete
one without earnings, and then the two sums differ; so the invariant (`Balanced`) speaks of them
only when there are as many orders with earnings as completions, and otherwise only
says that there are never more. That is inductive: a completion adds at most one order
to those with earnings, and if it does not the numbers can never be equal again.
`ReportAddsUp` then regroups the sum over the orders into the days of the report
(`SumGroups`). For `LevelCorrect`, `RowInv`: without overlaps the row a handler saves is the
table's with at most one delivery added (`Delivered`); the rest is arithmetic of rounded
percentages, since one more of each never lowers a percentage, even a rounded one.

**Sums.** `SumFunctionOnSet` is a recursive function on the subsets of a set. What it does
is shown by the least counterexample: of a nonempty set of subsets of a finite set one
contains no other (`SmallestSet`), which needs no induction theorem with an operator as
a parameter. From that come the laws used above: an element
may be taken out, two disjoint sets add up, a bound on the terms bounds the sum.

**FoodReviews.** `Knows(h)` says what a handler that runs alone holds: the reviews it averages
are linked, the average it will store is that of the reviews linked now, the row it
will save has the status it read, the list and rating of an owner's edit are those
`findOne` would show. `Alone` says that while no two handlers overlapped there is one
handler at most and it `Knows`. `Hides` is that a food is hidden only after more than
`BadReviews` bad reviews, so what hiding saves never is a list of few. `AverageWithin` is the
arithmetic of rounding, to a hundredth in one function and to a tenth in the other, for totals
of either sign; a rating that is refused is one whose reviews average to 10 or more
(`Beyond`).

**Listing.** Pages are cut from sequences that may differ from request to request wherever
rows tie, so the argument is about numbers and not about positions: in any sorted
arrangement of the rows found, the row at place *i* has fewer than *i* rows strictly before it
and at least *i* that are not after it (`PlaceOf`; exactly *i* - 1 before it when none tie, `PlaceIs`).
Hence a page holds rows with fewer than `page * size` before them, and of two pages
the later never has a row that belongs before one of the earlier (`NextPage`); when nothing ties
a page is the difference of two initial segments (`First`), however it was arranged.
`Clean` says this of all pages given so far, added up with how often a row is in them
(`Count`); at the end the segment is everything. `Slip(w)` is its counterpart after `w` was
written: what had been given of the other rows is some segment `E` of them, of `m` rows or
`m` - 1, and what is given from then on lies between the first `m` and the last taken of the new
order. Two segments of one order are nested (`Nested`), so `E` and the new first `m` differ by one
row at most (`OneOff`): that row is skipped or repeated, and it is the only one if the
total tells of all rows. A total read before the write may be one too low, and the client
then stops one row early: this is the second row (`SlipsFew`).

**Catalog.** `FreshInv` says that whatever a handler holds that nobody has overtaken
is what the tables say (`UpToDate`): the request it decides is pending, the row it
will save has the status of the table, and the list of foods it will save names
exactly the foods of the restaurant or category. A save of such a list changes
nothing (`RehomedHome`, `RehomedCat`), also the second and third save of one request
for new files: each leaves what the next needs. The two action properties follow,
action by action.

**Pricing.** `CacheInv` says that the cached table was in force at some moment since its
read began, which needs two facts of handlers in the middle of a read: their
start is not in the future, and one that is about to insert the defaults found
no row then. With one row at most the defaults it inserts become the table in
force; with two the cache may hold what never was, hence the exception in
`FeeWithinLife`. `PriceInv` says that an order in progress holds the lines of the food
as it is, as long as nothing was written since it began, and that every bill
says the food's total and the fee of some table there has been. `FormulasAgree` is the
arithmetic: the three functions that compute a total agree when the cart names
its discount or there is none, for every price and quantity. `TotalMatchesDetails` follows from
`Near`, multiplied by the quantity, and from the fact that cutting off at 0 brings two numbers
no farther apart (`Clamped`).

**Roles.** The theorems are about `Roles`, the composition, so that they hold of the
requests about accounts whatever requests about roles are in between. `Fresh` says what a handler
nobody overtook knows: the address it registers is not taken; the row it holds has the
table's user name, and the table's password or its own new one; its list of members is the
members of the role, with those it names added or removed; the permissions it
found and those still due are those asked for. `HandlerSteps` splits every step as such
a handler sees it: it is left alone, overtaken (and no longer `clean`), begun, ended or
taken on. Keys and permissions are numbered by the calls so far (`Numbered`), so what
a handler is about to insert nobody else can work on (`Newborn`): this is why a driver's
certificate, which is saved a step after the account, meets the account it was made for
(`Drivers`, which also says that without a stop no registered driver is left without one).
`UniqueNames` is what the database keeps, and what `loginDriver` needs: the row it finds is
the one row with that user name. `Passwords` is `PasswordWorks` without its roles: as long as nothing stale was saved,
every row has the password last given, also rows that cannot log in yet.

Only model-checked: `StuckEventuallyResolved` and `RowEventuallyRemoved` (liveness is
beyond this prover; the first must survive the saves of handlers that put an order
back to `processing_payment` after the cron cancelled it, the second `SaveSent`,
`Release` and `RetrySave`, which may insert again a row that was removed). Every other
property of a run that passes is stated by a theorem above.

## 5. What is not modelled

* Failures of single database statements, but for those that the models name
  (a refused row, a failed save of the tracker, a failed read of the fees, the
  steps of an upload): handlers log and continue, or answer with an error.
* The hourly deletion of assignments older than 48 hours: with it
  `RowEventuallyRemoved` would hold whatever the rest of the code does.
* Deletion of orders and of temporary addresses: single statements, each of which
  the database refuses or not.
* `save` is one step. TypeORM reads the row, compares, and updates the columns that
  differ; a commit between these two statements survives in the columns that were
  equal. The models let the stale entity overwrite all of them.
* The hold protocol (`requestOrderAssignment` to `reassignToOtherShippers`): no
  controller calls it, so none of its states is reached. The queues of orders in the
  tracker of active shippers have no caller that fills them either; `usePromotion`,
  `resetPromotionUsage` and `updateConstraints` have none.
* Code that always fails: `processPayment` asks for a relation the entity lacks,
  `findWithDiscount` throws.
* In `Payment`: the counters of food purchases; `modules/checkout`, left over, which
  writes whatever status is requested; that a payment may be tried again at the
  gateway after a refusal; which rows a restaurant's request may touch.
* `ChatModule` also has instances of `OrderService` and `SystemConstraintsService`. The cron
  jobs of the first are one more handler in the slots of `OrderFlow` and `Payment`; the second
  has a fee cache of its own. A request uses one instance: `Pricing` follows one
  cache, and what the other instance does to the table is among its `InsertDefaults`
  and `EditFees`.
* The payment gateways, maps, storage, mail and push services: external; their
  answers are choices of the models that use them.
* In `Dispatch`, stale saves of *orders* (the subject of `OrderFlow`) and which
  shipper is nearest (the subject of `ShipperPool`): any shipper not yet notified may be
  chosen, or none. One overwritten timer per assignment is kept in `lost`: more of
  them do the same read and save.
* In `ShipperStats`, a midnight within a handler; reviews of shippers, whose average
  is only shown (a rating is a parameter of `Dashboard`); `getShipperStats` and the
  lists of completed orders, which only read.
* In `Catalog` and `FoodReviews`: texts, prices and counters of sold foods.
* In `Accounts`: tokens and their expiry (signed, not stored), hashing, and
  `AddressService`, which writes single rows in one statement each.
* Messenger: only its pages (`Listing`). Sending, reading and blocking insert or
  update one row after a read, like what is modelled elsewhere.
* Notifications, chat, dashboard: read-only reports and calls to the outside.

## 6. Plan

Done: the flow of orders and its contract, dispatch, payment, the shipper's
counters and reports, the pool of active shippers, prices, listings, the
catalogue, reviews, accounts and roles; proofs of every safety property the runs check.

Left, in order of what it would add:

1. `Dispatch` with failing statements, and composed with `ShipperPool`, so that the
   shipper chosen is the nearest; a bound on the rows of one order; more of its
   invariants proved (retries, states of a sent row).
2. An abstract specification of a payment that `Payment` implements (settled at
   most once, shown only if settled), as far as the code does.
3. Messenger: find-then-insert of conversations, and unread counters.
