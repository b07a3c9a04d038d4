# DS-Food-Delivery: specifications, model checking and proofs

This directory specifies DS-Food-Delivery in TLA+: the services that carry an order from a cart to a
delivered meal, the other services around them, and the pages of the two front ends, which decide from
what they have cached. TLC checks the modules on small instances; TLAPS proves every safety property that
the passing runs check, of the services and of the pages.

## The system

| Component | State | Operations | Talks to |
|---|---|---|---|
| order-service, orders | collection `orders` | `OrderRepo`: create from cart, payment status, accept or reject, pickup ready, driver, delivered, cancel | delivery-service (`AddDelivery`, inside a transaction), user-service and notifications (texts only) |
| order-service, carts | collection `carts` | `CartRepo`: add, update, remove items, coupon, clear, get | restaurant-service (`GetItemsById`, `GetRestaurantById`), promotions stub |
| payment-service | none of its own; a Stripe checkout session per order | `createPayment`, `getPayment` | Stripe, order-service (`GetOrderPrice`, `SetPaymentStatus`) |
| delivery-service | collection `deliveries` | add, claim, pick up, complete | order-service (`SetDeliveryDriver`, `SetDeliveryStatus`) |
| user-service | collections `user`, `driver-applications`, `session` | accounts, OAuth, sessions, driver applications | Google |
| restaurant-service | restaurants and menu items | register, update, approve, delete; items | notifications |
| review-service | driver and restaurant reviews | rate, edit, delete, list | delivery-service |
| notification-service | a RabbitMQ queue, acknowledged on delivery | consume, send mail or SMS | RabbitMQ, mail and SMS services |
| upload-service | local file cache over S3 | upload, get | S3 |
| web-ui | query cache, local storage, forms, popups | cart, checkout, order pages, reviews, sign-in, driver dashboard and application | all services |
| admin-ui | query cache, local storage, forms | tables and dialogs of applications, restaurants, menus, orders | all services |
| api-gateway, shared libraries | none | | |

What is hard in it:

- **Concurrency.** Every service runs any number of requests at once against MongoDB. Single-document
  updates are atomic and conditional (`updateIfStatus`); four operations are transactions under
  snapshot isolation: `SetOrderPickupReady`, `CreateOrderFromCart`, `changeApplicationStatus`, `Create`.
- **A call in the middle of a transaction.** `SetOrderPickupReady` calls `AddDelivery` between two of
  its statements. The insertion in the other database is visible at once and survives an abort or retry.
- **Lost, late and repeated calls.** Services tell each other about state changes after their own
  write, once; a failure is only logged. The payment report is sent whenever the browser returns from
  Stripe, as often as the page is loaded.
- **Missing unique indexes.** Nothing makes a user's cart, or an order's delivery, unique.
- **Cached reads.** A page renders its query cache, and a request that has read the database may be
  answered after what the page has done since. Mutations repair this by invalidating keys, or do not,
  when the key is another one.
- **Forms that stay open.** Few buttons are disabled while a call is under way: a second click, another
  row or another page may come between a call and its answer.
- **Processes that end.** notification-service is ended by a refused mail and by a kill, upload-service
  comes back with another disk, and a browser tab is closed with its calls under way.

What makes each part correct:

- orders: a status changes only along the lifecycle, whatever runs at the same time; the fields agree
  with the status; a transaction never overwrites what was written since its snapshot.
- carts: no item is lost, duplicated or bought twice; an order is of one restaurant that sells its items.
- payment: nothing reaches the restaurant unpaid; a reported payment settles the order.
- deliveries: a delivery has one driver for good; what an order shows of its delivery is true.
- sessions: one session per login, however many tabs renew it at once.
- driver applications: a decision is final, and one accepted application makes one driver.
- uploads: nobody is sent a part of an image, and a name that was given out stays good.
- notifications: nothing is sent twice, and what is lost is lost by the end of the process only.
- pages: what was reported as done is so, leaves the lists it was clicked in, and is never shown undone;
  what a form stores is what it showed when it was submitted; buttons come back and requests settle.

## Modules

| Module | Models |
|---|---|
| `OrderLifecycle` | abstract: the states of an order and the steps between them, nothing else |
| `Orders` | `order-service/repo/order.go`, statement by statement where it is a transaction |
| `Deliveries` | `delivery-service/repo/delivery.go` |
| `Payments` | `payment-service/services/paymentService.js` and the Stripe sessions it reads |
| `FoodDelivery` | the composition of `Orders` (EXTENDS), `Deliveries` and `Payments` (INSTANCE) with the calls between them |
| `CartLedger` | abstract: items stay in the cart until their user removes them or one order takes them |
| `Carts` | `order-service/repo/cart.go` and `CreateOrderFromCart` |
| `ApplicationLifecycle` | abstract: an application is filed, and decided or withdrawn at one moment |
| `DriverApplications` | `user-service/repo/driver_appl.go`, and the updates of users that race with it |
| `Sessions` | `user-service/repo/session.go`, `app/session.go`, and the refresh cookie that the tabs of a browser share |
| `Notifications` | `notification-service` and the queue that `shared/notify` publishes to |
| `Uploads` | `upload-service`: the disk as a cache of S3, shared downloads, what is remembered as missing |
| `QueryCache` | one entry of the query cache of a page (@tanstack/react-query, external) |
| `CartPage` | cart dialog and checkout of web-ui |
| `OrderPages` | the pages that show an order and decide on it, on top of `OrderLifecycle` |
| `Reviews` | `review-service` and the page of a restaurant |
| `SignIn` | registration, login and Google popup of web-ui with the handlers of user-service |
| `ClientSession` | the tokens of the tabs, the interceptors of `api/client.ts`, login and logout |
| `DriverDashboard` | the tabs of a driver, on top of `Deliveries` |
| `ApplicationForm` | the form of a driver to be, on top of `ApplicationLifecycle` |
| `ApplicationDesk` | the tables, dialogs and pages that decide on applications, on top of `ApplicationLifecycle` |
| `RestaurantDesk` | the restaurants of `restaurant-service`, the tables that approve and delete them, the customers' list |
| `RestaurantForms` | registering, editing and deleting one's restaurant |
| `MenuDesk` | the menu of `restaurant-service` and the page that manages it |
| `Orders_proofs`, `FoodDelivery_proofs`, `Carts_proofs`, `Sessions_proofs`, `Uploads_proofs`, `Desks_proofs`, `PagesLive_proofs`, `Customers_proofs` | theorems and proofs; the last three are about `MCDesks` (which extends `DriverApplications`), `MCPagesLive` (which extends `Notifications`) and `MCCustomers` |
| `MCOrders`, `MCFoodDelivery`, `MCCarts`, `MCSessions`, `MCCustomers`, `MCDesks`, `MCPagesLive` | instances for TLC |

The page modules do not repeat the services: `OrderPages` moves the order along `OrderLifecycle`, which
`Orders` is shown and proved to implement (`ImplementsLifecycle`), and the pages about applications move
them along `ApplicationLifecycle`, which `DriverApplications` is shown and proved to implement. `DriverDashboard` uses the
actions of `Deliveries` themselves.

### How transactions are modelled

MongoDB itself is outside of the repository; its behaviour appears in a few small operators (`Locked`,
`Conflict`, `MarkStale` and the like) that are the same idea in every module:

- A transaction has a snapshot from its first statement: what it reads later is what was there then.
- A document it has written is locked until it ends. A write outside of transactions waits for the
  lock; a write of another transaction conflicts.
- Writing a document that somebody has committed a write of since the snapshot is a conflict. It
  aborts the transaction, and `WithTransaction` runs the callback again from the start (phase `retry`).
- A transaction may also fail for good at any statement: the database or a call fails, the driver's
  two minutes of retries are over, or the service stops (`PickupAbort`, `CheckoutAborts`, `DecisionAborts`).
- Its writes become visible all at once at commit. A read that is followed by no write of the same
  document causes no conflict, which is why `Create` in `DriverApplications` may leave a driver with a
  pending application.

### How pages are modelled

- An entry of the query cache (`QueryCache`) is what is rendered, and a fetch that is idle, sent or answered:
  the service reads its database at "answered", and the page renders it later. Mounting, focus and
  polling fetch an entry unless it is being fetched; invalidating cancels a fetch under way and starts
  another one, but not the first fetch of an entry; writing an entry (`setQueryData`) leaves a fetch under
  way, which will overwrite it. These are the library's defaults, and the clients of both front ends keep them.
- A click makes a call: sent, handled by the service in one or more steps, answered or lost, and then
  applied to the page by the callbacks of the mutation, which run even when the page was left, or by the rest of an
  async function. What the callback captured when it was clicked is kept in the call.
- Other users act on the same service by actions of their own (`...Elsewhere`).
- `told` is history: what a page has reported as done by a toast.

### State and code

`Orders`: `orders[o]` is the document with id `o` (status, `transaction_id`, `driver`, `delivery_id`);
prices, addresses and texts are left out. `pickup[r]` is one `SetOrderPickupReady` request: where it
is, which order, whether its first statement changed the document (`wrote`), whether the snapshot
is out of date (`stale`), and the delivery id it got. Each other operation is one action, since it is
one conditional `UpdateByID`; an update whose condition fails changes nothing and is not a step.
`CreateOrder` stands for the insertion of `CreateOrderFromCart`.

`FoodDelivery`: `calls` is the set of calls to order-service that have been decided on and not been
handled. A set loses nothing against a bag: handling two equal calls is handling one, being refused,
and being called again. `GetPayment` reads the session and puts the report in flight; the session may
change before it is handled. `ClaimDelivery` and `CompleteOrder` write the delivery and put the
report in flight; `CompleteOrder` also notes delivery and driver in `completed`, which is history. `PickupOrder` reports a status that `SetDeliveryStatus` ignores. With `Lossy`, a call
may vanish: the service stopped between write and call, or the call failed.

`Carts`: record ids stand for the order in which a collection scan meets documents, so that FindOne on
a user with two carts takes the first, as the database does. An upsert that finds no cart inserts one
in a later step (`upserts`), which is how two carts arise. An `Amount` stands for amount and extra
data. The reads of the items of a cart are taken at the moment the restaurants are compared.

`DriverApplications`: `decisions[r]` is one approval or denial; `found` is the applicant in its
snapshot. The fields of profile and application are named by the application they come from.

`Sessions`: a token names its session and its secret is as old as the session, so the session id stands
for it. `requests[r]` is a login or a refresh: it spends the token in one update (`UseSessionRefresh`),
then inserts a session, then answers, and it may be lost after each of these. `expired` ends the access token after
30 minutes; the refresh token is good until it is spent. `revoked` is history: it tells the sessions that
`InvalidateSession(s)` ended from those that were renewed, which the code stores in the same way. No
handler calls these two operations yet; the model lets them happen at any time.

`Notifications`: `queue` is the broker's, `handling` and `sending` are what one process holds between the delivery of a
message and the end of the calls for its receivers; `Exit` is an unhandled rejection, `kills` a deployment.

`Uploads`: `disk[n]` and `tmp[n]` are the files under a name and under its temporary name, absent, partial or
whole; `flight[n]` is the singleflight of a download; `get[g]` one request. A restart forgets what was
remembered as missing and may lose the disk. `damaged` is history: files whose `Close` failed, which the code
logs and serves all the same.

`CartPage`: a call that is handled is answered, or fails: without a write (the service refuses, or does not answer), or after it
(`populateCart` or the answer's way back). The coupon is stored before it is looked up (`cart.go:160`, `178`), so an unknown one stays in the
cart, and reads and orders fail until it is changed or cleared.

The variables of a page module are named in its head, after the hooks and queries of the components.

## Runs

| Run | Instance | Shows |
|---|---|---|
| `Orders` | 2 orders, 3 pickup-ready requests, 2 drivers, 4 delivery ids | the transactions' locks are sound (`LockSound`), documents are consistent (`FieldsMatchStatus`), and every write is a lifecycle step (`ImplementsLifecycle`) |
| `Orders_unpaid` | 1 order, 1 request | **violation**: an order leaves `payment_pending` unpaid |
| `Orders_canceled` | 1 order, 1 request | **violation**: a canceled order is marked ready, with success and a delivery |
| `FoodDelivery` | 2 orders, 1 request, 2 deliveries, 2 drivers, calls may be lost | nothing unpaid is accepted, delivered orders were completed, claims are final, the driver and the delivery an order shows are its own |
| `FoodDelivery_live` | 1 order, 2 requests, no call lost, fairness | a reported payment settles the order |
| `FoodDelivery_early_claim` | 1 order, no call lost, fairness | **violation**: an order awaits pickup forever although it was picked up |
| `Carts` | 1 user, 2 item ids, 2 checkouts, 2 carts, a menu of 2 restaurants and a coupon that is refused | nothing is lost, duplicated or bought twice (`ItemInOnePlace`, `ImplementsLedger`), orders are of one restaurant that sells all their items |
| `Carts_shown` | 1 user | **violation**: two carts of one user, of which one is shown |
| `Sessions` | 2 users, 2 browsers, 4 requests, 3 sessions | one session per login (`OneSessionPerLogin`); a browser whose token was spent is about to get a new one (`CookieIsRenewed`) |
| `Customers` | checkout, order pages, reviews, sign-in, tokens and the tabs of a driver, with two calls, attempts, browser tabs or requests at a time, failures, lost answers, and the other tabs and devices of the user | what the pages of web-ui report and show is what the services hold |
| `Desks` | driver applications (2 users, 2 applications, 2 decisions), and the pages of owners and administrators: two clicks at a time on two pending applications, on two restaurants, on a registration and on a menu; one where the question is about two pages or two menus | a decision is made once and stands; what was reported is so and leaves its list; forms store what they showed |
| `Pages_live` | small instances of pages and notifications under fairness, and uploads with and without S3 | pages catch up, forms come back, requests settle, the queue drains; nothing is sent twice, nothing is served in part or forgotten |

The last three runs hold several parts each. The parts share no variable and every property speaks of one
of them at a time, so nothing is gained by interleaving them: `moving` chooses at the start which part
moves, and the states add up instead of multiplying. A property of such a run is the conjunction of the
properties of its parts (`ToldHolds`, `StoredAsPressed`, `DecisionsAsTold`, `PagesCatchUp`, `WaitingEnds`, ...), which are defined and explained in
their own modules.

**Bounds.** Identifiers (`DeliveryId`, `Request`, `CartItemId`, `Checkout`, `Application`, `Decision`) are
used once, so their sets bound how many operations there are. Transactions interact in pairs through
one document, so two requests show every conflict; `Orders` has a third, so that one holds the
lock, one waits for it, and one has read without writing. `MaxCarts` = 2 lets the upsert race happen for
one user; carts of different users share nothing. In `FoodDelivery` several orders, and in `FoodDelivery_live` several
requests on one order, are separate instances; requests of different orders share no document, and the
theorems hold for any number of both. In
`Sessions`, four requests are a login, two refreshes with its token, and one with the renewed token.
The safety properties of the passing runs are also proved; Proofs says which sizes the theorems leave open.
A page needs two calls under way to have them answered out of order, overlap or close each other's dialog; where one call is used, what
is at stake is a call against fetches, other pages and other users. The checkout has one tab in full, and the other tabs and devices of
the user are `OtherClient`, which may change the cart at any time. A page of reviews has two, so a full page can hold the own review or newer ones.
Two updates of a restaurant overlap in every order and have one text in the run, but images to be told apart by; the theorem is for any
texts and any number of updates. Each entry of a cache has one fetch at a time by itself. `Notifications` has three messages: one with two receivers, one with one, one
that does not parse; a queue of three and two kills' worth of restarts reach every order of losing and sending.
`Uploads` has two names that are given and one that is not, and two requests, which may share a download.

**Deadlock** is checked in the `FoodDelivery` runs; there the page of the payment can always be
loaded again. In the other modules every order may be closed and every request answered.

**Fairness.** Nothing is assumed of customers, restaurants, drivers, Google and Stripe: no one has to pay,
accept, claim, complete or click. What is assumed is stated as `Fairness` in the module it is about, and in
`Pages_live` of the part that moves only:

- `FoodDelivery`: a pickup-ready transaction that has started goes on: the callback
  runs to its end in one process, the MongoDB driver retries conflicts, and after two minutes
  it gives up, which is a step too. A call in flight is handled: gRPC delivers it or fails, and without
  `Lossy` it does not fail. Weak fairness is enough, because a lock on the order ends by the
  transaction's own fairness and then stays open to the report until it is handled.
- `SignIn`, `ClientSession`, `ApplicationForm`: a call that was sent is answered or lost (the browser ends it by an error), and its
  continuation runs (the event loop of a tab that is open).
- `OrderPages`, `DriverDashboard`: the interval of a page that polls fires, and a fetch that is repeated for ever
  succeeds now and then (strong fairness of the service's answer, because any one fetch may fail).
- `Notifications`: the deployment starts the process again, a connection attempt is made, the broker hands over
  what is queued, parsing ends, and calls of the mail service end. Refusals of the broker and kills are bounded,
  as they must be for a queue to drain.

Nothing is assumed of `Reviews` and `CartPage`: a fetch that failed is not repeated when nothing polls, so that a review or a cart is shown in
the end is not claimed.

## What the violations show

- `Orders_unpaid`. `SetOrderPickupReady` accepts `payment_pending` (`order.go:218`), against the comment
  on `StatusPaymentPending` (`models/order.go:12`).
- `Orders_canceled`. The check after its first statement is commented out (`order.go:230`), so the
  request succeeds on any order, makes a delivery and stores its id; the test at
  `order_test.go:242` expects `ErrStateChange`.
- `FoodDelivery_early_claim`. `AddDelivery` is visible before the transaction commits. A driver who
  claims at once is reported while the order is still `preparing_order`; the report is refused, and
  the order stays `awaiting_pickup` while the driver picks it up and completes it.
- `Carts_shown`. Two first additions at once make two carts (`cart.go:49`, no unique index). Only
  one is shown, until it has been ordered. `Carts` shows that nothing worse follows: the hidden items are neither
  lost nor bought twice.

### Disagreements without a run

Modelling the pages met more places where a text promises what the code does not do. Each is stated as a
property in its module; naming it in the configuration of the instance shows the counterexample.

| Property (instance) | The code | The text |
|---|---|---|
| `HeaderCountsOwnReview` (`MCCustomers`, PROPERTY) | src/web-ui/src/components/restaurant/RestaurantHeader.tsx:16: The header keys its query by the restaurant object, ["reviews", restaurant, 'avg'], so the refresh after a review misses it and the old average stays | src/web-ui/src/components/restaurant/RatingDialog.tsx:63: queryClient.invalidateQueries({ queryKey: ["reviews", restaurantId, "avg"] }) |
| `NotFoundIsTrue` (`MCCustomers`) | src/review-service/services/driverService.js:9: createRating throws when delivery-service has found the delivery (if (delivery)), so no driver is ever rated | src/review-service/services/driverService.js:10: throw new Error("Delivery not found") |
| `FailureIsLocal` (`MCPagesLive`, INVARIANT) | src/notification-service/src/server.ts:41: emailService.send and smsService.send are not awaited, so a refusal of the mail or SMS service is an unhandled rejection that ends the process, with every message already delivered to it (noAck) | src/notification-service/src/server.ts:45: } catch (e) { and :46 console.error(e): errors of a message are to be logged |
| `OrdersWithinLimits` (`MCCustomers`) | src/web-ui/src/pages/Checkout.tsx:84: The limits are tested on the cart the page has cached and by no service: an order placed after another tab changed the cart may be outside of them | src/web-ui/src/pages/Checkout.tsx:91: "Maximum order price is LKR 20,000" |
| `CanceledAsTold` (`MCCustomers`) | src/web-ui/src/pages/Checkout.tsx:77: The page reports the cancellation before it asks for it, and nothing is done when that call fails too: the order stays payment_pending | src/web-ui/src/pages/Checkout.tsx:75: "Failed to make payment. Order has been canceled" |
| `RegisteredCanLogIn` (`MCCustomers`) | src/user-service/models/user.go:98: ToUser does not copy the password of the request, so CreateUser finds no password to hash and every later login of the account is refused | src/user-service/app/user.go:94: "// hash the user password" |
| `BlockedCanRetry` (`MCCustomers`) | src/web-ui/src/components/common/OauthButton.tsx:52: handleOAuthLogin returns without setIsLoading(false) when the popup was blocked, so the button stays disabled after the customer has allowed popups | src/web-ui/src/components/common/OauthButton.tsx:51: "Popup blocked. Please allow popups for this site." |
| `LogoutLasts` (`MCCustomers`) | src/web-ui/src/components/common/UserMenu.tsx:14: Logging out clears the store of the tab and leaves the session and the refresh cookie: a request under way that is answered by 401 renews the session and signs the tab in again | src/web-ui/src/components/common/UserMenu.tsx:15: toast.success("Logged out successfully") |
| `CompletedStays` (`OwnTabs` of `MCCustomers`, as a PROPERTY) | src/delivery-service/repo/delivery.go:132: DeliveryPickup filters by id and driver only: a second pickup call that arrives after the completion sets the delivery back to picked up | src/web-ui/src/components/delivery/ActiveDeliveries.tsx:36: "Delivery completed successfully" |
| `CanRetry` (`MCDesks`) | src/web-ui/src/pages/Application.tsx:151: The uploading flag is reset by a successful upload only, and the button is disabled while it is set: after a failed upload the form cannot be sent again | src/web-ui/src/pages/Application.tsx:177: "Failed to submit application. Please try again later." |
| `DriversSeeNoForm` (`MCDesks`) | src/web-ui/src/pages/Application.tsx:32: The page tests for the role user_driver1, user-service grants user_driver, so drivers see the form | src/web-ui/src/pages/Application.tsx:31: "// Check if user is already a driver" |
| `RejectDenies` (`MCDesks`) | src/admin-ui/src/pages/driver/ViewDriverApplication.tsx:126: The button sends the reason "Rejected", 8 characters, and src/user-service/handlers/dto.go:16 demands min=10, so the denial is always refused, silently | src/admin-ui/src/api/driver.ts:95: "denies the driver registration application by id" |
| `ReasonsAreLong` (tables of `MCDesks`, with `Typed` holding "padded") | src/admin-ui/src/components/driver/PendingDriverApplications.tsx:140: handleDeny goes on after the message: a reason whose length is made up by spaces is sent and stored | src/admin-ui/src/components/driver/PendingDriverApplications.tsx:138: "Rejection reason must be at least 10 characters!" |
| `TryAgainFetches` (`MCDesks`) | src/admin-ui/src/components/driver/AllApprovedDriverApplications.tsx:135: The button refetches ["driverApplications"], the key of no query of the page, so nothing happens | src/admin-ui/src/components/driver/AllApprovedDriverApplications.tsx:138: "Try Again" |
| `DetailsOfRow` (`RestaurantDetails` of `MCDesks`, with two restaurants) | src/admin-ui/src/pages/RestaurantDetails.tsx:15: The key ['restaurant'] has no id: while a fetch for one restaurant is under way the page of another one is answered by it | src/admin-ui/src/components/restaurant/PendingRestaurantTab.tsx:81: title="View Restaurant" |
| `ListAsCounted` (`MCDesks`) | src/web-ui/src/components/restaurants/RestaurantList.tsx:52: The list maps data instead of filteredRestaurants, so a search changes the count and not the list | src/web-ui/src/components/restaurants/RestaurantList.tsx:34: "Showing {filteredRestaurants.length} restaurants" |
| `LastUpdateStays` (`MCDesks`) | src/admin-ui/src/pages/UpdateRestaurant.tsx:129: Nothing is disabled during an update: two of them may reach the service in the other order and the earlier one stays, though both are reported | src/admin-ui/src/pages/UpdateRestaurant.tsx:129: "Successfully updated restaurant." |
| `RemovedImageGoes` (`MCDesks`) | src/admin-ui/src/pages/UpdateRestaurant.tsx:305: Removing an image clears the preview, the update then leaves the image out and the service keeps the stored one | src/admin-ui/src/pages/UpdateRestaurant.tsx:305: <span className="sr-only">Remove</span> |
| `MenuOfRestaurant` (`MCDesks`) | src/admin-ui/src/pages/MenuManagement.tsx:17: The key ['own_restaurant_menu'] has no restaurant id: one entry serves the menus of all restaurants, and a page shows that of the one visited before | src/admin-ui/src/pages/MenuManagement.tsx:57: "A list of all own restaurant Menu Items." |

Beside these, five properties are stated with the exception the code makes, so that they say what it does guarantee:

- `ToldLeavesTable` (restaurants) and `ToldLeavesMenu` speak of pages that are not left meanwhile. The list of a page that
  was left is marked as outdated but not fetched, and a fetch from before the deletion may still be under way when it is
  shown again: the deleted row is back until the next fetch.
- `UpdateAsTold`: nothing is disabled during an update, so an update that was reported may be overtaken by one that was under way when it was
  pressed, and is replaced by one pressed later. What is stored is always from it or one of those, and of each image it chose it has its choice or one of
  theirs; `beside` is history, the presses under way when this one was made. That the last one stays does not hold (`LastUpdateStays`, the table above).
- `UndisturbedTabAgrees` excepts a tab that may have missed something since its cart was last read (`disturbed`, history): calls of it overlapped, or
  a call and a fetch did; a call was carried out and failed all the same, because `populateCart` fails after the write (`cart.go:72`, `144`, `178`) or
  the answer was lost; a fetch failed; or another tab or device changed the cart. None of the pages repairs these before the next fetch.
- `OwnReviewKept` lets a page show a list without the own review if it is a full page of newer ones, or if the review was deleted.
- `ServedIsWhole` excepts the files in `damaged`, whose `Close` failed after everything was written.

One hazard has no property: a customer who follows Stripe's cancel link is told that the payment failed, and may pay
the session later (`paymentService.js:64`). `Payments` contains it; the code states nothing about it, and the order is settled by
the next report.

## Proofs

All proofs hold for every value of the constants of the modules they are about, under the assumptions named there. `MCDesks`
and `MCPagesLive` give pages one or two rows, calls or tabs; for these, `Desks_proofs` and `PagesLive_proofs` first prove the pages with
the sizes as parameters, and then show the instances to be cases of that. `MCCustomers` leaves tabs, calls, requests, attempts and sessions open,
and has the other sizes of its runs: one delivery for the tabs of one driver (`DriversSeePickups` of `PagesLive_proofs` is for any), the reviews
of two users on one restaurant.
The assumptions:

- Values that stand for "nothing" are not ids or data: `NullsAssumption` (`Orders`), `SessionsAssumption`, `ApplicationsAssumption`,
  `NothingAssumption` (`MCCustomers`, `MCDesks`, `MCPagesLive`), and the first conjuncts of `CartsAssumption`.
- The transaction id of an order's payment is named by the order (`SystemAssumption`; the idempotency key of the session is
  made of the order id). A coupon is known or refused and every item has a restaurant (`CartsAssumption`). A message has receivers,
  and counts are numbers (`NotificationsAssumption`). There are finitely many items and attempts, amounts and page lengths are natural
  numbers, and ratings are integers (`SizesAssumption` of `MCCustomers`).
- The theorems of `Uploads_proofs` have hypotheses of their own, since they are what two deployments differ in: names are random, so no upload gets a
  name somebody has made up (`NamesAreRandom`; the code draws a UUID), and without S3 the disk is kept (`FilesAreKept`).
  `PagesLive_proofs` discharges both for the instances the run checks.
- So have the theorems about single pages in `Desks_proofs` (`RestaurantsAssumed`, `MenuAssumed`, `FormsAssumed`, `DesksAssumed`): "nothing" is no
  value, a form has a logo and perhaps a cover, a page of one application is open only if there is one. Lemmas (`RestaurantsAreAssumed` and
  the like) discharge them for the instances of `MCDesks`.

`Orders_proofs`. The inductive invariant `IInv` is `TypeOK`, `RequestsSound`, `LockSound` and
`FieldsMatchStatus`. `LockSound` is what makes the commit safe: it writes the status again without testing
it, and the old status is still one of `ReadyFrom` because the transaction holds the lock. It needs that a lock
excludes other writers (`UpdateIfStatus`) and other transactions (`PickupUpdate`). `RequestsSound` says
that a request whose transaction has started is about an existing order, and that the delivery id it is
about to store is not missing. With it, `Refinement` maps every step to one of `OrderLifecycle` or to a stutter.

`FoodDelivery_proofs`. `SystemImplementsOrders` shows that every step of the composition is a step of
`Orders` or leaves its variables alone, which carries `IInv` and the lifecycle over. `SystemIInv` adds what
relates the services: `DeliveriesSound` (an existing delivery has an order, a claimed one a driver),
`IdsSound` (the ids handed out are those of existing deliveries, and the id a request is about to store is that
of a delivery of its order) and `CallsSound` (a call in
flight reports something that is true for good: a paid session stays paid, a claim is final, a delivery
reported as completed was completed by its driver). `completed` is history, written by `CompleteOrder` only: the state of a
delivery is no evidence, since a pickup may come after the completion and set it back. Each of the four invariants then follows from what the handled call says.

`Carts_proofs`. `ItemInOnePlace` is not inductive: an upsert that found no cart holds an item that is in no cart
yet, and a checkout places the items it has read. `CartsIInv` adds `UpsertsSound` (such an item is nowhere else) and `CheckoutsSound`: a
snapshot that is not marked as stale is the cart, and a checkout that has placed its order is alone on its cart, the cart is still
what it has read, and the order can be sold. Hence the commit moves the whole cart, which is the one step of
`CartLedger` that it is mapped to (`CartsRefine`); everything a checkout does before is a stutter.

`Desks_proofs`, the service. `ApplicationsIInv` says the same of a transaction over two documents: what was read and not marked as
stale is still so (`SnapshotsSound`), and no two transactions have written the same document (`LocksExclusive`). A decision that has granted
the role has therefore found a user without a profile, and at its commit the application is pending, so `DriversWereAccepted` stays true and
the commit is a step of `ApplicationLifecycle`.

`Desks_proofs`, the pages. `Restaurants(R, O, C)`, `Menu(R, P, A, L)`, `Forms(T, F, I, P, G)` and `Desks(A, v, O, Ty, C)` are the modules with restaurants,
pages in use, clicks, presses, texts and files as parameters; lemmas named `Same...` identify each instance of `MCDesks` with one of them.

- Restaurants (`RestaurantsIInv`): what a page shows or is about to show was stored (`QueriesSound`), a click that is under way is
  about the row it was made on (`ClicksSound`), and what was reported is so (`ToldSound`). That nobody sees a reported row again
  needs `TableSound`: once a deletion or approval is reported, no answer on its way has the row, and nothing shown has it unless
  the fetch after the invalidation is still to be answered (an approved one may be back if it was unapproved since). It is proved for one table in use (`OneTable`).
- Menus (`MenuIInv`): a press writes to the menu that was open when it was made (`PressesSound`), so `MenuAsPressed` holds however often the owner
  goes to another menu meanwhile. `MenuSound` is the `TableSound` of menus that are not left.
- Forms of restaurants (`FormsIInv`): a press carries the text and the images that the form showed (`FormsSound`, `EditedSound`), in whatever order its
  uploads end. `UpdatesSound` says that an earlier press is over when a later one begins or was noted beside it, and that an update that was carried out is what is stored but for those beside it or after it.
- The form of a driver (`SubmissionSound`) files what was pressed, and its images are stored before the application names them.
- Applications (`DeskIInv`): a reported decision is the status of the service for good (`DecisionsSound`), it is gone from its table (`TableGone`), and
  a page of one application that shows it as decided waits for no older answer (`PagesSound`).

The general theorems are `RestaurantsKeepReports`, `TablesForgetReported`, `MenusAreAsPressed`, `MenusForgetReported`, `FormsRegisterAsPressed`,
`FormsUpdateAsTold` and `DesksKeepDecisions`. `DesksIInv` puts the invariants together for the part that moves (`PartsIInv`, `TablesIInv`, `OwnersIInv`), from which
`ReportsHold`, `ReportsLeaveLists`, `StoredIsAsPressed`, `DecisionsStand` and `DesksTypeCorrect` follow.

`Sessions_proofs`. `SessionsIInv` adds to `CookieIsRenewed` that an id was created by one request
(`CreatedSound`), that a browser has and sends only tokens it has received itself (`TokensReceived`), and that an
answer on its way carries a token that nobody has spent (`AnswersUsable`). Hence only requests of the same browser spend the
token in a cookie, and the one that did leads to a token that can be used. `LoginHasOneSession` speaks of all sessions a login was renewed by.
`SpentOnce` says that one request has spent a token; so the renewals of a login form a chain of which only the last link can be
refreshed. `RenewedFrom` is the smallest set that is closed under renewals, so no induction over the chain is needed.

`Uploads_proofs`. `UploadsIInv` relates the disk, the downloads and the requests: a part of a file belongs to an upload that was not answered or
could not be closed (`FilesSound`), a download that renames has the whole file, and no name that was given is remembered as missing (`DownloadsSound`),
since it is asked for only after it was given (`RequestsSound`).

`PagesLive_proofs`. `NotificationsIInv` adds `StagesSound`: a message is once in the queue, then handled, then sent to each of its receivers, and never
goes back, however often the connection is refused or the process ends. The second part instantiates `Uploads_proofs` twice.
The third is about the dashboards, for any drivers, deliveries, calls and tabs: that the list of a driver has no delivery that nobody has claimed is not a
matter of the page but of the service, where every delivery past `unclaimed` keeps its driver, which `BoardIInv` carries. `PickupIInv` adds that a call about a pickup was made from a list that is shown and, once answered, has done it, and that a list in
front of which a pickup was reported waits for no older answer; `DriversSeePickups` follows. `LiveTypeCorrect` joins the types of the three parts.

`Customers_proofs`. `MCCustomers` is proved about as it stands, with any number of calls, attempts, requests and tabs where the runs have two
(`Two`, finite because the numbers of users are counted), and of sessions. The sections are one per page; a step of another page leaves its variables alone.

- Tokens (`ClientIInv`): an answer on its way to the browser carries a token that is good and that nobody else has (`AnswersAreFresh`), and
  unless an answer was lost the browser has a good token or one is on its way (`GoodTokenIsNear`). `CookieIsGood` is what remains when no refresh is under way.
- Signing in (`SignInIInv`): the URL of an attempt is asked for once, and nothing was exchanged for an attempt that the server still waits for.
- Order pages (`PagesIInv`): what a page shows, and each answer on its way, was once the status of the order, in the order in which they were
  read (`EntriesBehind`), which gives `ShownNeverGoesBack`. `ToldSettled` says that a page that has reported a decision waits for no answer from
  before it. That is what makes `ToldHolds` inductive: the invalidation after a call cancels a fetch that was sent earlier. `DashboardIInv` is the same for the deliveries of a driver.
- Cart and checkout (`CheckoutIInv`): an item that was ordered has left the cart and is in no other order (`OrderedOnce`); one call at most
  asks for the payment of an order, and none after the order was called canceled (`PaymentsSound`). For a tab that is not
  disturbed, `CallsInTurn` says that the entry is the cart of the service or the one call that was answered is about to make it so.
- Reviews (`ReviewsIInv`): an answer on its way was read after the own review was stored, so the list has it or is full of newer ones. That a list without
  it is so is a fact about counting (`NewestFill`: the P newest of a finite set are P or all of them). It is proved without the induction rules of the library,
  from the minimal element that a well-founded order gives (`SmallestSet`).
- Types (`CustomersIInv`): they are not free, because what a page computes has a type only if what it computes from does. The size of a cart, which the page
  compares with its limits, is a recursive sum over the items; `SizeIsNat` shows it to be a number by counting the units of the cart (`Units`),
  and `CartBounded` bounds the amounts. `AccountsIInv` has every account that an attempt names, `ErrorsIInv`, `TabsIInv` and `ReviewTypesIInv` the rest of the pages.

Only model-checked is liveness: `ReportedPaymentSettles`, `PagesCatchUp`, `WaitingEnds` and `MessagesDelivered` need fairness and
ENABLED, which are out of the prover's reach. Every other property of a passing run is stated by a theorem, as are its types. What a recursive definition
computes is used in `SizeIsNat` only, where the sum is shown to be a number and not what number it is.

## Refinements

- `Orders` implements `OrderLifecycle` (checked by `Orders`, proved in `Orders_proofs` and for the composition in `FoodDelivery_proofs`).
- `DriverApplications` implements `ApplicationLifecycle` (checked by `Desks`, proved in `Desks_proofs`): a decision takes place at the commit of its
  transaction, whatever its statements met before.
- `Carts` implements `CartLedger` (checked by `Carts`, proved in `Carts_proofs`): an order takes its items at the commit, and no update made during the checkout
  is taken along or lost.

## Not modelled

- Prices, discounts, addresses and texts, where no property depends on them: the limits of a checkout are modelled in `CartPage`, a price of zero
  and the discount of a coupon are not. The promotions service is a stub in the code; it appears as the set of coupon ids it knows.
- The query for nearby deliveries: which drivers see a delivery is left open, so every driver may.
- Stripe beyond its checkout sessions; the expiry of its idempotency keys.
- The mails that orders and approvals cause, from the side of the service that causes them. `Notifications` starts at the queue.
- A restaurant that is deleted while it is in a checkout: `Carts` reads the menu at one moment.
- A restart of the broker: the queue is durable (`rabbitmq.ts:25`, `notify.go:43`), its messages are not published as persistent, so what waits is lost.
- The fields of menu items, restaurants and profiles, one of which stands for all, and `UpdateMenuItemImageById`, which no page calls.
- `CouponDialog.tsx`, which no page uses; pages of static or mock data (`Home`, `AboutUs`, `DashboardHome`, `PromotionPage`,
  `PaymentManagement`); `components/ui`, the generated widgets.
- api-gateway, k8s and rabbitmq configuration, generated gRPC code, and the shared libraries for configuration, logging and validation: they
  keep no state.

## What could be added

- `OwnReviewKept` of `MCCustomers` with users and restaurants as parameters too, in the way `Desks_proofs` does it and `DriversSeePickups`
  has done it for `PickupShown`: its proof speaks of two users and one restaurant.
- `ToldLeavesTable` with two tables of restaurants in use at the same time, whose clicks invalidate one query each.
- What the cart and the checkout compute (totals, discounts), which no property speaks of.
