---------------------------- MODULE MCCustomers ----------------------------
(***************************************************************************)
(* Instances of the pages of web-ui, for TLC.  The pages share no          *)
(* variable and every property is about one of them, so interleaving them  *)
(* would add no behaviour any property could tell: at the start one of     *)
(* them is chosen to move, and the states are the sum of their states      *)
(* instead of the product.                                                 *)
(***************************************************************************)
EXTENDS Integers, FiniteSets, TLC

CONSTANTS NoData, None, DONE, FAILED, Empty, NoDriver, NoTxn, NoOrder,
          Two,       \* two calls, attempts, tabs or requests, as the page has them
          Session,
          Slot, price, Amount, MaxSize, MinTotal, MaxTotal, Discount, MaxOrders, \* of CartPage
          Given, PageSize, MaxReviews                                            \* of Reviews

VARIABLES
  moving,                                              \* the pages that move
  cart, used, orders, cache, cartCall, paying, toldCanceled, disturbed,
  orderStatus, driver, txn, entry, error, listTab, click, told,
  reviews, lastId, list, header, dialog, own, handedOver, rating,
  users, verifiers, exchanged, page, attempts, loading, call, popup, watching,
  listening, message, signedIn, registered, refused, blocked,
  sessions, cookie, storage, store, request, refresh, current, left, lost,
  deliveries, tab, online, near, mine, mineFailed, press, pending, seen

checkoutVars == <<cart, used, orders, cache, cartCall, paying, toldCanceled, disturbed>>
orderPagesVars == <<orderStatus, driver, txn, entry, error, listTab, click, told>>
reviewPagesVars == <<reviews, lastId, list, header, dialog, own, handedOver, rating>>
accountsVars == <<users, verifiers, exchanged, page, attempts, loading, call, popup, watching,
    listening, message, signedIn, registered, refused, blocked>>
clientVars == <<sessions, cookie, storage, store, request, refresh, current, left, lost>>
dashboardVars == <<deliveries, tab, online, near, mine, mineFailed, press, pending, seen>>

\* One tab in full beside the other tabs and devices of its user (OtherClient), and in
\* the run items of one price.
PriceOfItem == [s \in Slot |-> 600]
Checkout ==
  INSTANCE CartPage
    WITH Tab <- {"tab"}, Call <- Two, call <- cartCall

\* The tracking page, once beside the desk of the restaurant and once beside the
\* list of past orders.
Tracking ==
  INSTANCE OrderPages
    WITH order <- "order", driver1 <- "driver", txn1 <- "txn", Open <- {"tracking", "desk"},
         Call <- Two
Lists ==
  INSTANCE OrderPages
    WITH order <- "order", driver1 <- "driver", txn1 <- "txn", Open <- {"tracking", "past"},
         Call <- Two

\* The reviews of a restaurant, and the ratings of drivers.
RestaurantPage ==
  INSTANCE Reviews
    WITH User <- {"one", "two"}, Restaurant <- {"place"}, Tab <- {"tab"}, Order <- {},
         RatingRequest <- {}, userOf <- [t \in {"tab"} |-> "one"],
         pageOf <- [t \in {"tab"} |-> "place"]
Ratings ==
  INSTANCE Reviews
    WITH User <- {"one"}, Restaurant <- {"place"}, Tab <- {"tab"}, Order <- {"order"},
         RatingRequest <- {"rating"}, userOf <- [t \in {"tab"} |-> "one"],
         pageOf <- [t \in {"tab"} |-> "place"], Given <- {}, PageSize <- 1, MaxReviews <- 1

Accounts ==
  INSTANCE SignIn
    WITH Account <- {"old", "new"}, seeded <- "old", Email <- {"mail"}, Password <- {"word"},
         seededEmail <- "mail", seededPassword <- "word", Attempt <- Two, Call <- Two

Client == INSTANCE ClientSession WITH Tab <- Two, Request <- Two

\* One driver with all tabs.
OwnTabs ==
  INSTANCE DriverDashboard
    WITH Driver <- {"driver"}, DeliveryId <- {"delivery"}, Order <- {"order"}, Call <- Two,
         Tabs <- {"available", "active", "completed"}

\* The values that stand for "nothing" are none of the values they are told from: no
\* session, tab or request; no status of an order; no list of deliveries or reviews; no
\* cart and no number of an order; nobody is not the driver.
ASSUME NothingAssumption ==
  /\ None \notin Two \cup Session \cup {"tab"} \cup Nat
  /\ NoDriver # "driver"
  /\ NoData \notin Tracking!Status
  /\ NoData \notin [{"delivery"} -> {"absent", "unclaimed", "waiting", "delivering", "done", "none"}]
  /\ NoData \notin [amount : [Slot -> Nat], coupon : Checkout!Coupons]
  /\ \A few \in SUBSET [id : 1..MaxReviews, user : {"one", "two"}, restaurant : {"place"},
                          rating : Given] : few # NoData
  /\ FAILED \notin [amount : [Slot -> Nat], coupon : Checkout!Coupons]
  /\ FAILED \notin Nat \cup {DONE}

\* There are finitely many ids of items and attempts to sign in; sizes and ratings are
\* numbers.
ASSUME SizesAssumption ==
  /\ IsFiniteSet(Slot) /\ IsFiniteSet(Two)
  /\ Amount \subseteq Nat /\ Given \subseteq Int
  /\ MaxSize \in Nat /\ PageSize \in Nat /\ MaxReviews \in Nat

-----------------------------------------------------------------------------
Init ==
  /\ moving \in {"checkout", "tracking", "lists", "restaurant", "ratings", "accounts", "client",
                 "own tabs"}
  /\ Checkout!Init /\ Accounts!Init /\ Client!Init /\ OwnTabs!Init
  /\ IF moving = "lists" THEN Lists!Init ELSE Tracking!Init
  /\ IF moving = "ratings" THEN Ratings!Init ELSE RestaurantPage!Init

Next ==
  \/ moving = "checkout" /\ Checkout!Next
       /\ UNCHANGED <<moving, dashboardVars, orderPagesVars, reviewPagesVars, accountsVars, clientVars>>
  \/ moving = "tracking" /\ Tracking!Next
       /\ UNCHANGED <<moving, dashboardVars, checkoutVars, reviewPagesVars, accountsVars, clientVars>>
  \/ moving = "lists" /\ Lists!Next
       /\ UNCHANGED <<moving, dashboardVars, checkoutVars, reviewPagesVars, accountsVars, clientVars>>
  \/ moving = "restaurant" /\ RestaurantPage!Next
       /\ UNCHANGED <<moving, dashboardVars, checkoutVars, orderPagesVars, accountsVars, clientVars>>
  \/ moving = "ratings" /\ Ratings!Next
       /\ UNCHANGED <<moving, dashboardVars, checkoutVars, orderPagesVars, accountsVars, clientVars>>
  \/ moving = "accounts" /\ Accounts!Next
       /\ UNCHANGED <<moving, dashboardVars, checkoutVars, orderPagesVars, reviewPagesVars, clientVars>>
  \/ moving = "client" /\ Client!Next
       /\ UNCHANGED <<moving, dashboardVars, checkoutVars, orderPagesVars, reviewPagesVars, accountsVars>>
  \/ moving = "own tabs" /\ OwnTabs!Next
       /\ UNCHANGED <<moving, checkoutVars, orderPagesVars, reviewPagesVars, accountsVars, clientVars>>

vars == <<moving, checkoutVars, orderPagesVars, reviewPagesVars, accountsVars, clientVars,
          dashboardVars>>
Spec == Init /\ [][Next]_vars

Symmetry == Permutations(Two) \cup Permutations(Session)

-----------------------------------------------------------------------------
(* Properties, see the modules of the pages.                               *)

\* Types: the variables of the pages that move have their types.
TypeOK ==
  /\ moving = "checkout" => Checkout!TypeOK
  /\ moving = "tracking" => Tracking!TypeOK
  /\ moving = "lists" => Lists!TypeOK
  /\ moving = "restaurant" => RestaurantPage!TypeOK
  /\ moving = "ratings" => Ratings!TypeOK
  /\ moving = "accounts" => Accounts!TypeOK
  /\ moving = "client" => Client!TypeOK
  /\ moving = "own tabs" => OwnTabs!TypeOK

\* A tab that waits for nothing shows the cart the service has, unless since the cart was
\* last read calls of it overlapped, one was carried out but failed, a fetch failed, or
\* another tab or device of the user changed the cart.
UndisturbedTabAgrees == Checkout!UndisturbedTabAgrees

\* However often Place Order is clicked, nothing is ordered twice, and no tab goes to
\* the payment page of an order it called canceled.
OrderedAsTold == Checkout!NothingOrderedTwice /\ Checkout!NoPaymentOfCanceled

\* What a page reported about an order as done stays true, whoever else pressed a
\* button at the same moment, and the page shows it once it has loaded; so does the page
\* of a driver who was told of a pickup.
ToldHolds ==
  /\ moving = "tracking" => Tracking!ToldHolds /\ Tracking!OwnDecisionShown
  /\ moving = "own tabs" => OwnTabs!PickupShown

\* No page ever shows an order earlier than it has shown it before, and an order that
\* was seen among the past orders does not leave them again.
ShownNeverGoesBack == Tracking!ShownNeverGoesBack /\ Lists!PastForGood

\* A page told that its review is stored never renders a list read before: it shows the
\* review, or a page full of newer ones, unless the review was deleted.
OwnReviewKept == RestaurantPage!OwnReviewNotLost

\* An attempt to sign in with Google opens at most one session.
OneSessionPerAttempt == Accounts!OneSessionPerAttempt

\* When no refresh is under way and none was lost, the browser holds a refresh
\* token that is good.
CookieIsGood == Client!CookieIsGood

-----------------------------------------------------------------------------
(* Promises of texts in the code that the code does not keep.  No run      *)
(* checks them; the README says which text each one is from.  Named under  *)
(* INVARIANT (HeaderCountsOwnReview: PROPERTY) in the cfg, TLC shows how    *)
(* each fails.                                                             *)
NotFoundIsTrue == moving = "ratings" => Ratings!NotFoundIsTrue
HeaderCountsOwnReview == RestaurantPage!HeaderCountsOwnReview
OrdersWithinLimits == Checkout!OrdersWithinLimits
CanceledAsTold == Checkout!CanceledAsTold
RegisteredCanLogIn == Accounts!RegisteredCanLogIn
BlockedCanRetry == Accounts!BlockedCanRetry
LogoutLasts == Client!LogoutLasts
=============================================================================
