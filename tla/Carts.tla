------------------------------- MODULE Carts --------------------------------
(***************************************************************************)
(* order-service: the "carts" collection (order-service/repo/cart.go) and  *)
(* the checkout, CreateOrderFromCart (order-service/repo/order.go), a      *)
(* transaction that reads the cart, asks restaurant-service for its items, *)
(* inserts an order and deletes the cart.  Carts are found by user, and no *)
(* index makes the user unique.                                            *)
(***************************************************************************)
EXTENDS Naturals, FiniteSets

CONSTANTS User,
          Item,         \* ids of menu items
          Restaurant,
          Amount,       \* what an update may set (amount and extra data)
          CartItemId,   \* ids of items in carts (bounded)
          Coupon,       \* coupon ids GetPromoById knows
          BadCoupon,    \* coupon ids it refuses
          Checkout,     \* checkout requests (bounded)
          MaxCarts,     \* bound on the carts in the collection at one time
          restaurantOf, \* the restaurant of each item
          NoUser, NoRestaurant, NoCoupon

ASSUME CartsAssumption ==
  /\ NoUser \notin User
  /\ NoRestaurant \notin Restaurant
  /\ NoCoupon \notin Coupon \cup BadCoupon
  /\ Coupon \cap BadCoupon = {}
  /\ MaxCarts \in Nat
  /\ restaurantOf \in [Item -> Restaurant]

VARIABLES
  menu,      \* the items that are on a menu
  carts,     \* the documents, by record id: the lowest one is found first
  upserts,   \* documents that upserts which found no cart are about to insert
  checkout,  \* the checkout requests
  placed     \* the order each checkout has inserted and committed

vars == <<menu, carts, upserts, checkout, placed>>

CartId == 1..MaxCarts

CartItem == [id : CartItemId, item : Item, amount : Amount]

\* user NoUser stands for a record id without a document.
CartDoc == [user   : User \cup {NoUser},
            items  : SUBSET CartItem,
            coupon : Coupon \cup BadCoupon \cup {NoCoupon}]

NoCart == [user |-> NoUser, items |-> {}, coupon |-> NoCoupon]

Order == [user : User, items : SUBSET CartItem, coupon : Coupon \cup {NoCoupon},
          restaurant : Restaurant]

NoOrder == [user |-> NoUser, items |-> {}, coupon |-> NoCoupon, restaurant |-> NoRestaurant]

\* A request is "read" once its transaction has read the cart, "placed" once it
\* has inserted the order and deleted the cart, "retry" when a write conflict
\* makes WithTransaction run the callback again, "committed" until the
\* notification is sent, and "ok" or "error" when it has answered.  cart and doc
\* are the record id and content it read, restaurant the one all its items are
\* of; stale: somebody has written that document since.
CheckoutRequest == [phase : {"new", "read", "placed", "retry", "committed", "ok", "error"},
                    user  : User \cup {NoUser},
                    cart  : CartId \cup {0},
                    doc   : CartDoc,
                    stale : BOOLEAN,
                    restaurant : Restaurant \cup {NoRestaurant}]

TypeOK ==
  /\ menu \in SUBSET Item
  /\ carts \in [CartId -> CartDoc]
  /\ upserts \in SUBSET CartDoc
  /\ checkout \in [Checkout -> CheckoutRequest]
  /\ placed \in [Checkout -> Order \cup {NoOrder}]

Init ==
  /\ menu = Item
  /\ carts = [c \in CartId |-> NoCart]
  /\ upserts = {}
  /\ checkout = [r \in Checkout |-> [phase |-> "new", user |-> NoUser, cart |-> 0,
                                     doc |-> NoCart, stale |-> FALSE,
                                     restaurant |-> NoRestaurant]]
  /\ placed = [r \in Checkout |-> NoOrder]

-----------------------------------------------------------------------------
(* Finding and writing carts *)

CartsOf(u) == {c \in CartId : carts[c].user = u}

\* FindOne, FindOneAndUpdate and DeleteOne take the first match of the scan.
IsFirst(c, S) == c \in S /\ \A d \in S : c <= d

\* A transaction has deleted the cart and is not committed.
Locked(c) == \E r \in Checkout : checkout[r].phase = "placed" /\ checkout[r].cart = c

\* Writing or deleting a cart conflicts with the transactions that have read it.
MarkStale(c) ==
  [r \in Checkout |-> IF checkout[r].phase = "read" /\ checkout[r].cart = c
                      THEN [checkout[r] EXCEPT !.stale = TRUE]
                      ELSE checkout[r]]

WriteCart(c, doc) ==
  /\ ~Locked(c)
  /\ carts[c] # doc    \* a write that changes nothing is none
  /\ carts' = [carts EXCEPT ![c] = doc]
  /\ checkout' = MarkStale(c)
  /\ UNCHANGED <<menu, upserts, placed>>

\* FindOneAndUpdate with upsert writes the first cart of the user; if there is
\* none it inserts a document, in a later step.
UpsertMisses(u, doc) ==
  /\ CartsOf(u) = {}
  /\ upserts' = upserts \cup {doc}
  /\ UNCHANGED <<menu, carts, checkout, placed>>

\* Inserting does not look again for a cart of the user.
UpsertInserts(doc) ==
  /\ doc \in upserts
  /\ upserts' = upserts \ {doc}
  /\ \E c \in CartId :
       /\ IsFirst(c, {d \in CartId : \A e \in CartId : e >= d => carts[e] = NoCart})
       /\ carts' = [carts EXCEPT ![c] = doc]
  /\ UNCHANGED <<menu, checkout, placed>>

-----------------------------------------------------------------------------
(* Operations on carts.  Each answers with the cart it has written, completed  *)
(* by populateCart; when that fails the answer is an error and the write stays. *)

\* NewObjectID.
Fresh(x) ==
  /\ \A c \in CartId : \A e \in carts[c].items : e.id # x
  /\ \A doc \in upserts : \A e \in doc.items : e.id # x
  /\ \A r \in Checkout : \A e \in placed[r].items \cup checkout[r].doc.items : e.id # x

AddItem(u, x, i, a) ==
  LET e == [id |-> x, item |-> i, amount |-> a] IN
  /\ Fresh(x)
  /\ \/ UpsertMisses(u, [NoCart EXCEPT !.user = u, !.items = {e}])
     \/ \E c \in CartId : /\ IsFirst(c, CartsOf(u))
                         /\ WriteCart(c, [carts[c] EXCEPT !.items = @ \cup {e}])

\* ApplyCoupon stores whatever id it gets; RemoveCoupon is k = NoCoupon.
SetCartCoupon(u, k) ==
  \/ UpsertMisses(u, [NoCart EXCEPT !.user = u, !.coupon = k])
  \/ \E c \in CartId : /\ IsFirst(c, CartsOf(u))
                      /\ WriteCart(c, [carts[c] EXCEPT !.coupon = k])

\* Pulls the item from the first cart of the user, whether or not it is there.
RemoveItem(u, x) ==
  \E c \in CartId :
    /\ IsFirst(c, CartsOf(u))
    /\ WriteCart(c, [carts[c] EXCEPT !.items = {e \in @ : e.id # x}])

\* Mutant of UpdateItem: an amount the handler does not accept is stored.
UpdateItemUnchecked(u, x, a) ==
  \E c \in CartId :
    /\ IsFirst(c, {d \in CartsOf(u) : \E e \in carts[d].items : e.id = x})
    /\ WriteCart(c, [carts[c] EXCEPT !.items =
                       {IF e.id = x THEN [e EXCEPT !.amount = 0] ELSE e : e \in @}])

\* The filter asks for the item too: ErrNotInCart if no cart of the user has it.
UpdateItem(u, x, a) ==
  \E c \in CartId :
    /\ IsFirst(c, {d \in CartsOf(u) : \E e \in carts[d].items : e.id = x})
    /\ WriteCart(c, [carts[c] EXCEPT !.items =
                       {IF e.id = x THEN [e EXCEPT !.amount = a] ELSE e : e \in @}])

ClearCart(u) ==
  \E c \in CartId : IsFirst(c, CartsOf(u)) /\ WriteCart(c, NoCart)

\* restaurant-service: DeleteMenuItemById; GetItemsById then answers that the
\* item is invalid, with an empty restaurant id.
DeleteMenuItem(i) ==
  /\ i \in menu
  /\ menu' = menu \ {i}
  /\ UNCHANGED <<carts, upserts, checkout, placed>>

-----------------------------------------------------------------------------
(* CreateOrderFromCart *)

\* The request leaves its transaction for the given phase.
LeavesTx(r, phase) ==
  [phase |-> phase, user |-> checkout[r].user, cart |-> 0, doc |-> NoCart,
   stale |-> FALSE, restaurant |-> NoRestaurant]

\* GetCartByUserId in the transaction: its first read, which fixes the snapshot.
CheckoutRead(r, u) ==
  /\ \/ checkout[r].phase = "new"
     \/ checkout[r].phase = "retry" /\ checkout[r].user = u
  /\ \E c \in CartId \cup {0} :
       /\ IF CartsOf(u) = {} THEN c = 0 ELSE IsFirst(c, CartsOf(u))
       /\ checkout' = [checkout EXCEPT ![r] =
            [phase |-> "read", user |-> u, cart |-> c,
             doc |-> IF c = 0 THEN NoCart ELSE carts[c], stale |-> FALSE,
             restaurant |-> NoRestaurant]]
  /\ UNCHANGED <<menu, carts, upserts, placed>>

\* What restaurant-service says of the items of a cart.
RestaurantsOf(doc) ==
  {IF e.item \in menu THEN restaurantOf[e.item] ELSE NoRestaurant : e \in doc.items}

\* Mutant of Sellable: invalid items are skipped where restaurants are compared.
SellableSkip(doc, R) ==
  /\ doc.items # {}
  /\ doc.coupon \notin BadCoupon
  /\ RestaurantsOf(doc) \subseteq {R, NoRestaurant}

\* The cart can be ordered from restaurant R: it is not empty, the coupon is
\* known, and every item is of R.  Invalid items count as items of a restaurant
\* with an empty id, which GetRestaurantById refuses.
Sellable(doc, R) ==
  /\ doc.items # {}
  /\ doc.coupon \notin BadCoupon
  /\ RestaurantsOf(doc) = {R}

\* ErrEmptyCart, ErrRestaurant, or an error of populateCart or GetRestaurantById.
CheckoutRefused(r) ==
  /\ checkout[r].phase = "read"
  /\ ~ \E R \in Restaurant : Sellable(checkout[r].doc, R)
  /\ checkout' = [checkout EXCEPT ![r] = LeavesTx(r, "error")]
  /\ UNCHANGED <<menu, carts, upserts, placed>>

\* Deleting the cart conflicts with a write of it since the snapshot, and with
\* another checkout that has deleted it.
Conflict(r) == checkout[r].stale \/ Locked(checkout[r].cart)

\* Mutant of CheckoutPlace: ClearCart is not called in the transaction's context.
CheckoutPlaceOutsideTx(r, R) ==
  /\ checkout[r].phase = "read"
  /\ Sellable(checkout[r].doc, R)
  /\ checkout' = [checkout EXCEPT ![r].phase = "placed", ![r].restaurant = R]
  /\ UNCHANGED <<menu, carts, upserts, placed>>

\* InsertOne, then ClearCart: the order is made of the cart that was read.  It is
\* invisible, and the cart is locked, until the transaction commits.
CheckoutPlace(r, R) ==
  /\ checkout[r].phase = "read"
  /\ Sellable(checkout[r].doc, R)
  /\ ~Conflict(r)
  /\ checkout' = [checkout EXCEPT ![r].phase = "placed", ![r].restaurant = R]
  /\ UNCHANGED <<menu, carts, upserts, placed>>

CheckoutConflict(r) ==
  /\ checkout[r].phase = "read"
  /\ \E R \in Restaurant : Sellable(checkout[r].doc, R)
  /\ Conflict(r)
  /\ checkout' = [checkout EXCEPT ![r] = LeavesTx(r, "retry")]
  /\ UNCHANGED <<menu, carts, upserts, placed>>

\* A call or the database fails, the retries time out, or the service stops.
CheckoutAborts(r) ==
  /\ checkout[r].phase \in {"read", "placed", "retry"}
  /\ checkout' = [checkout EXCEPT ![r] = LeavesTx(r, "error")]
  /\ UNCHANGED <<menu, carts, upserts, placed>>

\* Mutant of CheckoutCommit: the cart is not cleared.
CheckoutCommitKeepsCart(r) ==
  LET doc == checkout[r].doc IN
  /\ checkout[r].phase = "placed"
  /\ placed' = [placed EXCEPT ![r] = [user |-> doc.user, items |-> doc.items,
                                      coupon |-> doc.coupon,
                                      restaurant |-> checkout[r].restaurant]]
  /\ checkout' = [checkout EXCEPT ![r] = LeavesTx(r, "committed")]
  /\ UNCHANGED <<menu, carts, upserts>>

CheckoutCommit(r) ==
  LET c == checkout[r].cart
      doc == checkout[r].doc
  IN
  /\ checkout[r].phase = "placed"
  /\ placed' = [placed EXCEPT ![r] = [user |-> doc.user, items |-> doc.items,
                                      coupon |-> doc.coupon,
                                      restaurant |-> checkout[r].restaurant]]
  /\ carts' = [carts EXCEPT ![c] = NoCart]
  /\ checkout' = [MarkStale(c) EXCEPT ![r] = LeavesTx(r, "committed")]
  /\ UNCHANGED <<menu, upserts>>

\* The handler sends a notification; if that fails it answers with an error,
\* although the order exists.
CheckoutAnswers(r) ==
  /\ checkout[r].phase = "committed"
  /\ \E answer \in {"ok", "error"} :
       checkout' = [checkout EXCEPT ![r].phase = answer]
  /\ UNCHANGED <<menu, carts, upserts, placed>>

-----------------------------------------------------------------------------

Next ==
  \/ \E u \in User :
       \/ \E x \in CartItemId, i \in Item, a \in Amount : AddItem(u, x, i, a)
       \/ \E k \in Coupon \cup BadCoupon \cup {NoCoupon} : SetCartCoupon(u, k)
       \/ \E x \in CartItemId : RemoveItem(u, x)
       \/ \E x \in CartItemId, a \in Amount : UpdateItem(u, x, a)
       \/ ClearCart(u)
       \/ \E r \in Checkout : CheckoutRead(r, u)
  \/ \E doc \in upserts : UpsertInserts(doc)
  \/ \E i \in Item : DeleteMenuItem(i)
  \/ \E r \in Checkout :
       \/ CheckoutRefused(r)
       \/ \E R \in Restaurant : CheckoutPlace(r, R)
       \/ CheckoutConflict(r)
       \/ CheckoutAborts(r)
       \/ CheckoutCommit(r)
       \/ CheckoutAnswers(r)

Spec == Init /\ [][Next]_vars

-----------------------------------------------------------------------------
(* Properties *)

\* The items of a cart or an order as CartLedger has them.
Entries(doc) ==
  {[user |-> doc.user, id |-> e.id, amount |-> <<e.item, e.amount>>] : e \in doc.items}

Live == UNION {Entries(carts[c]) : c \in CartId}

\* Through duplicate carts, concurrent edits, double checkouts and retries, an
\* item leaves the carts only by its user's removal or into exactly one order,
\* with the amount last set (the promise of module CartLedger).
Ledger == INSTANCE CartLedger WITH
  live <- Live,
  ordered <- [r \in Checkout |-> Entries(placed[r])]

ImplementsLedger == Ledger!Spec

\* No item is in two orders or in two carts, and none is in an order and still
\* in a cart.
ItemInOnePlace ==
  /\ \A r, q \in Checkout : \A e \in placed[r].items, f \in placed[q].items :
       e.id = f.id => r = q /\ e = f
  /\ \A r \in Checkout, c \in CartId : \A e \in placed[r].items, f \in carts[c].items :
       e.id # f.id
  /\ \A c, d \in CartId : \A e \in carts[c].items, f \in carts[d].items :
       e.id = f.id => c = d /\ e = f

\* Every order is of one restaurant that sells all its items, and of a
\* user whose cart had them, although the menu changes while the cart is read
\* and nothing tests the invalid flag of an item.
OrdersAreSellable ==
  \A r \in Checkout : placed[r] # NoOrder =>
    /\ placed[r].items # {}
    /\ placed[r].user = checkout[r].user
    /\ placed[r].coupon \notin BadCoupon
    /\ \A e \in placed[r].items : restaurantOf[e.item] = placed[r].restaurant

\* What the test of AddItem says (order-service/repo/cart_test.go:36): the cart
\* a user gets is the one that was added to, so it shows all the user's items.
CartShowsAllItems ==
  \A u \in User : Cardinality({c \in CartsOf(u) : carts[c].items # {}}) <= 1
=============================================================================
