---------------------------- MODULE Carts_proofs -----------------------------
(***************************************************************************)
(* Proof that an item is in one cart or in one order, that orders are of   *)
(* one restaurant, and that carts and checkouts implement CartLedger: for  *)
(* any number of carts of a user, of upserts that race and of checkouts    *)
(* that conflict with each other and with edits of the cart.               *)
(***************************************************************************)
EXTENDS Carts, TLAPS

\* What an upsert is about to insert is of a user, and its item is nowhere else.
UpsertsSound ==
  \A doc \in upserts :
    /\ doc.user \in User
    /\ \A e \in doc.items :
         /\ \A other \in upserts : \A f \in other.items : e.id = f.id => other = doc /\ e = f
         /\ \A c \in CartId : \A f \in carts[c].items : e.id # f.id
         /\ \A r \in Checkout : \A f \in placed[r].items : e.id # f.id

\* What a checkout has read and nobody has written since is still the cart; when it
\* has placed its order it holds the cart alone, and the order can be sold.
CheckoutsSound ==
  \A r \in Checkout :
    /\ checkout[r].phase = "read" =>
         IF checkout[r].cart = 0 THEN checkout[r].doc = NoCart
         ELSE /\ checkout[r].doc.user = checkout[r].user /\ checkout[r].user \in User
              /\ ~checkout[r].stale => carts[checkout[r].cart] = checkout[r].doc
    /\ checkout[r].phase = "placed" =>
         /\ checkout[r].cart # 0 /\ carts[checkout[r].cart] = checkout[r].doc
         /\ checkout[r].doc.user = checkout[r].user /\ checkout[r].user \in User
         /\ checkout[r].doc.items # {} /\ checkout[r].doc.coupon \notin BadCoupon
         /\ checkout[r].restaurant \in Restaurant
         /\ \A e \in checkout[r].doc.items : restaurantOf[e.item] = checkout[r].restaurant
         /\ \A q \in Checkout \ {r} :
              ~(checkout[q].phase = "placed" /\ checkout[q].cart = checkout[r].cart)
    /\ checkout[r].phase \in {"new", "read", "placed", "retry"} => placed[r] = NoOrder

\* The inductive invariant.
CartsIInv == TypeOK /\ UpsertsSound /\ CheckoutsSound /\ ItemInOnePlace /\ OrdersAreSellable

LEMMA InitCarts == Init => CartsIInv
<1> SUFFICES ASSUME Init PROVE CartsIInv
  OBVIOUS
<1>1. NoCart \in CartDoc /\ NoCart.items = {}
  BY DEF NoCart, CartDoc
<1>2. TypeOK
  <2>1. checkout \in [Checkout -> CheckoutRequest]
    BY <1>1 DEF Init, CheckoutRequest
  <2>. QED BY <1>1, <2>1 DEF Init, TypeOK
<1>3. UpsertsSound /\ CheckoutsSound
  BY DEF Init, UpsertsSound, CheckoutsSound
<1>4. ItemInOnePlace /\ OrdersAreSellable
  BY <1>1 DEF Init, ItemInOnePlace, OrdersAreSellable, NoOrder
<1>. QED BY <1>2, <1>3, <1>4 DEF CartsIInv

-----------------------------------------------------------------------------
(* Steps that write one cart *)

\* The items of doc are in no other cart, no order and no upsert that is still to come.
Apart(doc, c, others) ==
  \A e \in doc.items :
    /\ \A f \in doc.items : e.id = f.id => e = f
    /\ \A d \in CartId \ {c} : \A f \in carts[d].items : e.id # f.id
    /\ \A r \in Checkout : \A f \in placed[r].items : e.id # f.id
    /\ \A other \in others : \A f \in other.items : e.id # f.id

\* MarkStale changes nothing but the stale flags of those who have read the cart.
LEMMA MarkStaleOnly ==
  ASSUME TypeOK, NEW c \in CartId
  PROVE  /\ MarkStale(c) \in [Checkout -> CheckoutRequest]
         /\ \A r \in Checkout :
              /\ MarkStale(c)[r].phase = checkout[r].phase
              /\ MarkStale(c)[r].user = checkout[r].user
              /\ MarkStale(c)[r].cart = checkout[r].cart
              /\ MarkStale(c)[r].doc = checkout[r].doc
              /\ MarkStale(c)[r].restaurant = checkout[r].restaurant
              /\ ~MarkStale(c)[r].stale /\ checkout[r].phase = "read" =>
                   ~checkout[r].stale /\ checkout[r].cart # c
<1>1. ASSUME NEW r \in Checkout
      PROVE  /\ MarkStale(c)[r] \in CheckoutRequest
             /\ MarkStale(c)[r].phase = checkout[r].phase
             /\ MarkStale(c)[r].user = checkout[r].user
             /\ MarkStale(c)[r].cart = checkout[r].cart
             /\ MarkStale(c)[r].doc = checkout[r].doc
             /\ MarkStale(c)[r].restaurant = checkout[r].restaurant
             /\ ~MarkStale(c)[r].stale /\ checkout[r].phase = "read" =>
                  ~checkout[r].stale /\ checkout[r].cart # c
  <2>1. checkout[r] \in CheckoutRequest
    BY DEF TypeOK
  <2>2. MarkStale(c)[r] = IF checkout[r].phase = "read" /\ checkout[r].cart = c
                          THEN [checkout[r] EXCEPT !.stale = TRUE] ELSE checkout[r]
    BY DEF MarkStale
  <2>. QED BY <2>1, <2>2 DEF CheckoutRequest
<1>2. MarkStale(c) = [r \in Checkout |-> MarkStale(c)[r]]
  BY DEF MarkStale
<1>. QED BY <1>1, <1>2

LEMMA CartWritten ==
  ASSUME CartsIInv, NEW c \in CartId, NEW doc \in CartDoc, ~Locked(c),
         carts' = [carts EXCEPT ![c] = doc], upserts' \subseteq upserts,
         checkout' = MarkStale(c), UNCHANGED <<menu, placed>>,
         Apart(doc, c, upserts')
  PROVE  CartsIInv'
<1> USE DEF CartsIInv
<1>1. /\ carts'[c] = doc /\ carts' \in [CartId -> CartDoc]
      /\ \A d \in CartId \ {c} : carts'[d] = carts[d]
  BY DEF TypeOK
<1>2. /\ checkout' \in [Checkout -> CheckoutRequest]
      /\ \A r \in Checkout :
           /\ checkout'[r].phase = checkout[r].phase
           /\ checkout'[r].user = checkout[r].user
           /\ checkout'[r].cart = checkout[r].cart
           /\ checkout'[r].doc = checkout[r].doc
           /\ checkout'[r].restaurant = checkout[r].restaurant
           /\ ~checkout'[r].stale /\ checkout[r].phase = "read" =>
                ~checkout[r].stale /\ checkout[r].cart # c
  BY MarkStaleOnly
<1>3. TypeOK'
  BY <1>1, <1>2 DEF TypeOK
<1>4. UpsertsSound'
  <2> SUFFICES ASSUME NEW up \in upserts', NEW e \in up.items
               PROVE  /\ up.user \in User
                      /\ \A other \in upserts' : \A f \in other.items :
                           e.id = f.id => other = up /\ e = f
                      /\ \A d \in CartId : \A f \in carts'[d].items : e.id # f.id
                      /\ \A r \in Checkout : \A f \in placed'[r].items : e.id # f.id
    BY DEF UpsertsSound
  <2>1. up \in upserts
    OBVIOUS
  <2>2. \A f \in carts'[c].items : e.id # f.id
    BY <1>1 DEF Apart
  <2>. QED BY <1>1, <2>1, <2>2 DEF UpsertsSound
<1>5. CheckoutsSound'
  <2>1. \A r \in Checkout : checkout[r].phase = "placed" => checkout[r].cart # c
    BY DEF Locked
  <2>2. \A r \in Checkout : checkout[r].cart \in CartId \cup {0}
    BY DEF TypeOK, CheckoutRequest
  <2>. QED BY <1>1, <1>2, <2>1, <2>2 DEF CheckoutsSound
<1>6. ItemInOnePlace'
  <2>1. \A r \in Checkout, d \in CartId : \A e \in placed[r].items, f \in carts'[d].items : e.id # f.id
    BY <1>1 DEF ItemInOnePlace, Apart
  <2>2. \A d, k \in CartId : \A e \in carts'[d].items, f \in carts'[k].items :
          e.id = f.id => d = k /\ e = f
    BY <1>1 DEF ItemInOnePlace, Apart
  <2>. QED BY <2>1, <2>2 DEF ItemInOnePlace
<1>7. OrdersAreSellable'
  BY <1>2 DEF OrdersAreSellable
<1>. QED BY <1>3, <1>4, <1>5, <1>6, <1>7

LEMMA WriteCartIInv ==
  ASSUME CartsIInv, NEW c \in CartId, NEW doc \in CartDoc, WriteCart(c, doc),
         Apart(doc, c, upserts)
  PROVE  CartsIInv'
BY CartWritten DEF WriteCart

\* What the cart already holds is apart from the rest.
LEMMA CartItemsApart ==
  ASSUME CartsIInv, NEW c \in CartId,
         NEW doc, \A e \in doc.items : \E f \in carts[c].items : f.id = e.id,
         \A e, f \in doc.items : e.id = f.id => e = f
  PROVE  Apart(doc, c, upserts)
<1> SUFFICES ASSUME NEW e \in doc.items
             PROVE  /\ \A f \in doc.items : e.id = f.id => e = f
                    /\ \A d \in CartId \ {c} : \A f \in carts[d].items : e.id # f.id
                    /\ \A r \in Checkout : \A f \in placed[r].items : e.id # f.id
                    /\ \A other \in upserts : \A f \in other.items : e.id # f.id
  BY DEF Apart
<1>1. PICK old \in carts[c].items : old.id = e.id
  OBVIOUS
<1>. QED BY <1>1 DEF CartsIInv, ItemInOnePlace, UpsertsSound

\* An upsert that finds no cart is about to insert items that are nowhere else.
LEMMA UpsertMissesIInv ==
  ASSUME CartsIInv, NEW u \in User, NEW doc \in CartDoc, doc.user = u,
         doc.items = {} \/ \E e \in CartItem : doc.items = {e} /\ Fresh(e.id),
         UpsertMisses(u, doc)
  PROVE  CartsIInv'
<1> USE DEF CartsIInv
<1>1. upserts' = upserts \cup {doc} /\ UNCHANGED <<menu, carts, checkout, placed>>
  BY DEF UpsertMisses
<1>2. TypeOK'
  BY <1>1 DEF TypeOK
<1>3. /\ \A e, f \in doc.items : e = f
      /\ \A e \in doc.items :
           /\ \A other \in upserts : \A f \in other.items : f.id # e.id
           /\ \A c \in CartId : \A f \in carts[c].items : f.id # e.id
           /\ \A r \in Checkout : \A f \in placed[r].items : f.id # e.id
  BY DEF Fresh
<1>4. UpsertsSound'
  BY <1>1, <1>3 DEF UpsertsSound
<1>5. (CheckoutsSound /\ ItemInOnePlace /\ OrdersAreSellable)'
  BY <1>1 DEF CheckoutsSound, ItemInOnePlace, OrdersAreSellable
<1>. QED BY <1>2, <1>4, <1>5

LEMMA UpsertInsertsIInv ==
  ASSUME CartsIInv, NEW doc \in upserts, UpsertInserts(doc)
  PROVE  CartsIInv'
<1> USE DEF CartsIInv
<1>1. /\ upserts' = upserts \ {doc} /\ UNCHANGED <<menu, checkout, placed>>
      /\ doc \in CartDoc
  BY DEF UpsertInserts, TypeOK
<1>2. PICK c \in CartId : carts[c] = NoCart /\ carts' = [carts EXCEPT ![c] = doc]
  BY DEF UpsertInserts, IsFirst, CartId
<1>3. NoUser \notin User /\ NoCart.user = NoUser /\ NoCart.items = {}
  BY CartsAssumption DEF NoCart
<1>4. \A r \in Checkout : checkout[r].cart = c =>
        /\ checkout[r].phase # "placed"
        /\ checkout[r].phase = "read" => checkout[r].stale
  <2>1. c # 0
    BY DEF CartId
  <2>. QED BY <1>2, <1>3, <2>1 DEF CheckoutsSound
<1>5. ~Locked(c)
  BY <1>4 DEF Locked
<1>6. MarkStale(c) = checkout
  <2>1. ASSUME NEW r \in Checkout PROVE MarkStale(c)[r] = checkout[r]
    <3>1. checkout[r] \in CheckoutRequest
      BY DEF TypeOK
    <3>2. checkout[r].stale = TRUE => [checkout[r] EXCEPT !.stale = TRUE] = checkout[r]
      BY <3>1 DEF CheckoutRequest
    <3>3. checkout[r].stale \in BOOLEAN
      BY <3>1 DEF CheckoutRequest
    <3>. QED BY <1>4, <3>2, <3>3 DEF MarkStale
  <2>2. checkout = [r \in Checkout |-> checkout[r]]
    BY DEF TypeOK
  <2>3. MarkStale(c) = [r \in Checkout |-> MarkStale(c)[r]]
    BY DEF MarkStale
  <2>. QED BY <2>1, <2>2, <2>3
<1>7. Apart(doc, c, upserts')
  BY <1>1 DEF Apart, UpsertsSound
<1>. QED BY <1>1, <1>2, <1>5, <1>6, <1>7, CartWritten

-----------------------------------------------------------------------------
(* The operations on carts *)

LEMMA FirstIsUsers ==
  ASSUME CartsIInv, NEW u \in User, NEW c \in CartId, NEW S \in SUBSET CartsOf(u), IsFirst(c, S)
  PROVE  carts[c].user = u /\ carts[c] \in CartDoc
BY DEF CartsIInv, TypeOK, IsFirst, CartsOf

LEMMA AddItemIInv ==
  ASSUME CartsIInv, NEW u \in User, NEW x \in CartItemId, NEW i \in Item, NEW a \in Amount,
         AddItem(u, x, i, a)
  PROVE  CartsIInv'
<1> DEFINE e == [id |-> x, item |-> i, amount |-> a]
           first == [NoCart EXCEPT !.user = u, !.items = {e}]
<1>1. Fresh(x) /\ e \in CartItem /\ e.id = x
  BY DEF AddItem, CartItem
<1>2. CASE UpsertMisses(u, first)
  <2>1. first \in CartDoc /\ first.user = u /\ first.items = {e}
    BY <1>1 DEF NoCart, CartDoc
  <2> HIDE DEF e, first
  <2>. QED BY <1>1, <1>2, <2>1, UpsertMissesIInv
<1>3. ASSUME NEW c \in CartId, IsFirst(c, CartsOf(u)),
             WriteCart(c, [carts[c] EXCEPT !.items = @ \cup {e}])
      PROVE  CartsIInv'
  <2> DEFINE doc == [carts[c] EXCEPT !.items = @ \cup {e}]
  <2>1. carts[c] \in CartDoc
    BY DEF CartsIInv, TypeOK
  <2>2. doc \in CartDoc /\ doc.items = carts[c].items \cup {e}
    BY <1>1, <2>1 DEF CartDoc
  <2>3. WriteCart(c, doc)
    BY <1>3
  <2> HIDE DEF e, doc
  <2>4. Apart(doc, c, upserts)
    <3>1. Apart(carts[c], c, upserts)
      BY CartItemsApart DEF CartsIInv, ItemInOnePlace
    <3>2. /\ \A d \in CartId : \A f \in carts[d].items : f.id # e.id
          /\ \A r \in Checkout : \A f \in placed[r].items : f.id # e.id
          /\ \A other \in upserts : \A f \in other.items : f.id # e.id
      BY <1>1 DEF Fresh
    <3>. QED BY <2>2, <3>1, <3>2 DEF Apart
  <2>. QED BY <2>2, <2>3, <2>4, WriteCartIInv
<1>. QED BY <1>2, <1>3 DEF AddItem

LEMMA SetCartCouponIInv ==
  ASSUME CartsIInv, NEW u \in User, NEW k \in Coupon \cup BadCoupon \cup {NoCoupon},
         SetCartCoupon(u, k)
  PROVE  CartsIInv'
<1> DEFINE first == [NoCart EXCEPT !.user = u, !.coupon = k]
<1>1. CASE UpsertMisses(u, first)
  <2>1. first \in CartDoc /\ first.user = u /\ first.items = {}
    BY DEF NoCart, CartDoc
  <2> HIDE DEF first
  <2>. QED BY <1>1, <2>1, UpsertMissesIInv
<1>2. ASSUME NEW c \in CartId, WriteCart(c, [carts[c] EXCEPT !.coupon = k])
      PROVE  CartsIInv'
  <2> DEFINE doc == [carts[c] EXCEPT !.coupon = k]
  <2>1. carts[c] \in CartDoc
    BY DEF CartsIInv, TypeOK
  <2>2. doc \in CartDoc /\ doc.items = carts[c].items /\ WriteCart(c, doc)
    BY <1>2, <2>1 DEF CartDoc
  <2> HIDE DEF doc
  <2>3. Apart(doc, c, upserts)
    BY <2>2, CartItemsApart DEF CartsIInv, ItemInOnePlace
  <2>. QED BY <2>2, <2>3, WriteCartIInv
<1>. QED BY <1>1, <1>2 DEF SetCartCoupon

LEMMA RemoveItemIInv ==
  ASSUME CartsIInv, NEW u \in User, NEW x \in CartItemId, RemoveItem(u, x)
  PROVE  CartsIInv'
<1>1. PICK c \in CartId : WriteCart(c, [carts[c] EXCEPT !.items = {e \in @ : e.id # x}])
  BY DEF RemoveItem
<1> DEFINE doc == [carts[c] EXCEPT !.items = {e \in @ : e.id # x}]
<1>2. carts[c] \in CartDoc
  BY DEF CartsIInv, TypeOK
<1>3. doc \in CartDoc /\ doc.items \subseteq carts[c].items /\ WriteCart(c, doc)
  BY <1>1, <1>2 DEF CartDoc
<1> HIDE DEF doc
<1>4. Apart(doc, c, upserts)
  BY <1>3, CartItemsApart DEF CartsIInv, ItemInOnePlace
<1>. QED BY <1>3, <1>4, WriteCartIInv

LEMMA UpdateItemIInv ==
  ASSUME CartsIInv, NEW u \in User, NEW x \in CartItemId, NEW a \in Amount, UpdateItem(u, x, a)
  PROVE  CartsIInv'
<1>1. PICK c \in CartId : WriteCart(c, [carts[c] EXCEPT !.items =
        {IF e.id = x THEN [e EXCEPT !.amount = a] ELSE e : e \in @}])
  BY DEF UpdateItem
<1> DEFINE New(e) == IF e.id = x THEN [e EXCEPT !.amount = a] ELSE e
           doc == [carts[c] EXCEPT !.items = {New(e) : e \in @}]
<1>2. carts[c] \in CartDoc
  BY DEF CartsIInv, TypeOK
<1>3. \A e \in CartItem : New(e) \in CartItem /\ New(e).id = e.id
  BY DEF CartItem
<1>4. doc.items = {New(e) : e \in carts[c].items} /\ carts[c].items \subseteq CartItem
  BY <1>2 DEF CartDoc
<1>5. doc \in CartDoc
  BY <1>2, <1>3, <1>4 DEF CartDoc
<1>6. WriteCart(c, doc)
  BY <1>1
<1> HIDE DEF doc, New
<1>7. \A e \in doc.items : \E f \in carts[c].items : f.id = e.id
  BY <1>3, <1>4
<1>8. \A e, f \in doc.items : e.id = f.id => e = f
  BY <1>3, <1>4 DEF CartsIInv, ItemInOnePlace
<1>9. Apart(doc, c, upserts)
  BY <1>7, <1>8, CartItemsApart
<1>. QED BY <1>5, <1>6, <1>9, WriteCartIInv

LEMMA ClearCartIInv ==
  ASSUME CartsIInv, NEW u \in User, ClearCart(u)
  PROVE  CartsIInv'
<1>1. PICK c \in CartId : WriteCart(c, NoCart)
  BY DEF ClearCart
<1>2. NoCart \in CartDoc /\ Apart(NoCart, c, upserts)
  BY DEF NoCart, CartDoc, Apart
<1>. QED BY <1>1, <1>2, WriteCartIInv

LEMMA DeleteMenuItemIInv ==
  ASSUME CartsIInv, NEW i \in Item, DeleteMenuItem(i)
  PROVE  CartsIInv'
<1>1. menu' \subseteq menu /\ UNCHANGED <<carts, upserts, checkout, placed>>
  BY DEF DeleteMenuItem
<1>. QED BY <1>1 DEF CartsIInv, TypeOK, UpsertsSound, CheckoutsSound, ItemInOnePlace,
                     OrdersAreSellable

-----------------------------------------------------------------------------
(* Steps of checkouts *)

\* A checkout moves; nothing else changes.
LEMMA CheckoutMoves ==
  ASSUME CartsIInv, NEW r \in Checkout, NEW q \in CheckoutRequest,
         checkout' = [checkout EXCEPT ![r] = q],
         UNCHANGED <<menu, carts, upserts, placed>>,
         q.phase = "read" =>
           IF q.cart = 0 THEN q.doc = NoCart
           ELSE /\ q.doc.user = q.user /\ q.user \in User
                /\ ~q.stale => carts[q.cart] = q.doc,
         q.phase = "placed" =>
           /\ q.cart # 0 /\ carts[q.cart] = q.doc /\ ~Locked(q.cart)
           /\ q.doc.user = q.user /\ q.user \in User
           /\ q.doc.items # {} /\ q.doc.coupon \notin BadCoupon
           /\ q.restaurant \in Restaurant
           /\ \A e \in q.doc.items : restaurantOf[e.item] = q.restaurant,
         q.phase \in {"new", "read", "placed", "retry"} => placed[r] = NoOrder,
         placed[r] # NoOrder => q.user = checkout[r].user
  PROVE  CartsIInv'
<1> USE DEF CartsIInv
<1>1. /\ checkout' \in [Checkout -> CheckoutRequest] /\ checkout'[r] = q
      /\ \A s \in Checkout \ {r} : checkout'[s] = checkout[s]
      /\ menu' = menu /\ carts' = carts /\ upserts' = upserts /\ placed' = placed
  BY DEF TypeOK
<1>2. TypeOK' /\ UpsertsSound' /\ ItemInOnePlace'
  BY <1>1 DEF TypeOK, UpsertsSound, ItemInOnePlace
<1>3. CheckoutsSound'
  BY <1>1 DEF CheckoutsSound, Locked
<1>4. OrdersAreSellable'
  BY <1>1 DEF OrdersAreSellable
<1>. QED BY <1>2, <1>3, <1>4

LEMMA LeavesTxType ==
  ASSUME CartsIInv, NEW r \in Checkout, NEW phase \in {"retry", "committed", "error"}
  PROVE  /\ LeavesTx(r, phase) \in CheckoutRequest
         /\ LeavesTx(r, phase).phase = phase
         /\ LeavesTx(r, phase).user = checkout[r].user
         /\ LeavesTx(r, phase).cart = 0
<1>1. NoCart \in CartDoc
  BY DEF NoCart, CartDoc
<1>2. checkout[r].user \in User \cup {NoUser}
  BY DEF CartsIInv, TypeOK, CheckoutRequest
<1>. QED BY <1>1, <1>2 DEF LeavesTx, CheckoutRequest

\* A checkout that has not committed leaves its transaction.
LEMMA LeavesTxIInv ==
  ASSUME CartsIInv, NEW r \in Checkout, NEW phase \in {"retry", "error"},
         checkout[r].phase \in {"read", "placed", "retry"},
         checkout' = [checkout EXCEPT ![r] = LeavesTx(r, phase)],
         UNCHANGED <<menu, carts, upserts, placed>>
  PROVE  CartsIInv'
<1> DEFINE q == LeavesTx(r, phase)
<1>1. q \in CheckoutRequest /\ q.phase = phase /\ q.user = checkout[r].user
  BY LeavesTxType
<1>2. placed[r] = NoOrder
  BY DEF CartsIInv, CheckoutsSound
<1>3. checkout' = [checkout EXCEPT ![r] = q]
  OBVIOUS
<1> HIDE DEF q
<1>. QED BY <1>1, <1>2, <1>3, CheckoutMoves

LEMMA CheckoutReadIInv ==
  ASSUME CartsIInv, NEW r \in Checkout, NEW u \in User, CheckoutRead(r, u)
  PROVE  CartsIInv'
<1>1. PICK c \in CartId \cup {0} :
        /\ IF CartsOf(u) = {} THEN c = 0 ELSE IsFirst(c, CartsOf(u))
        /\ checkout' = [checkout EXCEPT ![r] =
             [phase |-> "read", user |-> u, cart |-> c,
              doc |-> IF c = 0 THEN NoCart ELSE carts[c], stale |-> FALSE,
              restaurant |-> NoRestaurant]]
  BY DEF CheckoutRead
<1> DEFINE doc == IF c = 0 THEN NoCart ELSE carts[c]
           q == [phase |-> "read", user |-> u, cart |-> c, doc |-> doc, stale |-> FALSE,
                 restaurant |-> NoRestaurant]
<1>2. c # 0 => c \in CartId /\ carts[c].user = u
  BY <1>1 DEF IsFirst, CartsOf
<1>3. doc \in CartDoc /\ (c = 0 => doc = NoCart) /\ (c # 0 => doc = carts[c])
  BY <1>2 DEF CartsIInv, TypeOK, NoCart, CartDoc
<1>4. checkout' = [checkout EXCEPT ![r] = q]
  BY <1>1
<1> HIDE DEF doc
<1>5. /\ q \in CheckoutRequest /\ q.phase = "read" /\ q.user = u /\ q.cart = c /\ q.doc = doc
  BY <1>3 DEF CheckoutRequest
<1>6. placed[r] = NoOrder /\ UNCHANGED <<menu, carts, upserts, placed>>
  BY DEF CheckoutRead, CartsIInv, CheckoutsSound
<1> HIDE DEF q
<1>. QED BY <1>2, <1>3, <1>4, <1>5, <1>6, CheckoutMoves

LEMMA CheckoutRefusedIInv ==
  ASSUME CartsIInv, NEW r \in Checkout, CheckoutRefused(r)
  PROVE  CartsIInv'
BY LeavesTxIInv DEF CheckoutRefused

LEMMA CheckoutConflictIInv ==
  ASSUME CartsIInv, NEW r \in Checkout, CheckoutConflict(r)
  PROVE  CartsIInv'
BY LeavesTxIInv DEF CheckoutConflict

LEMMA CheckoutAbortsIInv ==
  ASSUME CartsIInv, NEW r \in Checkout, CheckoutAborts(r)
  PROVE  CartsIInv'
BY LeavesTxIInv DEF CheckoutAborts

\* An item the menu does not have is of no restaurant, so what can be sold is of R.
LEMMA SellableItems ==
  ASSUME NEW doc \in CartDoc, NEW R \in Restaurant, Sellable(doc, R)
  PROVE  /\ doc.items # {} /\ doc.coupon \notin BadCoupon
         /\ \A e \in doc.items : restaurantOf[e.item] = R
<1>1. NoRestaurant # R
  BY CartsAssumption
<1>. QED BY <1>1 DEF Sellable, RestaurantsOf

LEMMA CheckoutPlaceIInv ==
  ASSUME CartsIInv, NEW r \in Checkout, NEW R \in Restaurant, CheckoutPlace(r, R)
  PROVE  CartsIInv'
<1> DEFINE q == [checkout[r] EXCEPT !.phase = "placed", !.restaurant = R]
<1>1. checkout[r] \in CheckoutRequest
  BY DEF CartsIInv, TypeOK
<1>2. /\ q \in CheckoutRequest /\ q.phase = "placed" /\ q.restaurant = R
      /\ q.user = checkout[r].user /\ q.cart = checkout[r].cart /\ q.doc = checkout[r].doc
      /\ checkout[r].doc \in CartDoc
  BY <1>1 DEF CheckoutRequest
<1>3. /\ checkout[r].phase = "read" /\ ~checkout[r].stale /\ ~Locked(checkout[r].cart)
      /\ checkout' = [checkout EXCEPT ![r] = q] /\ UNCHANGED <<menu, carts, upserts, placed>>
  BY DEF CheckoutPlace, Conflict
<1> HIDE DEF q
<1>4. /\ q.doc.items # {} /\ q.doc.coupon \notin BadCoupon
      /\ \A e \in q.doc.items : restaurantOf[e.item] = R
  BY <1>2, SellableItems DEF CheckoutPlace
<1>5. q.cart # 0
  BY <1>2, <1>3, <1>4 DEF CartsIInv, CheckoutsSound, NoCart
<1>6. /\ carts[q.cart] = q.doc /\ q.doc.user = q.user /\ q.user \in User
      /\ placed[r] = NoOrder
  BY <1>2, <1>3, <1>5 DEF CartsIInv, CheckoutsSound
<1>. QED BY <1>2, <1>3, <1>4, <1>5, <1>6, CheckoutMoves

LEMMA CheckoutAnswersIInv ==
  ASSUME CartsIInv, NEW r \in Checkout, CheckoutAnswers(r)
  PROVE  CartsIInv'
<1>1. PICK answer \in {"ok", "error"} : checkout' = [checkout EXCEPT ![r].phase = answer]
  BY DEF CheckoutAnswers
<1> DEFINE q == [checkout[r] EXCEPT !.phase = answer]
<1>2. checkout[r] \in CheckoutRequest
  BY DEF CartsIInv, TypeOK
<1>3. q \in CheckoutRequest /\ q.phase = answer /\ q.user = checkout[r].user
  BY <1>2 DEF CheckoutRequest
<1>4. checkout' = [checkout EXCEPT ![r] = q] /\ UNCHANGED <<menu, carts, upserts, placed>>
  BY <1>1 DEF CheckoutAnswers
<1> HIDE DEF q
<1>. QED BY <1>3, <1>4, CheckoutMoves

\* The items move from the cart, where they were alone, into the order.
LEMMA CheckoutCommitIInv ==
  ASSUME CartsIInv, NEW r \in Checkout, CheckoutCommit(r)
  PROVE  CartsIInv'
<1> USE DEF CartsIInv
<1> DEFINE c == checkout[r].cart
           doc == checkout[r].doc
           order == [user |-> doc.user, items |-> doc.items, coupon |-> doc.coupon,
                     restaurant |-> checkout[r].restaurant]
           q == LeavesTx(r, "committed")
<1>1. /\ c \in CartId /\ carts[c] = doc /\ doc \in CartDoc
      /\ doc.user = checkout[r].user /\ doc.user \in User
      /\ doc.items # {} /\ doc.coupon \notin BadCoupon
      /\ checkout[r].restaurant \in Restaurant
      /\ \A e \in doc.items : restaurantOf[e.item] = checkout[r].restaurant
      /\ \A s \in Checkout \ {r} : ~(checkout[s].phase = "placed" /\ checkout[s].cart = c)
  BY DEF CheckoutCommit, CheckoutsSound, TypeOK, CheckoutRequest
<1>2. /\ order \in Order /\ order.user = doc.user /\ order.items = doc.items
      /\ order.coupon = doc.coupon /\ order.restaurant = checkout[r].restaurant
  BY <1>1 DEF Order, CartDoc
<1>3. /\ q \in CheckoutRequest /\ q.phase = "committed" /\ q.user = checkout[r].user
  BY LeavesTxType
<1>4. /\ placed' = [placed EXCEPT ![r] = order] /\ carts' = [carts EXCEPT ![c] = NoCart]
      /\ checkout' = [MarkStale(c) EXCEPT ![r] = q] /\ UNCHANGED <<menu, upserts>>
  BY DEF CheckoutCommit
<1> HIDE DEF c, doc, order, q
<1>5. NoCart \in CartDoc /\ NoCart.items = {}
  BY DEF NoCart, CartDoc
<1>6. /\ placed'[r] = order /\ \A s \in Checkout \ {r} : placed'[s] = placed[s]
      /\ placed' \in [Checkout -> Order \cup {NoOrder}]
      /\ carts'[c] = NoCart /\ \A d \in CartId \ {c} : carts'[d] = carts[d]
      /\ carts' \in [CartId -> CartDoc]
  BY <1>1, <1>2, <1>4, <1>5 DEF TypeOK
<1>7. /\ checkout' \in [Checkout -> CheckoutRequest] /\ checkout'[r] = q
      /\ \A s \in Checkout \ {r} :
           /\ checkout'[s].phase = checkout[s].phase
           /\ checkout'[s].user = checkout[s].user
           /\ checkout'[s].cart = checkout[s].cart
           /\ checkout'[s].doc = checkout[s].doc
           /\ checkout'[s].restaurant = checkout[s].restaurant
           /\ ~checkout'[s].stale /\ checkout[s].phase = "read" =>
                ~checkout[s].stale /\ checkout[s].cart # c
  <2>1. MarkStale(c) \in [Checkout -> CheckoutRequest]
    BY <1>1, MarkStaleOnly
  <2>2. \A s \in Checkout \ {r} : checkout'[s] = MarkStale(c)[s]
    BY <1>4, <2>1
  <2>. QED BY <1>1, <1>3, <1>4, <2>1, <2>2, MarkStaleOnly
<1>8. TypeOK'
  BY <1>4, <1>6, <1>7 DEF TypeOK
<1>9. UpsertsSound'
  <2>1. \A up \in upserts : \A e \in up.items :
          /\ \A d \in CartId : \A f \in carts'[d].items : e.id # f.id
          /\ \A s \in Checkout : \A f \in placed'[s].items : e.id # f.id
    BY <1>1, <1>2, <1>5, <1>6 DEF UpsertsSound
  <2>. QED BY <1>4, <2>1 DEF UpsertsSound
<1>10. CheckoutsSound'
  <2>1. \A s \in Checkout : checkout[s].cart \in CartId \cup {0}
    BY DEF TypeOK, CheckoutRequest
  <2>. QED BY <1>1, <1>3, <1>6, <1>7, <2>1 DEF CheckoutsSound
<1>11. ItemInOnePlace'
  <2>1. \A s \in Checkout, d \in CartId : \A e \in placed'[s].items, f \in carts'[d].items : e.id # f.id
    BY <1>1, <1>2, <1>5, <1>6 DEF ItemInOnePlace
  <2>2. \A s, t \in Checkout : \A e \in placed'[s].items, f \in placed'[t].items :
          e.id = f.id => s = t /\ e = f
    BY <1>1, <1>2, <1>6 DEF ItemInOnePlace
  <2>3. \A d, k \in CartId : \A e \in carts'[d].items, f \in carts'[k].items :
          e.id = f.id => d = k /\ e = f
    BY <1>5, <1>6 DEF ItemInOnePlace
  <2>. QED BY <2>1, <2>2, <2>3 DEF ItemInOnePlace
<1>12. OrdersAreSellable'
  BY <1>1, <1>2, <1>3, <1>6, <1>7 DEF OrdersAreSellable
<1>. QED BY <1>8, <1>9, <1>10, <1>11, <1>12

-----------------------------------------------------------------------------
(* The invariant *)

LEMMA NextCarts == CartsIInv /\ [Next]_vars => CartsIInv'
<1> SUFFICES ASSUME CartsIInv, [Next]_vars PROVE CartsIInv'
  OBVIOUS
<1>1. CASE UNCHANGED vars
  BY <1>1 DEF vars, CartsIInv, TypeOK, UpsertsSound, CheckoutsSound, ItemInOnePlace,
              OrdersAreSellable
<1>2. ASSUME NEW u \in User, NEW x \in CartItemId, NEW i \in Item, NEW a \in Amount,
             AddItem(u, x, i, a)
      PROVE  CartsIInv'
  BY <1>2, AddItemIInv
<1>3. ASSUME NEW u \in User, NEW k \in Coupon \cup BadCoupon \cup {NoCoupon}, SetCartCoupon(u, k)
      PROVE  CartsIInv'
  BY <1>3, SetCartCouponIInv
<1>4. ASSUME NEW u \in User, NEW x \in CartItemId, RemoveItem(u, x)
      PROVE  CartsIInv'
  BY <1>4, RemoveItemIInv
<1>5. ASSUME NEW u \in User, NEW x \in CartItemId, NEW a \in Amount, UpdateItem(u, x, a)
      PROVE  CartsIInv'
  BY <1>5, UpdateItemIInv
<1>6. ASSUME NEW u \in User, ClearCart(u) PROVE CartsIInv'
  BY <1>6, ClearCartIInv
<1>7. ASSUME NEW u \in User, NEW r \in Checkout, CheckoutRead(r, u) PROVE CartsIInv'
  BY <1>7, CheckoutReadIInv
<1>8. ASSUME NEW doc \in upserts, UpsertInserts(doc) PROVE CartsIInv'
  BY <1>8, UpsertInsertsIInv
<1>9. ASSUME NEW i \in Item, DeleteMenuItem(i) PROVE CartsIInv'
  BY <1>9, DeleteMenuItemIInv
<1>10. ASSUME NEW r \in Checkout, NEW R \in Restaurant, CheckoutPlace(r, R) PROVE CartsIInv'
  BY <1>10, CheckoutPlaceIInv
<1>11. ASSUME NEW r \in Checkout,
              CheckoutRefused(r) \/ CheckoutConflict(r) \/ CheckoutAborts(r)
       PROVE  CartsIInv'
  BY <1>11, CheckoutRefusedIInv, CheckoutConflictIInv, CheckoutAbortsIInv
<1>12. ASSUME NEW r \in Checkout, CheckoutCommit(r) PROVE CartsIInv'
  BY <1>12, CheckoutCommitIInv
<1>13. ASSUME NEW r \in Checkout, CheckoutAnswers(r) PROVE CartsIInv'
  BY <1>13, CheckoutAnswersIInv
<1>. QED BY <1>1, <1>2, <1>3, <1>4, <1>5, <1>6, <1>7, <1>8, <1>9, <1>10, <1>11, <1>12, <1>13
         DEF Next

LEMMA CartsInvariant == Spec => []CartsIInv
<1>. QED BY InitCarts, NextCarts, PTL DEF Spec

\* Carts, upserts, checkouts and orders have the shapes of the documents and requests
\* of order-service (repo/cart.go, repo/order.go).
THEOREM CartsTypeCorrect == Spec => []TypeOK
<1>1. CartsIInv => TypeOK
  BY DEF CartsIInv
<1>. QED BY <1>1, CartsInvariant, PTL

\* However upserts, edits and checkouts of a user interleave, no item is in two orders,
\* in two carts, or in an order and still in a cart (CreateOrderFromCart).
THEOREM ItemsInOnePlace == Spec => []ItemInOnePlace
<1>1. CartsIInv => ItemInOnePlace
  BY DEF CartsIInv
<1>. QED BY <1>1, CartsInvariant, PTL

\* Every order CreateOrderFromCart has committed is of the user who asked for it and of
\* the one restaurant of its items, whatever left the menu since the cart was read.
THEOREM OrdersSellable == Spec => []OrdersAreSellable
<1>1. CartsIInv => OrdersAreSellable
  BY DEF CartsIInv
<1>. QED BY <1>1, CartsInvariant, PTL

-----------------------------------------------------------------------------
(* Refinement of CartLedger *)

\* The entry of an item in CartLedger.
Entry(doc, e) == [user |-> doc.user, id |-> e.id, amount |-> <<e.item, e.amount>>]

LEMMA EntriesAre ==
  ASSUME NEW doc
  PROVE  \A l : l \in Entries(doc) <=> \E e \in doc.items : l = Entry(doc, e)
BY DEF Entries, Entry

LEMMA EntryFields ==
  ASSUME NEW doc, NEW e
  PROVE  Entry(doc, e).user = doc.user /\ Entry(doc, e).id = e.id
BY DEF Entry

\* Writing a cart replaces its entries; the entries of the other carts have other ids.
LEMMA LiveWritten ==
  ASSUME CartsIInv, NEW c \in CartId, NEW doc \in CartDoc,
         carts' = [carts EXCEPT ![c] = doc], Apart(doc, c, {})
  PROVE  \E rest :
           /\ Live = rest \cup Entries(carts[c])
           /\ Live' = rest \cup Entries(doc)
           /\ \A l \in rest : /\ \A k \in Entries(carts[c]) : l.id # k.id
                              /\ \A k \in Entries(doc) : l.id # k.id
<1> DEFINE rest == UNION {Entries(carts[d]) : d \in CartId \ {c}}
<1>1. carts'[c] = doc /\ \A d \in CartId \ {c} : carts'[d] = carts[d]
  BY DEF CartsIInv, TypeOK
<1>2. Live = rest \cup Entries(carts[c])
  BY DEF Live
<1>3. Live' = rest \cup Entries(doc)
  <2>1. Live' = UNION {Entries(carts'[d]) : d \in CartId}
    BY DEF Live, Entries
  <2>. QED BY <1>1, <2>1
<1>4. ASSUME NEW l \in rest
      PROVE  /\ \A k \in Entries(carts[c]) : l.id # k.id
             /\ \A k \in Entries(doc) : l.id # k.id
  <2>1. PICK d \in CartId \ {c} : l \in Entries(carts[d])
    OBVIOUS
  <2>2. PICK e \in carts[d].items : l.id = e.id
    BY <2>1, EntriesAre, EntryFields
  <2>3. \A k \in Entries(carts[c]) : \E f \in carts[c].items : k.id = f.id
    BY EntriesAre, EntryFields
  <2>4. \A k \in Entries(doc) : \E f \in doc.items : k.id = f.id
    BY EntriesAre, EntryFields
  <2>5. \A f \in carts[c].items : e.id # f.id
    BY DEF CartsIInv, ItemInOnePlace
  <2>6. \A f \in doc.items : e.id # f.id
    BY DEF Apart
  <2>. QED BY <2>2, <2>3, <2>4, <2>5, <2>6
<1> HIDE DEF rest
<1>. QED BY <1>2, <1>3, <1>4

LEMMA LedgerInit == Init => Ledger!Init
<1> SUFFICES ASSUME Init PROVE Ledger!Init
  OBVIOUS
<1>1. Live = {}
  BY DEF Init, Live, Entries, NoCart
<1>2. [r \in Checkout |-> Entries(placed[r])] = [r \in Checkout |-> {}]
  BY DEF Init, Entries, NoOrder
<1>. QED BY <1>1, <1>2 DEF Ledger!Init

\* Steps that leave the items of carts and orders alone are no steps of the ledger.
LEMMA LedgerStutters ==
  ASSUME Live' = Live, UNCHANGED placed
  PROVE  UNCHANGED Ledger!vars
BY DEF Ledger!vars, Entries

LEMMA AddItemSteps ==
  ASSUME CartsIInv, NEW u \in User, NEW x \in CartItemId, NEW i \in Item, NEW a \in Amount,
         AddItem(u, x, i, a)
  PROVE  [Ledger!Next]_Ledger!vars
<1> DEFINE e == [id |-> x, item |-> i, amount |-> a]
<1>1. Fresh(x) /\ e \in CartItem /\ e.id = x
  BY DEF AddItem, CartItem
<1>2. ASSUME UNCHANGED <<carts, placed>> PROVE [Ledger!Next]_Ledger!vars
  BY <1>2, LedgerStutters DEF Live, Entries
<1>3. ASSUME NEW c \in CartId, WriteCart(c, [carts[c] EXCEPT !.items = @ \cup {e}])
      PROVE  [Ledger!Next]_Ledger!vars
  <2> DEFINE doc == [carts[c] EXCEPT !.items = @ \cup {e}]
  <2>1. carts[c] \in CartDoc
    BY DEF CartsIInv, TypeOK
  <2>2. doc \in CartDoc /\ doc.items = carts[c].items \cup {e} /\ doc.user = carts[c].user
    BY <1>1, <2>1 DEF CartDoc
  <2>3. carts' = [carts EXCEPT ![c] = doc] /\ UNCHANGED placed
    BY <1>3 DEF WriteCart
  <2> HIDE DEF e, doc
  <2>4. Apart(doc, c, {})
    <3>1. Apart(carts[c], c, upserts)
      BY CartItemsApart DEF CartsIInv, ItemInOnePlace
    <3>2. /\ \A d \in CartId : \A f \in carts[d].items : f.id # e.id
          /\ \A r \in Checkout : \A f \in placed[r].items : f.id # e.id
      BY <1>1 DEF Fresh
    <3>. QED BY <2>2, <3>1, <3>2 DEF Apart
  <2>5. PICK rest : /\ Live = rest \cup Entries(carts[c])
                    /\ Live' = rest \cup Entries(doc)
                    /\ \A l \in rest : /\ \A k \in Entries(carts[c]) : l.id # k.id
                                       /\ \A k \in Entries(doc) : l.id # k.id
    BY <2>2, <2>3, <2>4, LiveWritten
  <2>6. Entries(doc) = Entries(carts[c]) \cup {Entry(doc, e)}
    BY <2>2 DEF Entries, Entry
  <2>7. Entry(doc, e).id = x
    BY <1>1, EntryFields
  <2>8. \A l \in Entries(carts[c]) : l.id # x
    BY <1>1, EntriesAre, EntryFields DEF Fresh
  <2>9. \A l \in rest : l.id # x
    BY <2>5, <2>6, <2>7
  <2>10. \A l \in Live' \ Live, k \in Live : l.id # k.id
    BY <2>5, <2>6, <2>7, <2>8, <2>9
  <2>11. Live \subseteq Live'
    BY <2>5, <2>6
  <2>12. Ledger!Add
    BY <2>3, <2>10, <2>11 DEF Ledger!Add, Ledger!Gone, Entries
  <2>. QED BY <2>12 DEF Ledger!Next
<1>4. \/ UNCHANGED <<carts, placed>>
      \/ \E c \in CartId : WriteCart(c, [carts[c] EXCEPT !.items = @ \cup {e}])
  BY DEF AddItem, UpsertMisses
<1> HIDE DEF e
<1>. QED BY <1>2, <1>3, <1>4

LEMMA SetCartCouponSteps ==
  ASSUME CartsIInv, NEW u \in User, NEW k \in Coupon \cup BadCoupon \cup {NoCoupon},
         SetCartCoupon(u, k)
  PROVE  UNCHANGED Ledger!vars
<1>1. UNCHANGED placed
  BY DEF SetCartCoupon, UpsertMisses, WriteCart
<1>2. \A c \in CartId : Entries(carts'[c]) = Entries(carts[c])
  <2>1. CASE UNCHANGED carts
    BY <2>1
  <2>2. ASSUME NEW c \in CartId, carts' = [carts EXCEPT ![c] = [carts[c] EXCEPT !.coupon = k]]
        PROVE  \A d \in CartId : Entries(carts'[d]) = Entries(carts[d])
    <3>1. \A d \in CartId : carts'[d].user = carts[d].user /\ carts'[d].items = carts[d].items
      BY <2>2 DEF CartsIInv, TypeOK, CartDoc
    <3>. QED BY <3>1 DEF Entries
  <2>. QED BY <2>1, <2>2 DEF SetCartCoupon, UpsertMisses, WriteCart
<1>3. Live' = Live
  <2>1. Live' = UNION {Entries(carts'[c]) : c \in CartId}
    BY DEF Live, Entries
  <2>. QED BY <1>2, <2>1 DEF Live
<1>. QED BY <1>1, <1>3, LedgerStutters

\* What leaves a cart of u is dropped by u.
LEMMA CartShrinks ==
  ASSUME CartsIInv, NEW u \in User, NEW c \in CartId, carts[c].user = u, NEW doc \in CartDoc,
         doc.items = {} \/ doc.user = u, doc.items \subseteq carts[c].items, WriteCart(c, doc)
  PROVE  [Ledger!Next]_Ledger!vars
<1>1. carts' = [carts EXCEPT ![c] = doc] /\ UNCHANGED placed
  BY DEF WriteCart
<1>2. Apart(doc, c, {})
  BY CartItemsApart DEF CartsIInv, ItemInOnePlace, Apart
<1>3. PICK rest : Live = rest \cup Entries(carts[c]) /\ Live' = rest \cup Entries(doc)
  BY <1>1, <1>2, LiveWritten
<1>4. Entries(doc) \subseteq Entries(carts[c]) /\ \A l \in Entries(carts[c]) : l.user = u
  BY DEF Entries
<1>5. Ledger!Drop(u)
  BY <1>1, <1>3, <1>4 DEF Ledger!Drop, Ledger!Gone, Entries
<1>. QED BY <1>5 DEF Ledger!Next

LEMMA RemoveItemSteps ==
  ASSUME CartsIInv, NEW u \in User, NEW x \in CartItemId, RemoveItem(u, x)
  PROVE  [Ledger!Next]_Ledger!vars
<1>1. PICK c \in CartId : /\ IsFirst(c, CartsOf(u))
                          /\ WriteCart(c, [carts[c] EXCEPT !.items = {e \in @ : e.id # x}])
  BY DEF RemoveItem
<1> DEFINE doc == [carts[c] EXCEPT !.items = {e \in @ : e.id # x}]
<1>2. carts[c] \in CartDoc /\ carts[c].user = u
  BY <1>1, FirstIsUsers
<1>3. /\ doc \in CartDoc /\ doc.user = u /\ doc.items \subseteq carts[c].items
      /\ WriteCart(c, doc)
  BY <1>1, <1>2 DEF CartDoc
<1> HIDE DEF doc
<1>. QED BY <1>2, <1>3, CartShrinks

LEMMA ClearCartSteps ==
  ASSUME CartsIInv, NEW u \in User, ClearCart(u)
  PROVE  [Ledger!Next]_Ledger!vars
<1>1. PICK c \in CartId : IsFirst(c, CartsOf(u)) /\ WriteCart(c, NoCart)
  BY DEF ClearCart
<1>2. carts[c].user = u
  BY <1>1, FirstIsUsers
<1>3. NoCart \in CartDoc /\ NoCart.items = {}
  BY DEF NoCart, CartDoc
<1>. QED BY <1>1, <1>2, <1>3, CartShrinks

LEMMA UpdateItemSteps ==
  ASSUME CartsIInv, NEW u \in User, NEW x \in CartItemId, NEW a \in Amount, UpdateItem(u, x, a)
  PROVE  [Ledger!Next]_Ledger!vars
<1> DEFINE New(e) == IF e.id = x THEN [e EXCEPT !.amount = a] ELSE e
<1>1. PICK c \in CartId :
        /\ \E e \in carts[c].items : e.id = x
        /\ WriteCart(c, [carts[c] EXCEPT !.items = {New(e) : e \in @}])
  BY DEF UpdateItem, IsFirst
<1> DEFINE doc == [carts[c] EXCEPT !.items = {New(e) : e \in @}]
<1>2. carts[c] \in CartDoc
  BY DEF CartsIInv, TypeOK
<1>3. \A e \in CartItem : New(e) \in CartItem /\ New(e).id = e.id /\ (e.id # x => New(e) = e)
  BY DEF CartItem
<1>4. /\ doc.items = {New(e) : e \in carts[c].items} /\ carts[c].items \subseteq CartItem
      /\ doc.user = carts[c].user
  BY <1>2 DEF CartDoc
<1>5. doc \in CartDoc
  BY <1>2, <1>3, <1>4 DEF CartDoc
<1>6. carts' = [carts EXCEPT ![c] = doc] /\ UNCHANGED placed
  BY <1>1 DEF WriteCart
<1>7. PICK old \in carts[c].items : old.id = x
  BY <1>1
<1> HIDE DEF doc, New
<1>8. \A e \in carts[c].items : e.id = x => e = old
  BY <1>7 DEF CartsIInv, ItemInOnePlace
<1>9. doc.items = (carts[c].items \ {old}) \cup {New(old)} /\ New(old).id = x
  BY <1>3, <1>4, <1>7, <1>8
<1>10. Apart(doc, c, {})
  <2>1. \A e \in doc.items : \E f \in carts[c].items : f.id = e.id
    BY <1>7, <1>9
  <2>2. \A e, f \in doc.items : e.id = f.id => e = f
    BY <1>8, <1>9 DEF CartsIInv, ItemInOnePlace
  <2>3. Apart(doc, c, upserts)
    BY <2>1, <2>2, CartItemsApart
  <2>. QED BY <2>3 DEF Apart
<1>11. PICK rest : /\ Live = rest \cup Entries(carts[c])
                   /\ Live' = rest \cup Entries(doc)
                   /\ \A l \in rest : /\ \A k \in Entries(carts[c]) : l.id # k.id
                                      /\ \A k \in Entries(doc) : l.id # k.id
  BY <1>5, <1>6, <1>10, LiveWritten
<1> DEFINE was == Entry(carts[c], old)
           now == Entry(doc, New(old))
<1>12. /\ was \in Entries(carts[c]) /\ now \in Entries(doc)
       /\ was.id = x /\ now.id = x /\ now.user = was.user
  BY <1>4, <1>7, <1>9, EntriesAre, EntryFields
<1>13. Entries(doc) = (Entries(carts[c]) \ {was}) \cup {now}
  <2>1. \A e \in carts[c].items : Entry(doc, e) = Entry(carts[c], e)
    BY <1>4 DEF Entry
  <2>2. \A e \in carts[c].items \ {old} : Entry(carts[c], e) # was
    BY <1>7, <1>8, EntryFields
  <2>. QED BY <1>9, <2>1, <2>2, EntriesAre
<1> HIDE DEF was, now
<1>14. Live' = (Live \ {was}) \cup {now} /\ was \in Live /\ now \in Live'
  BY <1>11, <1>12, <1>13
<1>15. Ledger!Change
  BY <1>6, <1>12, <1>14 DEF Ledger!Change, Entries
<1>. QED BY <1>15 DEF Ledger!Next

LEMMA UpsertInsertsSteps ==
  ASSUME CartsIInv, NEW doc \in upserts, UpsertInserts(doc)
  PROVE  [Ledger!Next]_Ledger!vars
<1>1. doc \in CartDoc /\ UNCHANGED placed
  BY DEF UpsertInserts, CartsIInv, TypeOK
<1>2. PICK c \in CartId : carts[c] = NoCart /\ carts' = [carts EXCEPT ![c] = doc]
  BY DEF UpsertInserts, IsFirst, CartId
<1>3. Apart(doc, c, {})
  BY DEF Apart, CartsIInv, UpsertsSound
<1>4. PICK rest : /\ Live = rest \cup Entries(carts[c])
                  /\ Live' = rest \cup Entries(doc)
                  /\ \A l \in rest : \A k \in Entries(doc) : l.id # k.id
  BY <1>1, <1>2, <1>3, LiveWritten
<1>5. Entries(carts[c]) = {}
  BY <1>2 DEF Entries, NoCart
<1>6. Ledger!Add
  BY <1>1, <1>4, <1>5 DEF Ledger!Add, Ledger!Gone, Entries
<1>. QED BY <1>6 DEF Ledger!Next

\* The checkout buys exactly the items of the cart that it deletes.
LEMMA CheckoutCommitSteps ==
  ASSUME CartsIInv, NEW r \in Checkout, CheckoutCommit(r)
  PROVE  [Ledger!Next]_Ledger!vars
<1> DEFINE c == checkout[r].cart
           doc == checkout[r].doc
           order == [user |-> doc.user, items |-> doc.items, coupon |-> doc.coupon,
                     restaurant |-> checkout[r].restaurant]
<1>1. /\ c \in CartId /\ carts[c] = doc /\ doc.user \in User /\ doc.items # {}
      /\ placed[r] = NoOrder /\ placed \in [Checkout -> Order \cup {NoOrder}]
  BY DEF CheckoutCommit, CartsIInv, CheckoutsSound, TypeOK, CheckoutRequest
<1>2. carts' = [carts EXCEPT ![c] = NoCart] /\ placed' = [placed EXCEPT ![r] = order]
  BY DEF CheckoutCommit
<1>3. order.user = doc.user /\ order.items = doc.items
  OBVIOUS
<1> HIDE DEF c, doc, order
<1>4. NoCart \in CartDoc /\ Apart(NoCart, c, {}) /\ Entries(NoCart) = {}
  BY DEF NoCart, CartDoc, Apart, Entries
<1>5. PICK rest : /\ Live = rest \cup Entries(carts[c])
                  /\ Live' = rest \cup Entries(NoCart)
                  /\ \A l \in rest : /\ \A k \in Entries(carts[c]) : l.id # k.id
                                     /\ \A k \in Entries(NoCart) : l.id # k.id
  BY <1>1, <1>2, <1>4, LiveWritten
<1>6. Live \ Live' = Entries(doc) /\ Live' \subseteq Live
  BY <1>1, <1>4, <1>5
<1>7. Entries(doc) # {} /\ \A l \in Entries(doc) : l.user = doc.user
  BY <1>1, EntriesAre, EntryFields
<1>8. Entries(placed[r]) = {} /\ Entries(order) = Entries(doc)
  BY <1>1, <1>3 DEF Entries, NoOrder
<1>9. [s \in Checkout |-> Entries(placed'[s])]
        = [[s \in Checkout |-> Entries(placed[s])] EXCEPT ![r] = Entries(doc)]
  BY <1>1, <1>2, <1>8
<1>10. [s \in Checkout |-> Entries(placed[s])]' = [s \in Checkout |-> Entries(placed'[s])]
  BY DEF Entries
<1>11. Ledger!Buy(doc.user, r)
  BY <1>6, <1>7, <1>8, <1>9, <1>10 DEF Ledger!Buy, Ledger!Gone
<1>. QED BY <1>1, <1>11 DEF Ledger!Next

LEMMA LedgerNext == CartsIInv /\ [Next]_vars => [Ledger!Next]_Ledger!vars
<1> SUFFICES ASSUME CartsIInv, [Next]_vars PROVE [Ledger!Next]_Ledger!vars
  OBVIOUS
<1>1. ASSUME UNCHANGED <<carts, placed>> PROVE [Ledger!Next]_Ledger!vars
  BY <1>1, LedgerStutters DEF Live, Entries
<1>2. ASSUME NEW u \in User, NEW x \in CartItemId, NEW i \in Item, NEW a \in Amount,
             AddItem(u, x, i, a)
      PROVE  [Ledger!Next]_Ledger!vars
  BY <1>2, AddItemSteps
<1>3. ASSUME NEW u \in User, NEW k \in Coupon \cup BadCoupon \cup {NoCoupon}, SetCartCoupon(u, k)
      PROVE  [Ledger!Next]_Ledger!vars
  BY <1>3, SetCartCouponSteps
<1>4. ASSUME NEW u \in User, NEW x \in CartItemId, RemoveItem(u, x)
      PROVE  [Ledger!Next]_Ledger!vars
  BY <1>4, RemoveItemSteps
<1>5. ASSUME NEW u \in User, NEW x \in CartItemId, NEW a \in Amount, UpdateItem(u, x, a)
      PROVE  [Ledger!Next]_Ledger!vars
  BY <1>5, UpdateItemSteps
<1>6. ASSUME NEW u \in User, ClearCart(u) PROVE [Ledger!Next]_Ledger!vars
  BY <1>6, ClearCartSteps
<1>7. ASSUME NEW doc \in upserts, UpsertInserts(doc) PROVE [Ledger!Next]_Ledger!vars
  BY <1>7, UpsertInsertsSteps
<1>8. ASSUME NEW r \in Checkout, CheckoutCommit(r) PROVE [Ledger!Next]_Ledger!vars
  BY <1>8, CheckoutCommitSteps
<1>9. ASSUME \/ UNCHANGED vars
             \/ \E u \in User, r \in Checkout : CheckoutRead(r, u)
             \/ \E i \in Item : DeleteMenuItem(i)
             \/ \E r \in Checkout, R \in Restaurant : CheckoutPlace(r, R)
             \/ \E r \in Checkout : \/ CheckoutRefused(r) \/ CheckoutConflict(r)
                                    \/ CheckoutAborts(r) \/ CheckoutAnswers(r)
      PROVE  UNCHANGED <<carts, placed>>
  BY <1>9 DEF vars, CheckoutRead, DeleteMenuItem, CheckoutPlace, CheckoutRefused,
              CheckoutConflict, CheckoutAborts, CheckoutAnswers
<1>. QED BY <1>1, <1>2, <1>3, <1>4, <1>5, <1>6, <1>7, <1>8, <1>9 DEF Next

\* Carts and checkouts keep the promise of CartLedger: an item stays in its user's carts,
\* with the amount last set, until the user removes it or CreateOrderFromCart moves it
\* into exactly one order.
THEOREM CartsRefine == Spec => ImplementsLedger
<1>. QED BY LedgerInit, CartsInvariant, LedgerNext, PTL DEF Spec, ImplementsLedger, Ledger!Spec
==============================================================================
