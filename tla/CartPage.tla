----------------------------- MODULE CartPage ------------------------------
(***************************************************************************)
(* The cart and the checkout of web-ui (CartDialog, CartMenu, CartItem,    *)
(* CouponSelector, DeliveryForm, Checkout) in tabs of one user; other tabs  *)
(* and devices of the user are OtherClient.                                *)
(*                                                                         *)
(* Each tab shows the cart from its query cache and decides from what it   *)
(* shows: which buttons work, which amount an edit asks for, whether the   *)
(* limits of an order are kept.  Every click is a call of its own; a call  *)
(* is sent, answered by the service and applied to the page in three       *)
(* steps, and several are under way at a time.  Adding, editing and        *)
(* coupons write the answered cart into the cache; removing, clearing and  *)
(* ordering invalidate it.  An error only shows a toast, also when the     *)
(* service has carried the call out: the prices and the coupon are looked  *)
(* up after the cart is written, and that may fail, or the answer be lost. *)
(* The order service is reduced to what the page sees of it; Carts.tla has *)
(* the rest.                                                               *)
(***************************************************************************)
EXTENDS Integers, FiniteSets, FiniteSetsExt, Sequences, QueryCache

CONSTANTS Tab, Call,
          Slot,                     \* ids of cart items, each used once
          price,                    \* the price of the item in a slot
          Amount,                   \* amounts typed into the add dialog
          MaxSize, MinTotal, MaxTotal, \* the limits: 100, 500 and 20000
          Discount,                 \* percentage of the coupon
          MaxOrders,                \* bound on orders
          None, DONE, FAILED

VARIABLES cart, used,               \* the service: the cart, ids given
          orders,                   \* orders made: their items and status
          cache,                    \* per tab: the query ['cart', userId]
          call,                     \* calls under way
          paying,                   \* per tab: order whose payment page it went to
          toldCanceled,             \* orders a tab called canceled
          disturbed                 \* history: per tab, whether since its cart was last
                                    \* read it may have missed something, see below

vars == <<cart, used, orders, cache, call, paying, toldCanceled, disturbed>>
service == <<cart, used, orders>>

-----------------------------------------------------------------------------
\* A code that the promotions do not know is one whose lookups all fail.
Coupons == {"none", "code"}
EmptyCart == [s \in Slot |-> 0]
Nothing == [amount |-> EmptyCart, coupon |-> "none"]
Cart == [amount : [Slot -> 0..MaxSize], coupon : Coupons]
Size(c) == MapThenSumSet(LAMBDA s : c.amount[s], Slot)
SubTotal(c) == MapThenSumSet(LAMBDA s : c.amount[s] * price[s], Slot)
Total(c) == IF c.coupon = "code" THEN (SubTotal(c) * (100 - Discount)) \div 100 ELSE SubTotal(c)

WithinLimits(c) == Size(c) <= MaxSize /\ Total(c) >= MinTotal /\ Total(c) <= MaxTotal

Op == {"add", "edit", "remove", "clear", "coupon", "order", "pay", "cancel"}
Idle == [tab |-> None, op |-> None, arg |-> None, n |-> 0, at |-> "idle", answer |-> None]

\* The cart a tab renders, an empty one while it loads.
Shown(t) == IF cache[t].data = NoData THEN Nothing ELSE cache[t].data
Under(t) == {c \in Call : call[c].tab = t}

Init ==
    /\ cart = Nothing /\ used = {} /\ orders = << >>
    /\ cache = [t \in Tab |-> Fresh]
    /\ call = [c \in Call |-> Idle]
    /\ paying = [t \in Tab |-> None] /\ toldCanceled = {}
    /\ disturbed = [t \in Tab |-> FALSE]

-----------------------------------------------------------------------------
(* The query of the cart. *)

\* The header mounts, or the window gets the focus again.
FetchCart(t) ==
    /\ paying[t] = None /\ cache[t].fetch = "idle"
    /\ cache' = [cache EXCEPT ![t] = Fetching(@)]
    /\ UNCHANGED <<service, call, paying, toldCanceled, disturbed>>

GetCart(t) ==
    /\ cache[t].fetch = "sent"
    /\ cache' = [cache EXCEPT ![t] = Served(@, cart)]
    /\ disturbed' = [disturbed EXCEPT ![t] = @ /\ Under(t) # {}]
    /\ UNCHANGED <<service, call, paying, toldCanceled>>

ShowCart(t) ==
    /\ cache[t].fetch = "answered"
    /\ cache' = [cache EXCEPT ![t] = Filled(@)]
    /\ UNCHANGED <<service, call, paying, toldCanceled, disturbed>>

\* The fetch fails for good: the cart shown before stays.
FetchFails(t) ==
    /\ cache[t].fetch # "idle"
    /\ cache' = [cache EXCEPT ![t] = Failed(@)]
    /\ disturbed' = [disturbed EXCEPT ![t] = TRUE]
    /\ UNCHANGED <<service, call, paying, toldCanceled>>

-----------------------------------------------------------------------------
(* Clicks.  Send starts a call unless the page has left for the payment. *)

Send(t, c, op, s, n) ==
    /\ paying[t] = None /\ call[c] = Idle
    /\ call' = [call EXCEPT ![c] = [tab |-> t, op |-> op, arg |-> s, n |-> n,
                                    at |-> "sent", answer |-> None]]
    /\ disturbed' = [disturbed EXCEPT ![t] = @ \/ Under(t) # {}]
    /\ UNCHANGED <<service, cache, paying, toldCanceled>>

\* The add dialog checks the amount against the cart shown, and its button is
\* disabled while an item is being added.
AddToCart(t, c, n) ==
    /\ n >= 1 /\ n + Size(Shown(t)) <= MaxSize
    /\ ~ \E d \in Under(t) : call[d].op = "add"
    /\ Send(t, c, "add", None, n)

\* The plus and minus buttons ask for the amount shown plus or minus one.
EditItem(t, c, s) ==
    /\ Shown(t).amount[s] > 0
    /\ \/ Shown(t).amount[s] < MaxSize /\ Send(t, c, "edit", s, Shown(t).amount[s] + 1)
       \/ Shown(t).amount[s] > 1 /\ Send(t, c, "edit", s, Shown(t).amount[s] - 1)

RemoveItem(t, c, s) ==
    /\ Shown(t).amount[s] > 0
    /\ Send(t, c, "remove", s, 0)

ClearCart(t, c) ==
    /\ Size(Shown(t)) > 0
    /\ Send(t, c, "clear", None, 0)

\* Any code of four characters may be typed; "none" removes the coupon shown.
Coupon(t, c, v) ==
    /\ cache[t].data # NoData
    /\ v = "none" => Shown(t).coupon # "none"
    /\ Send(t, c, "coupon", v, 0)

-----------------------------------------------------------------------------
(* The checkout page. *)

\* Place Order works on a complete form, which the customer may fill in at any time,
\* and a cart shown that is not empty and within the limits.  It is not disabled by a
\* submission under way.
PlaceOrder(t, c) ==
    /\ cache[t].data # NoData /\ Size(Shown(t)) > 0 /\ WithinLimits(Shown(t))
    /\ Send(t, c, "order", None, 0)

-----------------------------------------------------------------------------
(* The services.  First what the order service does with the cart, in one
   write each (the limits of the pages are not checked). *)

AddItem(n) ==
    /\ \E s \in Slot \ used : used' = used \cup {s} /\ cart' = [cart EXCEPT !.amount[s] = n]
    /\ UNCHANGED orders

UpdateItem(s, n) ==
    /\ cart.amount[s] > 0
    /\ cart' = [cart EXCEPT !.amount[s] = n]
    /\ UNCHANGED <<used, orders>>

TakeItem(s) == cart' = [cart EXCEPT !.amount[s] = 0] /\ UNCHANGED <<used, orders>>
DropCart == cart' = Nothing /\ UNCHANGED <<used, orders>>

\* The code is stored before it is looked up.
SetCartCoupon(v) == cart' = [cart EXCEPT !.coupon = v] /\ UNCHANGED <<used, orders>>

\* Mutant: the cart is kept.
CreateOrderKeepingCart ==
    /\ Size(cart) > 0 /\ Len(orders) < MaxOrders
    /\ orders' = Append(orders, [items |-> cart, status |-> "payment_pending"])
    /\ UNCHANGED <<cart, used>>

\* The whole cart becomes an order and is cleared.
CreateOrderFromCart ==
    /\ Size(cart) > 0 /\ Len(orders) < MaxOrders
    /\ orders' = Append(orders, [items |-> cart, status |-> "payment_pending"])
    /\ cart' = Nothing
    /\ UNCHANGED used

\* The answer to c, or an error after all was done: populateCart fails, because a price
\* or the coupon is not found, or the answer is lost.
Answer(c, v) == call' = [call EXCEPT ![c].at = "answered", ![c].answer = v]
Acknowledged(c, v) == Answer(c, v) \/ Answer(c, FAILED)

AnswerAdd(c) == call[c].op = "add" /\ AddItem(call[c].n) /\ Acknowledged(c, cart')
AnswerEdit(c) == call[c].op = "edit" /\ UpdateItem(call[c].arg, call[c].n) /\ Acknowledged(c, cart')
AnswerCoupon(c) == call[c].op = "coupon" /\ SetCartCoupon(call[c].arg) /\ Acknowledged(c, cart')
AnswerRemove(c) ==
    /\ \/ call[c].op = "remove" /\ TakeItem(call[c].arg)
       \/ call[c].op = "clear" /\ DropCart
    /\ Acknowledged(c, DONE)
AnswerOrder(c) ==
    call[c].op = "order" /\ CreateOrderFromCart /\ Acknowledged(c, Len(orders'))

\* The payment service creates a session.
AnswerPay(c) == call[c].op = "pay" /\ Answer(c, DONE) /\ UNCHANGED service

AnswerCancel(c) ==
    /\ call[c].op = "cancel"
    /\ orders' = [orders EXCEPT ![call[c].n].status = "canceled"]
    /\ Answer(c, DONE)
    /\ UNCHANGED <<cart, used>>

\* Nothing is done: the item is gone, the cart is empty or cannot be populated,
\* there is no session to be had, or a service is not reached.
Refuse(c) == Answer(c, FAILED) /\ UNCHANGED service

\* A tab is not told that the cart has changed by the answer to a call of another
\* one, or by an error.
Unnoticed(c, t) == cart' # cart /\ (call[c].tab # t \/ call'[c].answer = FAILED)

Serve(c) ==
    /\ call[c].at = "sent"
    /\ \/ AnswerAdd(c) \/ AnswerEdit(c) \/ AnswerRemove(c) \/ AnswerCoupon(c)
       \/ AnswerOrder(c) \/ AnswerPay(c) \/ AnswerCancel(c) \/ Refuse(c)
    /\ disturbed' = [t \in Tab |-> disturbed[t] \/ Unnoticed(c, t)]
    /\ UNCHANGED <<cache, paying, toldCanceled>>

\* Another tab or device of the user does what such a page can do, or a call is
\* handled whose page has left for the payment.
OtherClient ==
    /\ \/ \E n \in Amount : n \in 1..MaxSize /\ AddItem(n)
       \/ \E s \in Slot : TakeItem(s) \/ \E n \in 1..MaxSize : UpdateItem(s, n)
       \/ \E v \in Coupons : SetCartCoupon(v)
       \/ DropCart \/ CreateOrderFromCart
    /\ disturbed' = [t \in Tab |-> TRUE]
    /\ UNCHANGED <<cache, call, paying, toldCanceled>>

-----------------------------------------------------------------------------
(* The page applies the answer of c. *)

Answered(c, ops) == call[c].at = "answered" /\ call[c].op \in ops
Done(c) == call' = [call EXCEPT ![c] = Idle]

\* The cart in the answer is written into the cache.
WriteAnswer(c) ==
    LET t == call[c].tab IN
    /\ Answered(c, {"add", "edit", "coupon"}) /\ call[c].answer # FAILED
    /\ cache' = [cache EXCEPT ![t] = Written(@, call[c].answer)]
    /\ disturbed' = [disturbed EXCEPT ![t] = @ \/ cache[t].fetch # "idle"]
    /\ Done(c)
    /\ UNCHANGED <<service, paying, toldCanceled>>

\* Mutant: the cart is not fetched again.
InvalidateAnswerIgnored(c) ==
    /\ Answered(c, {"remove", "clear"}) /\ call[c].answer # FAILED
    /\ Done(c)
    /\ UNCHANGED <<service, cache, paying, toldCanceled, disturbed>>

InvalidateAnswer(c) ==
    LET t == call[c].tab IN
    /\ Answered(c, {"remove", "clear"}) /\ call[c].answer # FAILED
    /\ cache' = [cache EXCEPT ![t] = Invalidated(@)]
    /\ Done(c)
    /\ UNCHANGED <<service, paying, toldCanceled, disturbed>>

\* Any error is a toast and no more.
FailedAnswer(c) ==
    /\ Answered(c, {"add", "edit", "coupon", "remove", "clear", "order"})
    /\ call[c].answer = FAILED
    /\ Done(c)
    /\ UNCHANGED <<service, cache, paying, toldCanceled, disturbed>>

\* The order exists: the cart is fetched again and the payment asked for.
OrderCreated(c) ==
    LET t == call[c].tab IN
    /\ Answered(c, {"order"}) /\ call[c].answer # FAILED
    /\ cache' = [cache EXCEPT ![t] = Invalidated(@)]
    /\ call' = [call EXCEPT ![c].op = "pay", ![c].n = call[c].answer, ![c].at = "sent",
                            ![c].answer = None]
    /\ UNCHANGED <<service, paying, toldCanceled, disturbed>>

\* The browser leaves for the payment page: the tab's calls are forgotten.
GoToPayment(c) ==
    LET t == call[c].tab IN
    /\ Answered(c, {"pay"}) /\ call[c].answer = DONE
    /\ paying' = [paying EXCEPT ![t] = call[c].n]
    /\ cache' = [cache EXCEPT ![t] = Fresh]
    /\ call' = [d \in Call |-> IF call[d].tab = t THEN Idle ELSE call[d]]
    /\ disturbed' = [disturbed EXCEPT ![t] = FALSE]
    /\ UNCHANGED <<service, toldCanceled>>

\* Without a session the page says that the order has been canceled, and then
\* asks for the cancellation.
PaymentFailed(c) ==
    /\ Answered(c, {"pay"}) /\ call[c].answer = FAILED
    /\ toldCanceled' = toldCanceled \cup {call[c].n}
    /\ call' = [call EXCEPT ![c].op = "cancel", ![c].at = "sent", ![c].answer = None]
    /\ UNCHANGED <<service, cache, paying, disturbed>>

\* Nobody looks at the answer of the cancellation.
CancelAnswered(c) ==
    /\ Answered(c, {"cancel"})
    /\ Done(c)
    /\ UNCHANGED <<service, cache, paying, toldCanceled, disturbed>>

\* The customer comes back from the payment page: the page is loaded anew.
ComeBack(t) ==
    /\ paying[t] # None
    /\ paying' = [paying EXCEPT ![t] = None]
    /\ UNCHANGED <<service, cache, call, toldCanceled, disturbed>>

Apply(c) ==
    \/ WriteAnswer(c) \/ InvalidateAnswer(c) \/ FailedAnswer(c) \/ OrderCreated(c)
    \/ GoToPayment(c) \/ PaymentFailed(c) \/ CancelAnswered(c)

Next ==
    \/ \E t \in Tab :
          \/ FetchCart(t) \/ GetCart(t) \/ ShowCart(t) \/ FetchFails(t) \/ ComeBack(t)
          \/ \E c \in Call :
                \/ \E n \in Amount : AddToCart(t, c, n)
                \/ \E s \in Slot : EditItem(t, c, s) \/ RemoveItem(t, c, s)
                \/ ClearCart(t, c) \/ PlaceOrder(t, c)
                \/ \E v \in Coupons : Coupon(t, c, v)
    \/ \E c \in Call : Serve(c) \/ Apply(c)
    \/ OtherClient

Spec == Init /\ [][Next]_vars

-----------------------------------------------------------------------------
TypeOK ==
    /\ cart \in Cart /\ used \subseteq Slot
    /\ orders \in Seq([items : Cart, status : {"payment_pending", "canceled"}])
    /\ cache \in [Tab -> Entries(Cart)]
    /\ \A c \in Call : call[c].at \in {"idle", "sent", "answered"}
                       /\ call[c].op \in Op \cup {None} /\ call[c].tab \in Tab \cup {None}
    /\ paying \in [Tab -> 1..Len(orders) \cup {None}]
    /\ toldCanceled \subseteq 1..Len(orders)
    /\ disturbed \in [Tab -> BOOLEAN]

Settled(t) == Under(t) = {} /\ cache[t].fetch = "idle" /\ cache[t].data # NoData

\* A tab that waits for nothing shows the cart the service has, unless it may have
\* missed something since a fetch of the cart was last answered while none of its
\* calls was under way: two calls of it overlapped, or a call and a fetch did; a call
\* of it was carried out but failed; a fetch failed; or another client changed the cart.
UndisturbedTabAgrees ==
    \A t \in Tab : Settled(t) /\ ~disturbed[t] => cache[t].data = cart

\* However often Place Order is clicked, and in however many tabs, no item of a
\* cart is ordered twice and no order is empty.
NothingOrderedTwice ==
    \A i \in DOMAIN orders :
      /\ Size(orders[i].items) > 0
      /\ \A j \in DOMAIN orders, s \in Slot :
           i # j => orders[i].items.amount[s] = 0 \/ orders[j].items.amount[s] = 0

\* No tab goes to the payment page of an order it called canceled.
NoPaymentOfCanceled == \A t \in Tab : paying[t] \notin toldCanceled

\* An order keeps the limits the pages announce.
OrdersWithinLimits == \A i \in DOMAIN orders : WithinLimits(orders[i].items)

\* An order the page called canceled is canceled, or about to be.
CanceledAsTold ==
    \A i \in toldCanceled :
      \/ orders[i].status = "canceled"
      \/ \E c \in Call : call[c].op = "cancel" /\ call[c].n = i /\ call[c].at = "sent"

=============================================================================
