---------------------------- MODULE FoodDelivery ----------------------------
(***************************************************************************)
(* The path of an order through order-service, payment-service and         *)
(* delivery-service.  The services share no database; they tell each other *)
(* about their state by gRPC calls that are not part of any transaction.   *)
(* A call is in flight from the local write (or read) that precedes it     *)
(* until the order service has handled it; it may be lost when a service   *)
(* stops or the network fails, and nobody sends it again (the caller logs  *)
(* the error).                                                             *)
(***************************************************************************)
EXTENDS Orders

CONSTANT Lossy   \* whether calls may be lost

ASSUME SystemAssumption ==
  /\ Order \subseteq Txn   \* the session of an order is named by the order
  /\ Lossy \in BOOLEAN

VARIABLES
  deliveries,   \* the deliveries of delivery-service
  sessions,     \* the Stripe checkout sessions
  calls,        \* calls to order-service in flight
  completed     \* history: which driver completed which delivery

systemVars == <<orders, pickup, issued, deliveries, sessions, calls, completed>>

D == INSTANCE Deliveries
P == INSTANCE Payments

PaymentCall   == [op : {"SetPaymentStatus"}, order : Order, success : BOOLEAN]
DriverCall    == [op : {"SetDeliveryDriver"}, order : Order, driver : Driver]
DeliveredCall == [op : {"SetDeliveryStatus"}, order : Order]

SystemTypeOK ==
  /\ TypeOK
  /\ D!TypeOK
  /\ P!TypeOK
  /\ calls \in SUBSET (PaymentCall \cup DriverCall \cup DeliveredCall)
  /\ completed \in SUBSET (DeliveryId \X Driver)

SystemInit == Init /\ D!Init /\ P!Init /\ calls = {} /\ completed = {}

-----------------------------------------------------------------------------
(* The customer, the restaurant *)

\* POST /order/from-cart, see module Carts for the cart's part.
PlaceOrder(o) ==
  /\ CreateOrder(o)
  /\ UNCHANGED <<issued, deliveries, sessions, calls, completed>>

RestaurantDecides(o, accepted) ==
  /\ UpdateAcceptedStatus(o, accepted)
  /\ UNCHANGED <<issued, deliveries, sessions, calls, completed>>

CustomerCancels(o) ==
  /\ CancelOrder(o)
  /\ UNCHANGED <<issued, deliveries, sessions, calls, completed>>

-----------------------------------------------------------------------------
(* Payment *)

\* POST /payments/:orderId: the order must exist, nothing else is tested.
CreatePayment(o) ==
  /\ orders[o].status # "absent"
  /\ P!createPayment(o)
  /\ UNCHANGED <<orders, pickup, issued, deliveries, calls, completed>>

StripeStep(o) ==
  /\ P!CustomerPays(o) \/ P!SessionExpires(o)
  /\ UNCHANGED <<orders, pickup, issued, deliveries, calls, completed>>

\* GET /payments/done: the browser comes back from Stripe after paying or by
\* the cancel link, or the page is reloaded; the answer of Stripe is read now
\* and reported by a call that may be handled much later.
GetPayment(o) ==
  /\ sessions[o] # "none"
  /\ calls' = calls \cup {[op |-> "SetPaymentStatus", order |-> o,
                           success |-> P!paymentSucceeded(o)]}
  /\ UNCHANGED <<orders, pickup, issued, deliveries, sessions, completed>>

\* The order service handles the call c: effect is what it does, and if the
\* status of the order is not the expected one the call is refused
\* (FailedPrecondition) and changes nothing.
Handle(c, statuses, effect) ==
  /\ c \in calls
  /\ \/ effect
     \/ Refused(c.order, statuses) /\ UNCHANGED <<orders, pickup>>
  /\ calls' = calls \ {c}
  /\ UNCHANGED <<issued, deliveries, sessions, completed>>

SetPaymentStatus(c) ==
  /\ c.op = "SetPaymentStatus"
  /\ Handle(c, {"payment_pending"}, UpdatePaymentStatus(c.order, c.success, c.order))

-----------------------------------------------------------------------------
(* Ready for pickup *)

ReadyStarts(r, o) ==
  /\ PickupUpdate(r, o)
  /\ UNCHANGED <<issued, deliveries, sessions, calls, completed>>

\* Mutant of AddDelivery: the delivery is made for some other order.
AddDeliveryOtherOrder(r, d) ==
  /\ PickupAddDelivery(r, d)
  /\ \E o \in Order \ {pickup[r].order} : D!AddDelivery(d, o)
  /\ issued' = issued \cup {d}
  /\ UNCHANGED <<sessions, calls, completed>>

\* The call of order-service in the middle of its transaction: the insertion in
\* the other database is committed at once.
AddDelivery(r, d) ==
  /\ PickupAddDelivery(r, d)
  /\ D!AddDelivery(d, pickup[r].order)
  /\ issued' = issued \cup {d}
  /\ UNCHANGED <<sessions, calls, completed>>

ReadyEnds(r) ==
  /\ PickupCommit(r) \/ PickupConflict(r) \/ PickupAbort(r)
  /\ UNCHANGED <<issued, deliveries, sessions, calls, completed>>

-----------------------------------------------------------------------------
(* Drivers *)

\* Mutant of ClaimDelivery: the order service is told before the claim is made,
\* so that it is told when the claim fails.
ClaimDeliveryTellFirst(d, w) ==
  /\ deliveries[d].state # "absent"
  /\ calls' = calls \cup {[op |-> "SetDeliveryDriver", order |-> deliveries[d].order,
                           driver |-> w]}
  /\ D!ClaimDelivery(d, w) \/ UNCHANGED deliveries
  /\ UNCHANGED <<orders, pickup, issued, sessions, completed>>

\* The claim is stored, then the order service is told.
ClaimDelivery(d, w) ==
  /\ D!ClaimDelivery(d, w)
  /\ calls' = calls \cup {[op |-> "SetDeliveryDriver", order |-> deliveries[d].order,
                           driver |-> w]}
  /\ UNCHANGED <<orders, pickup, issued, sessions, completed>>

\* Mutant of PickupOrder: the order service takes the report of the pickup for that
\* of the delivery.
PickupOrderReportsDelivery(d, w) ==
  /\ D!DeliveryPickup(d, w)
  /\ calls' = calls \cup {[op |-> "SetDeliveryStatus", order |-> deliveries[d].order]}
  /\ UNCHANGED <<orders, pickup, issued, sessions, completed>>

\* The order service ignores the status this handler reports: its call has no effect.
PickupOrder(d, w) ==
  /\ D!DeliveryPickup(d, w)
  /\ UNCHANGED <<orders, pickup, issued, sessions, calls, completed>>

CompleteOrder(d, w) ==
  /\ D!DeliveryComplete(d, w)
  /\ calls' = calls \cup {[op |-> "SetDeliveryStatus", order |-> deliveries[d].order]}
  /\ completed' = completed \cup {<<d, w>>}
  /\ UNCHANGED <<orders, pickup, issued, sessions>>

SetOrderDriver(c) ==
  /\ c.op = "SetDeliveryDriver"
  /\ Handle(c, {"awaiting_pickup"}, SetDeliveryDriver(c.order, c.driver))

SetDeliveryStatus(c) ==
  /\ c.op = "SetDeliveryStatus"
  /\ Handle(c, {"delivering"}, SetOrderDelivered(c.order))

-----------------------------------------------------------------------------

HandleCall(c) == SetPaymentStatus(c) \/ SetOrderDriver(c) \/ SetDeliveryStatus(c)

\* The caller stops between its write and the call, or the call fails.
LoseCall(c) ==
  /\ Lossy
  /\ calls' = calls \ {c}
  /\ UNCHANGED <<orders, pickup, issued, deliveries, sessions, completed>>

SystemNext ==
  \/ \E o \in Order :
       \/ PlaceOrder(o)
       \/ \E accepted \in BOOLEAN : RestaurantDecides(o, accepted)
       \/ CustomerCancels(o)
       \/ CreatePayment(o)
       \/ StripeStep(o)
       \/ GetPayment(o)
  \/ \E r \in Request :
       \/ \E o \in Order : ReadyStarts(r, o)
       \/ \E d \in DeliveryId : AddDelivery(r, d)
       \/ ReadyEnds(r)
  \/ \E d \in DeliveryId, w \in Driver :
       ClaimDelivery(d, w) \/ PickupOrder(d, w) \/ CompleteOrder(d, w)
  \/ \E c \in calls : HandleCall(c) \/ LoseCall(c)

SystemSpec == SystemInit /\ [][SystemNext]_systemVars

\* A transaction that has started goes on (the driver of MongoDB retries, and
\* gives up after two minutes), and a call in flight is handled.  Nothing is
\* assumed of customers, restaurants, drivers and Stripe.
Fairness ==
  /\ \A r \in Request :
       WF_systemVars(\/ \E o \in Order : pickup[r].phase = "retry" /\ ReadyStarts(r, o)
                     \/ \E d \in DeliveryId : AddDelivery(r, d)
                     \/ ReadyEnds(r))
  /\ \A c \in PaymentCall \cup DriverCall \cup DeliveredCall :
       WF_systemVars(HandleCall(c))

FairSpec == SystemSpec /\ Fairness

-----------------------------------------------------------------------------
(* Properties *)

\* No order reaches the restaurant, and none is accepted or rejected by it, whose
\* checkout session is not paid: reports of the payment cross cancellations,
\* expirations and earlier reports without mixing up the outcome.
AcceptedIsPaid ==
  \A o \in Order :
    orders[o].status \in {"pending_restaurant_accept", "preparing_order",
                          "restaurant_rejected"} =>
      sessions[o] = "paid" /\ orders[o].txn = o

\* The driver an order shows has claimed a delivery of that order, although the
\* claim and the order are in two databases and the call between them may be
\* late, lost, refused or one of several.
DriverHoldsDelivery ==
  \A o \in Order : orders[o].driver # NoDriver =>
    \E d \in DeliveryId :
      deliveries[d].order = o /\ deliveries[d].driver = orders[o].driver

\* The delivery an order shows exists and is a delivery of that order, whichever
\* of the AddDelivery calls of its requests was committed.
DeliveryServesOrder ==
  \A o \in Order : orders[o].delivery # NoDelivery =>
    /\ deliveries[orders[o].delivery].state # "absent"
    /\ deliveries[orders[o].delivery].order = o

\* An order is delivered only if the driver who holds one of its deliveries has
\* completed it: not on a pickup, not by another driver, and whatever the state of
\* the delivery has become since (a later pickup takes it back to "delivering").
DeliveredWasCompleted ==
  \A o \in Order : orders[o].status = "delivered" =>
    \E d \in DeliveryId, w \in Driver :
      /\ deliveries[d].order = o
      /\ deliveries[d].driver = w
      /\ <<d, w>> \in completed

\* Two drivers never have the same delivery: once claimed, a delivery keeps its
\* driver and its order for good.
ClaimIsFinal ==
  [][\A d \in DeliveryId : deliveries[d].driver # NoDriver =>
       /\ deliveries'[d].driver = deliveries[d].driver
       /\ deliveries'[d].order = deliveries[d].order]_systemVars

\* A reported payment settles: when no call is lost, an order whose payment was
\* read from Stripe leaves payment_pending, even if its document is locked by a
\* pickup transaction when the report arrives.
ReportedPaymentSettles ==
  \A o \in Order, success \in BOOLEAN :
    [op |-> "SetPaymentStatus", order |-> o, success |-> success] \in calls
      ~> orders[o].status # "payment_pending"

\* What the comment on StatusAwaitingPickup says (order-service/models/order.go:27):
\* an order is awaiting pickup until a delivery driver picks it up; here, when no
\* call is lost, an order whose delivery was picked up stops awaiting pickup.
PickedUpLeavesAwaiting ==
  \A d \in DeliveryId, o \in Order :
    deliveries[d].order = o /\ deliveries[d].state \in {"delivering", "done"}
      ~> orders[o].status # "awaiting_pickup"
=============================================================================
