------------------------ MODULE FoodDelivery_proofs ------------------------
(***************************************************************************)
(* Theorems about the composed system (module FoodDelivery), for any       *)
(* number of orders, drivers, deliveries and requests, with or without     *)
(* loss of calls.                                                          *)
(***************************************************************************)
EXTENDS FoodDelivery, Orders_proofs

\* A delivery of the collection is for some order, and only a claimed one has
\* a driver.
DeliveriesSound ==
  \A d \in DeliveryId :
    /\ deliveries[d].state # "absent" => deliveries[d].order \in Order
    /\ deliveries[d].driver # NoDriver =>
         deliveries[d].state \in {"waiting", "delivering", "done"}

\* The order service knows only ids of existing deliveries; the id a transaction
\* is about to store is that of a delivery of its order.
IdsSound ==
  /\ \A d \in issued : deliveries[d].state # "absent"
  /\ \A r \in Request : pickup[r].phase = "added" =>
       /\ deliveries[pickup[r].delivery].state # "absent"
       /\ deliveries[pickup[r].delivery].order = pickup[r].order

\* What a call in flight claims is still true when it is handled: sessions and
\* claims never go back, and a completion is never forgotten.
CallsSound ==
  \A c \in calls :
    /\ c.op = "SetPaymentStatus" => (c.success => sessions[c.order] = "paid")
    /\ c.op = "SetDeliveryDriver" =>
         \E d \in DeliveryId : deliveries[d].order = c.order /\ deliveries[d].driver = c.driver
    /\ c.op = "SetDeliveryStatus" =>
         \E d \in DeliveryId, w \in Driver : /\ deliveries[d].order = c.order
                                             /\ deliveries[d].driver = w
                                             /\ <<d, w>> \in completed

\* The inductive invariant of the system.
SystemIInv ==
  /\ SystemTypeOK
  /\ IInv
  /\ DeliveriesSound
  /\ IdsSound
  /\ CallsSound
  /\ AcceptedIsPaid
  /\ DriverHoldsDelivery
  /\ DeliveryServesOrder
  /\ DeliveredWasCompleted

LEMMA SystemInitIInv == SystemInit => SystemIInv
<1> SUFFICES ASSUME SystemInit PROVE SystemIInv
  OBVIOUS
<1> USE NullsAssumption
<1>1. IInv /\ TypeOK
  BY InitIInv DEF SystemInit, IInv
<1>2. SystemTypeOK
  BY <1>1 DEF SystemInit, SystemTypeOK, D!Init, D!TypeOK, D!Delivery, P!Init, P!TypeOK
<1>3. DeliveriesSound /\ IdsSound /\ CallsSound
  BY DEF SystemInit, Init, D!Init, DeliveriesSound, IdsSound, CallsSound
<1>4. AcceptedIsPaid /\ DriverHoldsDelivery /\ DeliveryServesOrder /\ DeliveredWasCompleted
  BY DEF SystemInit, Init, AcceptedIsPaid, DriverHoldsDelivery, DeliveryServesOrder,
     DeliveredWasCompleted
<1> QED
  BY <1>1, <1>2, <1>3, <1>4 DEF SystemIInv

-----------------------------------------------------------------------------
(* What a step does to each part of the state *)

\* Calls in flight are of the kind their op says.
LEMMA CallKinds ==
  ASSUME SystemTypeOK, NEW c \in calls
  PROVE  /\ c.order \in Order
         /\ c.op = "SetPaymentStatus" => c.success \in BOOLEAN
         /\ c.op = "SetDeliveryDriver" => c.driver \in Driver
  BY DEF SystemTypeOK, PaymentCall, DriverCall, DeliveredCall

\* A step of the system is a step of the order service, or leaves it alone.
LEMMA OrdersStep == SystemIInv /\ [SystemNext]_systemVars => [Next]_vars
<1> SUFFICES ASSUME SystemIInv, [SystemNext]_systemVars PROVE [Next]_vars
  OBVIOUS
<1>1. ASSUME NEW o \in Order,
             \/ PlaceOrder(o)
             \/ \E accepted \in BOOLEAN : RestaurantDecides(o, accepted)
             \/ CustomerCancels(o)
      PROVE  Next
  BY <1>1 DEF PlaceOrder, RestaurantDecides, CustomerCancels, Next
<1>2. ASSUME NEW o \in Order, CreatePayment(o) \/ StripeStep(o) \/ GetPayment(o)
      PROVE  UNCHANGED vars
  BY <1>2 DEF CreatePayment, StripeStep, GetPayment, vars
<1>3. ASSUME NEW r \in Request, NEW o \in Order, ReadyStarts(r, o) PROVE Next
  BY <1>3 DEF ReadyStarts, Next
<1>4. ASSUME NEW r \in Request, NEW d \in DeliveryId, AddDelivery(r, d) PROVE Next
  <2>1. d \notin issued
    BY <1>4 DEF AddDelivery, D!AddDelivery, SystemIInv, IdsSound
  <2> QED
    BY <1>4, <2>1 DEF AddDelivery, Next
<1>5. ASSUME NEW r \in Request, ReadyEnds(r) PROVE Next
  BY <1>5 DEF ReadyEnds, Next
<1>6. ASSUME NEW d \in DeliveryId, NEW w \in Driver,
             ClaimDelivery(d, w) \/ PickupOrder(d, w) \/ CompleteOrder(d, w)
      PROVE  UNCHANGED vars
  BY <1>6 DEF ClaimDelivery, PickupOrder, CompleteOrder, vars
<1>7. ASSUME NEW c \in calls, HandleCall(c) PROVE [Next]_vars
  <2>1. c.order \in Order /\ c.order \in Txn
    BY CallKinds, SystemAssumption DEF SystemIInv
  <2>2. CASE SetPaymentStatus(c)
    <3>1. c.success \in BOOLEAN
      BY <2>2, CallKinds DEF SetPaymentStatus, SystemIInv
    <3> QED
      BY <2>1, <2>2, <3>1 DEF SetPaymentStatus, Handle, Next, vars
  <2>3. CASE SetOrderDriver(c)
    <3>1. c.driver \in Driver
      BY <2>3, CallKinds DEF SetOrderDriver, SystemIInv
    <3> QED
      BY <2>1, <2>3, <3>1 DEF SetOrderDriver, Handle, Next, vars
  <2>4. CASE SetDeliveryStatus(c)
    BY <2>1, <2>4 DEF SetDeliveryStatus, Handle, Next, vars
  <2> QED
    BY <1>7, <2>2, <2>3, <2>4 DEF HandleCall
<1>8. ASSUME NEW c \in calls, LoseCall(c) PROVE UNCHANGED vars
  BY <1>8 DEF LoseCall, vars
<1>9. CASE UNCHANGED systemVars
  BY <1>9 DEF systemVars, vars
<1> QED
  BY <1>1, <1>2, <1>3, <1>4, <1>5, <1>6, <1>7, <1>8, <1>9 DEF SystemNext

\* Deliveries stay in the collection with their order, and a claim is never undone.
DeliveriesGrow ==
  \A d \in DeliveryId :
    /\ deliveries[d].state # "absent" =>
         deliveries'[d].state # "absent" /\ deliveries'[d].order = deliveries[d].order
    /\ deliveries[d].driver # NoDriver => deliveries'[d].driver = deliveries[d].driver

LEMMA DeliveriesStep ==
  ASSUME SystemIInv, [SystemNext]_systemVars
  PROVE  D!TypeOK' /\ DeliveriesSound' /\ DeliveriesGrow
<1> USE NullsAssumption
<1>0. deliveries \in [DeliveryId -> D!Delivery] /\ DeliveriesSound
  BY DEF SystemIInv, SystemTypeOK, D!TypeOK
<1>1. CASE UNCHANGED deliveries
  BY <1>0, <1>1 DEF D!TypeOK, DeliveriesSound, DeliveriesGrow
<1>2. ASSUME NEW r \in Request, NEW d \in DeliveryId, AddDelivery(r, d)
      PROVE  D!TypeOK' /\ DeliveriesSound' /\ DeliveriesGrow
  <2> DEFINE new == [state |-> "unclaimed", order |-> pickup[r].order, driver |-> NoDriver]
  <2>1. pickup[r].order \in Order
    BY <1>2 DEF AddDelivery, PickupAddDelivery, SystemIInv, IInv, RequestsSound
  <2>2. deliveries[d].state = "absent" /\ deliveries' = [deliveries EXCEPT ![d] = new]
    BY <1>2 DEF AddDelivery, D!AddDelivery
  <2>3. deliveries[d].driver = NoDriver
    BY <1>0, <2>2 DEF DeliveriesSound
  <2>4. D!TypeOK'
    BY <1>0, <2>1, <2>2 DEF D!TypeOK, D!Delivery
  <2>5. DeliveriesSound'
    BY <1>0, <2>1, <2>2 DEF DeliveriesSound
  <2>6. DeliveriesGrow
    BY <1>0, <2>2, <2>3 DEF DeliveriesGrow
  <2> QED
    BY <2>4, <2>5, <2>6
<1>3. ASSUME NEW d \in DeliveryId, NEW w \in Driver,
             ClaimDelivery(d, w) \/ PickupOrder(d, w) \/ CompleteOrder(d, w)
      PROVE  D!TypeOK' /\ DeliveriesSound' /\ DeliveriesGrow
  <2>1. \E s \in {"waiting", "delivering", "done"} :
          /\ deliveries' = [deliveries EXCEPT ![d] =
                              [state |-> s, order |-> deliveries[d].order, driver |-> w]]
          /\ deliveries[d].state # "absent"
          /\ \/ deliveries[d].driver = NoDriver
             \/ deliveries[d].driver = w /\ s \in {"delivering", "done"}
    <3> DEFINE v(s) == [state |-> s, order |-> deliveries[d].order, driver |-> w]
    <3>1. CASE ClaimDelivery(d, w)
      <4>1. /\ deliveries' = [deliveries EXCEPT ![d] = v("waiting")]
            /\ deliveries[d].driver = NoDriver /\ deliveries[d].state = "unclaimed"
        BY <3>1 DEF ClaimDelivery, D!ClaimDelivery
      <4> QED
        BY <4>1
    <3>2. ASSUME NEW s \in {"delivering", "done"}, deliveries[d].driver = w,
                 deliveries' = [deliveries EXCEPT ![d].state = s]
          PROVE  /\ deliveries' = [deliveries EXCEPT ![d] = v(s)]
                 /\ deliveries[d].state # "absent"
      <4>1. [deliveries[d] EXCEPT !.state = s] = v(s)
        BY <1>0, <3>2 DEF D!Delivery
      <4>2. deliveries' = [deliveries EXCEPT ![d] = v(s)]
        BY <1>0, <3>2, <4>1
      <4> QED
        BY <1>0, <3>2, <4>2 DEF DeliveriesSound
    <3>3. CASE PickupOrder(d, w) \/ CompleteOrder(d, w)
      BY <3>2, <3>3 DEF PickupOrder, D!DeliveryPickup, CompleteOrder, D!DeliveryComplete
    <3> QED
      BY <1>3, <3>1, <3>3
  <2>2. PICK s \in {"waiting", "delivering", "done"} :
          /\ deliveries' = [deliveries EXCEPT ![d] =
                              [state |-> s, order |-> deliveries[d].order, driver |-> w]]
          /\ deliveries[d].state # "absent"
          /\ \/ deliveries[d].driver = NoDriver
             \/ deliveries[d].driver = w /\ s \in {"delivering", "done"}
    BY <2>1
  <2>3. D!TypeOK'
    BY <1>0, <2>2 DEF D!TypeOK, D!Delivery, DeliveriesSound
  <2>4. DeliveriesSound'
    BY <1>0, <2>2 DEF DeliveriesSound
  <2>5. DeliveriesGrow
    BY <1>0, <2>2 DEF DeliveriesGrow
  <2> QED
    BY <2>3, <2>4, <2>5
<1>4. ASSUME NEW c \in calls, HandleCall(c) \/ LoseCall(c) PROVE UNCHANGED deliveries
  BY <1>4 DEF HandleCall, SetPaymentStatus, SetOrderDriver, SetDeliveryStatus, Handle, LoseCall
<1> QED
  BY <1>1, <1>2, <1>3, <1>4 DEF SystemNext, systemVars, PlaceOrder, RestaurantDecides,
     CustomerCancels, CreatePayment, StripeStep, GetPayment, ReadyStarts, ReadyEnds

\* A paid session stays paid.
LEMMA SessionsStep ==
  ASSUME SystemIInv, [SystemNext]_systemVars
  PROVE  P!TypeOK' /\ \A o \in Order : sessions[o] = "paid" => sessions'[o] = "paid"
<1>0. sessions \in [Order -> {"none", "open", "paid", "expired"}]
  BY DEF SystemIInv, SystemTypeOK, P!TypeOK
<1>1. CASE UNCHANGED sessions
  BY <1>0, <1>1 DEF P!TypeOK
<1>2. ASSUME NEW o \in Order, CreatePayment(o) \/ StripeStep(o)
      PROVE  P!TypeOK' /\ \A p \in Order : sessions[p] = "paid" => sessions'[p] = "paid"
  <2>1. /\ sessions[o] # "paid"
        /\ \E s \in {"open", "paid", "expired"} : sessions' = [sessions EXCEPT ![o] = s]
    BY <1>2 DEF CreatePayment, StripeStep, P!createPayment, P!CustomerPays, P!SessionExpires
  <2> QED
    BY <1>0, <2>1 DEF P!TypeOK
<1>3. ASSUME NEW c \in calls, HandleCall(c) \/ LoseCall(c) PROVE UNCHANGED sessions
  BY <1>3 DEF HandleCall, SetPaymentStatus, SetOrderDriver, SetDeliveryStatus, Handle, LoseCall
<1> QED
  BY <1>1, <1>2, <1>3 DEF SystemNext, systemVars, PlaceOrder, RestaurantDecides,
     CustomerCancels, GetPayment, ReadyStarts, ReadyEnds, AddDelivery, ClaimDelivery,
     PickupOrder, CompleteOrder

\* A completion is recorded for good, with the delivery and the driver it is of.
LEMMA CompletedStep ==
  ASSUME SystemIInv, [SystemNext]_systemVars
  PROVE  completed \subseteq completed' /\ completed' \in SUBSET (DeliveryId \X Driver)
<1>1. completed \in SUBSET (DeliveryId \X Driver)
  BY DEF SystemIInv, SystemTypeOK
<1>2. ASSUME NEW d \in DeliveryId, NEW w \in Driver, CompleteOrder(d, w)
      PROVE  completed \subseteq completed' /\ completed' \in SUBSET (DeliveryId \X Driver)
  BY <1>1, <1>2 DEF CompleteOrder
<1>3. ASSUME NEW c \in calls, HandleCall(c) \/ LoseCall(c) PROVE UNCHANGED completed
  BY <1>3 DEF HandleCall, SetPaymentStatus, SetOrderDriver, SetDeliveryStatus, Handle, LoseCall
<1>4. CASE UNCHANGED completed
  BY <1>1, <1>4
<1> QED
  BY <1>2, <1>3, <1>4 DEF SystemNext, systemVars, PlaceOrder, RestaurantDecides,
     CustomerCancels, CreatePayment, StripeStep, GetPayment, ReadyStarts, ReadyEnds, AddDelivery,
     ClaimDelivery, PickupOrder

\* A call in flight is justified by a state that only grows, and the order
\* service stores only ids of deliveries that stay.
LEMMA CallsStep ==
  ASSUME SystemIInv, [SystemNext]_systemVars
  PROVE  /\ calls' \in SUBSET (PaymentCall \cup DriverCall \cup DeliveredCall)
         /\ CallsSound'
<1> USE NullsAssumption
<1>0. /\ calls \in SUBSET (PaymentCall \cup DriverCall \cup DeliveredCall)
      /\ deliveries \in [DeliveryId -> D!Delivery]
      /\ sessions \in [Order -> {"none", "open", "paid", "expired"}]
  BY DEF SystemIInv, SystemTypeOK, D!TypeOK, P!TypeOK
<1> DEFINE Justified(c) ==
             /\ c.op = "SetPaymentStatus" => (c.success => sessions[c.order] = "paid")
             /\ c.op = "SetDeliveryDriver" =>
                  \E d \in DeliveryId : /\ deliveries[d].order = c.order
                                        /\ deliveries[d].driver = c.driver
             /\ c.op = "SetDeliveryStatus" =>
                  \E d \in DeliveryId, w \in Driver : /\ deliveries[d].order = c.order
                                                      /\ deliveries[d].driver = w
                                                      /\ <<d, w>> \in completed
<1>1. ASSUME NEW c \in calls PROVE Justified(c)'
  <2>1. Justified(c)
    BY DEF SystemIInv, CallsSound
  <2>2. c.order \in Order /\ (c.op = "SetDeliveryDriver" => c.driver \in Driver)
    BY CallKinds DEF SystemIInv
  <2>3. DeliveriesGrow /\ DeliveriesSound
    BY DeliveriesStep DEF SystemIInv
  <2>4. c.op = "SetPaymentStatus" => (c.success => sessions'[c.order] = "paid")
    BY <2>1, <2>2, SessionsStep
  <2>5. c.op = "SetDeliveryDriver" =>
          \E d \in DeliveryId : /\ deliveries'[d].order = c.order
                                /\ deliveries'[d].driver = c.driver
    <3> SUFFICES ASSUME c.op = "SetDeliveryDriver"
                 PROVE  \E d \in DeliveryId : /\ deliveries'[d].order = c.order
                                              /\ deliveries'[d].driver = c.driver
      OBVIOUS
    <3>1. PICK d \in DeliveryId : deliveries[d].order = c.order /\ deliveries[d].driver = c.driver
      BY <2>1
    <3> QED
      BY <2>2, <2>3, <3>1 DEF DeliveriesGrow, DeliveriesSound
  <2>6. c.op = "SetDeliveryStatus" =>
          \E d \in DeliveryId, w \in Driver : /\ deliveries'[d].order = c.order
                                              /\ deliveries'[d].driver = w
                                              /\ <<d, w>> \in completed'
    BY <2>1, <2>3, CompletedStep DEF DeliveriesGrow, DeliveriesSound
  <2> QED
    BY <2>4, <2>5, <2>6
<1>2. CASE calls' \subseteq calls
  BY <1>0, <1>1, <1>2 DEF CallsSound
<1>3. ASSUME NEW o \in Order, GetPayment(o)
      PROVE  /\ calls' \in SUBSET (PaymentCall \cup DriverCall \cup DeliveredCall)
             /\ CallsSound'
  <2>1. \E c \in PaymentCall : /\ calls' = calls \cup {c}
                               /\ c.order = o /\ c.success = P!paymentSucceeded(o)
    <3> DEFINE s == P!paymentSucceeded(o)
               c == [op |-> "SetPaymentStatus", order |-> o, success |-> s]
    <3>1. s \in BOOLEAN
      BY DEF P!paymentSucceeded
    <3>2. c \in PaymentCall
      BY <3>1, Zenon DEF PaymentCall
    <3> QED
      BY <1>3, <3>2, Zenon DEF GetPayment
  <2>2. PICK c \in PaymentCall : /\ calls' = calls \cup {c}
                                 /\ c.order = o /\ c.success = P!paymentSucceeded(o)
    BY <2>1
  <2>3. Justified(c)'
    BY <1>3, <2>2 DEF GetPayment, PaymentCall, P!paymentSucceeded
  <2> QED
    BY <1>0, <1>1, <2>2, <2>3 DEF CallsSound
<1>4. ASSUME NEW d \in DeliveryId, NEW w \in Driver, ClaimDelivery(d, w)
      PROVE  /\ calls' \in SUBSET (PaymentCall \cup DriverCall \cup DeliveredCall)
             /\ CallsSound'
  <2> DEFINE c == [op |-> "SetDeliveryDriver", order |-> deliveries[d].order, driver |-> w]
  <2>1. /\ calls' = calls \cup {c}
        /\ deliveries' = [deliveries EXCEPT ![d] = [state |-> "waiting", order |-> @.order,
                                                    driver |-> w]]
        /\ deliveries[d].state = "unclaimed"
    BY <1>4 DEF ClaimDelivery, D!ClaimDelivery
  <2>2. deliveries'[d].order = deliveries[d].order /\ deliveries'[d].driver = w
    BY <1>0, <2>1
  <2>3. c \in DriverCall
    BY <2>1 DEF SystemIInv, DeliveriesSound, DriverCall
  <2>4. Justified(c)'
    BY <2>2
  <2> QED
    BY <1>0, <1>1, <2>1, <2>3, <2>4 DEF CallsSound
<1>5. ASSUME NEW d \in DeliveryId, NEW w \in Driver, CompleteOrder(d, w)
      PROVE  /\ calls' \in SUBSET (PaymentCall \cup DriverCall \cup DeliveredCall)
             /\ CallsSound'
  <2> DEFINE c == [op |-> "SetDeliveryStatus", order |-> deliveries[d].order]
  <2>1. /\ calls' = calls \cup {c}
        /\ deliveries' = [deliveries EXCEPT ![d].state = "done"]
        /\ deliveries[d].driver = w
        /\ <<d, w>> \in completed'
    BY <1>5 DEF CompleteOrder, D!DeliveryComplete
  <2>2. deliveries'[d].order = deliveries[d].order /\ deliveries'[d].driver = w
    BY <1>0, <2>1 DEF D!Delivery
  <2>3. c \in DeliveredCall
    BY <2>1 DEF SystemIInv, DeliveriesSound, DeliveredCall
  <2>4. Justified(c)'
    BY <2>1, <2>2
  <2>5. \A e \in calls' : Justified(e)'
    <3> HIDE DEF Justified
    <3> QED
      BY <1>1, <2>1, <2>4
  <2> QED
    BY <1>0, <2>1, <2>3, <2>5 DEF CallsSound
<1>6. ASSUME NEW c \in calls, HandleCall(c) \/ LoseCall(c) PROVE calls' \subseteq calls
  BY <1>6 DEF HandleCall, SetPaymentStatus, SetOrderDriver, SetDeliveryStatus, Handle, LoseCall
<1> QED
  BY <1>2, <1>3, <1>4, <1>5, <1>6 DEF SystemNext, systemVars, PlaceOrder, RestaurantDecides,
     CustomerCancels, CreatePayment, StripeStep, ReadyStarts, ReadyEnds, AddDelivery, PickupOrder

LEMMA IdsStep ==
  ASSUME SystemIInv, [SystemNext]_systemVars
  PROVE  IdsSound'
<1>0. /\ deliveries \in [DeliveryId -> D!Delivery]
      /\ pickup \in [Request -> PickupRequest]
      /\ issued \in SUBSET DeliveryId
      /\ IdsSound /\ RequestsSound
      /\ DeliveriesGrow
  BY DeliveriesStep DEF SystemIInv, SystemTypeOK, TypeOK, D!TypeOK, IInv
<1>1. ASSUME UNCHANGED issued,
             \A r \in Request : pickup'[r].phase = "added" =>
               /\ pickup[r].phase = "added"
               /\ pickup'[r].order = pickup[r].order
               /\ pickup'[r].delivery = pickup[r].delivery
      PROVE  IdsSound'
  <2>1. \A d \in issued : deliveries'[d].state # "absent"
    BY <1>0 DEF IdsSound, DeliveriesGrow
  <2>2. \A r \in Request : pickup[r].phase = "added" => pickup[r].delivery \in DeliveryId
    BY <1>0 DEF RequestsSound, PickupRequest
  <2> QED
    BY <1>0, <1>1, <2>1, <2>2 DEF IdsSound, DeliveriesGrow
<1>2. ASSUME NEW r \in Request, NEW d \in DeliveryId, AddDelivery(r, d) PROVE IdsSound'
  <2>1. /\ issued' = issued \cup {d}
        /\ pickup' = [pickup EXCEPT ![r].phase = "added", ![r].delivery = d]
        /\ deliveries' = [deliveries EXCEPT ![d] = [state |-> "unclaimed",
                            order |-> pickup[r].order, driver |-> NoDriver]]
    BY <1>2 DEF AddDelivery, PickupAddDelivery, D!AddDelivery
  <2>2. deliveries'[d].state = "unclaimed" /\ deliveries'[d].order = pickup[r].order
    BY <1>0, <2>1
  <2>3. \A e \in issued' : deliveries'[e].state # "absent"
    BY <1>0, <2>1, <2>2 DEF IdsSound, DeliveriesGrow
  <2>4. /\ pickup'[r].order = pickup[r].order /\ pickup'[r].delivery = d
        /\ \A q \in Request \ {r} : pickup'[q] = pickup[q]
    BY <1>0, <2>1 DEF PickupRequest
  <2>5. ASSUME NEW q \in Request, pickup'[q].phase = "added"
        PROVE  /\ deliveries'[pickup'[q].delivery].state # "absent"
               /\ deliveries'[pickup'[q].delivery].order = pickup'[q].order
    <3>1. CASE q = r
      BY <2>2, <2>4, <3>1
    <3>2. CASE q # r
      <4>1. pickup'[q] = pickup[q] /\ pickup[q].delivery \in DeliveryId
        BY <1>0, <2>4, <2>5, <3>2 DEF RequestsSound, PickupRequest
      <4> QED
        BY <1>0, <2>5, <4>1 DEF IdsSound, DeliveriesGrow
    <3> QED
      BY <3>1, <3>2
  <2> QED
    BY <2>3, <2>5 DEF IdsSound
<1>3. ASSUME NEW o \in Order, NEW statuses, NEW doc, UpdateIfStatus(o, statuses, doc),
             UNCHANGED issued
      PROVE  IdsSound'
  <2>1. \A r \in Request : /\ pickup'[r].phase = pickup[r].phase
                           /\ pickup'[r].order = pickup[r].order
                           /\ pickup'[r].delivery = pickup[r].delivery
    BY <1>0, <1>3 DEF UpdateIfStatus, MarkStale, PickupRequest
  <2> QED
    BY <1>1, <1>3, <2>1
<1>4. CASE UNCHANGED <<pickup, issued>>
  BY <1>1, <1>4
<1>5. ASSUME NEW r \in Request, NEW o \in Order, ReadyStarts(r, o) PROVE IdsSound'
  <2>1. \A q \in Request : pickup'[q].phase = "added" => pickup'[q] = pickup[q]
    BY <1>0, <1>5 DEF ReadyStarts, PickupUpdate
  <2> QED
    BY <1>1, <1>5, <2>1 DEF ReadyStarts
<1>6. ASSUME NEW r \in Request, ReadyEnds(r) PROVE IdsSound'
  <2>1. CASE PickupCommit(r)
    <3>1. \A q \in Request : pickup'[q].phase = "added" =>
            /\ pickup[q].phase = "added"
            /\ pickup'[q].order = pickup[q].order
            /\ pickup'[q].delivery = pickup[q].delivery
      BY <1>0, <2>1 DEF PickupCommit, MarkStale, PickupRequest
    <3> QED
      BY <1>1, <1>6, <3>1 DEF ReadyEnds
  <2>2. CASE PickupConflict(r) \/ PickupAbort(r)
    <3>1. \A q \in Request : pickup'[q].phase = "added" => pickup'[q] = pickup[q]
      BY <1>0, <2>2 DEF PickupConflict, PickupAbort, PickupRequest
    <3> QED
      BY <1>1, <1>6, <3>1 DEF ReadyEnds
  <2> QED
    BY <1>6, <2>1, <2>2 DEF ReadyEnds
<1>7. ASSUME NEW o \in Order,
             \/ PlaceOrder(o)
             \/ \E accepted \in BOOLEAN : RestaurantDecides(o, accepted)
             \/ CustomerCancels(o)
      PROVE  IdsSound'
  BY <1>3, <1>4, <1>7 DEF PlaceOrder, CreateOrder, RestaurantDecides, CustomerCancels,
     UpdateAcceptedStatus, CancelOrder
<1>8. ASSUME NEW c \in calls, HandleCall(c) PROVE IdsSound'
  <2>1. c.order \in Order
    BY CallKinds DEF SystemIInv
  <2> QED
    BY <1>3, <1>4, <1>8, <2>1 DEF HandleCall, SetPaymentStatus, SetOrderDriver,
       SetDeliveryStatus, Handle, UpdatePaymentStatus, SetDeliveryDriver, SetOrderDelivered
<1> QED
  BY <1>2, <1>4, <1>5, <1>6, <1>7, <1>8 DEF SystemNext, systemVars, CreatePayment, StripeStep,
     GetPayment, ClaimDelivery, PickupOrder, CompleteOrder, LoseCall

\* The statuses only a successful payment leads to.
PaidStatus == {"pending_restaurant_accept", "preparing_order", "restaurant_rejected"}

\* Where the fields of an order can come from in one step.
DriverFromCall(o) ==
  \/ orders'[o].driver = orders[o].driver
  \/ \E c \in calls : /\ c.op = "SetDeliveryDriver" /\ c.order = o
                      /\ orders'[o].driver = c.driver

DeliveryFromRequest(o) ==
  \/ orders'[o].delivery = orders[o].delivery
  \/ \E r \in Request : /\ pickup[r].phase = "added" /\ pickup[r].order = o
                        /\ orders'[o].delivery = pickup[r].delivery

DeliveredFromCall(o) ==
  orders'[o].status = "delivered" =>
    \/ orders[o].status = "delivered"
    \/ \E c \in calls : c.op = "SetDeliveryStatus" /\ c.order = o

PaidFromCall(o) ==
  orders'[o].status \in PaidStatus =>
    \/ orders[o].status \in PaidStatus /\ orders'[o].txn = orders[o].txn
    \/ \E c \in calls : /\ c.op = "SetPaymentStatus" /\ c.order = o
                        /\ c.success
                        /\ orders'[o].txn = o

OrderChange(o) ==
  DriverFromCall(o) /\ DeliveryFromRequest(o) /\ DeliveredFromCall(o) /\ PaidFromCall(o)

LEMMA OrdersChange ==
  ASSUME SystemIInv, [SystemNext]_systemVars, NEW o \in Order
  PROVE  OrderChange(o)
<1> USE DEF OrderChange, DriverFromCall, DeliveryFromRequest, DeliveredFromCall, PaidFromCall
<1>0. orders \in [Order -> OrderDoc] /\ pickup \in [Request -> PickupRequest]
  BY DEF SystemIInv, SystemTypeOK, TypeOK
<1>1. CASE UNCHANGED orders
  BY <1>1
<1>2. ASSUME NEW p \in Order, PlaceOrder(p) PROVE OrderChange(o)
  BY <1>0, <1>2 DEF PlaceOrder, CreateOrder, OrderDoc, PaidStatus
<1>3. ASSUME NEW p \in Order, NEW accepted \in BOOLEAN, RestaurantDecides(p, accepted)
      PROVE  OrderChange(o)
  BY <1>0, <1>3 DEF RestaurantDecides, UpdateAcceptedStatus, UpdateIfStatus, OrderDoc, PaidStatus
<1>4. ASSUME NEW p \in Order, CustomerCancels(p) PROVE OrderChange(o)
  BY <1>0, <1>4 DEF CustomerCancels, CancelOrder, UpdateIfStatus, OrderDoc, PaidStatus
<1>5. ASSUME NEW c \in calls, SetPaymentStatus(c) PROVE OrderChange(o)
  <2>1. CASE UpdatePaymentStatus(c.order, c.success, c.order)
    <3>1. c.op = "SetPaymentStatus"
      BY <1>5 DEF SetPaymentStatus
    <3>2. CASE c.success
      BY <1>0, <2>1, <3>1, <3>2 DEF UpdatePaymentStatus, UpdateIfStatus, OrderDoc, PaidStatus
    <3>3. CASE ~c.success
      BY <1>0, <2>1, <3>3 DEF UpdatePaymentStatus, UpdateIfStatus, OrderDoc, PaidStatus
    <3> QED
      BY <3>2, <3>3
  <2> QED
    BY <1>1, <1>5, <2>1 DEF SetPaymentStatus, Handle
<1>6. ASSUME NEW c \in calls, SetOrderDriver(c) PROVE OrderChange(o)
  <2>1. CASE SetDeliveryDriver(c.order, c.driver)
    <3>1. c.op = "SetDeliveryDriver"
      BY <1>6 DEF SetOrderDriver
    <3>2. CASE c.order = o
      <4>1. orders'[o] = [orders[o] EXCEPT !.status = "delivering", !.driver = c.driver]
        BY <1>0, <2>1, <3>2 DEF SetDeliveryDriver, UpdateIfStatus
      <4>2. /\ orders'[o].status = "delivering" /\ orders'[o].driver = c.driver
            /\ orders'[o].delivery = orders[o].delivery
        BY <1>0, <4>1 DEF OrderDoc
      <4> QED
        BY <3>1, <3>2, <4>2 DEF PaidStatus
    <3>3. CASE c.order # o
      <4>1. orders'[o] = orders[o]
        BY <1>0, <2>1, <3>3 DEF SetDeliveryDriver, UpdateIfStatus
      <4> QED
        BY <4>1
    <3> QED
      BY <3>2, <3>3
  <2> QED
    BY <1>1, <1>6, <2>1 DEF SetOrderDriver, Handle
<1>7. ASSUME NEW c \in calls, SetDeliveryStatus(c) PROVE OrderChange(o)
  BY <1>0, <1>1, <1>7 DEF SetDeliveryStatus, Handle, SetOrderDelivered, UpdateIfStatus, OrderDoc,
     PaidStatus
<1>8. ASSUME NEW r \in Request, ReadyEnds(r) PROVE OrderChange(o)
  <2>1. CASE PickupCommit(r)
    BY <1>0, <2>1 DEF PickupCommit, OrderDoc, PaidStatus
  <2> QED
    BY <1>1, <1>8, <2>1 DEF ReadyEnds, PickupConflict, PickupAbort
<1>9. ASSUME NEW r \in Request,
             \/ \E p \in Order : ReadyStarts(r, p)
             \/ \E d \in DeliveryId : AddDelivery(r, d)
      PROVE  UNCHANGED orders
  BY <1>9 DEF ReadyStarts, PickupUpdate, AddDelivery, PickupAddDelivery
<1> QED
  BY <1>1, <1>2, <1>3, <1>4, <1>5, <1>6, <1>7, <1>8, <1>9 DEF SystemNext, systemVars,
     CreatePayment, StripeStep, GetPayment, ClaimDelivery, PickupOrder, CompleteOrder,
     HandleCall, LoseCall

-----------------------------------------------------------------------------
(* The inductive step *)

LEMMA SystemNextIInv == SystemIInv /\ [SystemNext]_systemVars => SystemIInv'
<1> SUFFICES ASSUME SystemIInv, [SystemNext]_systemVars PROVE SystemIInv'
  OBVIOUS
<1> USE NullsAssumption
<1>1. IInv' /\ TypeOK'
  BY OrdersStep, NextIInv DEF SystemIInv, IInv
<1>2. D!TypeOK' /\ DeliveriesSound' /\ DeliveriesGrow /\ DeliveriesSound
  BY DeliveriesStep DEF SystemIInv
<1>3. P!TypeOK' /\ \A o \in Order : sessions[o] = "paid" => sessions'[o] = "paid"
  BY SessionsStep
<1>4. SystemTypeOK' /\ CallsSound'
  BY <1>1, <1>2, <1>3, CallsStep, CompletedStep DEF SystemTypeOK
<1>5. IdsSound'
  BY IdsStep
<1>6. \A o \in Order : OrderChange(o)
  BY OrdersChange
<1>7. AcceptedIsPaid'
  <2> SUFFICES ASSUME NEW o \in Order, orders'[o].status \in PaidStatus
               PROVE  sessions'[o] = "paid" /\ orders'[o].txn = o
    BY DEF AcceptedIsPaid, PaidStatus
  <2>1. CASE orders[o].status \in PaidStatus /\ orders'[o].txn = orders[o].txn
    BY <1>3, <2>1 DEF SystemIInv, AcceptedIsPaid, PaidStatus
  <2>2. ASSUME NEW c \in calls, c.op = "SetPaymentStatus", c.order = o, c.success,
               orders'[o].txn = o
        PROVE  sessions'[o] = "paid" /\ orders'[o].txn = o
    BY <1>3, <2>2 DEF SystemIInv, CallsSound
  <2> QED
    BY <1>6, <2>1, <2>2 DEF OrderChange, PaidFromCall
<1>8. DriverHoldsDelivery'
  <2> SUFFICES ASSUME NEW o \in Order, orders'[o].driver # NoDriver
               PROVE  \E d \in DeliveryId : /\ deliveries'[d].order = o
                                            /\ deliveries'[d].driver = orders'[o].driver
    BY DEF DriverHoldsDelivery
  <2>1. \E d \in DeliveryId : deliveries[d].order = o /\ deliveries[d].driver = orders'[o].driver
    BY <1>6 DEF OrderChange, DriverFromCall, SystemIInv, DriverHoldsDelivery, CallsSound
  <2> QED
    BY <1>2, <2>1 DEF DeliveriesGrow, DeliveriesSound
<1>9. DeliveryServesOrder'
  <2> SUFFICES ASSUME NEW o \in Order, orders'[o].delivery # NoDelivery
               PROVE  /\ deliveries'[orders'[o].delivery].state # "absent"
                      /\ deliveries'[orders'[o].delivery].order = o
    BY DEF DeliveryServesOrder
  <2>1. orders'[o].delivery \in DeliveryId
    BY <1>1 DEF TypeOK, OrderDoc
  <2>2. /\ deliveries[orders'[o].delivery].state # "absent"
        /\ deliveries[orders'[o].delivery].order = o
    BY <1>6 DEF OrderChange, DeliveryFromRequest, SystemIInv, DeliveryServesOrder, IdsSound
  <2> QED
    BY <1>2, <2>1, <2>2 DEF DeliveriesGrow
<1>10. DeliveredWasCompleted'
  <2> SUFFICES ASSUME NEW o \in Order, orders'[o].status = "delivered"
               PROVE  \E d \in DeliveryId, w \in Driver : /\ deliveries'[d].order = o
                                                          /\ deliveries'[d].driver = w
                                                          /\ <<d, w>> \in completed'
    BY DEF DeliveredWasCompleted
  <2>1. \E d \in DeliveryId, w \in Driver : /\ deliveries[d].order = o
                                            /\ deliveries[d].driver = w
                                            /\ <<d, w>> \in completed
    BY <1>6 DEF OrderChange, DeliveredFromCall, SystemIInv, DeliveredWasCompleted, CallsSound
  <2> QED
    BY <1>2, <1>4, <2>1, CompletedStep DEF DeliveriesGrow, DeliveriesSound
<1> QED
  BY <1>1, <1>2, <1>4, <1>5, <1>7, <1>8, <1>9, <1>10 DEF SystemIInv

-----------------------------------------------------------------------------
(* Theorems *)

LEMMA SystemInvariant == SystemSpec => []SystemIInv
  BY SystemInitIInv, SystemNextIInv, PTL DEF SystemSpec

\* Every module's state, and every call in flight, has the type the code gives it.
THEOREM SystemTypeCorrect == SystemSpec => []SystemTypeOK
  BY SystemInvariant, PTL DEF SystemIInv

\* In the system the order service behaves as module Orders says: the callers of
\* the other services are among the callers Orders allows, so that the theorems
\* of Orders_proofs hold of the system.
THEOREM SystemImplementsOrders == SystemSpec => Spec
<1>1. SystemInit => Init
  BY DEF SystemInit
<1> QED
  BY <1>1, OrdersStep, SystemInvariant, PTL DEF SystemSpec, Spec

\* The composed system takes every order along the lifecycle of OrderLifecycle.
THEOREM SystemImplementsLifecycle == SystemSpec => ImplementsLifecycle
  BY SystemImplementsOrders, Refinement

\* No order is accepted, rejected or offered to the restaurant without a paid
\* session, whichever reports were lost, repeated or late.
THEOREM OnlyPaidAccepted == SystemSpec => []AcceptedIsPaid
  BY SystemInvariant, PTL DEF SystemIInv

\* The driver an order shows has claimed one of its deliveries.
THEOREM DriversHoldDeliveries == SystemSpec => []DriverHoldsDelivery
  BY SystemInvariant, PTL DEF SystemIInv

\* The delivery an order shows exists and is for that order.
THEOREM DeliveriesServeOrders == SystemSpec => []DeliveryServesOrder
  BY SystemInvariant, PTL DEF SystemIInv

\* An order is delivered only if the driver of one of its deliveries completed it.
THEOREM DeliveredOrdersWereCompleted == SystemSpec => []DeliveredWasCompleted
  BY SystemInvariant, PTL DEF SystemIInv

\* A claimed delivery keeps its driver and its order.
THEOREM ClaimsAreFinal == SystemSpec => ClaimIsFinal
<1>1. SystemIInv /\ [SystemNext]_systemVars =>
        [\A d \in DeliveryId : deliveries[d].driver # NoDriver =>
           /\ deliveries'[d].driver = deliveries[d].driver
           /\ deliveries'[d].order = deliveries[d].order]_systemVars
  BY DeliveriesStep DEF DeliveriesGrow, DeliveriesSound, SystemIInv
<1> QED
  BY <1>1, SystemInvariant, PTL DEF SystemSpec, ClaimIsFinal
=============================================================================
