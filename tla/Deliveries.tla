----------------------------- MODULE Deliveries -----------------------------
(***************************************************************************)
(* delivery-service: the "deliveries" collection and the operations that   *)
(* write it (delivery-service/repo/delivery.go).  Each is one atomic       *)
(* FindOneAndUpdate or InsertOne.  Nothing makes the order of a delivery   *)
(* unique: a second AddDelivery for an order is a second delivery.         *)
(***************************************************************************)
CONSTANTS Order, Driver, DeliveryId, NoOrder, NoDriver

VARIABLE deliveries   \* the documents, by delivery id

\* state "absent" stands for an id that is not in the collection.
Delivery == [state  : {"absent", "unclaimed", "waiting", "delivering", "done"},
             order  : Order \cup {NoOrder},
             driver : Driver \cup {NoDriver}]

TypeOK == deliveries \in [DeliveryId -> Delivery]

Init ==
  deliveries = [d \in DeliveryId |-> [state |-> "absent", order |-> NoOrder,
                                      driver |-> NoDriver]]

\* InsertOne with a fresh id; driver and state are reset whatever the caller sent.
AddDelivery(d, o) ==
  /\ deliveries[d].state = "absent"
  /\ deliveries' = [deliveries EXCEPT ![d] = [state |-> "unclaimed", order |-> o,
                                              driver |-> NoDriver]]

\* Mutant of ClaimDelivery: the filter is only the id, so a claim takes a
\* delivery over from the driver who has it.
ClaimDeliveryById(d, w) ==
  /\ deliveries[d].state # "absent"
  /\ deliveries' = [deliveries EXCEPT ![d].driver = w, ![d].state = "waiting"]

\* The filter asks for a delivery without driver that is unclaimed; of two
\* claims the second finds no document and answers ErrAlreadyClaimed.
ClaimDelivery(d, w) ==
  /\ deliveries[d].driver = NoDriver
  /\ deliveries[d].state = "unclaimed"
  /\ deliveries' = [deliveries EXCEPT ![d] = [state |-> "waiting", order |-> @.order,
                                              driver |-> w]]

\* Mutant of DeliveryPickup: the status of the order is stored, not that of the
\* delivery.
DeliveryPickupOrderStatus(d, w) ==
  /\ deliveries[d].driver = w
  /\ deliveries' = [deliveries EXCEPT ![d].state = "awaiting_pickup"]

\* The filter is the id and the driver: the state is not tested, a delivery
\* that is done becomes "delivering" again.
DeliveryPickup(d, w) ==
  /\ deliveries[d].driver = w
  /\ deliveries' = [deliveries EXCEPT ![d].state = "delivering"]

\* Likewise: a delivery may be completed before it was picked up.
DeliveryComplete(d, w) ==
  /\ deliveries[d].driver = w
  /\ deliveries' = [deliveries EXCEPT ![d].state = "done"]
=============================================================================
