------------------------------- MODULE Orders -------------------------------
(***************************************************************************)
(* order-service: the "orders" collection and every operation that writes  *)
(* it (order-service/repo/order.go).                                       *)
(*                                                                         *)
(* All operations but one are a single conditional update of one document  *)
(* (updateIfStatus), atomic in MongoDB.  SetOrderPickupReady is a          *)
(* multi-statement transaction under snapshot isolation that calls the     *)
(* delivery service in the middle; it is modelled statement by statement.  *)
(***************************************************************************)
CONSTANTS Order,        \* order ids
          Driver,       \* user ids of drivers
          Txn,          \* payment transaction ids
          DeliveryId,   \* ids the delivery service may hand out (bounded)
          Request,      \* SetOrderPickupReady requests (bounded)
          NoOrder, NoDriver, NoTxn, NoDelivery   \* missing fields

ASSUME NullsAssumption ==
  /\ NoOrder \notin Order
  /\ NoDriver \notin Driver
  /\ NoTxn \notin Txn
  /\ NoDelivery \notin DeliveryId

VARIABLES
  orders,   \* the committed documents, by order id
  pickup,   \* the SetOrderPickupReady requests, by request
  issued    \* ids the delivery service has handed out

vars == <<orders, pickup, issued>>

Status == {"payment_pending", "payment_failed", "canceled",
           "pending_restaurant_accept", "restaurant_rejected",
           "preparing_order", "awaiting_pickup", "delivering", "delivered"}

\* The fields of a document the operations read or write; status "absent"
\* stands for an id that is not in the collection.
OrderDoc == [status   : Status \cup {"absent"},
             txn      : Txn \cup {NoTxn},
             driver   : Driver \cup {NoDriver},
             delivery : DeliveryId \cup {NoDelivery}]

\* A request is "new" until its transaction starts, "updated" after the first
\* statement, "added" once AddDelivery has answered, "retry" when a write
\* conflict makes WithTransaction run the callback again, and "ok" or "error"
\* once it has answered.  wrote: the first statement changed the document, so
\* the transaction holds its write lock.  stale: the document was written
\* by somebody else since the transaction's snapshot.
PickupRequest == [phase    : {"new", "updated", "added", "retry", "ok", "error"},
                  order    : Order \cup {NoOrder},
                  wrote    : BOOLEAN,
                  stale    : BOOLEAN,
                  delivery : DeliveryId \cup {NoDelivery}]

TypeOK ==
  /\ orders \in [Order -> OrderDoc]
  /\ pickup \in [Request -> PickupRequest]
  /\ issued \in SUBSET DeliveryId

Init ==
  /\ orders = [o \in Order |-> [status |-> "absent", txn |-> NoTxn,
                                driver |-> NoDriver, delivery |-> NoDelivery]]
  /\ pickup = [r \in Request |-> [phase |-> "new", order |-> NoOrder, wrote |-> FALSE,
                                  stale |-> FALSE, delivery |-> NoDelivery]]
  /\ issued = {}

-----------------------------------------------------------------------------
(* Documents, locks and snapshots *)

InTx(r) == pickup[r].phase \in {"updated", "added"}

Holds(r, o) == InTx(r) /\ pickup[r].order = o /\ pickup[r].wrote

\* An uncommitted transaction has written the document.
Locked(o) == \E r \in Request : Holds(r, o)

\* A committed write of o conflicts with the transactions that read o before.
MarkStale(o) ==
  [r \in Request |-> IF InTx(r) /\ pickup[r].order = o
                     THEN [pickup[r] EXCEPT !.stale = TRUE]
                     ELSE pickup[r]]

\* UpdateByID with updateIfStatus on every field.  It changes the document only
\* in one of the given statuses, waits for the lock, and otherwise modifies
\* nothing and the caller answers ErrNoOrder or ErrStateChange.
UpdateIfStatus(o, statuses, doc) ==
  /\ orders[o].status \in statuses
  /\ ~Locked(o)
  /\ orders' = [orders EXCEPT ![o] = doc]
  /\ pickup' = MarkStale(o)

Refused(o, statuses) == orders[o].status \notin statuses

-----------------------------------------------------------------------------
(* Single-document operations *)

CreateOrder(o) ==
  /\ orders[o].status = "absent"
  /\ orders' = [orders EXCEPT ![o].status = "payment_pending"]
  /\ UNCHANGED pickup

\* Mutant of UpdatePaymentStatus: a failed payment is not recorded.
UpdatePaymentStatusOnSuccess(o, successful, t) ==
  IF successful
  THEN UpdateIfStatus(o, {"payment_pending"},
         [orders[o] EXCEPT !.status = "pending_restaurant_accept", !.txn = t])
  ELSE UNCHANGED <<orders, pickup>>

UpdatePaymentStatus(o, successful, t) ==
  UpdateIfStatus(o, {"payment_pending"},
    [orders[o] EXCEPT !.status = IF successful THEN "pending_restaurant_accept"
                                               ELSE "payment_failed",
                      !.txn = t])

UpdateAcceptedStatus(o, accepted) ==
  UpdateIfStatus(o, {"pending_restaurant_accept"},
    [orders[o] EXCEPT !.status = IF accepted THEN "preparing_order"
                                             ELSE "restaurant_rejected"])

\* Mutant of CancelOrder: the stored value is not one of AllStatuses.
CancelOrderMisspelled(o) ==
  UpdateIfStatus(o, {"payment_pending", "pending_restaurant_accept", "payment_failed"},
    [orders[o] EXCEPT !.status = "cancelled"])

\* Of canCancelStatus, "canceled" itself leaves the document as it is, which
\* the code reports as ErrCannotCancelOrder.
CancelOrder(o) ==
  UpdateIfStatus(o, {"payment_pending", "pending_restaurant_accept", "payment_failed"},
    [orders[o] EXCEPT !.status = "canceled"])

SetDeliveryDriver(o, w) ==
  UpdateIfStatus(o, {"awaiting_pickup"},
    [orders[o] EXCEPT !.status = "delivering", !.driver = w])

SetOrderDelivered(o) ==
  UpdateIfStatus(o, {"delivering"}, [orders[o] EXCEPT !.status = "delivered"])

-----------------------------------------------------------------------------
(* SetOrderPickupReady(r): update status, call AddDelivery, store its id *)

\* The statuses in which the first statement changes the document; it also
\* matches "awaiting_pickup", which it leaves as it is.
ReadyFrom == {"preparing_order", "payment_pending"}

\* Mutant of PickupUpdate: the first statement does not ask for the status.
PickupUpdateUnconditional(r, o) ==
  /\ \/ pickup[r].phase = "new"
     \/ pickup[r].phase = "retry" /\ pickup[r].order = o
  /\ orders[o].status # "absent" /\ ~Locked(o)
  /\ pickup' = [pickup EXCEPT ![r] = [phase |-> "updated", order |-> o, wrote |-> TRUE,
                                      stale |-> FALSE, delivery |-> NoDelivery]]
  /\ UNCHANGED orders

\* First statement, then GetOrderById: the transaction takes its snapshot, and
\* the write lock if the statement changed the document.  That nothing was
\* modified is not an error (the check is commented out).  A lock held by
\* another transaction is a write conflict: the callback starts over.
PickupUpdate(r, o) ==
  /\ \/ pickup[r].phase = "new"
     \/ pickup[r].phase = "retry" /\ pickup[r].order = o
  /\ orders[o].status # "absent"
  /\ orders[o].status \in ReadyFrom => ~Locked(o)
  /\ pickup' = [pickup EXCEPT ![r] = [phase |-> "updated", order |-> o,
                                      wrote |-> orders[o].status \in ReadyFrom,
                                      stale |-> FALSE, delivery |-> NoDelivery]]
  /\ UNCHANGED orders

\* The delivery service has answered with the id d.  The call is outside the
\* transaction: an abort or a retry does not undo it.
PickupAddDelivery(r, d) ==
  /\ pickup[r].phase = "updated"
  /\ pickup' = [pickup EXCEPT ![r].phase = "added", ![r].delivery = d]
  /\ UNCHANGED orders

\* The statement that sets delivery_id writes the document: it conflicts with
\* a write committed since the snapshot and with a lock of another request.
Conflict(r) ==
  \/ pickup[r].stale
  \/ \E q \in Request \ {r} : Holds(q, pickup[r].order)

\* Mutant of PickupCommit: the status is written whatever the first statement did.
PickupCommitAlwaysReady(r) ==
  LET o == pickup[r].order IN
  /\ pickup[r].phase = "added"
  /\ ~Conflict(r)
  /\ orders' = [orders EXCEPT ![o].status = "awaiting_pickup",
                              ![o].delivery = pickup[r].delivery]
  /\ pickup' = [MarkStale(o) EXCEPT ![r] = [pickup[r] EXCEPT !.phase = "ok"]]

\* Mutant of PickupCommit: delivery_id is left out.
PickupCommitNoDelivery(r) ==
  LET o == pickup[r].order IN
  /\ pickup[r].phase = "added"
  /\ ~Conflict(r)
  /\ orders' = [orders EXCEPT ![o].status = IF pickup[r].wrote THEN "awaiting_pickup" ELSE @]
  /\ pickup' = [MarkStale(o) EXCEPT ![r] = [pickup[r] EXCEPT !.phase = "ok"]]

\* Second update and commit: both writes become visible at once.
PickupCommit(r) ==
  LET o == pickup[r].order IN
  /\ pickup[r].phase = "added"
  /\ ~Conflict(r)
  /\ orders' = [orders EXCEPT ![o].status = IF pickup[r].wrote THEN "awaiting_pickup" ELSE @,
                              ![o].delivery = pickup[r].delivery]
  /\ pickup' = [MarkStale(o) EXCEPT ![r] = [pickup[r] EXCEPT !.phase = "ok"]]

\* A write conflict aborts the transaction and WithTransaction runs the
\* callback again, AddDelivery included.
PickupConflict(r) ==
  /\ pickup[r].phase = "added"
  /\ Conflict(r)
  /\ pickup' = [pickup EXCEPT ![r] = [phase |-> "retry", order |-> @.order, wrote |-> FALSE,
                                      stale |-> FALSE, delivery |-> NoDelivery]]
  /\ UNCHANGED orders

\* The call or the database fails, the retries time out, or the service stops:
\* the transaction aborts.  With phase "added" this is also the AddDelivery
\* whose answer is lost.
PickupAbort(r) ==
  /\ pickup[r].phase \in {"updated", "added", "retry"}
  /\ pickup' = [pickup EXCEPT ![r].phase = "error"]
  /\ UNCHANGED orders

-----------------------------------------------------------------------------
(* The order service on its own: every caller may call at any time *)

Next ==
  \/ /\ \E o \in Order :
          \/ CreateOrder(o)
          \/ \E successful \in BOOLEAN, t \in Txn : UpdatePaymentStatus(o, successful, t)
          \/ \E accepted \in BOOLEAN : UpdateAcceptedStatus(o, accepted)
          \/ CancelOrder(o)
          \/ \E w \in Driver : SetDeliveryDriver(o, w)
          \/ SetOrderDelivered(o)
          \/ \E r \in Request : PickupUpdate(r, o)
     /\ UNCHANGED issued
  \/ \E r \in Request, d \in DeliveryId \ issued :
       /\ PickupAddDelivery(r, d)
       /\ issued' = issued \cup {d}
  \/ /\ \E r \in Request : PickupCommit(r) \/ PickupConflict(r) \/ PickupAbort(r)
     /\ UNCHANGED issued

Spec == Init /\ [][Next]_vars

-----------------------------------------------------------------------------
(* Properties *)

\* SetOrderPickupReady rewrites the status at commit without testing it again:
\* a transaction that changed the status is alone on its order and the status
\* is still one that justified the change.
LockSound ==
  \A r \in Request, o \in Order : Holds(r, o) =>
    /\ orders[o].status \in ReadyFrom
    /\ ~pickup[r].stale
    /\ \A q \in Request : Holds(q, o) => q = r

\* The optional fields of a document agree with its status: a transaction id
\* from the moment the payment is decided, a delivery id once the order is
\* ready, a driver exactly while and after it is on its way.
FieldsMatchStatus ==
  \A o \in Order : LET doc == orders[o] IN
    /\ doc.status \in {"payment_failed", "pending_restaurant_accept",
                       "restaurant_rejected", "preparing_order"} => doc.txn # NoTxn
    /\ doc.status \in {"absent", "payment_pending"} => doc.txn = NoTxn
    /\ doc.status \in {"awaiting_pickup", "delivering", "delivered"} =>
         doc.delivery # NoDelivery
    /\ doc.driver # NoDriver <=> doc.status \in {"delivering", "delivered"}

\* The service with its transactions, locks and retries implements the
\* lifecycle of OrderLifecycle: every committed write is one of its steps.
Lifecycle == INSTANCE OrderLifecycle WITH
  status <- [o \in Order |-> orders[o].status],
  driver <- [o \in Order |-> orders[o].driver],
  txn    <- [o \in Order |-> orders[o].txn]

ImplementsLifecycle == Lifecycle!Spec

\* What the comment on StatusPaymentPending says (order-service/models/order.go:12):
\* an order leaves payment_pending only by a recorded payment or a cancellation.
PendingUntilPayment ==
  \A o \in Order :
    orders[o].status \notin {"absent", "payment_pending", "canceled"} => orders[o].txn # NoTxn

\* What TestOrderPrepareDone says (order-service/repo/order_test.go:242): marking
\* a canceled order as ready is refused, so no request answers ok on one.
CanceledIsNeverReady ==
  [][\A r \in Request :
       pickup[r].phase # "ok" /\ pickup'[r].phase = "ok" =>
         orders[pickup[r].order].status # "canceled"]_vars
=============================================================================
