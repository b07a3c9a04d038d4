--------------------------- MODULE Orders_proofs ---------------------------
(***************************************************************************)
(* Theorems about the order service on its own (module Orders), for any    *)
(* number of orders, drivers, transactions, delivery ids and requests.     *)
(***************************************************************************)
EXTENDS Orders, TLAPS

\* Every request that has started is about an order of the collection, and the
\* id it is about to store is one the delivery service returned.
RequestsSound ==
  \A r \in Request :
    /\ pickup[r].phase \in {"updated", "added"} =>
         pickup[r].order \in Order /\ orders[pickup[r].order].status # "absent"
    /\ pickup[r].phase = "added" => pickup[r].delivery # NoDelivery

\* The inductive invariant.
IInv == TypeOK /\ RequestsSound /\ LockSound /\ FieldsMatchStatus

LEMMA InitIInv == Init => IInv
  BY NullsAssumption DEF Init, IInv, TypeOK, RequestsSound, LockSound, FieldsMatchStatus,
     OrderDoc, PickupRequest, Status, Holds, InTx

\* Any conditional update to a well-typed document that agrees with its status
\* preserves the invariant: the lock is free, so no transaction relies on the
\* status that changes.
LEMMA UpdateIfStatusIInv ==
  ASSUME IInv, NEW o \in Order, NEW statuses, NEW doc \in OrderDoc,
         UpdateIfStatus(o, statuses, doc),
         doc.status # "absent",
         doc.status \in {"payment_failed", "pending_restaurant_accept",
                         "restaurant_rejected", "preparing_order"} => doc.txn # NoTxn,
         doc.status = "payment_pending" => doc.txn = NoTxn,
         doc.status \in {"awaiting_pickup", "delivering", "delivered"} =>
           doc.delivery # NoDelivery,
         doc.driver # NoDriver <=> doc.status \in {"delivering", "delivered"},
         issued' \in SUBSET DeliveryId
  PROVE  IInv'
<1>1. /\ orders' = [orders EXCEPT ![o] = doc]
      /\ pickup' = [r \in Request |-> IF InTx(r) /\ pickup[r].order = o
                                      THEN [pickup[r] EXCEPT !.stale = TRUE]
                                      ELSE pickup[r]]
      /\ ~ \E r \in Request : Holds(r, o)
  BY DEF UpdateIfStatus, MarkStale, Locked
<1>2. TypeOK'
  BY <1>1 DEF IInv, TypeOK, PickupRequest
<1>3. \A r \in Request : /\ pickup'[r].phase = pickup[r].phase
                         /\ pickup'[r].order = pickup[r].order
                         /\ pickup'[r].wrote = pickup[r].wrote
                         /\ pickup'[r].delivery = pickup[r].delivery
                         /\ pickup[r].order # o => pickup'[r] = pickup[r]
  BY <1>1 DEF IInv, TypeOK, PickupRequest
<1>4. RequestsSound'
  BY <1>1, <1>3 DEF IInv, TypeOK, RequestsSound
<1>5. LockSound'
  <2> SUFFICES ASSUME NEW r \in Request, NEW p \in Order, Holds(r, p)'
               PROVE  /\ orders'[p].status \in ReadyFrom
                      /\ ~pickup'[r].stale
                      /\ \A q \in Request : Holds(q, p)' => q = r
    BY DEF LockSound, ReadyFrom
  <2>1. Holds(r, p) /\ \A q \in Request : Holds(q, p)' => Holds(q, p)
    BY <1>3 DEF Holds, InTx
  <2>2. p # o
    BY <1>1, <2>1
  <2> QED
    BY <1>1, <1>3, <2>1, <2>2 DEF IInv, TypeOK, LockSound, Holds
<1>6. FieldsMatchStatus'
  BY <1>1 DEF IInv, TypeOK, FieldsMatchStatus
<1> QED
  BY <1>2, <1>4, <1>5, <1>6 DEF IInv

\* The single-document operations.
LEMMA OperationIInv ==
  ASSUME IInv, NEW o \in Order, UNCHANGED issued,
         \/ CreateOrder(o)
         \/ \E successful \in BOOLEAN, t \in Txn : UpdatePaymentStatus(o, successful, t)
         \/ \E accepted \in BOOLEAN : UpdateAcceptedStatus(o, accepted)
         \/ CancelOrder(o)
         \/ \E w \in Driver : SetDeliveryDriver(o, w)
         \/ SetOrderDelivered(o)
  PROVE  IInv'
<1> USE NullsAssumption
<1>0. orders[o] \in OrderDoc /\ issued' \in SUBSET DeliveryId
  BY DEF IInv, TypeOK
<1>1. CASE CreateOrder(o)
  <2>1. TypeOK'
    BY <1>0, <1>1 DEF CreateOrder, IInv, TypeOK, OrderDoc, Status
  <2>2. RequestsSound'
    BY <1>1 DEF CreateOrder, IInv, TypeOK, RequestsSound, OrderDoc
  <2>3. \A r \in Request : ~Holds(r, o)
    BY <1>1 DEF CreateOrder, IInv, LockSound, ReadyFrom
  <2>4. LockSound'
    BY <1>1, <2>3 DEF CreateOrder, IInv, TypeOK, LockSound, Holds, InTx, OrderDoc
  <2>5. FieldsMatchStatus'
    BY <1>0, <1>1 DEF CreateOrder, IInv, TypeOK, FieldsMatchStatus, OrderDoc
  <2> QED
    BY <2>1, <2>2, <2>4, <2>5 DEF IInv
<1>2. ASSUME NEW successful \in BOOLEAN, NEW t \in Txn, UpdatePaymentStatus(o, successful, t)
      PROVE  IInv'
  <2> DEFINE to == IF successful THEN "pending_restaurant_accept" ELSE "payment_failed"
             doc == [orders[o] EXCEPT !.status = to, !.txn = t]
  <2>1. UpdateIfStatus(o, {"payment_pending"}, doc) /\ orders[o].status = "payment_pending"
    BY <1>2 DEF UpdatePaymentStatus, UpdateIfStatus
  <2>2. doc \in OrderDoc /\ doc.txn # NoTxn
    BY <1>0 DEF OrderDoc, Status
  <2>3. doc.status \in {"pending_restaurant_accept", "payment_failed"} /\ doc.driver = NoDriver
    BY <1>0, <2>1 DEF OrderDoc, IInv, FieldsMatchStatus
  <2> QED
    BY <1>0, <2>1, <2>2, <2>3, UpdateIfStatusIInv
<1>3. ASSUME NEW accepted \in BOOLEAN, UpdateAcceptedStatus(o, accepted)
      PROVE  IInv'
  <2> DEFINE to == IF accepted THEN "preparing_order" ELSE "restaurant_rejected"
             doc == [orders[o] EXCEPT !.status = to]
  <2>1. /\ UpdateIfStatus(o, {"pending_restaurant_accept"}, doc)
        /\ orders[o].status = "pending_restaurant_accept"
    BY <1>3 DEF UpdateAcceptedStatus, UpdateIfStatus
  <2>2. doc \in OrderDoc /\ doc.txn # NoTxn
    BY <1>0, <2>1 DEF OrderDoc, Status, IInv, FieldsMatchStatus
  <2>3. doc.status \in {"preparing_order", "restaurant_rejected"} /\ doc.driver = NoDriver
    BY <1>0, <2>1 DEF OrderDoc, IInv, FieldsMatchStatus
  <2> QED
    BY <1>0, <2>1, <2>2, <2>3, UpdateIfStatusIInv
<1>4. CASE CancelOrder(o)
  <2> DEFINE from == {"payment_pending", "pending_restaurant_accept", "payment_failed"}
             doc == [orders[o] EXCEPT !.status = "canceled"]
  <2>1. UpdateIfStatus(o, from, doc) /\ orders[o].status \in from
    BY <1>4 DEF CancelOrder, UpdateIfStatus
  <2>2. doc \in OrderDoc /\ doc.status = "canceled" /\ doc.driver = NoDriver
    BY <1>0, <2>1 DEF OrderDoc, Status, IInv, FieldsMatchStatus
  <2> QED
    BY <1>0, <2>1, <2>2, UpdateIfStatusIInv
<1>5. ASSUME NEW w \in Driver, SetDeliveryDriver(o, w)
      PROVE  IInv'
  <2> DEFINE doc == [orders[o] EXCEPT !.status = "delivering", !.driver = w]
  <2>1. UpdateIfStatus(o, {"awaiting_pickup"}, doc) /\ orders[o].status = "awaiting_pickup"
    BY <1>5 DEF SetDeliveryDriver, UpdateIfStatus
  <2>2. /\ doc \in OrderDoc /\ doc.status = "delivering" /\ doc.driver # NoDriver
        /\ doc.delivery # NoDelivery
    BY <1>0, <2>1 DEF OrderDoc, Status, IInv, FieldsMatchStatus
  <2> QED
    BY <1>0, <2>1, <2>2, UpdateIfStatusIInv
<1>6. CASE SetOrderDelivered(o)
  <2> DEFINE doc == [orders[o] EXCEPT !.status = "delivered"]
  <2>1. UpdateIfStatus(o, {"delivering"}, doc) /\ orders[o].status = "delivering"
    BY <1>6 DEF SetOrderDelivered, UpdateIfStatus
  <2>2. /\ doc \in OrderDoc /\ doc.status = "delivered" /\ doc.driver # NoDriver
        /\ doc.delivery # NoDelivery
    BY <1>0, <2>1 DEF OrderDoc, Status, IInv, FieldsMatchStatus
  <2> QED
    BY <1>0, <2>1, <2>2, UpdateIfStatusIInv
<1> QED
  BY <1>1, <1>2, <1>3, <1>4, <1>5, <1>6

\* The steps of a SetOrderPickupReady transaction.
LEMMA PickupIInv ==
  ASSUME IInv, NEW r \in Request, issued' \in SUBSET DeliveryId,
         \/ \E o \in Order : PickupUpdate(r, o)
         \/ \E d \in DeliveryId : PickupAddDelivery(r, d)
         \/ PickupCommit(r)
         \/ PickupConflict(r)
         \/ PickupAbort(r)
  PROVE  IInv'
<1> USE NullsAssumption
<1>0. pickup[r] \in PickupRequest
  BY DEF IInv, TypeOK
<1>1. ASSUME NEW o \in Order, PickupUpdate(r, o)
      PROVE  IInv'
  <2>1. TypeOK'
    BY <1>1 DEF PickupUpdate, IInv, TypeOK, PickupRequest
  <2>2. RequestsSound'
    BY <1>1 DEF PickupUpdate, IInv, TypeOK, RequestsSound
  <2>3. LockSound'
    <3>1. /\ pickup'[r] = [phase |-> "updated", order |-> o,
                           wrote |-> orders[o].status \in ReadyFrom,
                           stale |-> FALSE, delivery |-> NoDelivery]
          /\ \A q \in Request \ {r} : pickup'[q] = pickup[q]
          /\ orders' = orders
      BY <1>1 DEF PickupUpdate, IInv, TypeOK
    <3>2. \A q \in Request \ {r}, p \in Order : Holds(q, p)' <=> Holds(q, p)
      BY <3>1 DEF Holds, InTx
    <3>3. \A p \in Order : Holds(r, p)' => p = o /\ orders[o].status \in ReadyFrom
      <4>1. pickup'[r].order = o
        BY <3>1
      <4>2. pickup'[r].wrote = (orders[o].status \in ReadyFrom)
        BY <3>1
      <4> QED
        BY <4>1, <4>2, Zenon DEF Holds
    <3>4. orders[o].status \in ReadyFrom => \A q \in Request : ~Holds(q, o)
      BY <1>1 DEF PickupUpdate, Locked
    <3> QED
      BY <3>1, <3>2, <3>3, <3>4 DEF IInv, LockSound
  <2>4. FieldsMatchStatus'
    BY <1>1 DEF PickupUpdate, IInv, FieldsMatchStatus
  <2> QED
    BY <2>1, <2>2, <2>3, <2>4 DEF IInv
<1>2. ASSUME NEW d \in DeliveryId, PickupAddDelivery(r, d)
      PROVE  IInv'
  <2>1. /\ pickup' = [pickup EXCEPT ![r].phase = "added", ![r].delivery = d]
        /\ orders' = orders
        /\ pickup[r].phase = "updated"
    BY <1>2 DEF PickupAddDelivery
  <2>2. TypeOK'
    BY <2>1 DEF IInv, TypeOK, PickupRequest
  <2>3. RequestsSound'
    BY <2>1 DEF IInv, TypeOK, RequestsSound, PickupRequest
  <2>4. \A q \in Request, p \in Order :
          (Holds(q, p)' <=> Holds(q, p)) /\ pickup'[q].stale = pickup[q].stale
    BY <2>1 DEF Holds, InTx, IInv, TypeOK, PickupRequest
  <2>5. LockSound' /\ FieldsMatchStatus'
    BY <2>1, <2>4 DEF IInv, LockSound, FieldsMatchStatus, ReadyFrom
  <2> QED
    BY <2>2, <2>3, <2>5 DEF IInv
<1>3. CASE PickupCommit(r)
  <2> DEFINE o == pickup[r].order
             d == pickup[r].delivery
             doc == [orders[o] EXCEPT !.status = IF pickup[r].wrote THEN "awaiting_pickup" ELSE @,
                                      !.delivery = d]
  <2>1. /\ o \in Order /\ d \in DeliveryId /\ orders[o].status # "absent"
        /\ orders[o] \in OrderDoc
    BY <1>0, <1>3 DEF PickupCommit, IInv, TypeOK, RequestsSound, PickupRequest
  <2>2. orders' = [orders EXCEPT ![o] = doc]
    BY <1>3, <2>1 DEF PickupCommit, IInv, TypeOK, OrderDoc
  <2>3. /\ pickup'[r] = [pickup[r] EXCEPT !.phase = "ok"]
        /\ \A q \in Request \ {r} : pickup'[q] = MarkStale(o)[q]
        /\ pickup' \in [Request -> PickupRequest]
    BY <1>0, <1>3, <2>1 DEF PickupCommit, MarkStale, IInv, TypeOK, PickupRequest
  <2>4. pickup[r].wrote => Holds(r, o)
    BY <1>3 DEF PickupCommit, Holds, InTx
  <2>5. doc \in OrderDoc
    BY <2>1 DEF OrderDoc, Status
  <2>6. TypeOK'
    BY <2>1, <2>2, <2>3, <2>5 DEF IInv, TypeOK
  <2>7. \A q \in Request : /\ pickup'[q].order = pickup[q].order
                           /\ pickup'[q].wrote = pickup[q].wrote
                           /\ pickup'[q].delivery = pickup[q].delivery
                           /\ q # r => pickup'[q].phase = pickup[q].phase
                           /\ pickup[q].order # o => pickup'[q] = pickup[q]
    BY <1>0, <2>1, <2>3 DEF MarkStale, IInv, TypeOK, PickupRequest
  <2>8. RequestsSound'
    BY <1>0, <2>1, <2>2, <2>3, <2>7 DEF IInv, TypeOK, RequestsSound, OrderDoc, PickupRequest
  <2>9. LockSound'
    <3> SUFFICES ASSUME NEW q \in Request, NEW p \in Order, Holds(q, p)'
                 PROVE  /\ orders'[p].status \in ReadyFrom
                        /\ ~pickup'[q].stale
                        /\ \A s \in Request : Holds(s, p)' => s = q
      BY DEF LockSound, ReadyFrom
    <3>1. q # r /\ \A s \in Request : Holds(s, p)' => s # r /\ Holds(s, p)
      BY <1>0, <2>3, <2>7 DEF Holds, InTx, PickupRequest
    <3>2. Holds(q, p)
      BY <3>1
    <3>3. p # o
      BY <1>3, <3>1, <3>2 DEF PickupCommit, Conflict
    <3> QED
      BY <2>2, <2>7, <3>1, <3>2, <3>3 DEF IInv, TypeOK, LockSound, Holds
  <2>10. FieldsMatchStatus'
    <3>1. pickup[r].wrote => orders[o].status \in ReadyFrom
      BY <2>1, <2>4 DEF IInv, LockSound
    <3>2. /\ doc.txn = orders[o].txn /\ doc.driver = orders[o].driver
          /\ doc.delivery = d /\ d # NoDelivery
          /\ pickup[r].wrote => doc.status = "awaiting_pickup"
          /\ ~pickup[r].wrote => doc.status = orders[o].status
      BY <2>1 DEF OrderDoc
    <3> HIDE DEF doc
    <3> QED
      BY <2>1, <2>2, <3>1, <3>2 DEF IInv, TypeOK, FieldsMatchStatus, ReadyFrom
  <2> QED
    BY <2>6, <2>8, <2>9, <2>10 DEF IInv
<1>4. CASE PickupConflict(r) \/ PickupAbort(r)
  <2>1. /\ orders' = orders
        /\ pickup'[r].phase \in {"retry", "error"}
        /\ \A q \in Request \ {r} : pickup'[q] = pickup[q]
        /\ pickup' \in [Request -> PickupRequest]
    <3>1. CASE PickupConflict(r)
      BY <1>0, <3>1 DEF PickupConflict, IInv, TypeOK, PickupRequest
    <3>2. CASE PickupAbort(r)
      BY <1>0, <3>2 DEF PickupAbort, IInv, TypeOK, PickupRequest
    <3> QED
      BY <1>4, <3>1, <3>2
  <2>2. \A q \in Request, p \in Order : Holds(q, p)' => q # r /\ Holds(q, p)
    BY <2>1 DEF Holds, InTx
  <2>3. RequestsSound' /\ TypeOK'
    BY <2>1 DEF IInv, TypeOK, RequestsSound
  <2>4. LockSound'
    BY <2>1, <2>2 DEF IInv, LockSound, ReadyFrom
  <2>5. FieldsMatchStatus'
    BY <2>1 DEF IInv, FieldsMatchStatus
  <2> QED
    BY <2>3, <2>4, <2>5 DEF IInv
<1> QED
  BY <1>1, <1>2, <1>3, <1>4

LEMMA NextIInv == IInv /\ [Next]_vars => IInv'
<1> SUFFICES ASSUME IInv, [Next]_vars PROVE IInv'
  OBVIOUS
<1>1. CASE UNCHANGED vars
  BY <1>1 DEF vars, IInv, TypeOK, RequestsSound, LockSound, FieldsMatchStatus, Holds, InTx,
     ReadyFrom
<1>2. CASE Next
  <2>1. issued' \in SUBSET DeliveryId
    BY <1>2 DEF Next, IInv, TypeOK
  <2> QED
    BY <1>2, <2>1, OperationIInv, PickupIInv DEF Next
<1> QED
  BY <1>1, <1>2

-----------------------------------------------------------------------------
(* The service implements the lifecycle *)

\* What the mapping of Lifecycle makes of a write to one document.
LEMMA MappedWrite ==
  ASSUME orders \in [Order -> OrderDoc], NEW o \in Order, NEW doc \in OrderDoc,
         orders' = [orders EXCEPT ![o] = doc]
  PROVE  /\ [p \in Order |-> orders'[p].status] =
              [[p \in Order |-> orders[p].status] EXCEPT ![o] = doc.status]
         /\ [p \in Order |-> orders'[p].driver] =
              [[p \in Order |-> orders[p].driver] EXCEPT ![o] = doc.driver]
         /\ [p \in Order |-> orders'[p].txn] =
              [[p \in Order |-> orders[p].txn] EXCEPT ![o] = doc.txn]
  OBVIOUS

\* A write that leaves driver and txn alone is a Move of the lifecycle.
LEMMA MappedMove ==
  ASSUME orders \in [Order -> OrderDoc], NEW o \in Order, NEW doc \in OrderDoc,
         orders' = [orders EXCEPT ![o] = doc],
         NEW from, orders[o].status \in from,
         doc.driver = orders[o].driver, doc.txn = orders[o].txn
  PROVE  /\ Lifecycle!Move(o, from, doc.status)
         /\ [p \in Order |-> orders'[p].driver] = [p \in Order |-> orders[p].driver]
         /\ [p \in Order |-> orders'[p].txn] = [p \in Order |-> orders[p].txn]
<1>1. Lifecycle!Move(o, from, doc.status)
  BY MappedWrite DEF Lifecycle!Move
<1>2. \A p \in Order : orders'[p].driver = orders[p].driver /\ orders'[p].txn = orders[p].txn
  OBVIOUS
<1> QED
  BY <1>1, <1>2

LEMMA MappedStep == IInv /\ [Next]_vars => [Lifecycle!Next]_Lifecycle!vars
<1> SUFFICES ASSUME IInv, [Next]_vars PROVE [Lifecycle!Next]_Lifecycle!vars
  OBVIOUS
<1>0. orders \in [Order -> OrderDoc] /\ pickup \in [Request -> PickupRequest]
  BY DEF IInv, TypeOK
<1>1. CASE UNCHANGED orders
  BY <1>1 DEF Lifecycle!vars
<1>2. ASSUME NEW o \in Order, CreateOrder(o) PROVE Lifecycle!Next
  <2> DEFINE doc == [orders[o] EXCEPT !.status = "payment_pending"]
  <2>1. /\ doc \in OrderDoc /\ orders' = [orders EXCEPT ![o] = doc]
        /\ doc.status = "payment_pending"
        /\ orders[o].status \in {"absent"}
        /\ doc.driver = orders[o].driver /\ doc.txn = orders[o].txn
    BY <1>0, <1>2 DEF CreateOrder, OrderDoc, Status
  <2> HIDE DEF doc
  <2>2. Lifecycle!Place(o)
    BY <1>0, <2>1, MappedMove DEF Lifecycle!Place
  <2> QED
    BY <2>2 DEF Lifecycle!Next
<1>3. ASSUME NEW o \in Order, NEW successful \in BOOLEAN, NEW t \in Txn,
             UpdatePaymentStatus(o, successful, t)
      PROVE  Lifecycle!Next
  <2> DEFINE to == IF successful THEN "pending_restaurant_accept" ELSE "payment_failed"
             doc == [orders[o] EXCEPT !.status = to, !.txn = t]
  <2>1. /\ orders[o].status = "payment_pending" /\ orders' = [orders EXCEPT ![o] = doc]
    BY <1>3 DEF UpdatePaymentStatus, UpdateIfStatus
  <2>2. /\ doc \in OrderDoc
        /\ doc.status \in {"pending_restaurant_accept", "payment_failed"}
        /\ doc.driver = orders[o].driver /\ doc.txn = t
    BY <1>0 DEF OrderDoc, Status
  <2> HIDE DEF doc
  <2>3. [p \in Order |-> orders'[p].driver] = [p \in Order |-> orders[p].driver]
    <3>1. \A p \in Order : orders'[p].driver = orders[p].driver
      BY <1>0, <2>1, <2>2
    <3> QED
      BY <3>1
  <2>4. Lifecycle!ReportPayment(o, t)
    BY <1>0, <2>1, <2>2, <2>3, MappedWrite DEF Lifecycle!ReportPayment, Lifecycle!Move
  <2> QED
    BY <2>4 DEF Lifecycle!Next
<1>4. ASSUME NEW o \in Order, NEW accepted \in BOOLEAN, UpdateAcceptedStatus(o, accepted)
      PROVE  Lifecycle!Next
  <2> DEFINE to == IF accepted THEN "preparing_order" ELSE "restaurant_rejected"
             doc == [orders[o] EXCEPT !.status = to]
  <2>1. /\ orders[o].status \in {"pending_restaurant_accept"}
        /\ orders' = [orders EXCEPT ![o] = doc]
    BY <1>4 DEF UpdateAcceptedStatus, UpdateIfStatus
  <2>2. /\ doc \in OrderDoc /\ doc.status \in {"preparing_order", "restaurant_rejected"}
        /\ doc.driver = orders[o].driver /\ doc.txn = orders[o].txn
    BY <1>0 DEF OrderDoc, Status
  <2> HIDE DEF doc
  <2>3. Lifecycle!Decide(o)
    BY <1>0, <2>1, <2>2, MappedMove DEF Lifecycle!Decide
  <2> QED
    BY <2>3 DEF Lifecycle!Next
<1>5. ASSUME NEW o \in Order, CancelOrder(o) PROVE Lifecycle!Next
  <2> DEFINE doc == [orders[o] EXCEPT !.status = "canceled"]
  <2>1. /\ orders[o].status \in {"payment_pending", "payment_failed",
                                 "pending_restaurant_accept"}
        /\ orders' = [orders EXCEPT ![o] = doc]
    BY <1>5 DEF CancelOrder, UpdateIfStatus
  <2>2. /\ doc \in OrderDoc /\ doc.status = "canceled"
        /\ doc.driver = orders[o].driver /\ doc.txn = orders[o].txn
    BY <1>0 DEF OrderDoc, Status
  <2> HIDE DEF doc
  <2>3. Lifecycle!Cancel(o)
    BY <1>0, <2>1, <2>2, MappedMove DEF Lifecycle!Cancel
  <2> QED
    BY <2>3 DEF Lifecycle!Next
<1>6. ASSUME NEW o \in Order, NEW w \in Driver, SetDeliveryDriver(o, w) PROVE Lifecycle!Next
  <2> DEFINE doc == [orders[o] EXCEPT !.status = "delivering", !.driver = w]
  <2>1. /\ orders[o].status = "awaiting_pickup" /\ orders' = [orders EXCEPT ![o] = doc]
    BY <1>6 DEF SetDeliveryDriver, UpdateIfStatus
  <2>2. /\ doc \in OrderDoc /\ doc.status = "delivering" /\ doc.driver = w
        /\ doc.txn = orders[o].txn
    BY <1>0 DEF OrderDoc, Status
  <2> HIDE DEF doc
  <2>3. [p \in Order |-> orders'[p].txn] = [p \in Order |-> orders[p].txn]
    <3>1. \A p \in Order : orders'[p].txn = orders[p].txn
      BY <1>0, <2>1, <2>2
    <3> QED
      BY <3>1
  <2>4. Lifecycle!Assign(o, w)
    BY <1>0, <2>1, <2>2, <2>3, MappedWrite DEF Lifecycle!Assign, Lifecycle!Move
  <2> QED
    BY <2>4 DEF Lifecycle!Next
<1>7. ASSUME NEW o \in Order, SetOrderDelivered(o) PROVE Lifecycle!Next
  <2> DEFINE doc == [orders[o] EXCEPT !.status = "delivered"]
  <2>1. /\ orders[o].status \in {"delivering"} /\ orders' = [orders EXCEPT ![o] = doc]
    BY <1>7 DEF SetOrderDelivered, UpdateIfStatus
  <2>2. /\ doc \in OrderDoc /\ doc.status = "delivered"
        /\ doc.driver = orders[o].driver /\ doc.txn = orders[o].txn
    BY <1>0 DEF OrderDoc, Status
  <2> HIDE DEF doc
  <2>3. Lifecycle!Deliver(o)
    BY <1>0, <2>1, <2>2, MappedMove DEF Lifecycle!Deliver
  <2> QED
    BY <2>3 DEF Lifecycle!Next
<1>8. ASSUME NEW r \in Request, PickupCommit(r), NEW o \in Order, pickup[r].order = o
      PROVE  [Lifecycle!Next]_Lifecycle!vars
  <2> DEFINE doc == [orders[o] EXCEPT !.status = IF pickup[r].wrote THEN "awaiting_pickup" ELSE @,
                                      !.delivery = pickup[r].delivery]
  <2>1. /\ orders[o].status # "absent"
        /\ pickup[r].delivery \in DeliveryId \cup {NoDelivery}
    BY <1>0, <1>8 DEF PickupCommit, IInv, RequestsSound, PickupRequest
  <2>2. orders' = [orders EXCEPT ![o] = doc]
    BY <1>0, <1>8, <2>1 DEF PickupCommit, OrderDoc
  <2>3. /\ doc \in OrderDoc
        /\ doc.driver = orders[o].driver /\ doc.txn = orders[o].txn
        /\ pickup[r].wrote => doc.status = "awaiting_pickup"
        /\ ~pickup[r].wrote => doc.status = orders[o].status
    BY <1>0, <2>1 DEF OrderDoc, Status
  <2> HIDE DEF doc
  <2>4. CASE pickup[r].wrote
    <3>1. Holds(r, o)
      BY <1>8, <2>4 DEF PickupCommit, Holds, InTx
    <3>2. orders[o].status \in {"payment_pending", "preparing_order"}
      BY <2>1, <3>1 DEF IInv, LockSound, ReadyFrom
    <3>3. Lifecycle!MakeReady(o)
      BY <1>0, <2>1, <2>2, <2>3, <2>4, <3>2, MappedMove DEF Lifecycle!MakeReady
    <3> QED
      BY <3>3 DEF Lifecycle!Next
  <2>5. CASE ~pickup[r].wrote
    <3>1. \A p \in Order : /\ orders'[p].status = orders[p].status
                           /\ orders'[p].driver = orders[p].driver
                           /\ orders'[p].txn = orders[p].txn
      BY <1>0, <2>1, <2>2, <2>3, <2>5
    <3> QED
      BY <3>1 DEF Lifecycle!vars
  <2> QED
    BY <2>4, <2>5
<1>10. ASSUME NEW r \in Request, PickupCommit(r) PROVE pickup[r].order \in Order
  BY <1>10 DEF PickupCommit, IInv, RequestsSound
<1>9. ASSUME NEW r \in Request,
             \/ \E o \in Order : PickupUpdate(r, o)
             \/ \E d \in DeliveryId : PickupAddDelivery(r, d)
             \/ PickupConflict(r)
             \/ PickupAbort(r)
      PROVE  UNCHANGED orders
  BY <1>9 DEF PickupUpdate, PickupAddDelivery, PickupConflict, PickupAbort
<1> QED
  BY <1>1, <1>2, <1>3, <1>4, <1>5, <1>6, <1>7, <1>8, <1>9, <1>10 DEF Next, vars

-----------------------------------------------------------------------------
(* Theorems *)

LEMMA Invariant == Spec => []IInv
  BY InitIInv, NextIInv, PTL DEF Spec

\* The documents and requests always have the types the code gives them.
THEOREM TypeCorrect == Spec => []TypeOK
  BY Invariant, PTL DEF IInv

\* A pickup transaction that has changed the status of its order is alone on it
\* and commits over a status that justified the change.
THEOREM LockSoundness == Spec => []LockSound
  BY Invariant, PTL DEF IInv

\* Transaction id, delivery id and driver of an order agree with its status.
THEOREM FieldsConsistent == Spec => []FieldsMatchStatus
  BY Invariant, PTL DEF IInv

\* The service, with its transactions, locks, conflicts and retries, takes every
\* order along the lifecycle of OrderLifecycle.
THEOREM Refinement == Spec => ImplementsLifecycle
<1>1. Init => Lifecycle!Init
  BY DEF Init, Lifecycle!Init
<1> QED
  BY <1>1, Invariant, MappedStep, PTL DEF Spec, ImplementsLifecycle, Lifecycle!Spec
=============================================================================
