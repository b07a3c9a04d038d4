\* Two orders, three concurrent SetOrderPickupReady requests: one may hold the
\* lock, one may wait for it and one may have read an unlocked order.  Four
\* delivery ids let every request add a delivery and one of them retry.
CONSTANTS
  Order = {o1, o2}
  Driver = {w1, w2}
  Txn = {t1}
  DeliveryId = {d1, d2, d3, d4}
  Request = {r1, r2, r3}
  NoOrder = NoOrder
  NoDriver = NoDriver
  NoTxn = NoTxn
  NoDelivery = NoDelivery
SPECIFICATION Spec
SYMMETRY Symmetry
INVARIANTS
  TypeOK
  LockSound
  FieldsMatchStatus
PROPERTY ImplementsLifecycle
\* Every order may be closed and every request answered.
CHECK_DEADLOCK FALSE
