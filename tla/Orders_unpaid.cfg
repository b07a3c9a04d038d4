CONSTANTS
  Order = {o1}
  Driver = {w1}
  Txn = {t1}
  DeliveryId = {d1}
  Request = {r1}
  NoOrder = NoOrder
  NoDriver = NoDriver
  NoTxn = NoTxn
  NoDelivery = NoDelivery
SPECIFICATION Spec
INVARIANT PendingUntilPayment
CHECK_DEADLOCK FALSE
