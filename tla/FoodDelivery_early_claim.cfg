\* One order, one driver, one delivery, nothing lost.
CONSTANTS
  Order = {o1}
  Driver = {w1}
  Txn = {o1}
  DeliveryId = {d1}
  Request = {r1}
  NoOrder = NoOrder
  NoDriver = NoDriver
  NoTxn = NoTxn
  NoDelivery = NoDelivery
  Lossy = FALSE
SPECIFICATION FairSpec
PROPERTY PickedUpLeavesAwaiting
