\* Two orders whose calls, sessions and deliveries could be mixed up, two drivers, and
\* a request that may be retried or aborted with a delivery left behind; any call
\* may be lost.  Two requests on one order: FoodDelivery_live.
CONSTANTS
  Order = {o1, o2}
  Driver = {w1, w2}
  Txn = {o1, o2}
  DeliveryId = {d1, d2}
  Request = {r1}
  NoOrder = NoOrder
  NoDriver = NoDriver
  NoTxn = NoTxn
  NoDelivery = NoDelivery
  Lossy = TRUE
SPECIFICATION SystemSpec
SYMMETRY Symmetry
INVARIANTS
  SystemTypeOK
  AcceptedIsPaid
  DeliveredWasCompleted
  DriverHoldsDelivery
  DeliveryServesOrder
PROPERTY ClaimIsFinal
