\* No call is lost and no symmetry is used: a report of the payment meets two
\* pickup-ready transactions that may lock the order.
CONSTANTS
  Order = {o1}
  Driver = {w1}
  Txn = {o1}
  DeliveryId = {d1, d2}
  Request = {r1, r2}
  NoOrder = NoOrder
  NoDriver = NoDriver
  NoTxn = NoTxn
  NoDelivery = NoDelivery
  Lossy = FALSE
SPECIFICATION FairSpec
PROPERTY ReportedPaymentSettles
