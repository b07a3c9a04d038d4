--------------------------- MODULE OrderLifecycle ---------------------------
(***************************************************************************)
(* What order-service promises about one order, with every collection,     *)
(* transaction, lock and retry hidden:                                     *)
(*                                                                         *)
(*   payment_pending --> payment_failed --> canceled                       *)
(*     |   |   |                                                           *)
(*     |   |   +--> canceled                                               *)
(*     |   +------> pending_restaurant_accept --> canceled                 *)
(*     |                |              |                                   *)
(*     |                |              +--> restaurant_rejected            *)
(*     |                v                                                  *)
(*     |            preparing_order                                        *)
(*     v                v                                                  *)
(*     +--------> awaiting_pickup --> delivering --> delivered             *)
(*                                                                         *)
(* The edge payment_pending --> awaiting_pickup is what the code does, see *)
(* SetOrderPickupReady in order-service/repo/order.go.                     *)
(***************************************************************************)
CONSTANTS Order,      \* order ids
          Driver,     \* user ids of drivers
          Txn,        \* payment transaction ids
          NoDriver,   \* the driver field is missing
          NoTxn       \* the transaction_id field is missing

VARIABLES status,     \* status of each order, "absent" before its insertion
          driver,     \* assigned driver of each order
          txn         \* recorded payment transaction of each order

vars == <<status, driver, txn>>

Init ==
  /\ status = [o \in Order |-> "absent"]
  /\ driver = [o \in Order |-> NoDriver]
  /\ txn = [o \in Order |-> NoTxn]

\* The order moves from one of the statuses in from to the status to.
Move(o, from, to) ==
  /\ status[o] \in from
  /\ status' = [status EXCEPT ![o] = to]

Place(o) ==
  /\ Move(o, {"absent"}, "payment_pending")
  /\ UNCHANGED <<driver, txn>>

\* The first payment report decides, and its transaction is kept for good.
ReportPayment(o, t) ==
  /\ \/ Move(o, {"payment_pending"}, "pending_restaurant_accept")
     \/ Move(o, {"payment_pending"}, "payment_failed")
  /\ txn' = [txn EXCEPT ![o] = t]
  /\ UNCHANGED driver

Decide(o) ==
  /\ \/ Move(o, {"pending_restaurant_accept"}, "preparing_order")
     \/ Move(o, {"pending_restaurant_accept"}, "restaurant_rejected")
  /\ UNCHANGED <<driver, txn>>

Cancel(o) ==
  /\ Move(o, {"payment_pending", "payment_failed", "pending_restaurant_accept"}, "canceled")
  /\ UNCHANGED <<driver, txn>>

MakeReady(o) ==
  /\ Move(o, {"payment_pending", "preparing_order"}, "awaiting_pickup")
  /\ UNCHANGED <<driver, txn>>

\* One driver, once.
Assign(o, w) ==
  /\ Move(o, {"awaiting_pickup"}, "delivering")
  /\ driver' = [driver EXCEPT ![o] = w]
  /\ UNCHANGED txn

Deliver(o) ==
  /\ Move(o, {"delivering"}, "delivered")
  /\ UNCHANGED <<driver, txn>>

Next ==
  \E o \in Order :
    \/ Place(o)
    \/ \E t \in Txn : ReportPayment(o, t)
    \/ Decide(o)
    \/ Cancel(o)
    \/ MakeReady(o)
    \/ \E w \in Driver : Assign(o, w)
    \/ Deliver(o)

Spec == Init /\ [][Next]_vars
=============================================================================
