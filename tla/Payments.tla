------------------------------ MODULE Payments ------------------------------
(***************************************************************************)
(* payment-service: it keeps no state of its own; the state of a payment   *)
(* is the Stripe checkout session (payment-service/services/               *)
(* paymentService.js).  The idempotency key is made from the order id, so  *)
(* an order has at most one session, and the session is named by its order.*)
(***************************************************************************)
CONSTANT Order

VARIABLE sessions   \* state of the checkout session of each order

TypeOK == sessions \in [Order -> {"none", "open", "paid", "expired"}]

Init == sessions = [o \in Order |-> "none"]

\* createPayment: the price is read from the order, whatever its status is; a
\* second call gets the session of the first, in whatever state it is.
createPayment(o) ==
  /\ sessions[o] = "none"
  /\ sessions' = [sessions EXCEPT ![o] = "open"]

\* The customer pays on Stripe's page, at any time while the session is open.
CustomerPays(o) ==
  /\ sessions[o] = "open"
  /\ sessions' = [sessions EXCEPT ![o] = "paid"]

\* Stripe closes a session that was not paid in time.
SessionExpires(o) ==
  /\ sessions[o] = "open"
  /\ sessions' = [sessions EXCEPT ![o] = "expired"]

\* Mutant of paymentSucceeded: an open session counts as success.
paymentSucceededOpen(o) == sessions[o] \in {"open", "paid"}

\* What getPayment computes from the session it retrieves; a price of zero
\* ("no_payment_required") is not modelled.
paymentSucceeded(o) == sessions[o] = "paid"
=============================================================================
