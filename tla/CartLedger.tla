----------------------------- MODULE CartLedger -----------------------------
(***************************************************************************)
(* What order-service promises about the items of a cart: an item that was *)
(* added stays in the cart, with the amount last set, until its user       *)
(* removes it or a checkout moves it into one order.  Documents, upserts,  *)
(* transactions and retries are hidden.                                    *)
(***************************************************************************)
CONSTANTS User, Checkout

VARIABLES live,     \* the items in carts: records with a user, an id and an amount
          ordered   \* the items each checkout has put into its order

vars == <<live, ordered>>

Init ==
  /\ live = {}
  /\ ordered = [r \in Checkout |-> {}]

\* The items that leave the carts in a step.
Gone == live \ live'

Add ==
  /\ Gone = {}
  /\ \A e \in live' \ live, f \in live : e.id # f.id
  /\ UNCHANGED ordered

\* One item gets another amount.
Change ==
  /\ \E e \in live, f \in live' :
       /\ live' = (live \ {e}) \cup {f}
       /\ f.id = e.id /\ f.user = e.user
  /\ UNCHANGED ordered

\* One user removes items.
Drop(u) ==
  /\ live' \subseteq live
  /\ \A e \in Gone : e.user = u
  /\ UNCHANGED ordered

\* The items of one user move into the order of one checkout, all at once.
Buy(u, r) ==
  /\ live' \subseteq live
  /\ Gone # {} /\ \A e \in Gone : e.user = u
  /\ ordered[r] = {}
  /\ ordered' = [ordered EXCEPT ![r] = Gone]

Next ==
  \/ Add
  \/ Change
  \/ \E u \in User : Drop(u)
  \/ \E u \in User, r \in Checkout : Buy(u, r)

Spec == Init /\ [][Next]_vars
=============================================================================
