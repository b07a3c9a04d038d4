------------------------------ MODULE MCCarts -------------------------------
(* Carts for TLC: item i1 is of restaurant a, the others are of restaurant b. *)
EXTENDS Carts, TLC

CONSTANTS a, b, i1

RestaurantOfItem == [i \in Item |-> IF i = i1 THEN a ELSE b]

\* Checkouts and ids of cart items are interchangeable.
Symmetry == Permutations(Checkout) \cup Permutations(CartItemId)
=============================================================================
