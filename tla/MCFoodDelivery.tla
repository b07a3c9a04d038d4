--------------------------- MODULE MCFoodDelivery ---------------------------
(* FoodDelivery for TLC. *)
EXTENDS FoodDelivery, TLC

\* Orders, drivers, delivery ids and requests are interchangeable (Txn is Order).
Symmetry == Permutations(Order) \cup Permutations(Driver)
            \cup Permutations(DeliveryId) \cup Permutations(Request)
=============================================================================
