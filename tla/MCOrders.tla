------------------------------ MODULE MCOrders ------------------------------
(* Orders for TLC. *)
EXTENDS Orders, TLC

\* Drivers, delivery ids and requests are interchangeable, and so are orders.
Symmetry == Permutations(Order) \cup Permutations(DeliveryId) \cup Permutations(Request)
            \cup Permutations(Driver)
=============================================================================
