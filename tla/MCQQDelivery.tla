---------------------------- MODULE MCQQDelivery ----------------------------
(* TLC instances of QQDelivery: deliveries and workers are interchangeable. *)
EXTENDS QQDelivery, TLC

Symmetry == Permutations(Delivery) \cup Permutations(Worker)
=============================================================================
