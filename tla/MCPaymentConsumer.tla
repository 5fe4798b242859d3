------------------------- MODULE MCPaymentConsumer -------------------------
(* A small instance of PaymentConsumer. *)
EXTENDS PaymentConsumer, TLC

OrderSymmetry == Permutations(Orders) \cup Permutations(Consumers)
=============================================================================
