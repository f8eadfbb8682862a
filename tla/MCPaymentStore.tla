--------------------------- MODULE MCPaymentStore ---------------------------
(* TLC instance of PaymentStore. *)
EXTENDS PaymentStore, TLC

Symmetry ==
  Permutations(Intents) \cup Permutations(ProviderOrders) \cup Permutations(Payments)
    \cup Permutations(Refunds) \cup Permutations(EventIds)
=============================================================================
