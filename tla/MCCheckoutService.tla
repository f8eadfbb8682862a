-------------------------- MODULE MCCheckoutService -------------------------
(* TLC instance of CheckoutService. *)
EXTENDS CheckoutService, TLC

\* Exactly the event ids in use.
MCEventIds == Payments \X EventStatuses

Symmetry == Permutations(Calls) \cup Permutations(ProviderOrders) \cup Permutations(Payments)
=============================================================================
