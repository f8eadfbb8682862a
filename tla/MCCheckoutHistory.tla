------------------------- MODULE MCCheckoutHistory --------------------------
(* TLC instance of CheckoutHistory. *)
EXTENDS CheckoutHistory, TLC

MCEventIds == Payments \X EventStatuses
=============================================================================
