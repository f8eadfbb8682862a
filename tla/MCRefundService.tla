-------------------------- MODULE MCRefundService ---------------------------
(* TLC instance of RefundService; no symmetry, for its liveness property. *)
EXTENDS RefundService
=============================================================================
