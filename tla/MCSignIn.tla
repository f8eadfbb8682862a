------------------------------ MODULE MCSignIn ------------------------------
(* One email, two browsers: four ticks stand for the hour. *)
EXTENDS SignIn, TLC

Symmetry == Permutations(Links) \cup Permutations(SessionIds)
              \cup Permutations(Requests) \cup Permutations(Browsers)
=============================================================================
