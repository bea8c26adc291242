------------------------------ MODULE MCStripe ------------------------------
(* Small instances of StripeBilling.                                       *)
EXTENDS StripeBilling, TLC

Permuted == Permutations(Customer) \cup Permutations(User)
=============================================================================
