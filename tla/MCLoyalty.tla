----------------------------- MODULE MCLoyalty -----------------------------
(* The whole program on small instances.                                   *)
EXTENDS Loyalty, TLC

Symmetry == Permutations(Customers)
=============================================================================
