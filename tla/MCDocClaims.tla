---------------------------- MODULE MCDocClaims ----------------------------
EXTENDS DocClaims, TLC

Symmetry == Permutations(Customers)
=============================================================================
