-------------------------- MODULE MCVoucherHistory --------------------------
EXTENDS VoucherHistory, TLC

Symmetry == Permutations(Customers)
=============================================================================
