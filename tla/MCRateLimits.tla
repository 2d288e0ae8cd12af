---------------------------- MODULE MCRateLimits ----------------------------
EXTENDS RateLimits, TLC

Symmetry == Permutations(Secrets)
=============================================================================
