----------------------------- MODULE MCCacheLab -----------------------------
\* Instances of CacheLab: the products the exercises use.
EXTENDS CacheLab, TLC

Symmetry == Permutations(Programs)
=============================================================================
