------------------------------ MODULE MCRouter ------------------------------
\* Router with its symmetry for TLC.
EXTENDS Router, TLC

Symmetry == Permutations(Requests)
=============================================================================
