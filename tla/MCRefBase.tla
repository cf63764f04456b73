----------------------------- MODULE MCRefBase -----------------------------
EXTENDS RefBase, TLC
Symmetry == Permutations(Ref)
=============================================================================
