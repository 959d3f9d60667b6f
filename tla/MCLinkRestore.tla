----------------------------- MODULE MCLinkRestore -----------------------------
EXTENDS LinkRestore, TLC
Symmetry == Permutations(Texts) \cup Permutations(Ops)
=============================================================================
