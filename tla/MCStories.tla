----------------------------- MODULE MCStories -----------------------------
EXTENDS Stories, TLC

Symmetry == Permutations(Stories) \cup Permutations(Users) \cup Permutations(Requests)
=============================================================================
