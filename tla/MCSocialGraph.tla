--------------------------- MODULE MCSocialGraph ---------------------------
EXTENDS SocialGraph, TLC

Symmetry == Permutations(Users) \cup Permutations(Requests)
=============================================================================
