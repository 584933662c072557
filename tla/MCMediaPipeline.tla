-------------------------- MODULE MCMediaPipeline --------------------------
EXTENDS MediaPipeline, TLC

Symmetry == Permutations(Workers) \cup Permutations(Handlers)
=============================================================================
