------------------------------ MODULE MCTrust -------------------------------
(* Instance of Trust for TLC. *)
EXTENDS Trust, TLC

\* The thresholds of the code (5 posts, 20 points, 5 flags; 50, 200, 3), scaled down.
BasicNeeds == [posts |-> 1, points |-> 5, flags |-> 2]
TrustedNeeds == [posts |-> 1, points |-> 10, flags |-> 1]

Symmetry == Permutations(Reporters) \cup Permutations(Requests)

=============================================================================
