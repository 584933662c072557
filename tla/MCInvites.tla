----------------------------- MODULE MCInvites ------------------------------
(* Instance of Invites for TLC. *)
EXTENDS Invites

\* Level 0 may send one invite, level 1 two.
Quota == [l \in Levels |-> l + 1]

=============================================================================
