---------------------------- MODULE MCMembership ----------------------------
(* Instances of Membership for TLC. *)
EXTENDS Membership, TLC

Symmetric ==
  Permutations(Prep) \cup Permutations(Request) \cup Permutations(Price)

=============================================================================
