---------------------------- MODULE MCPublication ----------------------------
(* Instances of Publication for TLC. *)
EXTENDS Publication, TLC

Symmetric == Permutations(Post) \cup Permutations(Viewer)

=============================================================================
