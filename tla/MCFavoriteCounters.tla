------------------------- MODULE MCFavoriteCounters -------------------------
(* Instances of FavoriteCounters for TLC. *)
EXTENDS FavoriteCounters, TLC

Symmetry == Permutations(Requests) \cup Permutations(Users)

=============================================================================
