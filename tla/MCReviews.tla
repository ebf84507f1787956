------------------------------ MODULE MCReviews ------------------------------
(* Instances of Reviews for TLC *)
EXTENDS Reviews, TLC

Symmetric == Permutations(Buyers) \cup Permutations(Requests)

(* means of 5, 4.5 (a 4, as a half goes to the even number), and 3.25      *)
Stars == {<<10, 10>>, <<8, 10>>, <<10, 3>>}
=============================================================================
