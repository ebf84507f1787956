---------------------------- MODULE MCMessaging ----------------------------
(* Instances of Messaging for TLC *)
EXTENDS Messaging, TLC

Symmetric == Permutations(Users) \cup Permutations(Requests)
=============================================================================
